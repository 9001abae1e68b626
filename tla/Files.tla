-------------------------------- MODULE Files -------------------------------
(***************************************************************************)
(* Files as the kernel uses them: the descriptor table (vfs.c) over the    *)
(* FAT32 adapter (fat32_vfs.c) over the driver (module Fat32), on a disk   *)
(* that may fail and a machine that may stop between two disk writes and   *)
(* mount the volume again.                                                 *)
(*                                                                         *)
(* In the kernel as it is, main and execve open, read and close;           *)
(* vfs_write, vfs_create and vfs_delete are there for callers to come.     *)
(***************************************************************************)
EXTENDS Fat32

CONSTANTS
  MAX_FDS,
  MaxSize,      \* bound: sectors of a file
  Worlds        \* the callers and machines considered, see World

\* What callers do: the operations they use, the sectors they ask for in one
\* vfs_read or vfs_write, how many files they have open at a time, whether
\* they read beyond the size vfs_get_size gives.  What happens to them: the
\* disk may fail, the machine may stop.
World ==
  [calls    : SUBSET {"open", "read", "write", "close", "create", "delete"},
   requests : SUBSET (1..MaxSize),
   handles  : 1..MAX_FDS,
   readPast : BOOLEAN,
   errors   : BOOLEAN,
   crashes  : BOOLEAN]

ASSUME FilesAssumption ==
  /\ MAX_FDS \in Nat /\ MaxSize \in Nat
  /\ Worlds \subseteq World

VARIABLES
  world,    \* the member of Worlds at hand
  disk,     \* the volume (module Fat32)
  fat,      \* fs->fat
  fds,      \* fd_table: the open file, its position and its node's size
  last,     \* the access just made: file, position, the sectors touched
  lost,     \* history: clusters whose file has no entry on the disk
  saved,    \* history: the table last written to its end
  torn      \* history: a mount found a table that was not

vars == <<world, disk, fat, fds, last, lost, saved, torn>>

\* A volume that was mounted with a torn table is not followed further: where
\* a chain runs into a free cluster, the driver takes 0 for the next cluster
\* and reads and writes before the data area.
Calls == IF torn THEN {} ELSE world.calls
Requests == world.requests
ReadPast == world.readPast
Errors == world.errors
Crashes == world.crashes

Fds == 0..MAX_FDS-1
NoFile == [file |-> File(0, 0), pos |-> 0, nsize |-> 0]
Opened == {d \in Fds : fds[d] # NoFile}
NoAccess == [op |-> "none", start |-> 0, pos |-> 0, got |-> << >>]

ClustersOf(size) == (size + SPC - 1) \div SPC

\* A volume with a file of each name, of every size, or a deleted entry
\* (size 0); the clusters in use follow one another upwards or downwards.
Init ==
  /\ world \in Worlds
  /\ \E sizes \in [1..Cardinality(Names) -> 0..MaxSize], upwards \in BOOLEAN :
       LET n == Cardinality(Names)
           end[i \in 0..n] ==
             IF i = 0 THEN root_cluster ELSE end[i-1] + ClustersOf(sizes[i])
           At(c) == IF upwards \/ c = root_cluster THEN c ELSE NClusters + 4 - c
           Entry(i) == IF sizes[i] = 0 THEN DeletedSlot
                       ELSE [name |-> SetToSeq(Names)[i], start |-> At(end[i-1] + 1),
                             size |-> sizes[i], stamp |-> "old"]
           Link(c) == IF \E i \in 0..n : c = end[i] THEN FAT_EOF
                      ELSE IF c < end[n] THEN At(c + 1) ELSE 0
       IN /\ end[n] \in Clusters
          /\ disk = [dir |-> [s \in Slots |-> IF s \in 1..n THEN Entry(s) ELSE EndSlot],
                     fat |-> [c \in Clusters |-> Link(At(c))]]
          /\ fat = disk.fat /\ saved = disk.fat /\ torn = FALSE
          /\ fds = [d \in Fds |-> NoFile]
          /\ last = NoAccess
          /\ lost = {}

\* What fails in one operation (module Fat32); the sector at which a transfer
\* of n sectors fails (0: none).  Only fat32_delete looks at the result of
\* writing the directory, so "late" is the same as "ok" for the others; the
\* table on the disk is read by fat32_mount alone, so its failures make no
\* difference where the machine never stops.
Failures(dirs) ==
  [dir : IF Errors THEN dirs ELSE {"ok"},
   fat : IF Errors /\ Crashes THEN 0..fat_size_sectors ELSE {fat_size_sectors}]
FailsAt(n) == IF Errors THEN 0..n ELSE {0}

\* An operation completes with the last of its writes, or the machine stops
\* after one of them and the volume is mounted again (fat32_mount).  table is
\* the table the operation writes.
Completes(disks, table, bad) ==
  /\ disk' = Last(disks) /\ fat' = table
  /\ saved' = IF bad.fat = fat_size_sectors THEN table ELSE saved
  /\ last' = NoAccess
  /\ UNCHANGED <<world, torn>>

Mounted(d, table) ==
  /\ disk' = d /\ fat' = d.fat /\ saved' = d.fat
  /\ torn' = (d.fat \notin {saved, table})
  /\ fds' = [x \in Fds |-> NoFile]
  /\ last' = NoAccess
  /\ lost' = {c \in Clusters \ {root_cluster} :
                /\ d.fat[c] # 0
                /\ \A s \in Slots : IsFile(d.dir[s]) => c \notin Chain(d.fat, d.dir[s].start)}
  /\ UNCHANGED world

Stops(disks, table) == Crashes /\ \E i \in DOMAIN disks : Mounted(disks[i], table)

-----------------------------------------------------------------------------
\* vfs_open: resolve_path, fat32_vfs_finddir_dir and a free descriptor.
vfs_open(name) ==
  LET s == FindName(disk.dir, name)
      e == disk.dir[s]
      d == Min(Fds \ Opened)
  IN /\ "open" \in Calls
     /\ s # 0 /\ Opened # Fds
     /\ Cardinality(Opened) < world.handles
     /\ fds' = [fds EXCEPT ![d] = [file |-> File(e.start, e.size), pos |-> 0,
                                   nsize |-> e.size]]
     /\ last' = NoAccess
     /\ UNCHANGED <<world, disk, fat, lost, saved, torn>>

\* vfs_read through fat32_vfs_read: seek, then read.
vfs_read(d, n) ==
  /\ "read" \in Calls /\ d \in Opened
  /\ ReadPast \/ fds[d].pos + n <= fds[d].nsize
  /\ fds[d].pos + n <= MaxSize + SPC
  /\ \E bad \in FailsAt(n) :
       LET r == fat32_read(fat, fat32_seek(fat, fds[d].file, fds[d].pos), n, bad)
       IN /\ fds' = [fds EXCEPT ![d].file = r.f,
                                ![d].pos = IF r.ok THEN @ + Len(r.got) ELSE @]
          /\ last' = [op |-> "read", start |-> fds[d].file.start, pos |-> fds[d].pos,
                      got |-> r.got]
  /\ UNCHANGED <<world, disk, fat, lost, saved, torn>>

\* vfs_write through fat32_vfs_write.
vfs_write(d, n) ==
  /\ "write" \in Calls /\ d \in Opened /\ fds[d].pos + n <= MaxSize
  /\ \E bad \in FailsAt(n) :
       LET r == fat32_write(fat, fat32_seek(fat, fds[d].file, fds[d].pos), n, bad)
       IN /\ fat' = r.fat
          /\ fds' = [fds EXCEPT ![d].file = r.f, ![d].pos = IF r.ok THEN @ + n ELSE @]
          /\ last' = [op |-> "write", start |-> fds[d].file.start, pos |-> fds[d].pos,
                      got |-> r.got]
  /\ UNCHANGED <<world, disk, lost, saved, torn>>

vfs_close(d) ==
  /\ "close" \in Calls /\ d \in Opened
  /\ \E bad \in Failures({"ok", "lost"}) :
       LET disks == fat32_close(disk, fat, fds[d].file, bad)
       IN \/ /\ Completes(disks, fat, bad)
             /\ fds' = [fds EXCEPT ![d] = NoFile]
             /\ UNCHANGED lost
          \/ Stops(disks, fat)

\* vfs_create: fat32_create_file and at once fat32_close.
vfs_create(name) ==
  /\ "create" \in Calls
  /\ \E bad \in Failures({"ok", "lost"}) :
       LET r == fat32_create_file(disk, fat, name, bad)
           disks == r.disks \o fat32_close(Last(r.disks), r.fat, File(r.start, 0), bad)
       IN /\ r.ok
          /\ \/ /\ Completes(disks, r.fat, bad)
                /\ lost' = IF bad.dir = "lost" THEN lost \cup {r.start} ELSE lost
                /\ UNCHANGED fds
             \/ Stops(disks, r.fat)

\* vfs_delete: of a delete that fails only the writes it made remain.
vfs_delete(name) ==
  /\ "delete" \in Calls
  /\ \E bad \in Failures({"ok", "lost", "late"}) :
       LET r == fat32_delete(disk, fat, name, bad)
           gone == Chain(fat, disk.dir[FindName(disk.dir, name)].start)
       IN /\ r.disks # << >>
          /\ \/ /\ Completes(r.disks, r.fat, IF r.ok THEN bad ELSE [bad EXCEPT !.fat = 0])
                /\ lost' = IF ~r.ok /\ bad.dir = "late" THEN lost \cup gone ELSE lost
                /\ UNCHANGED fds
             \/ Stops(r.disks, r.fat)

\* The machine stops between two operations.
Restart == Crashes /\ ~torn /\ Mounted(disk, saved)

\* Callers do not delete a file that somebody has open.
NotOpen(name) ==
  LET s == FindName(disk.dir, name)
  IN s # 0 /\ \A d \in Opened : fds[d].file.start # disk.dir[s].start

Next ==
  \/ \E name \in Names : vfs_open(name)
  \/ \E d \in Fds, n \in Requests : vfs_read(d, n)
  \/ \E d \in Fds, n \in Requests : vfs_write(d, n)
  \/ \E d \in Fds : vfs_close(d)
  \/ \E name \in Names : vfs_create(name)
  \/ \E name \in Names : NotOpen(name) /\ vfs_delete(name)
  \/ Restart

Spec == Init /\ [][Next]_vars

-----------------------------------------------------------------------------
Live == {s \in Slots : IsFile(disk.dir[s])}
ChainOf(s) == Chain(fat, disk.dir[s].start)

\* The sectors of a chain, in the order of the file.
ChainSectors(start) ==
  LET nth[i \in 1..NClusters] ==
        IF i = 1 THEN start ELSE fat_next_cluster(fat, nth[i-1])
      n == Cardinality(Chain(fat, start))
  IN [i \in 1..n*SPC |-> (nth[(i-1) \div SPC + 1] - 2) * SPC + ((i-1) % SPC)]

\* Types: every cluster number in the table, in an entry and in an open file
\* (fs->fat, fat32_dir_entry_t, fat32_file_t) is one the volume has.
TypeOK ==
  /\ disk.dir \in [Slots -> [name : Names \cup {"0x00", "0xE5"},
                             start : {0} \cup Clusters, size : 0..MaxSize,
                             stamp : {"old", "new"}]]
  /\ {fat, disk.fat, saved} \subseteq [Clusters -> {0, FAT_EOF} \cup Clusters]
  /\ \A d \in Opened : /\ fds[d].file.start \in Clusters
                       /\ fds[d].file.offset \in 0..SPC
                       /\ fds[d].pos \in 0..MaxSize+SPC
  /\ lost \subseteq Clusters /\ torn \in BOOLEAN

\* The chains of the files in the directory (fat32_write and
\* fat32_create_file extend them, fat32_delete frees them) consist of
\* allocated clusters, end, and share no cluster with each other or with the
\* root directory.
ChainsSound ==
  \A s \in Live :
    /\ root_cluster \notin ChainOf(s)
    /\ \A c \in ChainOf(s) : fat[c] \in Clusters \cup {FAT_EOF}
    /\ \E c \in ChainOf(s) : fat[c] = FAT_EOF
    /\ \A t \in Live \ {s} : ChainOf(s) \cap ChainOf(t) = {}

\* The chains are sound through failed writes, half-written tables and power
\* cuts, as long as no mount finds a table that fat32_flush left half-written.
ChainsApart == ~torn => ChainsSound

\* find_free_cluster and fat32_free_cluster_chain together leak nothing: an
\* allocated cluster belongs to the root directory, to a file, or to a file
\* whose entry the disk failed to store.
ClustersAccounted ==
  \A c \in Clusters :
    fat[c] # 0 => c \in {root_cluster} \cup lost \cup UNION {ChainOf(s) : s \in Live}

\* fat32_read and fat32_write touch only sectors of the clusters of the file
\* they are called for.
OwnSectors == ToSet(last.got) \subseteq ToSet(ChainSectors(last.start))

\* fat32_seek and fat32_read across clusters: a read at a position gets the
\* sectors of the file from that position on, in order.
ReadsInOrder ==
  last.op = "read" =>
    last.got = SubSeq(ChainSectors(last.start), last.pos + 1, last.pos + Len(last.got))

\* vfs_close rewrites the entry and the table (fat32_close) even of a file
\* that was only read.  As long as callers only read, every file keeps its
\* name, start and size on the disk and the table stays as it is, whichever
\* write fails and wherever the machine stops: only the time changes.
ReadersKeepFiles ==
  [][world.calls \subseteq {"open", "read", "close"} =>
       /\ disk'.fat = disk.fat
       /\ \A s \in Slots : [disk'.dir[s] EXCEPT !.stamp = disk.dir[s].stamp] = disk.dir[s]]_vars

-----------------------------------------------------------------------------
(* What the sources say and the code does not keep in every case (README,  *)
(* "Where the code differs").                                              *)

\* fat32_update_dir_entry records the size: when nobody has a file open, its
\* size reaches into the last cluster of its chain.
SizeCoversChain ==
  \A s \in Live :
    (\A d \in Opened : fds[d].file.start # disk.dir[s].start)
      => disk.dir[s].size >= (Cardinality(ChainOf(s)) - 1) * SPC

\* The time in an entry is that of the last write ("update the file size, the
\* time and date of the last write", fat32.c:268): reading leaves it alone.
ReadersKeepTime ==
  [][world.calls \subseteq {"open", "read", "close"} =>
       \A s \in Slots : disk'.dir[s].stamp = disk.dir[s].stamp]_vars
=============================================================================
