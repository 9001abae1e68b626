------------------------------- MODULE Fat32 --------------------------------
(***************************************************************************)
(* The FAT32 driver (fat32.c) as functions on the volume.  Sizes count     *)
(* sectors, SPC of them in a cluster; the bytes inside a sector are left   *)
(* out, and of the data only which sectors are read and written.  The root *)
(* directory is one cluster; an operation changes one entry of it, which   *)
(* lies in one sector.                                                     *)
(*                                                                         *)
(* A volume on disk is a record: dir, the slots of the root directory, and *)
(* fat, the table.  The driver works on a copy of the table, fs->fat, and  *)
(* writes all of it back, a sector after the other.                        *)
(***************************************************************************)
EXTENDS Integers, Sequences, SequencesExt, FiniteSets, FiniteSetsExt

CONSTANTS
  Names,        \* file names, as to_short makes them
  Slots,        \* slots of the root directory: 1..n
  NClusters,    \* total_clusters
  SPC,          \* sectors_per_cluster
  PerSector     \* entries in a sector of the table (128 in the code)

ASSUME Fat32Assumption ==
  /\ Slots = 1..Cardinality(Slots) /\ Slots # {}
  /\ NClusters \in Nat \ {0, 1} /\ SPC \in Nat \ {0} /\ PerSector \in Nat \ {0}

FAT_EOF == 1000                          \* above every cluster number
Clusters == 2..NClusters+1
root_cluster == 2
fat_size_sectors == (NClusters + 1) \div PerSector + 1

cluster_to_lba(c) == (c - 2) * SPC

\* Directory slots: unused from here on (0x00), deleted (0xE5: what else the
\* slot holds is not read again), or a file.  stamp is write_time and
\* write_date: as the volume came, or of this run.
EndSlot == [name |-> "0x00", start |-> 0, size |-> 0, stamp |-> "old"]
DeletedSlot == [EndSlot EXCEPT !.name = "0xE5"]
IsFile(e) == e.name \in Names

\* An open file, fat32_file_t.
File(start, size) ==
  [start |-> start, current |-> start, offset |-> 0, size |-> size]

fat_next_cluster(fat, c) == IF c \in Clusters THEN fat[c] ELSE FAT_EOF

find_free_cluster(fat) ==
  LET free == {c \in Clusters : fat[c] = 0}
  IN IF free = {} THEN 0 ELSE Min(free)

\* The slots a search sees: those before the first unused one.
Visible(dir) ==
  {s \in Slots : IsFile(dir[s]) /\ \A t \in 1..s-1 : dir[t].name # "0x00"}

Lowest(S) == IF S = {} THEN 0 ELSE Min(S)

\* The slot of a name (0: there is none).
FindName(dir, name) == Lowest({s \in Visible(dir) : dir[s].name = name})

FindStart(dir, file) == Lowest({s \in Visible(dir) : dir[s].start = file.start})

-----------------------------------------------------------------------------
(* Reading and writing.  Both loop over sectors; f is the file, ok whether *)
(* the driver goes on.                                                     *)

\* Mutant: an offset at the end of a cluster stays there.
fat32_seek_NoClamp(fat, file, offset) ==
  [file EXCEPT !.current = file.start, !.offset = offset]

\* fat32_seek: along the chain while a whole cluster remains.
fat32_seek(fat, file, offset) ==
  LET want == IF offset > file.size THEN file.size ELSE offset
      Step(p, i) ==
        LET next == fat_next_cluster(fat, p.current)
        IN IF p.rest < SPC \/ next >= FAT_EOF THEN p
           ELSE [current |-> next, rest |-> p.rest - SPC]
      end == FoldLeft(Step, [current |-> file.start, rest |-> want],
                      [i \in 1..NClusters |-> i])
  IN [file EXCEPT !.current = end.current, !.offset = end.rest]

\* Mutant: at the end of a cluster the offset is not set back.
fat32_read_OffsetStays(fat, file, n, bad) ==
  LET Step(r, i) ==
        IF ~r.ok \/ r.f.current \notin 2..FAT_EOF-1 THEN r
        ELSE IF i = bad THEN [r EXCEPT !.ok = FALSE]
        ELSE [r EXCEPT !.got = Append(@, cluster_to_lba(r.f.current) + r.f.offset),
                       !.f.offset = @ + 1]
      r == FoldLeft(Step, [f |-> file, got |-> << >>, ok |-> TRUE], [i \in 1..n |-> i])
  IN IF r.ok THEN r ELSE [r EXCEPT !.f = file]

\* fat32_read of n sectors: the file afterwards, the sectors read, and
\* whether the disk answered; bad is the one at which it did not (0: none).
fat32_read(fat, file, n, bad) ==
  LET Step(r, i) ==
        LET off == r.f.offset + 1
        IN IF ~r.ok \/ r.f.current \notin 2..FAT_EOF-1 THEN r
           ELSE IF i = bad THEN [r EXCEPT !.ok = FALSE]
           ELSE [r EXCEPT
                   !.got = Append(@, cluster_to_lba(r.f.current) + r.f.offset),
                   !.f.current = IF off >= SPC THEN fat_next_cluster(fat, @) ELSE @,
                   !.f.offset = IF off >= SPC THEN 0 ELSE off]
      r == FoldLeft(Step, [f |-> file, got |-> << >>, ok |-> TRUE], [i \in 1..n |-> i])
  IN IF r.ok THEN r ELSE [r EXCEPT !.f = file]

\* fat32_write of n sectors.  On failure the file is as before, but the
\* table is not.
fat32_write(fat, file, n, bad) ==
  LET Step(r, i) ==
        LET over == r.f.offset >= SPC
            next == fat_next_cluster(r.fat, r.f.current)
            new  == find_free_cluster(r.fat)
            grow == over /\ next >= FAT_EOF
            cur  == IF grow THEN new ELSE IF over THEN next ELSE r.f.current
            off  == IF over THEN 0 ELSE r.f.offset
            fat2 == IF grow /\ new # 0
                    THEN [r.fat EXCEPT ![r.f.current] = new, ![new] = FAT_EOF]
                    ELSE r.fat
        IN IF ~r.ok THEN r
           ELSE IF (grow /\ new = 0) \/ i = bad
                THEN [r EXCEPT !.ok = FALSE, !.fat = fat2]
           ELSE [ok |-> TRUE, fat |-> fat2,
                 got |-> Append(r.got, cluster_to_lba(cur) + off),
                 f |-> [r.f EXCEPT !.current = cur, !.offset = off + 1]]
      r == FoldLeft(Step, [f |-> file, fat |-> fat, got |-> << >>, ok |-> TRUE],
                    [i \in 1..n |-> i])
      grown == [r.f EXCEPT !.size = IF r.f.offset > @ THEN r.f.offset ELSE @]
  IN [r EXCEPT !.f = IF r.ok THEN grown ELSE file]

-----------------------------------------------------------------------------
(* What an operation writes to the disk, in order: each write is the disk  *)
(* after it.  bad says what fails: bad.dir is "lost" if disk_write fails   *)
(* before the sector with the entry is written, "late" if it fails after   *)
(* it; bad.fat is the number of sectors of the table before the first one  *)
(* that cannot be written.                                                 *)

WriteDir(disk, dir, bad) == IF bad.dir = "lost" THEN disk ELSE [disk EXCEPT !.dir = dir]

\* fat32_flush: disk_write stores the sectors of the table in order and stops
\* at the first error; its result is not looked at.
fat32_flush(disk, fat, bad) ==
  [i \in 1..bad.fat |->
     [disk EXCEPT !.fat = [c \in Clusters |-> IF c \div PerSector < i THEN fat[c]
                                             ELSE disk.fat[c]]]]

\* fat32_update_dir_entry: size and time go into the first entry with the
\* file's start cluster, if there is one, whatever was done with the file.
fat32_update_dir_entry(disk, file, size, bad) ==
  LET s == FindStart(disk.dir, file)
  IN IF s = 0 THEN disk
     ELSE WriteDir(disk, [disk.dir EXCEPT ![s].size = size, ![s].stamp = "new"], bad)

\* Mutant: the entry gets the place reached in the file.
fat32_close_Offset(disk, fat, file, bad) ==
  LET d == fat32_update_dir_entry(disk, file, file.offset, bad)
  IN <<d>> \o fat32_flush(d, fat, bad)

\* fat32_close: the entry, then the table.
fat32_close(disk, fat, file, bad) ==
  LET d == fat32_update_dir_entry(disk, file, file.size, bad)
  IN <<d>> \o fat32_flush(d, fat, bad)

\* fat32_create_file: a slot, a cluster, the entry, the table; a directory
\* that cannot be written is not noticed.
fat32_create_file(disk, fat, name, bad) ==
  LET s == Lowest({t \in Slots : ~IsFile(disk.dir[t])})
      c == find_free_cluster(fat)
      marked == [fat EXCEPT ![c] = FAT_EOF]
      entry == [name |-> name, start |-> c, size |-> 0, stamp |-> "new"]
      d == WriteDir(disk, [disk.dir EXCEPT ![s] = entry], bad)
  IN IF s = 0 \/ c = 0 THEN [ok |-> FALSE, fat |-> fat, start |-> 0, disks |-> << >>]
     ELSE [ok |-> TRUE, fat |-> marked, start |-> c,
           disks |-> <<d>> \o fat32_flush(d, marked, bad)]

\* The clusters of the chain that begins at c.
Chain(fat, c) ==
  LET reach[n \in 0..NClusters] ==
        IF n = 0 THEN {c} \cap Clusters
        ELSE reach[n-1] \cup ({fat[x] : x \in reach[n-1]} \cap Clusters)
  IN reach[NClusters]

\* Mutant: only the first cluster is freed.
fat32_free_cluster_chain_First(fat, c) ==
  [x \in Clusters |-> IF x = c THEN 0 ELSE fat[x]]

fat32_free_cluster_chain(fat, c) ==
  [x \in Clusters |-> IF x \in Chain(fat, c) THEN 0 ELSE fat[x]]

\* Mutant: the chain is freed on disk before the entry is.
fat32_delete_TableFirst(disk, fat, name, bad) ==
  LET s == FindName(disk.dir, name)
      freed == fat32_free_cluster_chain(fat, disk.dir[s].start)
      table == fat32_flush(disk, freed, bad)
      d == Last(<<disk>> \o table)
  IN IF s = 0 \/ bad.dir # "ok" THEN [ok |-> FALSE, fat |-> fat, disks |-> << >>]
     ELSE [ok |-> TRUE, fat |-> freed,
           disks |-> Append(table, WriteDir(d, [d.dir EXCEPT ![s] = DeletedSlot], bad))]

\* fat32_delete: the entry first, and the chain if disk_write reports success;
\* if it fails after the entry's sector, the entry is deleted all the same.
fat32_delete(disk, fat, name, bad) ==
  LET s == FindName(disk.dir, name)
      d == WriteDir(disk, [disk.dir EXCEPT ![s] = DeletedSlot], bad)
      freed == fat32_free_cluster_chain(fat, disk.dir[s].start)
  IN IF s = 0 THEN [ok |-> FALSE, fat |-> fat, disks |-> << >>]
     ELSE IF bad.dir # "ok" THEN [ok |-> FALSE, fat |-> fat, disks |-> <<d>>]
     ELSE [ok |-> TRUE, fat |-> freed, disks |-> <<d>> \o fat32_flush(d, freed, bad)]

=============================================================================
