-------------------------------- MODULE Ide --------------------------------
(***************************************************************************)
(* The IDE driver (ide.c): the search for an ATA drive at boot, and the    *)
(* transfer of one sector by programmed I/O.  The address of a sector goes *)
(* to the drive in four pieces, the data word by word, and the driver      *)
(* learns how far the drive is only by polling its status register.        *)
(*                                                                         *)
(* A caller takes a step per port it writes, because interrupts are on and *)
(* there is no lock.  A loop that polls is a step that waits.              *)
(*                                                                         *)
(* External, modelled from how the driver uses it: the drive.  It works on *)
(* a command beside the processor, keeps written sectors in a cache until  *)
(* they are flushed, and loses the cache when power fails.                 *)
(***************************************************************************)
EXTENDS Integers, Sequences, FiniteSets

CONSTANTS
  Callers,    \* the contexts that transfer sectors
  Words,      \* 16-bit words in a sector
  Byte,       \* values of an address register, 256 in the machine
  Nibble,     \* values of the address bits in the drive register, 16
  Setups      \* the machines considered, see Setup

Drives == {"master", "slave"}

\* A machine and its callers.
Setup ==
  [kind    : [Drives -> {"ata", "atapi", "none", "floating"}],
   ops     : SUBSET {"read", "write"},
   lbas    : SUBSET Nat,                           \* sectors callers ask for
   faults  : SUBSET {"read", "write", "data", "flush"},  \* what may fail
   lag     : BOOLEAN,   \* a drive may show BSY only after a while
   overlap : BOOLEAN,   \* callers may be in the driver at the same time
   calls   : Nat]       \* bound: calls made

ASSUME IdeAssumption ==
  /\ Words \in Nat \ {0} /\ Byte \in Nat \ {0, 1} /\ Nibble \in Nat \ {0, 1}
  /\ Setups \subseteq Setup

Capacity == Byte * Byte * Byte * Nibble            \* 2^28 in the machine
Sectors == 0 .. Capacity - 1

VARIABLES
  setup,
  boot,           \* where ide_init is
  ide_drive_sel,  \* the drive it found, or "none"
  call,           \* the call each caller is in
  regs,           \* task file: drive and the four parts of the sector number
  dev,            \* the drive: status bits, command at hand, data buffer
  cache,          \* sectors the drive has still to write
  medium,         \* sectors as they are after a power failure
  latest,         \* history: what the last write that reported success wrote
  unsure,         \* history: sectors with a failed or interrupted write since
  refused,        \* history: ... whose data the drive reported as lost
  calls

driver == <<boot, ide_drive_sel, call>>
drive == <<regs, dev, cache, medium, refused>>
history == <<latest, unsure, calls>>
vars == <<setup, driver, drive, history>>

-----------------------------------------------------------------------------
(* The drive *)

\* The contents of a sector: each word knows which write it is from.
Content(v) == [i \in 1..Words |-> <<v, i>>]

NoContent == << >>

\* What the drive would read at l: the cache comes before the medium.
Current(l) == IF cache[l] = NoContent THEN medium[l] ELSE cache[l]

Kind == setup.kind[regs.drive]

\* The status register; an absent drive gives 0, an absent controller ones.
Status ==
  CASE Kind = "none"     -> {}
    [] Kind = "floating" -> {"BSY", "DRDY", "DRQ", "ERR"}
    [] OTHER             -> dev.status

\* A drive without data to give.
Idling(bits, cmd) ==
  [status |-> bits, cmd |-> cmd, lba |-> 0, k |-> 0, buf |-> NoContent, seen |-> TRUE]

Resting == Idling({"DRDY"}, "none")

\* What an ATAPI drive leaves in the middle and high registers (0x14, 0xEB).
AtapiSignature == <<1, 1>>

\* The sector that the address registers name.
Address(lba) == lba[0] + Byte * (lba[1] + Byte * (lba[2] + Byte * lba[3]))

\* A command arrives.  A busy drive does not take it.
Take(cmd) ==
  IF Kind # "ata" \/ "BSY" \in dev.status \/ ~dev.seen
  THEN dev
  ELSE [status |-> IF setup.lag THEN dev.status ELSE {"BSY", "DRDY"},
        cmd |-> cmd, lba |-> Address(regs.lba), k |-> 0,
        buf |-> NoContent, seen |-> ~setup.lag]

\* A slow drive shows that it is busy.
Notice ==
  /\ ~dev.seen
  /\ dev' = [status |-> {"BSY", "DRDY"}, cmd |-> dev.cmd, lba |-> dev.lba, k |-> dev.k,
             buf |-> dev.buf, seen |-> TRUE]
  /\ UNCHANGED <<setup, driver, regs, cache, medium, refused, history>>

Ended(bits, b) ==
  [status |-> {"DRDY"} \cup bits, cmd |-> dev.cmd, lba |-> dev.lba, k |-> dev.k,
   buf |-> b, seen |-> dev.seen]

Dirty == {l \in Sectors : cache[l] # NoContent}

\* The command fails; the data of the sectors lost stays unwritten.
Failed(what, lost) ==
  /\ what \in setup.faults
  /\ dev' = Ended({"ERR"}, NoContent)
  /\ refused' = refused \cup lost
  /\ UNCHANGED <<cache, medium>>

Identify ==
  /\ dev.cmd = "identify" /\ dev' = Ended({"DRQ"}, Content(<<"identify", 0>>))
  /\ UNCHANGED <<cache, medium, refused>>

Fetch ==
  /\ dev.cmd = "read"
  /\ \/ /\ dev' = Ended({"DRQ"}, Current(dev.lba))
        /\ UNCHANGED <<cache, medium, refused>>
     \/ Failed("read", {})

\* The drive asks for the data of a write, and takes it.
Accept ==
  /\ dev.cmd = "write" /\ dev.k = 0
  /\ \/ dev' = Ended({"DRQ"}, NoContent) /\ UNCHANGED <<cache, medium, refused>>
     \/ Failed("write", {})

Commit ==
  /\ dev.cmd = "write" /\ dev.k = Words
  /\ \/ /\ dev' = Ended({}, NoContent)
        /\ cache' = [cache EXCEPT ![dev.lba] = dev.buf]
        /\ refused' = refused \ {dev.lba}
        /\ UNCHANGED medium
     \/ Failed("data", {dev.lba})

Flush ==
  /\ dev.cmd = "flush"
  /\ \/ /\ dev' = Ended({}, NoContent)
        /\ medium' = [l \in Sectors |-> Current(l)]
        /\ cache' = [l \in Sectors |-> NoContent]
        /\ UNCHANGED refused
     \/ Failed("flush", Dirty)

DriveStep ==
  /\ dev.seen /\ "BSY" \in dev.status
  /\ Identify \/ Fetch \/ Accept \/ Commit \/ Flush
  /\ UNCHANGED <<setup, driver, regs, history>>

\* The data register: the word read, and the drive after a read or a write.
HasWord == "DRQ" \in dev.status /\ dev.cmd # "write" /\ dev.k < Len(dev.buf)

Word == IF HasWord THEN dev.buf[dev.k + 1] ELSE <<<<"floating", 0>>, 0>>

AfterRead ==
  IF ~HasWord THEN dev
  ELSE [status |-> IF dev.k + 1 = Words THEN dev.status \ {"DRQ"} ELSE dev.status,
        cmd |-> dev.cmd, lba |-> dev.lba, k |-> dev.k + 1, buf |-> dev.buf,
        seen |-> dev.seen]

AfterWrite(w) ==
  IF "DRQ" \notin dev.status \/ dev.cmd # "write" THEN dev
  ELSE [status |-> IF dev.k + 1 < Words THEN dev.status
                   ELSE IF setup.lag THEN dev.status \ {"DRQ"} ELSE {"BSY", "DRDY"},
        cmd |-> dev.cmd, lba |-> dev.lba, k |-> dev.k + 1, buf |-> Append(dev.buf, w),
        seen |-> dev.k + 1 < Words \/ ~setup.lag]

-----------------------------------------------------------------------------
(* ide_init *)

Idle == [pc |-> "idle", op |-> "none", lba |-> 0, data |-> NoContent, k |-> 0,
         ok |-> FALSE]

\* The task file after a drive was selected and the registers cleared, with
\* what the drive put into the middle and high ones.
Selected(d, sig) ==
  [drive |-> d, lba |-> [i \in 0..3 |-> CASE i = 1 -> sig[1] [] i = 2 -> sig[2]
                                           [] OTHER -> 0]]

BootState ==
  /\ boot = [pc |-> "probe", drive |-> "master"]
  /\ ide_drive_sel = "none"
  /\ call = [c \in Callers |-> Idle]

Init ==
  /\ setup \in Setups
  /\ BootState
  /\ regs = Selected("master", <<0, 0>>)
  /\ dev = Resting
  /\ cache = [l \in Sectors |-> NoContent]
  /\ medium = [l \in Sectors |-> Content(<<"disk", l>>)]
  /\ latest = [l \in Sectors \cup setup.lbas |-> Content(<<"disk", l>>)]
  /\ unsure = {} /\ refused = {} /\ calls = 0

\* ide_probe_ata up to the command.  A drive that is selected answers with its
\* own status; the ten reads of it give the selection time.  An ATAPI drive
\* refuses the command and shows its signature.
Probe ==
  /\ boot.pc = "probe"
  /\ boot' = [boot EXCEPT !.pc = "wait"]
  /\ IF setup.kind[boot.drive] = "ata"
     THEN /\ regs' = Selected(boot.drive, <<0, 0>>)
          /\ dev' = Idling({"BSY", "DRDY"}, "identify")
     ELSE /\ regs' = Selected(boot.drive, AtapiSignature)
          /\ \E ready \in SUBSET {"DRDY"} :
               dev' = Idling({"ERR"} \cup ready, "none")
  /\ UNCHANGED <<setup, ide_drive_sel, call, cache, medium, refused, history>>

\* ... and from there: no answer, not ready, or the signature of an ATAPI
\* drive mean that it is no ATA drive.
FoundAta ==
  Status # {} /\ "DRDY" \in Status /\ <<regs.lba[1], regs.lba[2]>> # AtapiSignature

\* The slave is tried when the master is no ATA drive.  Of a drive that is one
\* the 256 words of the answer are read.
Probed ==
  /\ boot.pc = "wait" /\ "BSY" \notin Status
  /\ IF FoundAta
     THEN boot' = [boot EXCEPT !.pc = "done"] /\ ide_drive_sel' = boot.drive
     ELSE /\ boot' = IF boot.drive = "master" THEN [pc |-> "probe", drive |-> "slave"]
                                              ELSE [boot EXCEPT !.pc = "done"]
          /\ UNCHANGED ide_drive_sel
  /\ dev' = [dev EXCEPT !.status = @ \ {"DRQ"}]
  /\ UNCHANGED <<setup, call, regs, cache, medium, refused, history>>

ide_init == Probe \/ Probed

-----------------------------------------------------------------------------
(* ide_read_sector and ide_write_sector *)

Alone == \A c \in Callers : call[c].pc = "idle"

\* Caller c enters with a sector number; without a drive it gets false.
Call(c) == \E op \in setup.ops, l \in setup.lbas :
  /\ boot.pc = "done" /\ calls < setup.calls
  /\ call[c].pc = "idle" /\ (setup.overlap \/ Alone)
  /\ calls' = calls + 1
  /\ call' = [call EXCEPT ![c] =
       [pc |-> IF ide_drive_sel = "none" THEN "return" ELSE "select", op |-> op, lba |-> l,
        data |-> IF op = "write" THEN Content(<<c, calls>>) ELSE NoContent,
        k |-> 0, ok |-> FALSE]]
  /\ unsure' = IF op = "write" /\ ide_drive_sel # "none" THEN unsure \cup {l} ELSE unsure
  /\ UNCHANGED <<setup, boot, ide_drive_sel, drive, latest>>

At(c, pc) == call[c].pc = pc

\* Caller c goes on at pc; what the drive and the history do is left to say.
Goto(c, pc) ==
  /\ call' = [call EXCEPT ![c].pc = pc]
  /\ UNCHANGED <<setup, boot, ide_drive_sel>>

DriveKept == UNCHANGED <<regs, dev, cache, medium, refused>>

\* What goes to the low (0), middle and high registers, and with the drive (3),
\* of a sector number.
Digit(l, i) ==
  LET l1 == l \div Byte
      l2 == l1 \div Byte
      l3 == l2 \div Byte
  IN  CASE i = 0 -> l % Byte [] i = 1 -> l1 % Byte [] i = 2 -> l2 % Byte
        [] i = 3 -> l3 % Nibble

\* Mutant: the four address bits of the drive register are left out.
ide_select_drive_NoTop(c) ==
  /\ At(c, "select") /\ Goto(c, "address")
  /\ regs' = [regs EXCEPT !.drive = ide_drive_sel]
  /\ UNCHANGED <<dev, cache, medium, refused, history>>

ide_select_drive(c) ==
  /\ At(c, "select") /\ Goto(c, "address")
  /\ regs' = [drive |-> ide_drive_sel, lba |-> [regs.lba EXCEPT ![3] = Digit(call[c].lba, 3)]]
  /\ UNCHANGED <<dev, cache, medium, refused, history>>

\* One of the low, middle and high registers is written, in that order.
SetAddress(c) ==
  LET k == call[c].k
  IN /\ At(c, "address")
     /\ call' = [call EXCEPT ![c] =
          [pc |-> IF k = 2 THEN "command" ELSE "address", op |-> @.op, lba |-> @.lba,
           data |-> @.data, k |-> IF k = 2 THEN 0 ELSE k + 1, ok |-> @.ok]]
     /\ regs' = [drive |-> regs.drive, lba |-> [regs.lba EXCEPT ![k] = Digit(call[c].lba, k)]]
     /\ UNCHANGED <<setup, boot, ide_drive_sel, dev, cache, medium, refused, history>>

Send(c, cmd) == dev' = Take(cmd) /\ UNCHANGED <<regs, cache, medium, refused, history>>

Command(c) == At(c, "command") /\ Goto(c, "drq") /\ Send(c, call[c].op)

\* Mutant: the loop waits for data alone.
ide_wait_drq_NoErr(c) ==
  /\ At(c, "drq") /\ "DRQ" \in Status
  /\ Goto(c, "data") /\ DriveKept /\ UNCHANGED history

ide_wait_drq(c) ==
  /\ At(c, "drq") /\ Status \cap {"DRQ", "ERR"} # {}
  /\ Goto(c, IF "ERR" \in Status THEN "return" ELSE "data")
  /\ DriveKept /\ UNCHANGED history

\* One word through the data register; after the last one a read is done.
MoveWord(c) ==
  LET last == call[c].k + 1 = Words
      read == call[c].op = "read"
  IN /\ At(c, "data")
     /\ call' = [call EXCEPT ![c] =
          [pc |-> IF ~last THEN "data" ELSE IF read THEN "return" ELSE "written",
           op |-> @.op, lba |-> @.lba, data |-> IF read THEN Append(@.data, Word) ELSE @.data,
           k |-> @.k + 1, ok |-> read /\ last]]
     /\ dev' = IF read THEN AfterRead ELSE AfterWrite(call[c].data[call[c].k + 1])
     /\ UNCHANGED <<setup, boot, ide_drive_sel, regs, cache, medium, refused, history>>

\* ide_wait_ready: the loop ends when the drive is not busy; only DRDY counts
\* then, an error of the drive does not.
ide_wait_ready(c, pc, next) ==
  /\ At(c, pc) /\ "BSY" \notin Status
  /\ Goto(c, IF "DRDY" \in Status THEN next ELSE "return")
  /\ DriveKept /\ UNCHANGED history

\* Mutant: the cache is not flushed.
CacheFlush_Skipped(c) ==
  At(c, "flush") /\ Goto(c, "flushed") /\ DriveKept /\ UNCHANGED history

CacheFlush(c) == At(c, "flush") /\ Goto(c, "flushed") /\ Send(c, "flush")

\* A write returns true after the second wait.
Success(c) ==
  /\ At(c, "success")
  /\ call' = [call EXCEPT ![c] = [pc |-> "return", op |-> @.op, lba |-> @.lba,
                                   data |-> @.data, k |-> @.k, ok |-> TRUE]]
  /\ DriveKept /\ UNCHANGED <<setup, boot, ide_drive_sel, history>>

Return(c) ==
  LET written == call[c].ok /\ call[c].op = "write"
      l == call[c].lba
  IN /\ At(c, "return")
     /\ call' = [call EXCEPT ![c] = Idle]
     /\ latest' = IF written THEN [latest EXCEPT ![l] = call[c].data] ELSE latest
     /\ unsure' = IF written THEN unsure \ {l} ELSE unsure
     /\ DriveKept /\ UNCHANGED <<setup, boot, ide_drive_sel, calls>>

Transfer(c) ==
  \/ ide_select_drive(c) \/ SetAddress(c) \/ Command(c)
  \/ ide_wait_drq(c) \/ MoveWord(c)
  \/ ide_wait_ready(c, "written", "flush") \/ CacheFlush(c)
  \/ ide_wait_ready(c, "flushed", "success") \/ Success(c) \/ Return(c)

\* Power fails: the cache is lost and the machine starts again.
PowerCut ==
  /\ boot.pc = "done" /\ calls < setup.calls
  /\ boot' = [pc |-> "probe", drive |-> "master"] /\ ide_drive_sel' = "none"
  /\ call' = [c \in Callers |-> Idle]
  /\ dev' = Resting
  /\ cache' = [l \in Sectors |-> NoContent]
  /\ UNCHANGED <<setup, regs, medium, refused, history>>

Next ==
  \/ ide_init \/ PowerCut \/ Notice \/ DriveStep
  \/ \E c \in Callers : Call(c) \/ Transfer(c)

\* The drive finishes what it does, and a caller goes on when it may.
Spec ==
  /\ Init /\ [][Next]_vars
  /\ WF_vars(ide_init) /\ WF_vars(Notice) /\ WF_vars(DriveStep)
  /\ \A c \in Callers : WF_vars(Transfer(c))

-----------------------------------------------------------------------------
\* Types: the registers hold what their width allows, and a transfer moves no
\* more words than a sector has.
TypeOK ==
  /\ boot \in [pc : {"probe", "wait", "done"}, drive : Drives]
  /\ ide_drive_sel \in Drives \cup {"none"}
  /\ \A c \in Callers :
       /\ call[c].pc \in {"idle", "select", "address", "command", "drq", "data", "written",
                         "flush", "flushed", "success", "return"}
       /\ call[c].op \in {"none", "read", "write"} /\ call[c].ok \in BOOLEAN
       /\ call[c].lba \in setup.lbas \cup {0} /\ call[c].k \in 0..Words
       /\ Len(call[c].data) \in 0..Words
  /\ regs.drive \in Drives /\ regs.lba[3] \in 0..Nibble-1
  /\ \A i \in 0..2 : regs.lba[i] \in 0..Byte-1
  /\ dev.status \subseteq {"BSY", "DRDY", "DRQ", "ERR"}
  /\ dev.lba \in Sectors /\ dev.k \in 0..Words
  /\ unsure \subseteq setup.lbas /\ refused \subseteq Sectors /\ calls \in 0..setup.calls

\* A read that reports success filled the buffer with the sector asked for,
\* all of it from the last write to it, whatever the drive did meanwhile and
\* whatever failed before (ide_read_sector; the address goes through four
\* registers and the data comes in words).
ReadsAsked ==
  \A c \in Callers :
    (At(c, "return") /\ call[c].op = "read" /\ call[c].ok)
      => call[c].lba \in unsure \cup refused \/ call[c].data = latest[call[c].lba]

\* A write that reported success is on the medium, where a power failure cannot
\* reach it ("wait for the write to complete and flush the cache", ide.c:116).
\* Files and Fat32 rely on it for the order of their writes.  Left out are the
\* sectors for which the drive itself reported a failure, see ErrorsReported.
WriteSurvives == \A l \in Sectors \ (unsure \cup refused) : medium[l] = latest[l]

\* ide_init settles on the first ATA drive, never on an ATAPI drive, and every
\* later command goes to it.
SelectsAtaDrive ==
  LET ata == {d \in Drives : setup.kind[d] = "ata"}
  IN /\ boot.pc = "done" =>
          ide_drive_sel = IF "master" \in ata THEN "master"
                          ELSE IF "slave" \in ata THEN "slave" ELSE "none"
     /\ \A c \in Callers : call[c].pc \notin {"idle", "select", "return"} =>
          regs.drive \in ata

\* The sector a write changes is the one it was called for: no other sector of
\* the medium changes, save one whose own write failed before.
OthersKept ==
  [][\A l \in Sectors : medium'[l] # medium[l] => l \in unsure \cup refused]_vars

\* Every call returns: the loops of ide_wait_drq and ide_wait_ready have no
\* bound, so each must be left whatever way the drive ends its command.
CallReturns == \A c \in Callers : (call[c].pc # "idle") ~> (call[c].pc = "idle")

\* ide_init comes to an end, with whatever drives there are.
BootEnds == []<>(boot.pc = "done")

-----------------------------------------------------------------------------
(* What the sources say and the code does not keep in every case (README,  *)
(* "Where the code differs").                                              *)

\* A write that the drive reports as failed is not reported as done:
\* ide_wait_ready looks at DRDY, and ERR comes with it.
ErrorsReported ==
  \A c \in Callers : (At(c, "return") /\ call[c].op = "write" /\ call[c].ok)
                        => call[c].lba \notin refused
=============================================================================
