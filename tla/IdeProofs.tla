----------------------------- MODULE IdeProofs -----------------------------
(***************************************************************************)
(* Proofs about Ide, for any sector size, any width of the address         *)
(* registers and any number of callers and calls: a write that reported    *)
(* success is on the medium, a read that reported success is of the sector *)
(* asked for, and no other sector changes.                                 *)
(***************************************************************************)
EXTENDS Ide, TLAPS

\* The machines the theorems are about: one caller at a time, sector numbers of
\* 28 bits, and a drive that shows BSY at once.  One that shows it late is
\* included when it only reads and nothing fails.
Machines ==
  \A s \in Setups :
    /\ ~s.overlap /\ s.lbas \subseteq Sectors
    /\ s.lag => s.ops \subseteq {"read"} /\ s.faults = {}

-----------------------------------------------------------------------------
(* The inductive invariant *)

Points ==
  {"idle", "select", "address", "command", "drq", "data", "written", "flush",
   "flushed", "success", "return"}

\* Words on the disk and in buffers, and sectors made of them.
AnyWord ==
  (({"disk", "identify", "floating"} \cup Callers) \X Nat) \X (0 .. Words)

Sector == {s \in Seq(AnyWord) : Len(s) = Words}

CallRecord ==
  [pc : Points, op : {"none", "read", "write"}, lba : Sectors, data : Seq(AnyWord),
   k : Nat, ok : BOOLEAN]

DevRecord ==
  [status : SUBSET {"BSY", "DRDY", "DRQ", "ERR"},
   cmd : {"none", "identify", "read", "write", "flush"}, lba : Sectors, k : Nat,
   buf : Seq(AnyWord), seen : BOOLEAN]

Types ==
  /\ setup \in Setups
  /\ boot \in [pc : {"probe", "wait", "done"}, drive : Drives]
  /\ ide_drive_sel \in Drives \cup {"none"}
  /\ call \in [Callers -> CallRecord]
  /\ regs \in [drive : Drives, lba : [0..3 -> Nat]]
  /\ dev \in DevRecord
  /\ cache \in [Sectors -> Sector \cup {NoContent}]
  /\ medium \in [Sectors -> Sector]
  /\ latest \in [Sectors -> Sector]
  /\ unsure \subseteq Sectors /\ refused \subseteq Sectors /\ calls \in Nat

Active(c) == call[c].pc # "idle"

OneCaller == \A c, d \in Callers : Active(c) /\ Active(d) => c = d

\* The drive has no command at hand; a slow one has no old answer either.
Rest ==
  /\ dev.seen /\ "BSY" \notin dev.status
  /\ setup.lag /\ ide_drive_sel # "none" => dev.status = {"DRDY"}

\* ide_init finds ATA drives only, and leaves the drive at rest.
Boots ==
  /\ ide_drive_sel # "none" => setup.kind[ide_drive_sel] = "ata"
  /\ boot.pc # "done" =>
       Alone /\ ide_drive_sel = "none" /\ dev.seen /\ dev.cmd \in {"none", "identify"}
  /\ boot.pc = "wait" =>
       /\ regs.drive = boot.drive
       /\ IF Kind = "ata"
          THEN dev.cmd = "identify" /\ dev.status \in {{"BSY", "DRDY"}, {"DRDY", "DRQ"}}
          ELSE /\ regs.lba[1] = 1 /\ regs.lba[2] = 1
               /\ dev.cmd = "none" /\ "BSY" \notin dev.status
  /\ boot.pc = "done" /\ Alone => Rest

\* The registers name the sector of c.
Named(c) ==
  regs.drive = ide_drive_sel /\ \A i \in 0..3 : regs.lba[i] = Digit(call[c].lba, i)

InCache(c) == call[c].lba \in refused \/ cache[call[c].lba] = call[c].data

OnMedium(c) ==
  \/ call[c].lba \in refused
  \/ medium[call[c].lba] = call[c].data /\ cache[call[c].lba] = NoContent

Busy == dev.seen /\ dev.status = {"BSY", "DRDY"}

HasData == dev.seen /\ dev.status = {"DRDY", "DRQ"}

\* The drive works on the command of c, or has answered it.
Asked(c) ==
  LET l == call[c].lba
      op == call[c].op
  IN /\ dev.cmd = op /\ dev.lba = l /\ dev.k = 0 /\ call[c].k = 0
     /\ op = "read" => call[c].data = NoContent
     /\ \/ Busy
        \/ ~dev.seen /\ setup.lag /\ dev.status = {"DRDY"}
        \/ dev.seen /\ dev.status = {"DRDY", "ERR"} /\ ~setup.lag
        \/ HasData /\ dev.buf = IF op = "read" THEN Current(l) ELSE NoContent

\* Driver and drive are at the same word, and agree about those before it.
Moving(c) ==
  LET l == call[c].lba
      op == call[c].op
      k == call[c].k
      d == call[c].data
  IN /\ dev.cmd = op /\ dev.lba = l /\ dev.k = k /\ k < Words /\ HasData
     /\ op = "read" => dev.buf = Current(l) /\ Len(d) = k /\ \A i \in 1..k : d[i] = dev.buf[i]
     /\ op = "write" => Len(dev.buf) = k /\ \A i \in 1..k : dev.buf[i] = d[i]

Written(c) ==
  /\ dev.cmd = "write" /\ dev.lba = call[c].lba /\ dev.k = Words
  /\ (Busy /\ dev.buf = call[c].data) \/ (Rest /\ InCache(c))

Flushed(c) == dev.cmd = "flush" /\ ((Busy /\ InCache(c)) \/ (Rest /\ OnMedium(c)))

\* What a caller has done, and where the drive is with it.
Progress(c) ==
  LET pc == call[c].pc
      l == call[c].lba
      op == call[c].op
      k == call[c].k
  IN /\ op \in setup.ops /\ op \in {"read", "write"}
     /\ ide_drive_sel = "none" => pc = "return" /\ ~call[c].ok
     /\ call[c].ok => pc = "return"
     /\ op = "write" => Len(call[c].data) = Words /\ (ide_drive_sel # "none" => l \in unsure)
     /\ pc \in {"select", "address", "command"} /\ op = "read"
          => call[c].data = NoContent
     /\ pc \in {"select", "address", "command", "flush", "success", "return"} => Rest
     /\ pc \in {"select", "command"} => k = 0
     /\ pc = "address" => /\ k \in 0..2 /\ regs.drive = ide_drive_sel
                          /\ regs.lba[3] = Digit(l, 3)
                          /\ \A i \in 0..2 : i < k => regs.lba[i] = Digit(l, i)
     /\ pc \notin {"select", "address", "return"} => Named(c)
     /\ pc = "drq" => Asked(c)
     /\ pc = "data" => Moving(c)
     /\ pc \in {"written", "flush", "flushed", "success"} => op = "write"
     /\ pc = "written" => Written(c)
     /\ pc = "flush" => InCache(c)
     /\ pc = "flushed" => Flushed(c)
     /\ pc = "success" => OnMedium(c)
     /\ pc = "return" /\ call[c].ok =>
          IF op = "read" THEN call[c].data = Current(l) ELSE OnMedium(c)

\* A sector whose data waits in the cache is one that no write reported as done,
\* or one the drive has reported.
CacheKnown == Dirty \subseteq unsure \cup refused

IInv ==
  /\ Types /\ OneCaller /\ Boots
  /\ \A c \in Callers : Active(c) => Progress(c)
  /\ CacheKnown /\ WriteSurvives

-----------------------------------------------------------------------------
(* Sector numbers *)

\* A number below b * m, divided by b, is below m; the remainder and the
\* quotient give the number back.
LEMMA Quotient ==
  ASSUME NEW b \in Nat, b > 0, NEW m \in Nat, NEW x \in Nat, x < b * m
  PROVE  /\ x \div b \in Nat /\ x \div b < m
         /\ x % b \in Nat /\ x = b * (x \div b) + (x % b)
<1> DEFINE y == x \div b
           r == x % b
<1>1. y \in Int /\ r \in 0 .. b - 1 /\ x = b * y + r
  OBVIOUS
<1> HIDE DEF y, r
<1>2. y >= 0
  <2> SUFFICES ASSUME y <= -1 PROVE FALSE
    BY <1>1
  <2>1. b * y <= b * (-1)
    BY <1>1
  <2> QED BY <2>1, <1>1
<1>3. y < m
  <2> SUFFICES ASSUME y >= m PROVE FALSE
    BY <1>1
  <2>1. b * y >= b * m
    BY <1>1
  <2>2. b * y \in Int /\ b * m \in Int
    BY <1>1
  <2> QED BY <2>1, <2>2, <1>1
<1> QED BY <1>1, <1>2, <1>3 DEF y, r

\* The four registers hold a sector number of at most 28 bits, and the drive
\* puts it together again.
LEMMA DigitsName ==
  ASSUME NEW l \in Sectors
  PROVE  /\ \A i \in 0..3 : Digit(l, i) \in Nat
         /\ Digit(l, 0) + Byte * (Digit(l, 1) + Byte * (Digit(l, 2) + Byte * Digit(l, 3))) = l
<1> DEFINE l1 == l \div Byte
           l2 == l1 \div Byte
           l3 == l2 \div Byte
<1>1. Byte \in Nat /\ Byte > 0 /\ Nibble \in Nat /\ Nibble > 0
  BY IdeAssumption
<1>2. l \in Nat /\ l < Byte * (Byte * (Byte * Nibble))
  BY <1>1 DEF Sectors, Capacity
<1>3. Byte * Nibble \in Nat /\ Byte * (Byte * Nibble) \in Nat
  BY <1>1
<1>4. l1 \in Nat /\ l1 < Byte * (Byte * Nibble) /\ l % Byte \in Nat /\ l = Byte * l1 + (l % Byte)
  BY <1>1, <1>2, <1>3, Quotient
<1> HIDE DEF l1
<1>5. l2 \in Nat /\ l2 < Byte * Nibble /\ l1 % Byte \in Nat /\ l1 = Byte * l2 + (l1 % Byte)
  BY <1>1, <1>3, <1>4, Quotient
<1> HIDE DEF l2
<1>6. l3 \in Nat /\ l3 < Nibble /\ l2 % Byte \in Nat /\ l2 = Byte * l3 + (l2 % Byte)
  BY <1>1, <1>5, Quotient
<1> HIDE DEF l3
<1>7. l3 % Nibble = l3
  BY <1>1, <1>6
<1>8. /\ Digit(l, 0) = l % Byte /\ Digit(l, 1) = l1 % Byte /\ Digit(l, 2) = l2 % Byte
      /\ Digit(l, 3) = l3
  BY <1>7 DEF Digit, l1, l2, l3
<1>9. \A i \in 0..3 : Digit(l, i) \in Nat
  <2>1. \A i \in 0..3 : i = 0 \/ i = 1 \/ i = 2 \/ i = 3
    OBVIOUS
  <2> QED BY <2>1, <1>4, <1>5, <1>6, <1>8
<1>10. Digit(l, 2) + Byte * Digit(l, 3) = l2
  BY <1>1, <1>6, <1>8
<1>11. Digit(l, 1) + Byte * l2 = l1
  BY <1>1, <1>5, <1>8
<1>12. Digit(l, 0) + Byte * l1 = l
  BY <1>1, <1>4, <1>8
<1> QED BY <1>9, <1>10, <1>11, <1>12

\* There is at least one sector.
LEMMA ZeroIsSector == 0 \in Sectors
<1>1. Byte \in Nat /\ Byte > 0 /\ Nibble \in Nat /\ Nibble > 0
  BY IdeAssumption
<1>2. Byte * Byte \in Nat /\ Byte * Byte > 0
  BY <1>1
<1>3. Byte * Byte * Byte \in Nat /\ Byte * Byte * Byte > 0
  BY <1>1, <1>2
<1>4. Byte * Byte * Byte * Nibble \in Nat /\ Byte * Byte * Byte * Nibble > 0
  BY <1>1, <1>3
<1> QED BY <1>4 DEF Sectors, Capacity

-----------------------------------------------------------------------------
(* Contents *)

LEMMA ContentIsSector ==
  ASSUME NEW t \in {"disk", "identify", "floating"} \cup Callers, NEW n \in Nat
  PROVE  Content(<<t, n>>) \in Sector
<1>1. Words \in Nat
  BY IdeAssumption
<1>2. \A i \in 1 .. Words : <<<<t, n>>, i>> \in AnyWord
  BY <1>1 DEF AnyWord
<1> DEFINE f == [i \in 1 .. Words |-> <<<<t, n>>, i>>]
<1>3. f \in Seq(AnyWord) /\ Len(f) = Words
  BY <1>1, <1>2
<1> QED BY <1>3 DEF Content, Sector

LEMMA SectorFacts ==
  /\ NoContent \in Seq(AnyWord) /\ Len(NoContent) = 0 /\ NoContent \notin Sector
  /\ \A s \in Sector : s \in Seq(AnyWord) /\ Len(s) = Words
  /\ Words \in Nat /\ Words > 0
<1>1. Words \in Nat /\ Words > 0
  BY IdeAssumption
<1>2. NoContent \in Seq(AnyWord) /\ Len(NoContent) = 0
  BY DEF NoContent
<1> QED BY <1>1, <1>2 DEF Sector

\* What a read of the drive would give is always a sector.
LEMMA CurrentIsSector ==
  ASSUME Types, NEW l \in Sectors
  PROVE  Current(l) \in Sector
  BY DEF Types, Current

-----------------------------------------------------------------------------
(* Initial states and steps *)

LEMMA InitInv ==
  ASSUME Machines, Init
  PROVE  IInv
<1>1. setup \in Setups /\ setup.lbas \subseteq Sectors
  BY DEF Init, Machines
<1>2. call = [c \in Callers |-> Idle] /\ boot = [pc |-> "probe", drive |-> "master"]
      /\ ide_drive_sel = "none"
  BY DEF Init, BootState
<1>3. Idle \in CallRecord /\ Idle.pc = "idle"
  BY ZeroIsSector, SectorFacts DEF Idle, CallRecord, Points
<1>4. regs \in [drive : Drives, lba : [0..3 -> Nat]]
  BY DEF Init, Selected, Drives
<1>5. dev \in DevRecord /\ dev.seen /\ dev.cmd = "none"
  BY ZeroIsSector, SectorFacts DEF Init, Resting, Idling, DevRecord
<1>6. \A l \in Sectors : Content(<<"disk", l>>) \in Sector
  BY ContentIsSector DEF Sectors
<1>7. latest = [l \in Sectors |-> Content(<<"disk", l>>)]
  <2>1. Sectors \cup setup.lbas = Sectors
    BY <1>1
  <2> QED BY <2>1 DEF Init
<1>8. Types
  <2>1. boot \in [pc : {"probe", "wait", "done"}, drive : Drives]
        /\ ide_drive_sel \in Drives \cup {"none"}
    BY <1>2 DEF Drives
  <2>2. call \in [Callers -> CallRecord]
    BY <1>2, <1>3
  <2>3. cache \in [Sectors -> Sector \cup {NoContent}]
    BY DEF Init
  <2>4. medium \in [Sectors -> Sector] /\ latest \in [Sectors -> Sector]
    BY <1>6, <1>7 DEF Init
  <2> QED BY <1>1, <1>4, <1>5, <2>1, <2>2, <2>3, <2>4 DEF Init, Types
<1>9. \A c \in Callers : ~Active(c)
  BY <1>2, <1>3 DEF Active
<1>10. OneCaller /\ Alone
  BY <1>9 DEF OneCaller, Alone, Active
<1>11. Boots
  BY <1>2, <1>5, <1>10 DEF Boots
<1>12. CacheKnown /\ WriteSurvives
  BY <1>7 DEF Init, CacheKnown, Dirty, WriteSurvives
<1> QED BY <1>8, <1>9, <1>10, <1>11, <1>12 DEF IInv

\* A caller in the driver is alone there, boot is over, and what it has done is
\* what Progress says.  Past the selection it talks to an ATA drive.
LEMMA ActiveCaller ==
  ASSUME Machines, IInv, NEW c \in Callers, Active(c)
  PROVE  /\ boot.pc = "done" /\ Progress(c) /\ call[c] \in CallRecord
         /\ \A d \in Callers : d # c => ~Active(d)
         /\ setup \in Setup
         /\ setup.lag => setup.ops \subseteq {"read"} /\ setup.faults = {}
         /\ call[c].pc # "return" => ide_drive_sel \in Drives
         /\ regs.drive = ide_drive_sel => Kind = "ata" /\ Status = dev.status
<1>1. ~Alone
  BY DEF Active, Alone
<1>2. boot.pc = "done"
  BY <1>1 DEF IInv, Boots, Types
<1>3. Progress(c) /\ \A d \in Callers : d # c => ~Active(d)
  BY DEF IInv, OneCaller
<1>4. call[c] \in CallRecord
  BY DEF IInv, Types
<1>5. setup \in Setup /\ (setup.lag => setup.ops \subseteq {"read"} /\ setup.faults = {})
  BY IdeAssumption DEF IInv, Types, Machines
<1>6. call[c].pc # "return" => ide_drive_sel \in Drives
  BY <1>3 DEF IInv, Types, Progress
<1>7. regs.drive = ide_drive_sel => Kind = "ata" /\ Status = dev.status
  <2> SUFFICES ASSUME regs.drive = ide_drive_sel PROVE Kind = "ata" /\ Status = dev.status
    OBVIOUS
  <2>1. ide_drive_sel # "none"
    BY DEF IInv, Types, Drives
  <2>2. Kind = "ata"
    BY <2>1 DEF IInv, Boots, Kind
  <2> QED BY <2>2 DEF Status
<1> QED BY <1>2, <1>3, <1>4, <1>5, <1>6, <1>7

\* What is left to show of a step by the caller in the driver: the types of what
\* changed, that it is where Progress says, and what the sectors hold.
LEMMA CallerStep ==
  ASSUME IInv, NEW c \in Callers, Active(c), boot.pc = "done",
         UNCHANGED <<setup, boot, ide_drive_sel>>,
         \A d \in Callers : d # c => call'[d] = call[d] /\ ~Active(d),
         call' \in [Callers -> CallRecord],
         regs' \in [drive : Drives, lba : [0..3 -> Nat]],
         dev' \in DevRecord,
         cache' = cache /\ medium' = medium /\ refused' = refused,
         latest' \in [Sectors -> Sector] /\ unsure' \subseteq Sectors /\ calls' \in Nat,
         Active(c)' => Progress(c)',
         ~Active(c)' => Rest',
         CacheKnown' /\ WriteSurvives'
  PROVE  IInv'
<1>1. Types'
  BY DEF IInv, Types
<1>2. \A d \in Callers : d # c => ~Active(d)'
  BY DEF Active
<1>3. OneCaller' /\ \A d \in Callers : Active(d)' => Progress(d)'
  BY <1>2 DEF OneCaller
<1>4. Boots'
  <2>1. ide_drive_sel' # "none" => setup'.kind[ide_drive_sel'] = "ata"
    BY DEF IInv, Boots
  <2>2. Alone' => Rest'
    BY DEF Alone, Active
  <2>3. boot'.pc = "done"
    OBVIOUS
  <2> QED BY <2>1, <2>2, <2>3 DEF Boots
<1> QED BY <1>1, <1>3, <1>4 DEF IInv

\* The same for a step that leaves the history alone as well.
LEMMA QuietStep ==
  ASSUME IInv, NEW c \in Callers, Active(c), boot.pc = "done",
         UNCHANGED <<setup, boot, ide_drive_sel, cache, medium, refused, history>>,
         NEW r \in CallRecord, call' = [call EXCEPT ![c] = r],
         \A d \in Callers : d # c => ~Active(d),
         regs' \in [drive : Drives, lba : [0..3 -> Nat]],
         dev' \in DevRecord,
         Progress(c)', r.pc # "idle"
  PROVE  IInv'
<1>1. /\ latest' = latest /\ unsure' = unsure /\ calls' = calls
      /\ cache' = cache /\ medium' = medium /\ refused' = refused
  BY DEF history
<1>2. CacheKnown' /\ WriteSurvives'
  BY <1>1 DEF IInv, CacheKnown, WriteSurvives, Dirty
<1>3. call' \in [Callers -> CallRecord] /\ call'[c] = r
      /\ \A d \in Callers : d # c => call'[d] = call[d]
  BY DEF IInv, Types
<1>4. Active(c)'
  BY <1>3 DEF Active
<1>5. latest' \in [Sectors -> Sector] /\ unsure' \subseteq Sectors /\ calls' \in Nat
  BY <1>1 DEF IInv, Types
<1> QED BY <1>1, <1>2, <1>3, <1>4, <1>5, CallerStep

\* The drive and the top of the address.
LEMMA SelectStep ==
  ASSUME Machines, IInv, NEW c \in Callers, ide_select_drive(c)
  PROVE  IInv'
<1> DEFINE l == call[c].lba
           r == [call[c] EXCEPT !.pc = "address"]
<1>1. call[c].pc = "select" /\ Active(c)
  BY DEF ide_select_drive, At, Active
<1>2. /\ boot.pc = "done" /\ Progress(c) /\ call[c] \in CallRecord
      /\ \A d \in Callers : d # c => ~Active(d)
      /\ ide_drive_sel \in Drives
  BY <1>1, ActiveCaller
<1>3. l \in Sectors /\ Digit(l, 3) \in Nat
  BY <1>2, DigitsName DEF CallRecord
<1>4. regs \in [drive : Drives, lba : [0..3 -> Nat]] /\ dev \in DevRecord
      /\ call \in [Callers -> CallRecord]
  BY DEF IInv, Types
<1>5. /\ call' = [call EXCEPT ![c] = r] /\ UNCHANGED <<setup, boot, ide_drive_sel>>
      /\ regs' = [drive |-> ide_drive_sel, lba |-> [regs.lba EXCEPT ![3] = Digit(l, 3)]]
      /\ UNCHANGED <<dev, cache, medium, refused, history>>
  BY DEF ide_select_drive, Goto
<1>6. /\ r \in CallRecord /\ r.pc = "address" /\ r.op = call[c].op /\ r.lba = l
      /\ r.data = call[c].data /\ r.k = call[c].k /\ r.ok = call[c].ok
  BY <1>2 DEF CallRecord, Points
<1> HIDE DEF r
<1>7. /\ regs' \in [drive : Drives, lba : [0..3 -> Nat]] /\ regs'.drive = ide_drive_sel
      /\ regs'.lba[3] = Digit(l, 3)
  BY <1>2, <1>3, <1>4, <1>5
<1>8. call'[c] = r
  BY <1>4, <1>5
<1>9. Rest'
  BY <1>1, <1>2, <1>5 DEF Progress, Rest
<1>10. Progress(c)'
  BY <1>1, <1>2, <1>5, <1>6, <1>7, <1>8, <1>9 DEF Progress, history
<1> QED BY <1>1, <1>2, <1>4, <1>5, <1>6, <1>7, <1>10, QuietStep

\* One more of the three low registers.
LEMMA AddressStep ==
  ASSUME Machines, IInv, NEW c \in Callers, SetAddress(c)
  PROVE  IInv'
<1> DEFINE l == call[c].lba
           k == call[c].k
           r == [pc |-> IF k = 2 THEN "command" ELSE "address", op |-> call[c].op,
                 lba |-> l, data |-> call[c].data, k |-> IF k = 2 THEN 0 ELSE k + 1,
                 ok |-> call[c].ok]
<1>1. call[c].pc = "address" /\ Active(c)
  BY DEF SetAddress, At, Active
<1>2. /\ boot.pc = "done" /\ Progress(c) /\ call[c] \in CallRecord
      /\ \A d \in Callers : d # c => ~Active(d)
      /\ ide_drive_sel \in Drives
  BY <1>1, ActiveCaller
<1>3. /\ k \in 0..2 /\ regs.drive = ide_drive_sel /\ regs.lba[3] = Digit(l, 3)
      /\ \A i \in 0..2 : i < k => regs.lba[i] = Digit(l, i)
  BY <1>1, <1>2 DEF Progress
<1>4. l \in Sectors /\ Digit(l, k) \in Nat
  BY <1>2, <1>3, DigitsName DEF CallRecord
<1>5. regs \in [drive : Drives, lba : [0..3 -> Nat]] /\ dev \in DevRecord
      /\ call \in [Callers -> CallRecord]
  BY DEF IInv, Types
<1>6. /\ call' = [call EXCEPT ![c] = r] /\ UNCHANGED <<setup, boot, ide_drive_sel>>
      /\ regs' = [drive |-> regs.drive, lba |-> [regs.lba EXCEPT ![k] = Digit(l, k)]]
      /\ UNCHANGED <<dev, cache, medium, refused, history>>
  BY DEF SetAddress
<1>7. /\ r \in CallRecord /\ r.pc = (IF k = 2 THEN "command" ELSE "address")
      /\ r.op = call[c].op /\ r.lba = l /\ r.data = call[c].data
      /\ r.k = (IF k = 2 THEN 0 ELSE k + 1) /\ r.ok = call[c].ok
  BY <1>2, <1>3 DEF CallRecord, Points
<1> HIDE DEF r
<1>8. /\ regs' \in [drive : Drives, lba : [0..3 -> Nat]] /\ regs'.drive = ide_drive_sel
      /\ \A i \in 0..3 : regs'.lba[i] = IF i = k THEN Digit(l, k) ELSE regs.lba[i]
  BY <1>3, <1>4, <1>5, <1>6
<1>9. /\ regs'.lba[3] = Digit(l, 3)
      /\ \A i \in 0..2 : i <= k => regs'.lba[i] = Digit(l, i)
  <2> HIDE DEF k, l
  <2> QED BY <1>3, <1>8
<1>10. call'[c] = r
  BY <1>5, <1>6
<1>11. Rest'
  BY <1>1, <1>2, <1>6 DEF Progress, Rest
<1>12. k = 2 => Named(c)'
  <2>1. k = 2 => \A i \in 0..3 : regs'.lba[i] = Digit(l, i)
    BY <1>9
  <2> QED BY <2>1, <1>6, <1>7, <1>8, <1>10 DEF Named
<1>13. k # 2 => /\ r.k \in 0..2 /\ \A i \in 0..2 : i < r.k => regs'.lba[i] = Digit(l, i)
  BY <1>3, <1>7, <1>9
<1>14. Progress(c)'
  <2>1. CASE k = 2
    BY <2>1, <1>1, <1>2, <1>6, <1>7, <1>10, <1>11, <1>12 DEF Progress, history
  <2>2. CASE k # 2
    BY <2>2, <1>1, <1>2, <1>6, <1>7, <1>8, <1>9, <1>10, <1>11, <1>13 DEF Progress, history
  <2> QED BY <2>1, <2>2
<1> QED BY <1>1, <1>2, <1>5, <1>6, <1>7, <1>8, <1>14, QuietStep

\* A drive at rest takes a command for the sector in its registers.
LEMMA Taken ==
  ASSUME Machines, IInv, NEW c \in Callers, Active(c), Rest, Named(c),
         call[c].pc # "return",
         NEW cmd \in {"read", "write", "flush"}
  PROVE  /\ Take(cmd) \in DevRecord
         /\ Take(cmd).cmd = cmd /\ Take(cmd).lba = call[c].lba /\ Take(cmd).k = 0
         /\ IF setup.lag THEN ~Take(cmd).seen /\ Take(cmd).status = {"DRDY"}
                         ELSE Take(cmd).seen /\ Take(cmd).status = {"BSY", "DRDY"}
<1>1. /\ Kind = "ata" /\ ide_drive_sel \in Drives /\ call[c] \in CallRecord
  BY ActiveCaller DEF Named
<1>2. call[c].lba \in Sectors
  BY <1>1 DEF CallRecord
<1>3. Address(regs.lba) = call[c].lba
  <2>1. /\ regs.lba[0] = Digit(call[c].lba, 0) /\ regs.lba[1] = Digit(call[c].lba, 1)
        /\ regs.lba[2] = Digit(call[c].lba, 2) /\ regs.lba[3] = Digit(call[c].lba, 3)
    BY DEF Named
  <2> QED BY <2>1, <1>2, DigitsName DEF Address
<1>4. setup.lag \in BOOLEAN /\ dev \in DevRecord
  BY IdeAssumption DEF IInv, Types, Setup
<1>5. setup.lag => dev.status = {"DRDY"}
  BY <1>1 DEF Rest, Drives
<1>6. Take(cmd) = [status |-> IF setup.lag THEN dev.status ELSE {"BSY", "DRDY"},
                   cmd |-> cmd, lba |-> call[c].lba, k |-> 0,
                   buf |-> NoContent, seen |-> ~setup.lag]
  BY <1>1, <1>3 DEF Take, Rest
<1>7. CASE setup.lag
  <2>1. Take(cmd) = [status |-> {"DRDY"}, cmd |-> cmd, lba |-> call[c].lba, k |-> 0,
                     buf |-> NoContent, seen |-> FALSE]
    BY <1>5, <1>6, <1>7
  <2> QED BY <2>1, <1>2, <1>7, SectorFacts DEF DevRecord
<1>8. CASE ~setup.lag
  <2>1. Take(cmd) = [status |-> {"BSY", "DRDY"}, cmd |-> cmd, lba |-> call[c].lba, k |-> 0,
                     buf |-> NoContent, seen |-> TRUE]
    BY <1>6, <1>8
  <2> QED BY <2>1, <1>2, <1>8, SectorFacts DEF DevRecord
<1> QED BY <1>7, <1>8

LEMMA CommandStep ==
  ASSUME Machines, IInv, NEW c \in Callers, Command(c)
  PROVE  IInv'
<1> DEFINE r == [call[c] EXCEPT !.pc = "drq"]
<1>1. call[c].pc = "command" /\ Active(c)
  BY DEF Command, At, Active
<1>2. /\ boot.pc = "done" /\ Progress(c) /\ call[c] \in CallRecord
      /\ \A d \in Callers : d # c => ~Active(d)
      /\ ide_drive_sel \in Drives
  BY <1>1, ActiveCaller
<1>3. Rest /\ Named(c) /\ call[c].op \in {"read", "write"} /\ call[c].k = 0
  BY <1>1, <1>2 DEF Progress
<1>4. regs \in [drive : Drives, lba : [0..3 -> Nat]] /\ call \in [Callers -> CallRecord]
  BY DEF IInv, Types
<1>5. /\ call' = [call EXCEPT ![c] = r] /\ UNCHANGED <<setup, boot, ide_drive_sel>>
      /\ dev' = Take(call[c].op)
      /\ UNCHANGED <<regs, cache, medium, refused, history>>
  BY DEF Command, Goto, Send
<1>6. /\ r \in CallRecord /\ r.pc = "drq" /\ r.op = call[c].op /\ r.lba = call[c].lba
      /\ r.data = call[c].data /\ r.k = call[c].k /\ r.ok = call[c].ok
  BY <1>2 DEF CallRecord, Points
<1> HIDE DEF r
<1>7. /\ dev' \in DevRecord /\ dev'.cmd = call[c].op /\ dev'.lba = call[c].lba /\ dev'.k = 0
      /\ IF setup.lag THEN ~dev'.seen /\ dev'.status = {"DRDY"}
                      ELSE dev'.seen /\ dev'.status = {"BSY", "DRDY"}
  BY <1>1, <1>3, <1>5, Taken
<1>8. call'[c] = r
  BY <1>4, <1>5
<1>9. Asked(c)' /\ Named(c)'
  BY <1>1, <1>2, <1>3, <1>5, <1>6, <1>7, <1>8 DEF Asked, Named, Busy, Progress
<1>10. Progress(c)'
  BY <1>1, <1>2, <1>5, <1>6, <1>8, <1>9 DEF Progress, history
<1> QED BY <1>1, <1>2, <1>4, <1>5, <1>6, <1>7, <1>10, QuietStep

\* A poll of the status register that ends changes nothing but where the caller
\* is; what it says of the drive is left to show.
LEMMA PollStep ==
  ASSUME Machines, IInv, NEW c \in Callers, Active(c),
         NEW pc \in Points, pc # "idle", Goto(c, pc), DriveKept, UNCHANGED history,
         ASSUME call'[c].pc = pc, call'[c].op = call[c].op, call'[c].lba = call[c].lba,
                call'[c].data = call[c].data, call'[c].k = call[c].k,
                call'[c].ok = call[c].ok
         PROVE  Progress(c)'
  PROVE  IInv'
<1> DEFINE r == [call[c] EXCEPT !.pc = pc]
<1>1. /\ boot.pc = "done" /\ call[c] \in CallRecord
      /\ \A d \in Callers : d # c => ~Active(d)
  BY ActiveCaller
<1>2. /\ regs \in [drive : Drives, lba : [0..3 -> Nat]] /\ dev \in DevRecord
      /\ call \in [Callers -> CallRecord]
  BY DEF IInv, Types
<1>3. /\ call' = [call EXCEPT ![c] = r]
      /\ UNCHANGED <<setup, boot, ide_drive_sel, cache, medium, refused, history>>
      /\ regs' = regs /\ dev' = dev
  BY DEF Goto, DriveKept
<1>4. /\ r \in CallRecord /\ r.pc = pc /\ r.op = call[c].op /\ r.lba = call[c].lba
      /\ r.data = call[c].data /\ r.k = call[c].k /\ r.ok = call[c].ok
  BY <1>1 DEF CallRecord
<1> HIDE DEF r
<1>5. call'[c] = r
  BY <1>2, <1>3
<1>6. Progress(c)'
  BY <1>4, <1>5
<1> QED BY <1>1, <1>2, <1>3, <1>4, <1>6, QuietStep

\* ide_wait_drq is left with data or with an error, never while the drive is busy.
LEMMA WaitDrqStep ==
  ASSUME Machines, IInv, NEW c \in Callers, ide_wait_drq(c)
  PROVE  IInv'
<1> DEFINE pc == IF "ERR" \in Status THEN "return" ELSE "data"
<1>1. call[c].pc = "drq" /\ Active(c)
  BY DEF ide_wait_drq, At, Active
<1>2. /\ Progress(c) /\ call[c] \in CallRecord /\ setup \in Setup
      /\ setup.lag => setup.ops \subseteq {"read"} /\ setup.faults = {}
  BY <1>1, ActiveCaller
<1>3. Asked(c) /\ Named(c)
  BY <1>1, <1>2 DEF Progress
<1>4. Status = dev.status
  BY <1>1, <1>3, ActiveCaller DEF Named
<1>5. Goto(c, pc) /\ DriveKept /\ UNCHANGED history
      /\ dev.status \cap {"DRQ", "ERR"} # {}
  BY <1>4 DEF ide_wait_drq
<1>6. /\ UNCHANGED <<setup, boot, ide_drive_sel, regs, dev, cache, medium, refused, unsure>>
  BY <1>5 DEF Goto, DriveKept, history
<1>7. ASSUME call'[c].pc = pc, call'[c].op = call[c].op, call'[c].lba = call[c].lba,
             call'[c].data = call[c].data, call'[c].k = call[c].k,
             call'[c].ok = call[c].ok
      PROVE  Progress(c)'
  <2>1. CASE "ERR" \in dev.status
    <3>1. dev.seen /\ dev.status = {"DRDY", "ERR"} /\ ~setup.lag
      BY <2>1, <1>3 DEF Asked, Busy, HasData
    <3>2. Rest' /\ call'[c].pc = "return"
      BY <3>1, <2>1, <1>4, <1>6, <1>7 DEF Rest
    <3>3. ~call[c].ok
      BY <1>1, <1>2 DEF Progress
    <3> QED BY <3>2, <3>3, <1>1, <1>2, <1>6, <1>7 DEF Progress
  <2>2. CASE "ERR" \notin dev.status
    <3>1. HasData /\ dev.buf = IF call[c].op = "read" THEN Current(call[c].lba) ELSE NoContent
      BY <2>2, <1>3, <1>5 DEF Asked, Busy, HasData
    <3>2. call'[c].pc = "data" /\ Current(call[c].lba)' = Current(call[c].lba)
      BY <2>2, <1>4, <1>6, <1>7 DEF Current
    <3>3. Moving(c)'
      BY <3>1, <3>2, <1>3, <1>6, <1>7, SectorFacts DEF Moving, Asked, HasData, NoContent
    <3>4. Named(c)'
      BY <1>3, <1>6, <1>7 DEF Named
    <3> QED BY <3>2, <3>3, <3>4, <1>1, <1>2, <1>6, <1>7 DEF Progress
  <2> QED BY <2>1, <2>2
<1>8. pc \in Points /\ pc # "idle"
  BY DEF Points
<1> HIDE DEF pc
<1> QED BY <1>1, <1>5, <1>7, <1>8, PollStep

\* A sequence one longer agrees with another one where it did before and at the
\* new place.
LEMMA OneMore ==
  ASSUME NEW S, NEW s \in Seq(S), NEW t \in Seq(S), NEW k \in Nat, Len(s) = k, k < Len(t),
         \A i \in 1..k : s[i] = t[i]
  PROVE  /\ t[k+1] \in S /\ Append(s, t[k+1]) \in Seq(S) /\ Len(Append(s, t[k+1])) = k + 1
         /\ \A i \in 1..(k+1) : Append(s, t[k+1])[i] = t[i]
         /\ k + 1 = Len(t) => Append(s, t[k+1]) = t
<1>1. t[k+1] \in S
  OBVIOUS
<1> DEFINE u == Append(s, t[k+1])
<1>2. u \in Seq(S) /\ Len(u) = k + 1 /\ u[k+1] = t[k+1] /\ \A i \in 1..k : u[i] = s[i]
  BY <1>1
<1> HIDE DEF u
<1>3. \A i \in 1..(k+1) : u[i] = t[i]
  <2>1. \A i \in 1..(k+1) : i = k + 1 \/ i \in 1..k
    OBVIOUS
  <2> QED BY <2>1, <1>2
<1>4. k + 1 = Len(t) => u = t
  BY <1>2, <1>3
<1> QED BY <1>1, <1>2, <1>3, <1>4 DEF u

\* A word read is the next one of the sector, until the sector is complete.
LEMMA ReadWordStep ==
  ASSUME Machines, IInv, NEW c \in Callers, MoveWord(c), call[c].op = "read"
  PROVE  IInv'
<1> DEFINE l == call[c].lba
           k == call[c].k
           data == call[c].data
           last == k + 1 = Words
           more == Append(data, Word)
           r == [pc |-> IF ~last THEN "data" ELSE "return", op |-> "read", lba |-> l,
                 data |-> more, k |-> k + 1, ok |-> last]
<1>1. call[c].pc = "data" /\ Active(c)
  BY DEF MoveWord, At, Active
<1>2. /\ boot.pc = "done" /\ Progress(c) /\ call[c] \in CallRecord
      /\ \A d \in Callers : d # c => ~Active(d)
      /\ ide_drive_sel \in Drives
  BY <1>1, ActiveCaller
<1>3. /\ dev.cmd = "read" /\ dev.lba = l /\ dev.k = k /\ k < Words /\ HasData
      /\ dev.buf = Current(l) /\ Len(data) = k /\ \A i \in 1..k : data[i] = dev.buf[i]
  BY <1>1, <1>2 DEF Progress, Moving
<1>4. /\ regs \in [drive : Drives, lba : [0..3 -> Nat]] /\ dev \in DevRecord
      /\ call \in [Callers -> CallRecord]
  BY DEF IInv, Types
<1>5. l \in Sectors /\ k \in Nat /\ data \in Seq(AnyWord) /\ Words \in Nat
      /\ dev.buf \in Seq(AnyWord) /\ Len(dev.buf) = Words
  BY <1>2, <1>3, CurrentIsSector, SectorFacts DEF CallRecord, IInv
<1>6. HasWord /\ Word = dev.buf[k + 1]
  BY <1>3, <1>5 DEF HasWord, HasData, Word
<1>7. /\ more \in Seq(AnyWord) /\ Len(more) = k + 1
      /\ \A i \in 1..(k+1) : more[i] = dev.buf[i]
      /\ last => more = dev.buf
  BY <1>3, <1>5, <1>6, OneMore
<1>8. /\ call' = [call EXCEPT ![c] = r] /\ dev' = AfterRead
      /\ UNCHANGED <<setup, boot, ide_drive_sel, regs, cache, medium, refused, history>>
  BY DEF MoveWord
<1> HIDE DEF more
<1>9. /\ r \in CallRecord /\ r.pc = (IF last THEN "return" ELSE "data") /\ r.op = "read"
      /\ r.lba = l /\ r.data = more /\ r.k = k + 1 /\ r.ok = last
  BY <1>5, <1>7 DEF CallRecord, Points
<1> HIDE DEF r
<1>10. call'[c] = r
  BY <1>4, <1>8
<1>11. /\ dev' \in DevRecord /\ dev'.cmd = "read" /\ dev'.lba = l /\ dev'.k = k + 1
       /\ dev'.buf = dev.buf /\ dev'.seen
       /\ dev'.status = IF last THEN {"DRDY"} ELSE {"DRDY", "DRQ"}
  <2>1. dev.status \ {"DRQ"} = {"DRDY"} /\ dev.status = {"DRDY", "DRQ"} /\ dev.seen
    BY <1>3 DEF HasData
  <2>2. dev' = [status |-> IF last THEN {"DRDY"} ELSE {"DRDY", "DRQ"}, cmd |-> dev.cmd,
                lba |-> dev.lba, k |-> dev.k + 1, buf |-> dev.buf, seen |-> dev.seen]
    BY <2>1, <1>3, <1>6, <1>8 DEF AfterRead
  <2> QED BY <2>1, <2>2, <1>3, <1>4, <1>5 DEF DevRecord
<1>12. Current(call[c].lba)' = Current(l)
  BY <1>8, <1>9, <1>10 DEF Current
<1>13. Progress(c)'
  <2>1. CASE last
    <3>1. Rest'
      BY <2>1, <1>11 DEF Rest
    <3>2. call'[c].pc = "return" /\ call'[c].op = "read" /\ call'[c].data = Current(call[c].lba)'
      BY <2>1, <1>3, <1>7, <1>9, <1>10, <1>12
    <3>3. "read" \in setup'.ops /\ ide_drive_sel' # "none"
      BY <1>2, <1>8 DEF Progress, Drives
    <3> QED BY <3>1, <3>2, <3>3 DEF Progress
  <2>2. CASE ~last
    <3>1. Moving(c)'
      <4>1. k + 1 < Words
        BY <2>2, <1>3, <1>5
      <4>2. HasData'
        BY <2>2, <1>11 DEF HasData
      <4>3. dev'.buf = Current(call[c].lba)' /\ Len(call'[c].data) = call'[c].k
            /\ \A i \in 1..call'[c].k : call'[c].data[i] = dev'.buf[i]
        BY <1>3, <1>7, <1>9, <1>10, <1>11, <1>12
      <4> QED BY <4>1, <4>2, <4>3, <1>9, <1>10, <1>11 DEF Moving
    <3>2. Named(c)'
      BY <1>1, <1>2, <1>8, <1>9, <1>10 DEF Progress, Named
    <3>3. "read" \in setup'.ops /\ ide_drive_sel' # "none"
      BY <1>2, <1>8 DEF Progress, Drives
    <3> QED BY <3>1, <3>2, <3>3, <2>2, <1>9, <1>10 DEF Progress
  <2> QED BY <2>1, <2>2
<1>14. r.pc # "idle"
  BY <1>9
<1> QED BY <1>1, <1>2, <1>4, <1>8, <1>9, <1>11, <1>13, <1>14, QuietStep

\* A word written is the next one of the caller's buffer; with the last one the
\* drive has the buffer and goes to work.
LEMMA WriteWordStep ==
  ASSUME Machines, IInv, NEW c \in Callers, MoveWord(c), call[c].op # "read"
  PROVE  IInv'
<1> DEFINE l == call[c].lba
           k == call[c].k
           data == call[c].data
           last == k + 1 = Words
           more == Append(dev.buf, data[k + 1])
           r == [pc |-> IF ~last THEN "data" ELSE "written", op |-> "write", lba |-> l,
                 data |-> data, k |-> k + 1, ok |-> FALSE]
<1>1. call[c].pc = "data" /\ Active(c)
  BY DEF MoveWord, At, Active
<1>2. /\ boot.pc = "done" /\ Progress(c) /\ call[c] \in CallRecord
      /\ \A d \in Callers : d # c => ~Active(d)
      /\ setup.lag => setup.ops \subseteq {"read"}
      /\ setup.lag \in BOOLEAN
      /\ ide_drive_sel \in Drives
  BY <1>1, ActiveCaller DEF Setup
<1>3. call[c].op = "write" /\ ~setup.lag /\ Len(data) = Words /\ l \in unsure
  BY <1>2 DEF Progress, Drives
<1>4. /\ dev.cmd = "write" /\ dev.lba = l /\ dev.k = k /\ k < Words /\ HasData
      /\ Len(dev.buf) = k /\ \A i \in 1..k : dev.buf[i] = data[i]
  BY <1>1, <1>2, <1>3 DEF Progress, Moving
<1>5. /\ regs \in [drive : Drives, lba : [0..3 -> Nat]] /\ dev \in DevRecord
      /\ call \in [Callers -> CallRecord]
  BY DEF IInv, Types
<1>6. l \in Sectors /\ k \in Nat /\ data \in Seq(AnyWord) /\ Words \in Nat
      /\ dev.buf \in Seq(AnyWord)
  BY <1>2, <1>5, SectorFacts DEF CallRecord, DevRecord
<1>7. /\ more \in Seq(AnyWord) /\ Len(more) = k + 1
      /\ \A i \in 1..(k+1) : more[i] = data[i]
      /\ last => more = data
  <2>1. dev.buf \in Seq(AnyWord) /\ data \in Seq(AnyWord) /\ k \in Nat
        /\ Len(dev.buf) = k /\ k < Len(data) /\ Len(data) = Words
    BY <1>3, <1>4, <1>6
  <2>2. \A i \in 1..k : dev.buf[i] = data[i]
    BY <1>4
  <2> HIDE DEF data, k
  <2> QED BY <2>1, <2>2, OneMore
<1>8. /\ call' = [call EXCEPT ![c] = r] /\ dev' = AfterWrite(data[k + 1])
      /\ UNCHANGED <<setup, boot, ide_drive_sel, regs, cache, medium, refused, history>>
  BY <1>3 DEF MoveWord
<1>9. /\ r \in CallRecord /\ r.pc = (IF last THEN "written" ELSE "data") /\ r.op = "write"
      /\ r.lba = l /\ r.data = data /\ r.k = k + 1 /\ ~r.ok
  BY <1>6 DEF CallRecord, Points
<1> HIDE DEF r
<1>10. call'[c] = r
  BY <1>5, <1>8
<1>11. /\ dev' \in DevRecord /\ dev'.cmd = "write" /\ dev'.lba = l /\ dev'.k = k + 1
       /\ dev'.buf = more /\ dev'.seen
       /\ dev'.status = IF last THEN {"BSY", "DRDY"} ELSE {"DRDY", "DRQ"}
  <2>1. dev.status = {"DRDY", "DRQ"} /\ k + 1 < Words <=> ~last
    BY <1>4, <1>6 DEF HasData
  <2>2. dev' = [status |-> IF last THEN {"BSY", "DRDY"} ELSE {"DRDY", "DRQ"},
                cmd |-> "write", lba |-> l, k |-> k + 1, buf |-> more, seen |-> TRUE]
    <3>1. "DRQ" \in dev.status /\ dev.cmd = "write" /\ dev.k = k /\ dev.lba = l
      BY <1>4 DEF HasData
    <3>2. CASE last
      <4>1. ~ (k + 1 < Words)
        BY <3>2, <1>6
      <4> QED BY <4>1, <3>1, <3>2, <1>3, <1>8 DEF AfterWrite
    <3>3. CASE ~last
      <4>1. k + 1 < Words
        BY <3>3, <1>4, <1>6
      <4> QED BY <4>1, <3>1, <3>3, <1>4, <1>8 DEF AfterWrite, HasData
    <3> QED BY <3>2, <3>3
  <2> HIDE DEF more
  <2> QED BY <2>2, <1>4, <1>5, <1>6, <1>7 DEF DevRecord
<1> HIDE DEF more
<1>12. Progress(c)'
  <2>1. "write" \in setup'.ops /\ ide_drive_sel' # "none" /\ call'[c].lba \in unsure'
    BY <1>2, <1>3, <1>8, <1>9, <1>10 DEF Progress, Drives, history
  <2>2. Named(c)'
    BY <1>1, <1>2, <1>8, <1>9, <1>10 DEF Progress, Named
  <2>3. CASE last
    <3>1. Written(c)'
      BY <2>3, <1>7, <1>9, <1>10, <1>11 DEF Written, Busy
    <3> QED BY <3>1, <2>1, <2>2, <2>3, <1>3, <1>9, <1>10 DEF Progress
  <2>4. CASE ~last
    <3>1. k + 1 < Words
      BY <2>4, <1>4, <1>6
    <3>2. HasData'
      BY <2>4, <1>11 DEF HasData
    <3>3. Moving(c)'
      BY <3>1, <3>2, <1>7, <1>9, <1>10, <1>11 DEF Moving
    <3> QED BY <3>3, <2>1, <2>2, <2>4, <1>3, <1>9, <1>10 DEF Progress
  <2> QED BY <2>3, <2>4
<1>13. r.pc # "idle"
  BY <1>9
<1> QED BY <1>1, <1>2, <1>5, <1>8, <1>9, <1>11, <1>12, <1>13, QuietStep

\* The first wait of a write: the data is in the drive's cache, or refused.
LEMMA WrittenStep ==
  ASSUME Machines, IInv, NEW c \in Callers, ide_wait_ready(c, "written", "flush")
  PROVE  IInv'
<1> DEFINE pc == IF "DRDY" \in Status THEN "flush" ELSE "return"
<1>1. call[c].pc = "written" /\ Active(c)
  BY DEF ide_wait_ready, At, Active
<1>2. Progress(c) /\ call[c] \in CallRecord
  BY <1>1, ActiveCaller
<1>3. Written(c) /\ Named(c) /\ call[c].op = "write" /\ ~call[c].ok
  BY <1>1, <1>2 DEF Progress
<1>4. Status = dev.status
  BY <1>1, <1>3, ActiveCaller DEF Named
<1>5. Goto(c, pc) /\ DriveKept /\ UNCHANGED history /\ "BSY" \notin dev.status
  BY <1>4 DEF ide_wait_ready
<1>6. /\ UNCHANGED <<setup, boot, ide_drive_sel, regs, dev, cache, medium, refused, unsure>>
  BY <1>5 DEF Goto, DriveKept, history
<1>7. Rest /\ InCache(c)
  BY <1>3, <1>5 DEF Written, Busy
<1>8. ASSUME call'[c].pc = pc, call'[c].op = call[c].op, call'[c].lba = call[c].lba,
             call'[c].data = call[c].data, call'[c].k = call[c].k,
             call'[c].ok = call[c].ok
      PROVE  Progress(c)'
  <2>1. Rest' /\ InCache(c)' /\ Named(c)'
    BY <1>3, <1>6, <1>7, <1>8 DEF Rest, InCache, Named
  <2> QED BY <2>1, <1>1, <1>2, <1>3, <1>6, <1>8 DEF Progress
<1>9. pc \in Points /\ pc # "idle"
  BY DEF Points
<1> HIDE DEF pc
<1> QED BY <1>1, <1>5, <1>8, <1>9, PollStep

\* The second one: the data is on the medium, or the drive has reported it lost.
LEMMA FlushedStep ==
  ASSUME Machines, IInv, NEW c \in Callers, ide_wait_ready(c, "flushed", "success")
  PROVE  IInv'
<1> DEFINE pc == IF "DRDY" \in Status THEN "success" ELSE "return"
<1>1. call[c].pc = "flushed" /\ Active(c)
  BY DEF ide_wait_ready, At, Active
<1>2. Progress(c) /\ call[c] \in CallRecord
  BY <1>1, ActiveCaller
<1>3. Flushed(c) /\ Named(c) /\ call[c].op = "write" /\ ~call[c].ok
  BY <1>1, <1>2 DEF Progress
<1>4. Status = dev.status
  BY <1>1, <1>3, ActiveCaller DEF Named
<1>5. Goto(c, pc) /\ DriveKept /\ UNCHANGED history /\ "BSY" \notin dev.status
  BY <1>4 DEF ide_wait_ready
<1>6. /\ UNCHANGED <<setup, boot, ide_drive_sel, regs, dev, cache, medium, refused, unsure>>
  BY <1>5 DEF Goto, DriveKept, history
<1>7. Rest /\ OnMedium(c)
  BY <1>3, <1>5 DEF Flushed, Busy
<1>8. ASSUME call'[c].pc = pc, call'[c].op = call[c].op, call'[c].lba = call[c].lba,
             call'[c].data = call[c].data, call'[c].k = call[c].k,
             call'[c].ok = call[c].ok
      PROVE  Progress(c)'
  <2>1. Rest' /\ OnMedium(c)' /\ Named(c)'
    BY <1>3, <1>6, <1>7, <1>8 DEF Rest, OnMedium, Named
  <2> QED BY <2>1, <1>1, <1>2, <1>3, <1>6, <1>8 DEF Progress
<1>9. pc \in Points /\ pc # "idle"
  BY DEF Points
<1> HIDE DEF pc
<1> QED BY <1>1, <1>5, <1>8, <1>9, PollStep

LEMMA FlushStep ==
  ASSUME Machines, IInv, NEW c \in Callers, CacheFlush(c)
  PROVE  IInv'
<1> DEFINE r == [call[c] EXCEPT !.pc = "flushed"]
<1>1. call[c].pc = "flush" /\ Active(c)
  BY DEF CacheFlush, At, Active
<1>2. /\ boot.pc = "done" /\ Progress(c) /\ call[c] \in CallRecord
      /\ \A d \in Callers : d # c => ~Active(d)
      /\ setup.lag => setup.ops \subseteq {"read"}
      /\ ide_drive_sel \in Drives
  BY <1>1, ActiveCaller
<1>3. Rest /\ Named(c) /\ call[c].op = "write" /\ InCache(c) /\ ~setup.lag
  BY <1>1, <1>2 DEF Progress
<1>4. regs \in [drive : Drives, lba : [0..3 -> Nat]] /\ call \in [Callers -> CallRecord]
  BY DEF IInv, Types
<1>5. /\ call' = [call EXCEPT ![c] = r] /\ UNCHANGED <<setup, boot, ide_drive_sel>>
      /\ dev' = Take("flush")
      /\ UNCHANGED <<regs, cache, medium, refused, history>>
  BY DEF CacheFlush, Goto, Send
<1>6. /\ r \in CallRecord /\ r.pc = "flushed" /\ r.op = call[c].op /\ r.lba = call[c].lba
      /\ r.data = call[c].data /\ r.k = call[c].k /\ r.ok = call[c].ok
  BY <1>2 DEF CallRecord, Points
<1> HIDE DEF r
<1>7. /\ dev' \in DevRecord /\ dev'.cmd = "flush"
      /\ dev'.seen /\ dev'.status = {"BSY", "DRDY"}
  BY <1>1, <1>3, <1>5, Taken
<1>8. call'[c] = r
  BY <1>4, <1>5
<1>9. Flushed(c)' /\ Named(c)'
  BY <1>3, <1>5, <1>6, <1>7, <1>8 DEF Flushed, InCache, Named, Busy
<1>10. Progress(c)'
  BY <1>1, <1>2, <1>5, <1>6, <1>8, <1>9 DEF Progress, history
<1> QED BY <1>1, <1>2, <1>4, <1>5, <1>6, <1>7, <1>10, QuietStep

LEMMA SuccessStep ==
  ASSUME Machines, IInv, NEW c \in Callers, Success(c)
  PROVE  IInv'
<1> DEFINE r == [pc |-> "return", op |-> call[c].op, lba |-> call[c].lba,
                 data |-> call[c].data, k |-> call[c].k, ok |-> TRUE]
<1>1. call[c].pc = "success" /\ Active(c)
  BY DEF Success, At, Active
<1>2. /\ boot.pc = "done" /\ Progress(c) /\ call[c] \in CallRecord
      /\ \A d \in Callers : d # c => ~Active(d)
      /\ ide_drive_sel \in Drives
  BY <1>1, ActiveCaller
<1>3. Rest /\ call[c].op = "write" /\ OnMedium(c)
  BY <1>1, <1>2 DEF Progress
<1>4. /\ regs \in [drive : Drives, lba : [0..3 -> Nat]] /\ dev \in DevRecord
      /\ call \in [Callers -> CallRecord]
  BY DEF IInv, Types
<1>5. /\ call' = [call EXCEPT ![c] = r]
      /\ UNCHANGED <<setup, boot, ide_drive_sel, cache, medium, refused, history>>
      /\ regs' = regs /\ dev' = dev
  BY DEF Success, DriveKept
<1>6. /\ r \in CallRecord /\ r.pc = "return" /\ r.op = call[c].op /\ r.lba = call[c].lba
      /\ r.data = call[c].data /\ r.k = call[c].k /\ r.ok
  BY <1>2 DEF CallRecord, Points
<1> HIDE DEF r
<1>7. call'[c] = r
  BY <1>4, <1>5
<1>8. Rest' /\ OnMedium(c)'
  BY <1>3, <1>5, <1>6, <1>7 DEF Rest, OnMedium
<1>9. Progress(c)'
  BY <1>1, <1>2, <1>3, <1>5, <1>6, <1>7, <1>8 DEF Progress, history, Drives
<1> QED BY <1>1, <1>2, <1>4, <1>5, <1>6, <1>9, QuietStep

\* The history follows what the caller is told.
LEMMA ReturnStep ==
  ASSUME Machines, IInv, NEW c \in Callers, Return(c)
  PROVE  IInv'
<1> DEFINE l == call[c].lba
           written == call[c].ok /\ call[c].op = "write"
<1>1. call[c].pc = "return" /\ Active(c)
  BY DEF Return, At, Active
<1>2. /\ boot.pc = "done" /\ Progress(c) /\ call[c] \in CallRecord
      /\ \A d \in Callers : d # c => ~Active(d)
  BY <1>1, ActiveCaller
<1>3. /\ regs \in [drive : Drives, lba : [0..3 -> Nat]] /\ dev \in DevRecord
      /\ call \in [Callers -> CallRecord] /\ latest \in [Sectors -> Sector]
      /\ unsure \subseteq Sectors /\ calls \in Nat
  BY DEF IInv, Types
<1>4. /\ call' = [call EXCEPT ![c] = Idle]
      /\ latest' = IF written THEN [latest EXCEPT ![l] = call[c].data] ELSE latest
      /\ unsure' = IF written THEN unsure \ {l} ELSE unsure
      /\ regs' = regs /\ dev' = dev /\ cache' = cache /\ medium' = medium
      /\ refused' = refused /\ calls' = calls
      /\ UNCHANGED <<setup, boot, ide_drive_sel>>
  BY DEF Return, DriveKept
<1>5. Idle \in CallRecord /\ Idle.pc = "idle"
  BY ZeroIsSector, SectorFacts DEF Idle, CallRecord, Points
<1>6. /\ call' \in [Callers -> CallRecord] /\ call'[c].pc = "idle"
      /\ \A d \in Callers : d # c => call'[d] = call[d]
  BY <1>3, <1>4, <1>5
<1>7. l \in Sectors /\ call[c].data \in Seq(AnyWord)
  BY <1>2 DEF CallRecord
<1>8. written => call[c].data \in Sector /\ OnMedium(c)
  BY <1>1, <1>2, <1>7 DEF Progress, Sector
<1>9. latest' \in [Sectors -> Sector] /\ unsure' \subseteq Sectors /\ calls' \in Nat
  BY <1>3, <1>4, <1>8
<1>10. Rest'
  <2>1. Rest
    BY <1>1, <1>2 DEF Progress
  <2> QED BY <2>1, <1>4 DEF Rest
<1>11. CacheKnown'
  <2>1. CacheKnown
    BY DEF IInv
  <2>2. written => l \in refused \/ cache[l] = NoContent
    BY <1>8 DEF OnMedium
  <2> QED BY <2>1, <2>2, <1>4 DEF CacheKnown, Dirty
<1>12. WriteSurvives'
  <2>1. WriteSurvives
    BY DEF IInv
  <2>2. written => l \in refused \/ medium[l] = call[c].data
    BY <1>8 DEF OnMedium
  <2>3. CASE written
    BY <2>1, <2>2, <2>3, <1>3, <1>4, <1>7 DEF WriteSurvives
  <2>4. CASE ~written
    BY <2>1, <2>4, <1>4 DEF WriteSurvives
  <2> QED BY <2>3, <2>4
<1>13. ~Active(c)'
  BY <1>6 DEF Active
<1> QED BY <1>1, <1>2, <1>3, <1>4, <1>6, <1>9, <1>10, <1>11, <1>12, <1>13, CallerStep

\* A caller enters a driver that nobody is in, with the drive at rest.
LEMMA CallStep ==
  ASSUME Machines, IInv, NEW c \in Callers, Call(c)
  PROVE  IInv'
<1>1. PICK op \in setup.ops, l \in setup.lbas :
        /\ boot.pc = "done" /\ call[c].pc = "idle" /\ (setup.overlap \/ Alone)
        /\ calls' = calls + 1
        /\ call' = [call EXCEPT ![c] =
             [pc |-> IF ide_drive_sel = "none" THEN "return" ELSE "select", op |-> op, lba |-> l,
              data |-> IF op = "write" THEN Content(<<c, calls>>) ELSE NoContent,
              k |-> 0, ok |-> FALSE]]
        /\ unsure' = IF op = "write" /\ ide_drive_sel # "none" THEN unsure \cup {l} ELSE unsure
        /\ UNCHANGED <<setup, boot, ide_drive_sel, drive, latest>>
  BY DEF Call
<1> DEFINE data == IF op = "write" THEN Content(<<c, calls>>) ELSE NoContent
           r == [pc |-> IF ide_drive_sel = "none" THEN "return" ELSE "select", op |-> op,
                 lba |-> l, data |-> data, k |-> 0, ok |-> FALSE]
<1>2. setup \in Setups /\ setup \in Setup /\ ~setup.overlap /\ setup.lbas \subseteq Sectors
      /\ op \in {"read", "write"}
  BY IdeAssumption DEF IInv, Types, Machines, Setup
<1>3. Alone /\ Rest
  BY <1>1, <1>2 DEF IInv, Boots
<1>4. l \in Sectors /\ data \in Seq(AnyWord) /\ (op = "write" => Len(data) = Words)
  BY <1>2, ContentIsSector, SectorFacts DEF IInv, Types
<1> HIDE DEF data
<1>5. /\ r \in CallRecord /\ r.op = op /\ r.lba = l /\ r.data = data /\ r.k = 0 /\ ~r.ok
      /\ r.pc = IF ide_drive_sel = "none" THEN "return" ELSE "select"
  BY <1>2, <1>4 DEF CallRecord, Points
<1>6. call' = [call EXCEPT ![c] = r]
  BY <1>1 DEF data
<1> HIDE DEF r
<1>7. /\ call' \in [Callers -> CallRecord] /\ call'[c] = r
      /\ \A d \in Callers : d # c => call'[d] = call[d]
  BY <1>5, <1>6 DEF IInv, Types
<1>8. \A d \in Callers : d # c => ~Active(d)'
  BY <1>3, <1>7 DEF Alone, Active
<1>9. /\ UNCHANGED <<setup, boot, ide_drive_sel, regs, dev, cache, medium, refused, latest>>
      /\ unsure' \subseteq Sectors /\ unsure \subseteq unsure' /\ calls' \in Nat
  BY <1>1, <1>4 DEF drive, IInv, Types
<1>10. Types'
  BY <1>7, <1>9 DEF IInv, Types
<1>11. Rest'
  BY <1>3, <1>9 DEF Rest
<1>12. Progress(c)'
  <2>1. ide_drive_sel # "none" /\ op = "write" => l \in unsure'
    BY <1>1
  <2>2. op = "read" => data = NoContent
    BY DEF data
  <2> QED BY <2>1, <2>2, <1>1, <1>2, <1>4, <1>5, <1>7, <1>9, <1>11 DEF Progress
<1>13. OneCaller' /\ \A d \in Callers : Active(d)' => Progress(d)'
  BY <1>8, <1>12 DEF OneCaller
<1>14. Boots'
  BY <1>1, <1>9, <1>11 DEF IInv, Boots
<1>15. CacheKnown' /\ WriteSurvives'
  BY <1>9 DEF IInv, CacheKnown, WriteSurvives, Dirty
<1> QED BY <1>10, <1>13, <1>14, <1>15 DEF IInv

-----------------------------------------------------------------------------
(* The drive, boot and power failures *)

\* A drive that ended its command with some status bits beside DRDY.
LEMMA EndedFields ==
  ASSUME dev \in DevRecord, NEW bits, NEW st, {"DRDY"} \cup bits = st,
         st \subseteq {"DRDY", "DRQ", "ERR"}, NEW b \in Seq(AnyWord), dev' = Ended(bits, b)
  PROVE  /\ dev' \in DevRecord /\ dev'.status = st /\ dev'.buf = b
         /\ dev'.cmd = dev.cmd /\ dev'.lba = dev.lba /\ dev'.k = dev.k
         /\ dev'.seen = dev.seen
<1>1. st \in SUBSET {"BSY", "DRDY", "DRQ", "ERR"}
  OBVIOUS
<1>2. dev' = [status |-> st, cmd |-> dev.cmd, lba |-> dev.lba, k |-> dev.k,
              buf |-> b, seen |-> dev.seen]
  BY DEF Ended
<1> QED BY <1>1, <1>2 DEF DevRecord

\* What is left to show of a step of the drive for the caller it works for.
LEMMA DriveFrame ==
  ASSUME Machines, IInv, NEW c \in Callers, Active(c),
         UNCHANGED <<setup, driver, regs, history>>,
         dev' \in DevRecord, cache' \in [Sectors -> Sector \cup {NoContent}],
         medium' \in [Sectors -> Sector], refused' \subseteq Sectors,
         Progress(c)', CacheKnown', WriteSurvives'
  PROVE  IInv'
<1>1. boot.pc = "done" /\ \A d \in Callers : d # c => ~Active(d)
  BY ActiveCaller
<1>2. UNCHANGED <<setup, boot, ide_drive_sel, call, regs, latest, unsure, calls>>
  BY DEF driver, history
<1>3. Types'
  BY <1>2 DEF IInv, Types
<1>4. \A d \in Callers : Active(d)' <=> d = c
  BY <1>1, <1>2 DEF Active
<1>5. OneCaller' /\ \A d \in Callers : Active(d)' => Progress(d)'
  BY <1>4 DEF OneCaller
<1>6. Boots'
  <2>1. ~Alone' /\ boot'.pc = "done"
    BY <1>1, <1>2 DEF Alone, Active
  <2>2. ide_drive_sel' # "none" => setup'.kind[ide_drive_sel'] = "ata"
    BY <1>2 DEF IInv, Boots
  <2> QED BY <2>1, <2>2 DEF Boots
<1> QED BY <1>3, <1>5, <1>6 DEF IInv

\* The answer to a read, or to the command of a write: data, or an error.
LEMMA AnswerStep ==
  ASSUME Machines, IInv, NEW c \in Callers, Active(c), call[c].pc = "drq",
         DriveStep
  PROVE  IInv'
<1>1. /\ Progress(c) /\ setup \in Setup /\ call[c] \in CallRecord
      /\ setup.lag => setup.faults = {}
  BY ActiveCaller
<1>2. /\ dev \in DevRecord /\ cache \in [Sectors -> Sector \cup {NoContent}]
      /\ medium \in [Sectors -> Sector] /\ refused \subseteq Sectors
  BY DEF IInv, Types
<1>3. dev.seen /\ "BSY" \in dev.status /\ Asked(c) /\ Named(c)
      /\ call[c].op \in {"read", "write"}
  BY <1>1 DEF DriveStep, Progress
<1>4. /\ dev.cmd = call[c].op /\ dev.lba = call[c].lba /\ dev.k = 0 /\ call[c].k = 0
      /\ call[c].op = "read" => call[c].data = NoContent
  BY <1>3 DEF Asked
<1>5. UNCHANGED <<setup, driver, regs, history>> /\ (Fetch \/ Accept)
  <2>1. Words # 0
    BY SectorFacts
  <2> QED BY <2>1, <1>3, <1>4 DEF DriveStep, Identify, Commit, Flush
<1>6. UNCHANGED <<setup, boot, ide_drive_sel, call, regs, latest, unsure, calls>>
  BY <1>5 DEF driver, history
<1>7. CASE dev' = Ended({"ERR"}, NoContent) /\ setup.faults # {} /\ refused' = refused
           /\ UNCHANGED <<cache, medium>>
  <2>1. /\ dev' \in DevRecord /\ dev'.status = {"DRDY", "ERR"} /\ dev'.seen
        /\ dev'.cmd = dev.cmd /\ dev'.lba = dev.lba /\ dev'.k = dev.k
    <3>1. {"DRDY"} \cup {"ERR"} = {"DRDY", "ERR"}
      OBVIOUS
    <3> QED BY <3>1, <1>2, <1>3, <1>7, SectorFacts, EndedFields
  <2>2. Asked(c)' /\ Named(c)'
    BY <2>1, <1>1, <1>3, <1>4, <1>6, <1>7 DEF Asked, Named
  <2>3. Progress(c)'
    BY <2>2, <1>1, <1>6 DEF Progress
  <2>4. CacheKnown' /\ WriteSurvives'
    BY <1>6, <1>7 DEF IInv, CacheKnown, WriteSurvives, Dirty
  <2> QED BY <2>1, <2>3, <2>4, <1>2, <1>5, <1>7, DriveFrame
<1>8. CASE /\ dev' = Ended({"DRQ"}, IF call[c].op = "read" THEN Current(dev.lba) ELSE NoContent)
           /\ UNCHANGED <<cache, medium, refused>>
  <2> DEFINE b == IF call[c].op = "read" THEN Current(dev.lba) ELSE NoContent
  <2>1. b \in Seq(AnyWord)
    <3>1. dev.lba \in Sectors
      BY <1>2 DEF DevRecord
    <3> QED BY <3>1, CurrentIsSector, SectorFacts DEF IInv
  <2> HIDE DEF b
  <2>2. dev' = Ended({"DRQ"}, b)
    BY <1>8 DEF b
  <2>3. /\ dev' \in DevRecord /\ dev'.status = {"DRDY", "DRQ"} /\ dev'.seen /\ dev'.buf = b
        /\ dev'.cmd = dev.cmd /\ dev'.lba = dev.lba /\ dev'.k = dev.k
    <3>1. {"DRDY"} \cup {"DRQ"} = {"DRDY", "DRQ"}
      OBVIOUS
    <3> QED BY <3>1, <2>1, <2>2, <1>2, <1>3, EndedFields
  <2>4. b = IF call'[c].op = "read" THEN Current(call[c].lba)' ELSE NoContent
    BY <1>4, <1>6, <1>8 DEF Current, b
  <2>5. Asked(c)' /\ Named(c)'
    BY <2>3, <2>4, <1>3, <1>4, <1>6 DEF Asked, Named, HasData
  <2>6. Progress(c)'
    BY <2>5, <1>1, <1>6 DEF Progress
  <2>7. CacheKnown' /\ WriteSurvives'
    BY <1>6, <1>8 DEF IInv, CacheKnown, WriteSurvives, Dirty
  <2> QED BY <2>3, <2>6, <2>7, <1>2, <1>5, <1>8, DriveFrame
<1>9. CASE Fetch
  BY <1>4, <1>7, <1>8, <1>9 DEF Fetch, Failed
<1>10. CASE Accept
  BY <1>4, <1>7, <1>8, <1>10 DEF Accept, Failed
<1> QED BY <1>5, <1>9, <1>10

\* The data of a write reaches the cache, or is reported as lost.
LEMMA CommitStep ==
  ASSUME Machines, IInv, NEW c \in Callers, Active(c), call[c].pc = "written",
         DriveStep
  PROVE  IInv'
<1> DEFINE l == call[c].lba
<1>1. /\ Progress(c) /\ setup \in Setup /\ call[c] \in CallRecord
      /\ setup.lag => setup.ops \subseteq {"read"}
      /\ ide_drive_sel \in Drives
  BY ActiveCaller
<1>2. /\ dev \in DevRecord /\ cache \in [Sectors -> Sector \cup {NoContent}]
      /\ medium \in [Sectors -> Sector] /\ refused \subseteq Sectors
  BY DEF IInv, Types
<1>3. /\ dev.seen /\ "BSY" \in dev.status /\ Written(c) /\ Named(c) /\ call[c].op = "write"
      /\ Len(call[c].data) = Words /\ l \in unsure /\ ~setup.lag
  BY <1>1 DEF DriveStep, Progress, Drives
<1>4. /\ dev.cmd = "write" /\ dev.lba = l /\ dev.k = Words /\ dev.buf = call[c].data
      /\ l \in Sectors /\ dev.buf \in Sector
  BY <1>1, <1>2, <1>3 DEF Written, Rest, CallRecord, DevRecord, Sector
<1>5. UNCHANGED <<setup, driver, regs, history>> /\ Commit
  <2>1. Words # 0
    BY SectorFacts
  <2> QED BY <2>1, <1>3, <1>4 DEF DriveStep, Identify, Fetch, Accept, Flush
<1>6. UNCHANGED <<setup, boot, ide_drive_sel, call, regs, latest, unsure, calls>>
  BY <1>5 DEF driver, history
<1>7. ASSUME NEW bits \in SUBSET {"ERR"}, dev' = Ended(bits, NoContent), InCache(c)'
      PROVE  dev' \in DevRecord /\ Progress(c)'
  <2>1. /\ dev' \in DevRecord /\ "BSY" \notin dev'.status /\ dev'.seen
        /\ dev'.cmd = dev.cmd /\ dev'.lba = dev.lba /\ dev'.k = dev.k
    <3> DEFINE st == {"DRDY"} \cup bits
    <3>1. st \subseteq {"DRDY", "DRQ", "ERR"} /\ "BSY" \notin st /\ {"DRDY"} \cup bits = st
      OBVIOUS
    <3> HIDE DEF st
    <3> QED BY <3>1, <1>2, <1>3, <1>7, SectorFacts, EndedFields
  <2>2. Rest' /\ Named(c)'
    BY <2>1, <1>3, <1>6 DEF Rest, Named
  <2>3. Written(c)'
    BY <2>1, <2>2, <1>4, <1>6, <1>7 DEF Written
  <2>4. Progress(c)'
    BY <2>2, <2>3, <1>1, <1>6 DEF Progress
  <2> QED BY <2>1, <2>4
<1>8. CASE /\ dev' = Ended({}, NoContent) /\ cache' = [cache EXCEPT ![dev.lba] = dev.buf]
           /\ refused' = refused \ {dev.lba} /\ UNCHANGED medium
  <2>1. cache' \in [Sectors -> Sector \cup {NoContent}] /\ cache'[l] = call[c].data
        /\ \A s \in Sectors : s # l => cache'[s] = cache[s]
    BY <1>2, <1>4, <1>8
  <2>2. InCache(c)'
    BY <2>1, <1>6 DEF InCache
  <2>3. CacheKnown' /\ WriteSurvives'
    BY <2>1, <1>3, <1>4, <1>6, <1>8 DEF IInv, CacheKnown, WriteSurvives, Dirty
  <2>4. refused' \subseteq Sectors
    BY <1>2, <1>8
  <2>5. dev' \in DevRecord /\ Progress(c)'
    BY <2>2, <1>7, <1>8
  <2> QED BY <2>1, <2>3, <2>4, <2>5, <1>2, <1>5, <1>8, DriveFrame
<1>9. CASE Failed("data", {dev.lba})
  <2>1. /\ dev' = Ended({"ERR"}, NoContent) /\ refused' = refused \cup {l}
        /\ cache' = cache /\ medium' = medium
    BY <1>4, <1>9 DEF Failed
  <2>2. InCache(c)'
    BY <2>1, <1>6 DEF InCache
  <2>3. CacheKnown' /\ WriteSurvives'
    BY <2>1, <1>6 DEF IInv, CacheKnown, WriteSurvives, Dirty
  <2>4. refused' \subseteq Sectors
    BY <2>1, <1>2, <1>4
  <2>5. dev' \in DevRecord /\ Progress(c)'
    BY <2>1, <2>2, <1>7
  <2> QED BY <2>1, <2>3, <2>4, <2>5, <1>2, <1>5, DriveFrame
<1> QED BY <1>5, <1>8, <1>9 DEF Commit

\* The cache reaches the medium, or what is in it is reported as lost.
LEMMA FlushDone ==
  ASSUME Machines, IInv, NEW c \in Callers, Active(c), call[c].pc = "flushed",
         DriveStep
  PROVE  IInv'
<1> DEFINE l == call[c].lba
<1>1. /\ Progress(c) /\ setup \in Setup /\ call[c] \in CallRecord
      /\ setup.lag => setup.ops \subseteq {"read"}
      /\ ide_drive_sel \in Drives
  BY ActiveCaller
<1>2. /\ dev \in DevRecord /\ cache \in [Sectors -> Sector \cup {NoContent}]
      /\ medium \in [Sectors -> Sector] /\ refused \subseteq Sectors
  BY DEF IInv, Types
<1>3. /\ dev.seen /\ "BSY" \in dev.status /\ Flushed(c) /\ Named(c) /\ call[c].op = "write"
      /\ Len(call[c].data) = Words /\ l \in unsure /\ ~setup.lag
  BY <1>1 DEF DriveStep, Progress, Drives
<1>4. /\ dev.cmd = "flush" /\ InCache(c) /\ l \in Sectors /\ call[c].data # NoContent
  BY <1>1, <1>3, SectorFacts DEF Flushed, Rest, CallRecord
<1>5. UNCHANGED <<setup, driver, regs, history>> /\ Flush
  BY <1>3, <1>4 DEF DriveStep, Identify, Fetch, Accept, Commit
<1>6. UNCHANGED <<setup, boot, ide_drive_sel, call, regs, latest, unsure, calls>>
  BY <1>5 DEF driver, history
<1>7. ASSUME NEW bits \in SUBSET {"ERR"}, dev' = Ended(bits, NoContent), OnMedium(c)'
      PROVE  dev' \in DevRecord /\ Progress(c)'
  <2>1. /\ dev' \in DevRecord /\ "BSY" \notin dev'.status /\ dev'.seen /\ dev'.cmd = dev.cmd
    <3> DEFINE st == {"DRDY"} \cup bits
    <3>1. st \subseteq {"DRDY", "DRQ", "ERR"} /\ "BSY" \notin st /\ {"DRDY"} \cup bits = st
      OBVIOUS
    <3> HIDE DEF st
    <3> QED BY <3>1, <1>2, <1>3, <1>7, SectorFacts, EndedFields
  <2>2. Rest' /\ Named(c)'
    BY <2>1, <1>3, <1>6 DEF Rest, Named
  <2>3. Flushed(c)'
    BY <2>1, <2>2, <1>4, <1>7 DEF Flushed
  <2>4. Progress(c)'
    BY <2>2, <2>3, <1>1, <1>6 DEF Progress
  <2> QED BY <2>1, <2>4
<1>8. CASE /\ dev' = Ended({}, NoContent) /\ medium' = [s \in Sectors |-> Current(s)]
           /\ cache' = [s \in Sectors |-> NoContent] /\ UNCHANGED refused
  <2>1. /\ cache' \in [Sectors -> Sector \cup {NoContent}]
        /\ \A s \in Sectors : cache'[s] = NoContent
    BY <1>8
  <2>2. medium' \in [Sectors -> Sector]
    BY <1>8, CurrentIsSector DEF IInv
  <2>3. \A s \in Sectors : medium'[s] = IF cache[s] = NoContent THEN medium[s] ELSE cache[s]
    BY <1>8 DEF Current
  <2>4. OnMedium(c)'
    BY <2>1, <2>3, <1>4, <1>6, <1>8 DEF OnMedium, InCache
  <2>5. CacheKnown' /\ WriteSurvives'
    BY <2>1, <2>3, <1>6, <1>8 DEF IInv, CacheKnown, WriteSurvives, Dirty
  <2>6. dev' \in DevRecord /\ Progress(c)'
    BY <2>4, <1>7, <1>8
  <2> QED BY <2>1, <2>2, <2>5, <2>6, <1>2, <1>5, <1>8, DriveFrame
<1>9. CASE Failed("flush", Dirty)
  <2>1. /\ dev' = Ended({"ERR"}, NoContent) /\ refused' = refused \cup Dirty
        /\ cache' = cache /\ medium' = medium
    BY <1>9 DEF Failed
  <2>2. OnMedium(c)'
    BY <2>1, <1>4, <1>6 DEF OnMedium, InCache, Dirty
  <2>3. CacheKnown' /\ WriteSurvives'
    BY <2>1, <1>6 DEF IInv, CacheKnown, WriteSurvives, Dirty
  <2>4. refused' \subseteq Sectors
    BY <2>1, <1>2 DEF Dirty
  <2>5. dev' \in DevRecord /\ Progress(c)'
    BY <2>1, <2>2, <1>7
  <2> QED BY <2>1, <2>3, <2>4, <2>5, <1>2, <1>5, DriveFrame
<1> QED BY <1>5, <1>8, <1>9 DEF Flush

\* During boot the drive only answers IDENTIFY.
LEMMA IdentifyStep ==
  ASSUME Machines, IInv, boot.pc # "done", DriveStep
  PROVE  IInv'
<1>1. /\ Alone /\ ide_drive_sel = "none" /\ dev.seen /\ dev.cmd \in {"none", "identify"}
      /\ boot \in [pc : {"probe", "wait", "done"}, drive : Drives] /\ dev \in DevRecord
  BY DEF IInv, Boots, Types
<1>2. /\ dev' = Ended({"DRQ"}, Content(<<"identify", 0>>)) /\ dev.cmd = "identify"
      /\ "BSY" \in dev.status
      /\ UNCHANGED <<setup, driver, regs, cache, medium, refused, history>>
  BY <1>1 DEF DriveStep, Identify, Fetch, Accept, Commit, Flush
<1>3. /\ UNCHANGED <<setup, boot, ide_drive_sel, call, regs, cache, medium, refused, latest,
                     unsure, calls>>
  BY <1>2 DEF driver, history
<1>4. /\ dev' \in DevRecord /\ dev'.status = {"DRDY", "DRQ"} /\ dev'.seen
      /\ dev'.cmd = "identify"
  <2>1. Content(<<"identify", 0>>) \in Seq(AnyWord)
    BY ContentIsSector, SectorFacts
  <2>2. {"DRDY"} \cup {"DRQ"} = {"DRDY", "DRQ"}
    OBVIOUS
  <2> QED BY <2>1, <2>2, <1>1, <1>2, EndedFields
<1>5. Types'
  BY <1>3, <1>4 DEF IInv, Types
<1>6. Alone' /\ \A c \in Callers : ~Active(c)'
  BY <1>1, <1>3 DEF Alone, Active
<1>7. Boots'
  <2>1. boot.pc = "wait" => regs.drive = boot.drive /\ Kind = "ata"
    BY <1>2 DEF IInv, Boots
  <2>2. Kind' = Kind
    BY <1>3 DEF Kind
  <2> QED BY <2>1, <2>2, <1>1, <1>3, <1>4, <1>6 DEF Boots
<1>8. CacheKnown' /\ WriteSurvives'
  BY <1>3 DEF IInv, CacheKnown, WriteSurvives, Dirty
<1> QED BY <1>5, <1>6, <1>7, <1>8 DEF IInv, OneCaller

\* After boot a busy drive works for the one caller in the driver.
LEMMA DriveStepInv ==
  ASSUME Machines, IInv, DriveStep
  PROVE  IInv'
<1>1. CASE boot.pc # "done"
  BY <1>1, IdentifyStep
<1>2. CASE boot.pc = "done"
  <2>1. dev.seen /\ "BSY" \in dev.status
    BY DEF DriveStep
  <2>2. ~Alone
    BY <1>2, <2>1 DEF IInv, Boots, Rest
  <2>3. PICK c \in Callers : Active(c)
    BY <2>2 DEF Alone, Active
  <2>4. Progress(c) /\ call[c] \in CallRecord
    BY <2>3, ActiveCaller
  <2>5. call[c].pc \in {"drq", "data", "written", "flushed"}
    BY <2>1, <2>3, <2>4 DEF Progress, Rest, CallRecord, Points, Active
  <2>6. call[c].pc # "data"
    BY <2>1, <2>4 DEF Progress, Moving, HasData
  <2> QED BY <2>3, <2>5, <2>6, AnswerStep, CommitStep, FlushDone
<1> QED BY <1>1, <1>2

\* A slow drive shows that it works on the command of a read.
LEMMA NoticeStep ==
  ASSUME Machines, IInv, Notice
  PROVE  IInv'
<1>1. ~dev.seen /\ dev \in DevRecord
      /\ dev' = [status |-> {"BSY", "DRDY"}, cmd |-> dev.cmd, lba |-> dev.lba, k |-> dev.k,
                 buf |-> dev.buf, seen |-> TRUE]
      /\ UNCHANGED <<setup, driver, regs, cache, medium, refused, history>>
  BY DEF Notice, IInv, Types
<1>2. /\ UNCHANGED <<setup, boot, ide_drive_sel, call, regs, cache, medium, refused, latest,
                     unsure, calls>>
  BY <1>1 DEF driver, history
<1>3. /\ dev' \in DevRecord /\ dev'.status = {"BSY", "DRDY"} /\ dev'.seen
      /\ dev'.cmd = dev.cmd /\ dev'.lba = dev.lba /\ dev'.k = dev.k
  BY <1>1 DEF DevRecord
<1>4. ~Alone
  BY <1>1 DEF IInv, Boots, Rest
<1>5. PICK c \in Callers : Active(c)
  BY <1>4 DEF Alone, Active
<1>6. Progress(c) /\ call[c] \in CallRecord
  BY <1>5, ActiveCaller
<1>7. call[c].pc = "drq"
  BY <1>1, <1>5, <1>6 DEF Progress, Rest, CallRecord, Points, Active, Moving, HasData,
     Written, Flushed, Busy
<1>8. Asked(c) /\ Named(c)
  BY <1>6, <1>7 DEF Progress
<1>9. Asked(c)' /\ Named(c)'
  BY <1>2, <1>3, <1>8 DEF Asked, Named, Busy
<1>10. Progress(c)'
  BY <1>2, <1>6, <1>7, <1>9 DEF Progress
<1>11. CacheKnown' /\ WriteSurvives'
  BY <1>2 DEF IInv, CacheKnown, WriteSurvives, Dirty
<1>12. /\ cache' \in [Sectors -> Sector \cup {NoContent}] /\ medium' \in [Sectors -> Sector]
       /\ refused' \subseteq Sectors
  BY <1>2 DEF IInv, Types
<1> QED BY <1>1, <1>3, <1>5, <1>10, <1>11, <1>12, DriveFrame

\* What is left to show of a step of ide_init.
LEMMA BootFrame ==
  ASSUME IInv, boot.pc # "done",
         UNCHANGED <<setup, call, cache, medium, refused, history>>,
         boot' \in [pc : {"probe", "wait", "done"}, drive : Drives],
         ide_drive_sel' \in Drives \cup {"none"},
         regs' \in [drive : Drives, lba : [0..3 -> Nat]], dev' \in DevRecord, Boots'
  PROVE  IInv'
<1>1. /\ UNCHANGED <<latest, unsure, calls>>
  BY DEF history
<1>2. Types'
  BY <1>1 DEF IInv, Types
<1>3. \A c \in Callers : ~Active(c)'
  BY DEF IInv, Boots, Alone, Active
<1>4. CacheKnown' /\ WriteSurvives'
  BY <1>1 DEF IInv, CacheKnown, WriteSurvives, Dirty
<1> QED BY <1>2, <1>3, <1>4 DEF IInv, OneCaller

LEMMA ProbeStep ==
  ASSUME Machines, IInv, Probe
  PROVE  IInv'
<1>1. /\ boot.pc = "probe" /\ boot' = [boot EXCEPT !.pc = "wait"]
      /\ UNCHANGED <<setup, ide_drive_sel, call, cache, medium, refused, history>>
  BY DEF Probe
<1>2. boot \in [pc : {"probe", "wait", "done"}, drive : Drives]
  BY DEF IInv, Types
<1>3. /\ boot' \in [pc : {"probe", "wait", "done"}, drive : Drives] /\ boot'.pc = "wait"
      /\ boot'.drive = boot.drive /\ boot.drive \in Drives
  BY <1>1, <1>2
<1>4. Alone /\ ide_drive_sel = "none"
  BY <1>1 DEF IInv, Boots
<1>5. Alone' /\ ide_drive_sel' = "none"
  BY <1>1, <1>4 DEF Alone
<1>6. ASSUME NEW a \in Nat, NEW b \in Nat, NEW sig, sig = <<a, b>>
      PROVE  /\ Selected(boot.drive, sig) \in [drive : Drives, lba : [0..3 -> Nat]]
             /\ Selected(boot.drive, sig).drive = boot.drive
             /\ Selected(boot.drive, sig).lba[1] = a /\ Selected(boot.drive, sig).lba[2] = b
  <2>1. sig[1] = a /\ sig[2] = b
    BY <1>6
  <2> QED BY <2>1, <1>3 DEF Selected
<1>7. ASSUME NEW bits \in SUBSET {"BSY", "DRDY", "ERR"}, NEW cmd \in {"none", "identify"}
      PROVE  /\ Idling(bits, cmd) \in DevRecord /\ Idling(bits, cmd).status = bits
             /\ Idling(bits, cmd).cmd = cmd /\ Idling(bits, cmd).seen
  BY ZeroIsSector, SectorFacts DEF Idling, DevRecord
<1>8. CASE setup.kind[boot.drive] = "ata"
  <2>1. /\ regs' = Selected(boot.drive, <<0, 0>>)
        /\ dev' = Idling({"BSY", "DRDY"}, "identify")
    BY <1>8 DEF Probe
  <2>2. regs' \in [drive : Drives, lba : [0..3 -> Nat]] /\ regs'.drive = boot.drive
    BY <2>1, <1>6
  <2>3. /\ dev' \in DevRecord /\ dev'.status = {"BSY", "DRDY"} /\ dev'.cmd = "identify"
        /\ dev'.seen
    BY <2>1, <1>7
  <2>4. Kind' = "ata"
    BY <2>2, <1>1, <1>8 DEF Kind
  <2>5. Boots'
    BY <2>2, <2>3, <2>4, <1>3, <1>5 DEF Boots
  <2> QED BY <2>2, <2>3, <2>5, <1>1, <1>3, <1>5, BootFrame
<1>9. CASE setup.kind[boot.drive] # "ata"
  <2>1. PICK ready \in SUBSET {"DRDY"} : dev' = Idling({"ERR"} \cup ready, "none")
    BY <1>9 DEF Probe
  <2>2. regs' = Selected(boot.drive, AtapiSignature)
    BY <1>9 DEF Probe
  <2>3. /\ regs' \in [drive : Drives, lba : [0..3 -> Nat]] /\ regs'.drive = boot.drive
        /\ regs'.lba[1] = 1 /\ regs'.lba[2] = 1
    BY <2>2, <1>6 DEF AtapiSignature
  <2>4. /\ dev' \in DevRecord /\ "BSY" \notin dev'.status /\ dev'.cmd = "none" /\ dev'.seen
    <3> DEFINE bits == {"ERR"} \cup ready
    <3>1. bits \in SUBSET {"BSY", "DRDY", "ERR"} /\ "BSY" \notin bits
      OBVIOUS
    <3>2. dev' = Idling(bits, "none")
      BY <2>1
    <3> HIDE DEF bits
    <3> QED BY <3>1, <3>2, <1>7
  <2>5. Kind' # "ata"
    BY <2>3, <1>1, <1>9 DEF Kind
  <2>6. Boots'
    BY <2>3, <2>4, <2>5, <1>3, <1>5 DEF Boots
  <2> QED BY <2>3, <2>4, <2>6, <1>1, <1>3, <1>5, BootFrame
<1> QED BY <1>8, <1>9

\* A drive without the signature of an ATAPI drive is an ATA drive, and has
\* answered.
LEMMA ProbedStep ==
  ASSUME Machines, IInv, Probed
  PROVE  IInv'
<1>1. /\ boot.pc = "wait" /\ "BSY" \notin Status
      /\ dev' = [dev EXCEPT !.status = @ \ {"DRQ"}]
      /\ UNCHANGED <<setup, call, regs, cache, medium, refused, history>>
  BY DEF Probed
<1>2. /\ boot \in [pc : {"probe", "wait", "done"}, drive : Drives] /\ dev \in DevRecord
      /\ regs \in [drive : Drives, lba : [0..3 -> Nat]]
  BY DEF IInv, Types
<1>3. /\ dev' \in DevRecord /\ dev'.status = dev.status \ {"DRQ"} /\ dev'.cmd = dev.cmd
      /\ dev'.seen = dev.seen
  BY <1>1, <1>2 DEF DevRecord
<1>4. /\ Alone /\ ide_drive_sel = "none" /\ dev.seen /\ dev.cmd \in {"none", "identify"}
      /\ regs.drive = boot.drive
  BY <1>1 DEF IInv, Boots
<1>5. Alone'
  BY <1>1, <1>4 DEF Alone
<1>6. "BSY" \notin dev.status
  <2>1. CASE Kind = "ata"
    BY <2>1, <1>1 DEF Status
  <2>2. CASE Kind # "ata"
    BY <2>2, <1>1 DEF IInv, Boots
  <2> QED BY <2>1, <2>2
<1>7. CASE FoundAta
  <2>1. boot' = [boot EXCEPT !.pc = "done"] /\ ide_drive_sel' = boot.drive
    BY <1>7 DEF Probed
  <2>2. /\ boot' \in [pc : {"probe", "wait", "done"}, drive : Drives] /\ boot'.pc = "done"
        /\ ide_drive_sel' \in Drives
    BY <2>1, <1>2
  <2>3. Kind = "ata"
    <3>1. ~ (regs.lba[1] = 1 /\ regs.lba[2] = 1)
      BY <1>7 DEF FoundAta, AtapiSignature
    <3> QED BY <3>1, <1>1 DEF IInv, Boots
  <2>4. setup'.kind[ide_drive_sel'] = "ata"
    BY <2>1, <2>3, <1>1, <1>4 DEF Kind
  <2>5. dev'.status = {"DRDY"}
    BY <2>3, <1>1, <1>3, <1>6 DEF IInv, Boots
  <2>6. Boots'
    BY <2>2, <2>4, <2>5, <1>3, <1>4 DEF Boots, Rest
  <2> QED BY <2>2, <2>6, <1>1, <1>2, <1>3, BootFrame
<1>8. CASE ~FoundAta
  <2>1. /\ boot' = IF boot.drive = "master" THEN [pc |-> "probe", drive |-> "slave"]
                                             ELSE [boot EXCEPT !.pc = "done"]
        /\ ide_drive_sel' = "none"
    BY <1>4, <1>8 DEF Probed
  <2>2. boot' \in [pc : {"probe", "wait", "done"}, drive : Drives] /\ boot'.pc # "wait"
    BY <2>1, <1>2 DEF Drives
  <2>3. "BSY" \notin dev'.status
    BY <1>3, <1>6
  <2>4. Boots'
    BY <2>1, <2>2, <2>3, <1>3, <1>4, <1>5 DEF Boots, Rest
  <2> QED BY <2>1, <2>2, <2>4, <1>1, <1>2, <1>3, BootFrame
<1> QED BY <1>7, <1>8

\* Power failures empty the cache, and what was in it no caller was told of.
LEMMA PowerCutStep ==
  ASSUME Machines, IInv, PowerCut
  PROVE  IInv'
<1>1. /\ boot' = [pc |-> "probe", drive |-> "master"] /\ ide_drive_sel' = "none"
      /\ call' = [c \in Callers |-> Idle] /\ dev' = Resting
      /\ cache' = [l \in Sectors |-> NoContent]
      /\ UNCHANGED <<setup, regs, medium, refused, latest, unsure, calls>>
  BY DEF PowerCut, history
<1>2. Idle \in CallRecord /\ Idle.pc = "idle"
  BY ZeroIsSector, SectorFacts DEF Idle, CallRecord, Points
<1>3. dev' \in DevRecord /\ dev'.seen /\ dev'.cmd = "none"
  BY <1>1, ZeroIsSector, SectorFacts DEF Resting, Idling, DevRecord
<1>4. Types'
  <2>1. boot' \in [pc : {"probe", "wait", "done"}, drive : Drives]
    BY <1>1 DEF Drives
  <2>2. call' \in [Callers -> CallRecord] /\ cache' \in [Sectors -> Sector \cup {NoContent}]
    BY <1>1, <1>2
  <2> QED BY <2>1, <2>2, <1>1, <1>3 DEF IInv, Types
<1>5. \A c \in Callers : ~Active(c)'
  BY <1>1, <1>2 DEF Active
<1>6. Alone'
  BY <1>5 DEF Active, Alone
<1>7. Boots'
  BY <1>1, <1>3, <1>6 DEF Boots
<1>8. CacheKnown' /\ WriteSurvives'
  BY <1>1 DEF IInv, CacheKnown, WriteSurvives, Dirty
<1> QED BY <1>4, <1>5, <1>7, <1>8 DEF IInv, OneCaller

LEMMA NextStep ==
  ASSUME Machines, IInv, [Next]_vars
  PROVE  IInv'
<1>1. CASE ide_init
  BY <1>1, ProbeStep, ProbedStep DEF ide_init
<1>2. CASE PowerCut
  BY <1>2, PowerCutStep
<1>3. CASE Notice
  BY <1>3, NoticeStep
<1>4. CASE DriveStep
  BY <1>4, DriveStepInv
<1>5. ASSUME NEW c \in Callers, Call(c) PROVE IInv'
  BY <1>5, CallStep
<1>6. ASSUME NEW c \in Callers, Transfer(c) PROVE IInv'
  BY <1>6, SelectStep, AddressStep, CommandStep, WaitDrqStep, ReadWordStep, WriteWordStep,
     WrittenStep, FlushStep, FlushedStep, SuccessStep, ReturnStep DEF Transfer
<1>7. CASE UNCHANGED vars
  <2>1. UNCHANGED <<setup, boot, ide_drive_sel, call, regs, dev, cache, medium, refused,
                    latest, unsure, calls>>
    BY <1>7 DEF vars, driver, drive, history
  <2>2. Types' /\ OneCaller'
    BY <2>1 DEF IInv, Types, OneCaller, Active
  <2>3. Boots'
    BY <2>1 DEF IInv, Boots, Alone, Kind, Rest
  <2>4. CacheKnown' /\ WriteSurvives'
    BY <2>1 DEF IInv, CacheKnown, WriteSurvives, Dirty
  <2>5. ASSUME NEW c \in Callers, Active(c)' PROVE Progress(c)'
    <3>1. Progress(c)
      BY <2>1, <2>5 DEF IInv, Active
    <3> QED BY <3>1, <2>1 DEF Progress, Rest, Named, Asked, Moving, Written, Flushed, InCache,
               OnMedium, Busy, HasData, Current
  <2> QED BY <2>2, <2>3, <2>4, <2>5 DEF IInv
<1> QED BY <1>1, <1>2, <1>3, <1>4, <1>5, <1>6, <1>7 DEF Next

-----------------------------------------------------------------------------
\* The inductive invariant holds in every reachable state.
THEOREM InvHolds ==
  ASSUME Machines
  PROVE  Spec => []IInv
<1>1. Init => IInv
  BY InitInv
<1>2. IInv /\ [Next]_vars => IInv'
  BY NextStep
<1> QED BY <1>1, <1>2, PTL DEF Spec

\* For any size of sectors and registers: a sector whose last write reported
\* success, and for which the drive reported no loss, is on the medium, where
\* no power failure reaches it (ide_write_sector).
THEOREM SuccessIsDurable ==
  ASSUME Machines
  PROVE  Spec => []WriteSurvives
<1>1. IInv => WriteSurvives
  BY DEF IInv
<1> QED BY <1>1, InvHolds, PTL

\* For any size of sectors and registers: a read that reports success has
\* filled the buffer with the last sector written there (ide_read_sector).
THEOREM ReadIsOfSectorAsked ==
  ASSUME Machines
  PROVE  Spec => []ReadsAsked
<1>1. IInv => ReadsAsked
  <2> SUFFICES ASSUME IInv, NEW c \in Callers,
                      At(c, "return"), call[c].op = "read", call[c].ok,
                      call[c].lba \notin unsure \cup refused
               PROVE  call[c].data = latest[call[c].lba]
    BY DEF ReadsAsked
  <2>1. Progress(c) /\ call[c] \in CallRecord
    BY DEF IInv, Active, At, Types
  <2>2. call[c].data = Current(call[c].lba) /\ call[c].lba \in Sectors
    BY <2>1 DEF Progress, At, CallRecord
  <2>3. cache[call[c].lba] = NoContent
    BY <2>2 DEF IInv, CacheKnown, Dirty
  <2>4. medium[call[c].lba] = latest[call[c].lba]
    BY <2>2 DEF IInv, WriteSurvives
  <2> QED BY <2>2, <2>3, <2>4 DEF Current
<1> QED BY <1>1, InvHolds, PTL

\* For any size of sectors and registers: the medium changes in sectors only
\* whose own write is under way or failed.
THEOREM OtherSectorsKept ==
  ASSUME Machines
  PROVE  Spec => OthersKept
<1> DEFINE Kept == \A l \in Sectors : medium'[l] # medium[l] => l \in unsure \cup refused
<1>1. ASSUME IInv, Flush PROVE Kept
  <2>1. CacheKnown
    BY <1>1 DEF IInv
  <2> QED BY <2>1, <1>1 DEF Flush, Failed, CacheKnown, Dirty, Current
<1>2. ASSUME IInv, DriveStep PROVE Kept
  BY <1>1, <1>2 DEF DriveStep, Identify, Fetch, Accept, Commit, Failed
<1>3. ASSUME [Next]_vars, ~DriveStep PROVE medium' = medium
  BY <1>3 DEF Next, ide_init, Probe, Probed, PowerCut, Notice, Call, Transfer, vars, drive,
     ide_select_drive, SetAddress, Command, Send, ide_wait_drq, MoveWord, ide_wait_ready,
     CacheFlush, Success, Return, DriveKept
<1>4. IInv /\ [Next]_vars => [Kept]_vars
  BY <1>2, <1>3
<1> QED BY <1>4, InvHolds, PTL DEF Spec, OthersKept
=============================================================================
