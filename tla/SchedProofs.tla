----------------------------- MODULE SchedProofs -----------------------------
(***************************************************************************)
(* Proofs about scheduling as the machine sees it, for any finite set of   *)
(* process control blocks: a system call returns to the thread that made   *)
(* it, and the boot thread can be resumed in kernel_main.                  *)
(***************************************************************************)
EXTENDS Sched, FiniteSetTheorems, WellFoundedInduction, TLAPS

EnqPcs == {"enq_fields", "enq_link", "enq_empty", "enq_tail", "enq_head"}
SchedPcs == {"deq_head", "deq_tail", "sched_test", "set_current", "set_running", "switch"}

\* Where a context can be, and the locals that are set there: inside enqueue,
\* inside schedule, in the boot thread, in a system call, in user mode.
InEnqueue(c, after) ==
  /\ c.pc \in EnqPcs /\ c.after = after /\ c.arg \in PCBs
  /\ c.pc = "enq_link" => c.tail \in PCBs

InSchedule(c) ==
  \/ c.pc = "sched" /\ c.after # "loaded"
  \/ c.pc \in SchedPcs /\ c.prev \in PCBs /\ c.next \in PCBs /\ c.after # "loaded"
  \/ InEnqueue(c, "set_current") /\ c.prev \in PCBs /\ c.next \in PCBs

BootCode(c) ==
  /\ c.thread = "boot"
  /\ \/ c.pc \in {"main", "loaded"}
     \/ c.pc = "idling" /\ c.after # "loaded"
     \/ InEnqueue(c, "loaded")
     \/ InSchedule(c)

CallCode(c) ==
  /\ c.thread \in PCBs
  /\ \/ c.pc = "sysret"
     \/ c.pc \in {"exit", "execve"} /\ c.curr \in PCBs /\ c.after # "loaded"
     \/ InEnqueue(c, "execve_zombie") /\ c.curr \in PCBs /\ c.arg \in Procs
     \/ c.pc = "execve_zombie" /\ c.curr \in PCBs /\ c.arg \in Procs
     \/ c.pc \in {"execve_current", "execve_running"} /\ c.arg \in Procs
     \/ InSchedule(c)

UserCode(c) == c.thread \in PCBs /\ c.pc = "user"

\* What may lie at each place, and what may run.
InMain(c) == c.thread = "boot" /\ (c.pc \in {"main", "loaded"} \/ c.after = "loaded")

Known(f) ==
  /\ f["main"] = Stale \/ BootCode(f["main"])
  /\ f["start"] = Stale \/ (BootCode(f["start"]) /\ ~InMain(f["start"]))
  /\ f["below"] = Stale \/ CallCode(f["below"])
  /\ \A l \in {"top"} \cup PCBs : f[l] = Stale \/ UserCode(f[l])

CpuKnown == Stopped \/ BootCode(cpu) \/ CallCode(cpu) \/ UserCode(cpu)

\* The frame at the top of the stack is the one the thread c entered with.
Entered(f, c) == f["top"] # Stale /\ f["top"].thread = c.thread

BelowEntered(f) == f["below"] # Stale => Entered(f, f["below"])

\* While a system call runs nothing lies below its frame; a system call that
\* waits below its frame keeps it as long as the processor is not in user mode.
TopMatches ==
  /\ CallCode(cpu) => Entered(frames, cpu) /\ frames["below"] = Stale
  /\ BootCode(cpu) => BelowEntered(frames)

\* Before the first switch the boot thread inside kernel_main sees an empty
\* queue, or one with the first process alone.
BootPhase ==
  ~inService /\ InMain(cpu) =>
    /\ q.current = idle /\ q.state[idle] = "RUNNING" /\ rsp[first] = first
    /\ q.head = NULL \/ (q.head = first /\ q.next[first] = NULL)
    /\ cpu.pc \in {"main", "enq_fields", "enq_empty"} => q.head = NULL /\ q.tail = NULL
    /\ cpu.pc \in EnqPcs => cpu.arg = first
    /\ cpu.pc \in {"enq_empty", "enq_head", "enq_tail"} => q.next[first] = NULL
    /\ cpu.pc # "enq_link"

\* With the boot thread's frame in kernel_main saved, the queue begins with
\* idle until schedule takes it from there and goes on to switch to it.
IdleFirst ==
  /\ q.head = idle /\ q.tail # NULL /\ q.current \in Procs
  /\ \/ Stopped \/ UserCode(cpu)
     \/ cpu.pc \in {"sysret", "exit", "execve", "execve_zombie", "execve_current",
                    "execve_running", "sched"}
     \/ cpu.pc \in {"enq_fields", "enq_link", "enq_tail"} /\ cpu.after = "execve_zombie"

IdleTaken ==
  /\ cpu.next = idle
  /\ \/ cpu.pc \in {"deq_head", "deq_tail", "sched_test"} /\ cpu.prev # idle
     \/ cpu.pc \in EnqPcs /\ cpu.after = "set_current"
     \/ cpu.pc \in {"set_current", "set_running", "switch"}

MainWaits ==
  frames["main"] # Stale =>
    inService /\ rsp[idle] = "main" /\ (IdleFirst \/ IdleTaken)

IInv == TypeOK /\ Known(frames) /\ CpuKnown /\ TopMatches /\ BootPhase /\ MainWaits

-----------------------------------------------------------------------------
(* Contexts *)

Blocks == PCBs \cup {NULL}

LEMMA Names ==
  /\ idle \in PCBs /\ first \in PCBs /\ first \in Procs /\ idle # first
  /\ NULL \notin PCBs /\ Procs \subseteq PCBs /\ idle \notin Procs
  /\ "boot" \notin PCBs /\ "boot" # NULL
  /\ {"main", "start", "top", "below"} \subseteq Places /\ PCBs \subseteq Places
  /\ \A p \in PCBs : p \notin {"main", "start", "top", "below"}
  /\ \A l \in Places : l \in {"main", "start", "top", "below"} \/ l \in PCBs
BY NullAssumption, IdleAssumption, CallsAssumption, NamesAssumption DEF PCBs, Places

LEMMA ContextType ==
  ASSUME NEW t \in PCBs \cup {"boot", NULL}, NEW pc \in Pcs
  PROVE  /\ Context(t, pc) \in Contexts
         /\ Context(t, pc).thread = t /\ Context(t, pc).pc = pc
         /\ Context(t, pc).after = "none"
BY DEF Context, Contexts

LEMMA StaleType ==
  /\ Stale \in Contexts /\ Stale.thread = NULL /\ Stale.pc = "stale"
  /\ Wild \in Contexts /\ Wild.thread = NULL /\ Wild.pc = "wild"
BY ContextType DEF Stale, Wild, Pcs

LEMMA AtFields ==
  ASSUME NEW c \in Contexts, NEW pc \in Pcs
  PROVE  /\ At(c, pc) \in Contexts /\ At(c, pc).pc = pc
         /\ At(c, pc).thread = c.thread /\ At(c, pc).curr = c.curr
         /\ At(c, pc).prev = c.prev /\ At(c, pc).next = c.next
         /\ At(c, pc).arg = c.arg /\ At(c, pc).tail = c.tail
         /\ At(c, pc).after = c.after
BY DEF At, Contexts

LEMMA EnqueueFields ==
  ASSUME TypeOK, NEW p \in PCBs, NEW after \in {"loaded", "set_current", "execve_zombie"},
         CallEnqueue(p, after)
  PROVE  /\ cpu' \in Contexts /\ cpu'.pc = "enq_fields" /\ cpu'.arg = p
         /\ cpu'.after = after /\ cpu'.thread = cpu.thread /\ cpu'.curr = cpu.curr
         /\ cpu'.prev = cpu.prev /\ cpu'.next = cpu.next
<1> DEFINE c == [cpu EXCEPT !.arg = p]
           d == [c EXCEPT !.after = after]
<1>1. /\ c \in Contexts /\ c.arg = p /\ c.thread = cpu.thread /\ c.curr = cpu.curr
      /\ c.prev = cpu.prev /\ c.next = cpu.next
  BY DEF TypeOK, Contexts
<1>2. /\ d \in Contexts /\ d.arg = p /\ d.thread = c.thread /\ d.curr = c.curr
      /\ d.prev = c.prev /\ d.next = c.next /\ d.after = after
  <2> HIDE DEF c
  <2> QED BY <1>1 DEF Contexts
<1>3. cpu' = At(d, "enq_fields")
  BY DEF CallEnqueue
<1> HIDE DEF c, d
<1>4. "enq_fields" \in Pcs
  BY DEF Pcs
<1> QED BY <1>1, <1>2, <1>3, <1>4, AtFields

LEMMA BeginFields ==
  ASSUME TypeOK, cpu.pc = "sched", sched_begin
  PROVE  /\ cpu' \in Contexts /\ cpu'.prev = q.current
         /\ cpu'.next = (IF q.head = NULL THEN idle ELSE q.head)
         /\ cpu'.pc = (IF q.head = NULL THEN "sched_test" ELSE "deq_head")
         /\ cpu'.thread = cpu.thread /\ cpu'.after = cpu.after
         /\ cpu'.next \in PCBs /\ cpu'.prev \in PCBs
<1> DEFINE n == IF q.head = NULL THEN idle ELSE q.head
           pc == IF q.head = NULL THEN "sched_test" ELSE "deq_head"
           c == [cpu EXCEPT !.prev = q.current]
           d == [c EXCEPT !.next = n]
<1>0. n \in PCBs /\ q.current \in PCBs /\ pc \in Pcs
  BY Names DEF TypeOK, Queues, Pcs
<1>1. /\ c \in Contexts /\ c.prev = q.current /\ c.thread = cpu.thread
      /\ c.after = cpu.after
  BY <1>0 DEF TypeOK, Contexts
<1>2. /\ d \in Contexts /\ d.prev = c.prev /\ d.thread = c.thread /\ d.after = c.after
      /\ d.next = n
  <2> HIDE DEF c, n
  <2> QED BY <1>0, <1>1 DEF Contexts
<1>3. cpu' = At(d, pc)
  BY DEF sched_begin
<1> HIDE DEF c, d, n, pc
<1>4. /\ cpu' \in Contexts /\ cpu'.prev = q.current /\ cpu'.next = n /\ cpu'.pc = pc
      /\ cpu'.thread = cpu.thread /\ cpu'.after = cpu.after
  BY <1>0, <1>1, <1>2, <1>3, AtFields
<1> QED BY <1>0, <1>4 DEF n, pc

-----------------------------------------------------------------------------
(* The queue keeps its types *)

LEMMA QueueType ==
  ASSUME NEW r \in Queues
  PROVE  /\ r.head \in Blocks /\ r.tail \in Blocks /\ r.current \in PCBs
         /\ r.next \in [PCBs -> Blocks] /\ r.state \in [PCBs -> States]
BY DEF Queues, Blocks

LEMMA SetLink ==
  ASSUME NEW r \in Queues, NEW p \in PCBs, NEW x \in Blocks
  PROVE  LET u == [r EXCEPT !.next[p] = x]
         IN  /\ u \in Queues /\ u.head = r.head /\ u.tail = r.tail
             /\ u.current = r.current /\ u.state = r.state
             /\ u.next = [r.next EXCEPT ![p] = x]
BY DEF Queues, Blocks

LEMMA SetState ==
  ASSUME NEW r \in Queues, NEW p \in PCBs, NEW x \in States
  PROVE  LET u == [r EXCEPT !.state[p] = x]
         IN  /\ u \in Queues /\ u.head = r.head /\ u.tail = r.tail
             /\ u.current = r.current /\ u.next = r.next
             /\ u.state = [r.state EXCEPT ![p] = x]
BY DEF Queues

LEMMA SetHead ==
  ASSUME NEW r \in Queues, NEW x \in Blocks
  PROVE  LET u == [r EXCEPT !.head = x]
         IN  /\ u \in Queues /\ u.head = x /\ u.tail = r.tail
             /\ u.current = r.current /\ u.next = r.next /\ u.state = r.state
BY DEF Queues, Blocks

LEMMA SetTail ==
  ASSUME NEW r \in Queues, NEW x \in Blocks
  PROVE  LET u == [r EXCEPT !.tail = x]
         IN  /\ u \in Queues /\ u.head = r.head /\ u.tail = x
             /\ u.current = r.current /\ u.next = r.next /\ u.state = r.state
BY DEF Queues, Blocks

LEMMA SetCurrent ==
  ASSUME NEW r \in Queues, NEW x \in PCBs
  PROVE  LET u == [r EXCEPT !.current = x]
         IN  /\ u \in Queues /\ u.head = r.head /\ u.tail = r.tail
             /\ u.current = x /\ u.next = r.next /\ u.state = r.state
BY DEF Queues

\* schedule hands over to a block.
LEMMA ScheduleType ==
  ASSUME NEW r \in Queues
  PROVE  schedule(r).q \in Queues
<1> DEFINE d == dequeue(r)
           n == IF d.p = NULL THEN idle ELSE d.p
           u == IF d.q.state[r.current] = "RUNNING" THEN enqueue(d.q, r.current) ELSE d.q
<1>1. d.q \in Queues /\ d.p \in Blocks
  <2>1. CASE r.head = NULL
    BY <2>1, QueueType DEF dequeue
  <2>2. CASE r.head # NULL
    <3>1. r.head \in PCBs /\ r.next[r.head] \in Blocks
      BY <2>2, QueueType DEF Blocks
    <3> QED BY <2>2, <3>1, QueueType DEF dequeue, Queues, Blocks
  <2> QED BY <2>1, <2>2
<1>2. n \in PCBs /\ r.current \in PCBs
  BY <1>1, Names, QueueType DEF Blocks
<1>3. \A v \in Queues, p \in PCBs : enqueue(v, p) \in Queues
  <2> SUFFICES ASSUME NEW v \in Queues, NEW p \in PCBs PROVE enqueue(v, p) \in Queues
    OBVIOUS
  <2>1. /\ v.head \in Blocks /\ v.tail \in Blocks /\ v.current \in PCBs
        /\ v.next \in [PCBs -> Blocks] /\ v.state \in [PCBs -> States]
    BY QueueType
  <2> DEFINE cleared == [v.next EXCEPT ![p] = NULL]
             link == IF v.tail = NULL THEN cleared ELSE [cleared EXCEPT ![v.tail] = p]
             head == IF v.tail = NULL THEN p ELSE v.head
             st == [v.state EXCEPT ![p] = "READY"]
  <2>2. cleared \in [PCBs -> Blocks]
    BY <2>1 DEF Blocks
  <2>3. link \in [PCBs -> Blocks] /\ head \in Blocks /\ p \in Blocks
    <3> HIDE DEF cleared
    <3> QED BY <2>1, <2>2 DEF Blocks
  <2>4. st \in [PCBs -> States]
    BY <2>1 DEF States
  <2>5. enqueue(v, p) = [head |-> head, tail |-> p, next |-> link, state |-> st,
                         current |-> v.current]
    BY DEF enqueue
  <2> HIDE DEF link, head, st
  <2> QED BY <2>1, <2>3, <2>4, <2>5 DEF Queues, Blocks
<1>4. u \in Queues
  <2> HIDE DEF d
  <2> QED BY <1>1, <1>2, <1>3
<1>5. Run(u, n) \in Queues
  <2> HIDE DEF u, n
  <2> QED BY <1>2, <1>4, QueueType DEF Run, Queues, Blocks, States
<1>6. schedule(r).q = IF r.current = n THEN d.q ELSE Run(u, n)
  BY DEF schedule
<1> HIDE DEF u, n, d
<1> QED BY <1>1, <1>5, <1>6

-----------------------------------------------------------------------------
(* Frames *)

Frames == [Places -> Contexts]

LEMMA Modes ==
  ASSUME NEW c
  PROVE  /\ BootCode(c) => ~CallCode(c) /\ ~UserCode(c) /\ c # Stale /\ c # Wild
                           /\ c.pc \notin {"wild", "halted", "user", "sysret"}
         /\ CallCode(c) => ~UserCode(c) /\ c # Stale /\ c # Wild
                           /\ c.pc \notin {"wild", "halted", "user"}
         /\ UserCode(c) => c # Stale /\ c # Wild /\ c.pc \notin {"wild", "halted"}
BY Names, StaleType DEF BootCode, CallCode, UserCode, InSchedule, InEnqueue, EnqPcs, SchedPcs

LEMMA PlaceOfMode ==
  /\ BootCode(cpu) => Place = IF InMain(cpu) THEN "main" ELSE "start"
  /\ CallCode(cpu) => Place = "below"
  /\ UserCode(cpu) => Place = "top"
<1>1. BootCode(cpu) => Place = IF InMain(cpu) THEN "main" ELSE "start"
  BY DEF BootCode, Place, InMain
<1>2. CallCode(cpu) => cpu.thread # "boot" /\ cpu.pc # "user"
  BY Names, Modes DEF CallCode
<1>3. UserCode(cpu) => cpu.thread # "boot" /\ cpu.pc = "user"
  BY Names DEF UserCode
<1> QED BY <1>1, <1>2, <1>3 DEF Place

\* An interrupt finds a frame to push, and none that it would break.
LEMMA PushKnown ==
  ASSUME TypeOK, Known(frames), TopMatches, BootCode(cpu) \/ CallCode(cpu) \/ UserCode(cpu)
  PROVE  /\ Pushed \in Frames /\ Known(Pushed) /\ BelowEntered(Pushed)
         /\ Place \in {"main", "start", "top", "below"} /\ Pushed[Place] = cpu
         /\ \A l \in Places \ {Place} :
              Pushed[l] = IF Place = "top" /\ l = "below" THEN Stale ELSE frames[l]
<1>0. /\ frames \in Frames /\ cpu \in Contexts /\ Stale \in Contexts
      /\ Place \in {"main", "start", "top", "below"} /\ Place \in Places
  BY Names, StaleType, PlaceOfMode DEF TypeOK, Frames
<1>1. CASE Place = "top"
  <2> DEFINE f == [frames EXCEPT !["top"] = cpu]
             g == [f EXCEPT !["below"] = Stale]
  <2>1. f \in Frames /\ f["top"] = cpu /\ \A l \in Places \ {"top"} : f[l] = frames[l]
    BY <1>0, <1>1 DEF Frames
  <2>2. g \in Frames /\ g["below"] = Stale /\ \A l \in Places \ {"below"} : g[l] = f[l]
    <3> HIDE DEF f
    <3> QED BY <1>0, <2>1, Names DEF Frames
  <2>3. Pushed = g
    BY <1>1 DEF Pushed
  <2> HIDE DEF f, g
  <2>4. UserCode(cpu)
    BY <1>1, PlaceOfMode
  <2>5. \A l \in {"main", "start"} \cup PCBs : g[l] = frames[l]
    BY <2>1, <2>2, Names
  <2>6. g["top"] = cpu
    BY <2>1, <2>2, Names
  <2>7. Known(g)
    BY <2>2, <2>4, <2>5, <2>6 DEF Known
  <2>8. BelowEntered(g)
    BY <2>2 DEF BelowEntered
  <2> QED BY <1>0, <1>1, <2>1, <2>2, <2>3, <2>6, <2>7, <2>8
<1>2. CASE Place # "top"
  <2> DEFINE f == [frames EXCEPT ![Place] = cpu]
  <2>1. f \in Frames /\ f[Place] = cpu /\ \A l \in Places \ {Place} : f[l] = frames[l]
    BY <1>0 DEF Frames
  <2>2. Pushed = f
    BY <1>2 DEF Pushed
  <2> HIDE DEF f
  <2>3. \A l \in {"top"} \cup PCBs : f[l] = frames[l]
    BY <1>0, <1>2, <2>1, Names
  <2>4. CASE Place = "below"
    <3>1. CallCode(cpu)
      BY <2>4, PlaceOfMode
    <3>2. Known(f)
      BY <2>1, <2>3, <2>4, <3>1, Names DEF Known
    <3>3. BelowEntered(f)
      BY <2>1, <2>3, <2>4, <3>1 DEF BelowEntered, TopMatches, Entered
    <3> QED BY <1>0, <1>2, <2>1, <2>2, <3>2, <3>3
  <2>5. CASE Place \in {"main", "start"}
    <3>1. BootCode(cpu)
      BY <2>5, PlaceOfMode
    <3>0. Place = "start" => ~InMain(cpu)
      BY <3>1, PlaceOfMode
    <3>2. f["below"] = frames["below"] /\ f["top"] = frames["top"]
      BY <2>1, <2>3, <2>5, Names
    <3>3. Known(f)
      BY <1>0, <2>1, <2>3, <2>5, <3>0, <3>1, <3>2, Names DEF Known
    <3>4. BelowEntered(f)
      BY <3>1, <3>2 DEF BelowEntered, TopMatches, Entered
    <3> QED BY <1>0, <1>2, <2>1, <2>2, <3>3, <3>4
  <2> QED BY <1>0, <1>2, <2>4, <2>5
<1> QED BY <1>1, <1>2

LEMMA PopKnown ==
  ASSUME NEW f \in Frames, Known(f), NEW l \in Places
  PROVE  /\ Popped(f, l) \in Frames /\ Known(Popped(f, l)) /\ Popped(f, l)[l] = Stale
         /\ \A m \in Places \ {l} : Popped(f, l)[m] = f[m]
<1> DEFINE g == Popped(f, l)
<1>1. g \in Frames /\ g[l] = Stale /\ \A m \in Places \ {l} : g[m] = f[m]
  BY StaleType DEF Frames, Popped
<1> HIDE DEF g
<1>2. \A m \in Places : g[m] = Stale \/ g[m] = f[m]
  BY <1>1
<1>3. Known(g)
  BY <1>2, Names DEF Known
<1> QED BY <1>1, <1>3 DEF g

\* Whatever place is resumed, the thread found there can go on, and if that is
\* in the middle of a system call its frame lies at the top.
LEMMA ResumeKnown ==
  ASSUME NEW f \in Frames, Known(f), BelowEntered(f), NEW l \in Places,
         cpu' = Resumed(f, l), frames' = Popped(f, l)
  PROVE  /\ cpu' \in Contexts /\ frames' \in Frames /\ Known(frames')
         /\ CpuKnown' /\ TopMatches' /\ frames'[l] = Stale
         /\ \A m \in Places \ {l} : frames'[m] = f[m]
         /\ l \in {"top"} \cup PCBs => UserCode(cpu') \/ cpu' = Wild
         /\ InMain(cpu') => l = "main" /\ f["main"] # Stale
<1>1. /\ frames' \in Frames /\ Known(frames') /\ frames'[l] = Stale
      /\ \A m \in Places \ {l} : frames'[m] = f[m]
  BY PopKnown
<1>2. CASE f[l] = Stale
  <2>1. cpu' = Wild
    BY <1>2 DEF Resumed
  <2>2. ~CallCode(cpu') /\ ~BootCode(cpu')
    BY <2>1, Modes
  <2>3. ~InMain(cpu')
    BY <2>1, StaleType, Names DEF InMain
  <2> QED BY <1>1, <2>1, <2>2, <2>3, StaleType DEF CpuKnown, TopMatches, Stopped
<1>3. CASE f[l] # Stale
  <2>1. cpu' = f[l] /\ cpu' \in Contexts
    BY <1>3 DEF Resumed, Frames
  <2>2. CASE l \in {"top"} \cup PCBs
    <3>1. UserCode(cpu')
      BY <1>3, <2>1, <2>2 DEF Known
    <3>2. ~CallCode(cpu') /\ ~BootCode(cpu')
      BY <3>1, Modes
    <3>3. ~InMain(cpu')
      BY <3>1, Names DEF InMain, UserCode
    <3> QED BY <1>1, <2>1, <3>1, <3>2, <3>3 DEF CpuKnown, TopMatches
  <2>3. CASE l = "below"
    <3>1. CallCode(cpu')
      BY <1>3, <2>1, <2>3 DEF Known
    <3>2. ~BootCode(cpu')
      BY <3>1, Modes
    <3>3. frames'["top"] = f["top"] /\ frames'["below"] = Stale
      BY <1>1, <2>3, Names
    <3>4. Entered(frames', cpu')
      BY <1>3, <2>1, <2>3, <3>3 DEF BelowEntered, Entered
    <3>5. ~InMain(cpu')
      BY <3>1, Names DEF InMain, CallCode
    <3> QED BY <1>1, <2>1, <2>3, <3>1, <3>2, <3>3, <3>4, <3>5, Names DEF CpuKnown, TopMatches
  <2>4. CASE l \in {"main", "start"}
    <3>1. BootCode(cpu')
      BY <1>3, <2>1, <2>4 DEF Known
    <3>2. ~CallCode(cpu')
      BY <3>1, Modes
    <3>3. frames'["top"] = f["top"] /\ frames'["below"] = f["below"]
      BY <1>1, <2>4, Names
    <3>4. BelowEntered(frames')
      BY <3>3 DEF BelowEntered, Entered
    <3>5. InMain(cpu') => l = "main" /\ f["main"] # Stale
      BY <1>3, <2>1, <2>4 DEF Known
    <3> QED BY <1>1, <2>1, <2>4, <3>1, <3>2, <3>4, <3>5, Names DEF CpuKnown, TopMatches
  <2> QED BY <2>2, <2>3, <2>4, Names
<1> QED BY <1>2, <1>3

-----------------------------------------------------------------------------
(* Steps of kernel code from one place to the next *)

\* d is where c goes on: the same thread with the same locals.
Follows(c, d) ==
  /\ d \in Contexts /\ d.thread = c.thread /\ d.curr = c.curr /\ d.prev = c.prev
  /\ d.next = c.next /\ d.arg = c.arg /\ d.after = c.after

SameMode(c, d) ==
  /\ d.thread = c.thread
  /\ (BootCode(c) /\ BootCode(d)) \/ (CallCode(c) /\ CallCode(d))

LEMMA InsideEnqueue ==
  ASSUME NEW c \in Contexts, BootCode(c) \/ CallCode(c), c.pc \in EnqPcs
  PROVE  /\ c.arg \in PCBs
         /\ c.pc = "enq_link" => c.tail \in PCBs
         /\ \/ BootCode(c) /\ c.after = "loaded"
            \/ c.after = "set_current" /\ c.prev \in PCBs /\ c.next \in PCBs
            \/ CallCode(c) /\ c.after = "execve_zombie" /\ c.curr \in PCBs /\ c.arg \in Procs
BY DEF BootCode, CallCode, InSchedule, InEnqueue, EnqPcs, SchedPcs

LEMMA EnqueueGoesOn ==
  ASSUME NEW c \in Contexts, BootCode(c) \/ CallCode(c), c.pc \in EnqPcs,
         NEW d, Follows(c, d), d.pc \in EnqPcs, d.pc = "enq_link" => d.tail \in PCBs
  PROVE  SameMode(c, d)
BY InsideEnqueue DEF SameMode, Follows, BootCode, CallCode, InSchedule, InEnqueue

LEMMA EnqueueReturns ==
  ASSUME NEW c \in Contexts, BootCode(c) \/ CallCode(c), c.pc \in EnqPcs,
         NEW d, Follows(c, d), d.pc = c.after
  PROVE  SameMode(c, d)
BY InsideEnqueue DEF SameMode, Follows, BootCode, CallCode, InSchedule, InEnqueue, SchedPcs

LEMMA InsideSchedule ==
  ASSUME NEW c \in Contexts, BootCode(c) \/ CallCode(c), c.pc \in SchedPcs
  PROVE  c.prev \in PCBs /\ c.next \in PCBs /\ c.after # "loaded"
BY DEF BootCode, CallCode, InSchedule, InEnqueue, EnqPcs, SchedPcs

LEMMA ScheduleGoesOn ==
  ASSUME NEW c \in Contexts, BootCode(c) \/ CallCode(c), c.pc \in SchedPcs,
         NEW d, Follows(c, d), d.pc \in SchedPcs
  PROVE  SameMode(c, d)
BY InsideSchedule DEF SameMode, Follows, BootCode, CallCode, InSchedule

LEMMA KernelMode ==
  ASSUME CpuKnown, cpu.pc \notin {"user", "wild", "halted"}
  PROVE  BootCode(cpu) \/ CallCode(cpu)
BY DEF CpuKnown, UserCode, Stopped

LEMMA GotoFollows ==
  ASSUME TypeOK, NEW pc \in Pcs, Goto(pc)
  PROVE  Follows(cpu, cpu') /\ cpu'.pc = pc /\ cpu'.tail = cpu.tail
BY AtFields DEF Goto, Follows, TypeOK

\* Such a step leaves the frames at their places.
LEMMA LocalStep ==
  ASSUME IInv, SameMode(cpu, cpu'), cpu' \in Contexts, q' \in Queues,
         frames' = frames, rsp' = rsp, inService' = inService, ended' = ended,
         BootPhase', MainWaits'
  PROVE  IInv'
<1>1. TypeOK'
  BY DEF IInv, TypeOK
<1>2. Known(frames') /\ CpuKnown'
  BY DEF IInv, SameMode, CpuKnown
<1>3. TopMatches'
  BY Modes DEF IInv, SameMode, TopMatches, Entered, BelowEntered
<1> QED BY <1>1, <1>2, <1>3 DEF IInv

LEMMA EnqFieldsStep ==
  ASSUME IInv, enq_fields
  PROVE  IInv'
<1>1. /\ TypeOK /\ cpu \in Contexts /\ q \in Queues /\ cpu.pc = "enq_fields"
      /\ BootCode(cpu) \/ CallCode(cpu)
  BY KernelMode DEF IInv, TypeOK, enq_fields
<1>2. cpu.arg \in PCBs
  BY <1>1, InsideEnqueue DEF EnqPcs
<1> DEFINE c == [cpu EXCEPT !.tail = q.tail]
           pc == IF q.tail = NULL THEN "enq_empty" ELSE "enq_link"
           u == [q EXCEPT !.next[cpu.arg] = NULL]
<1>3. q.tail \in Blocks
  BY <1>1, QueueType
<1>4. c \in Contexts /\ c.tail = q.tail /\ Follows(cpu, c)
  BY <1>1, <1>3 DEF Contexts, Follows, Blocks
<1>5. pc \in Pcs /\ cpu' = At(c, pc)
  BY DEF enq_fields, Pcs
<1>6. Follows(cpu, cpu') /\ cpu'.pc = pc /\ cpu'.tail = q.tail
  <2> HIDE DEF c, pc
  <2> QED BY <1>4, <1>5, AtFields DEF Follows
<1>7. SameMode(cpu, cpu')
  <2>1. cpu'.pc = "enq_link" => cpu'.tail \in PCBs
    BY <1>3, <1>6 DEF Blocks
  <2> QED BY <1>1, <1>6, <2>1, EnqueueGoesOn DEF EnqPcs
<1>8. u \in Queues /\ u.head = q.head /\ u.tail = q.tail /\ u.current = q.current
      /\ u.state = q.state /\ u.next = [q.next EXCEPT ![cpu.arg] = NULL]
  BY <1>1, <1>2, SetLink DEF Blocks
<1>9. /\ q' \in Queues /\ q'.head = q.head /\ q'.tail = q.tail /\ q'.current = q.current
      /\ q'.state = [q.state EXCEPT ![cpu.arg] = "READY"]
      /\ q'.next = [q.next EXCEPT ![cpu.arg] = NULL]
  <2>1. q' = [u EXCEPT !.state[cpu.arg] = "READY"]
    BY DEF enq_fields
  <2>2. "READY" \in States
    BY DEF States
  <2> HIDE DEF u
  <2>3. /\ q' \in Queues /\ q'.head = u.head /\ q'.tail = u.tail
        /\ q'.current = u.current /\ q'.next = u.next
        /\ q'.state = [u.state EXCEPT ![cpu.arg] = "READY"]
    BY <2>1, <2>2, <1>2, <1>8, SetState
  <2> QED BY <2>3, <1>8
<1>10. frames' = frames /\ rsp' = rsp /\ inService' = inService /\ ended' = ended
  BY DEF enq_fields
<1>11. q.next \in [PCBs -> Blocks] /\ q.state \in [PCBs -> States]
  BY <1>1, QueueType
<1>12. BootPhase'
  <2> SUFFICES ASSUME ~inService, InMain(cpu') PROVE BootPhase'
    BY <1>10 DEF BootPhase
  <2>1. InMain(cpu) /\ BootPhase
    BY <1>1, <1>6 DEF InMain, IInv, Follows
  <2>2. cpu.arg = first /\ q.head = NULL /\ q.tail = NULL /\ q.current = idle
        /\ q.state[idle] = "RUNNING" /\ rsp[first] = first
    BY <1>1, <2>1 DEF BootPhase, EnqPcs
  <2>3. q'.state[idle] = "RUNNING" /\ q'.next[first] = NULL
    BY <1>9, <1>11, <2>2, Names
  <2> QED BY <1>6, <1>9, <1>10, <2>2, <2>3 DEF BootPhase, Follows
<1>13. MainWaits'
  <2> SUFFICES ASSUME frames["main"] # Stale PROVE MainWaits'
    BY <1>10 DEF MainWaits
  <2>1. inService /\ rsp[idle] = "main" /\ (IdleFirst \/ IdleTaken)
    BY DEF IInv, MainWaits
  <2>2. IdleFirst => IdleFirst'
    BY <1>1, <1>6, <1>9 DEF IdleFirst, Follows, Stopped, UserCode
  <2>3. IdleTaken => IdleTaken'
    BY <1>1, <1>6 DEF IdleTaken, Follows, EnqPcs
  <2> QED BY <1>10, <2>1, <2>2, <2>3 DEF MainWaits
<1> QED BY <1>6, <1>7, <1>9, <1>10, <1>12, <1>13, LocalStep DEF Follows

\* enq_link, enq_empty and enq_last.
LEMMA EnqStoresStep ==
  ASSUME IInv, enq_link \/ enq_empty \/ enq_last
  PROVE  IInv'
<1>1. /\ TypeOK /\ cpu \in Contexts /\ q \in Queues
      /\ cpu.pc \in {"enq_link", "enq_empty", "enq_tail", "enq_head"}
      /\ BootCode(cpu) \/ CallCode(cpu)
  <2>1. cpu.pc \in {"enq_link", "enq_empty", "enq_tail", "enq_head"}
    BY DEF enq_link, enq_empty, enq_last
  <2> QED BY <2>1, KernelMode DEF IInv, TypeOK
<1>2. /\ cpu.arg \in PCBs /\ cpu.arg \in Blocks /\ cpu.arg # NULL
      /\ cpu.pc = "enq_link" => cpu.tail \in PCBs
  BY <1>1, InsideEnqueue, Names DEF EnqPcs, Blocks
<1>3. cpu.after \in Pcs /\ cpu.after \in {"loaded", "set_current", "execve_zombie"}
  BY <1>1, InsideEnqueue DEF EnqPcs, Pcs
<1>4. frames' = frames /\ rsp' = rsp /\ inService' = inService /\ ended' = ended
  BY DEF enq_link, enq_empty, enq_last
<1>5. q.next \in [PCBs -> Blocks] /\ q.state \in [PCBs -> States]
  BY <1>1, QueueType
<1>6. /\ q' \in Queues /\ q'.current = q.current /\ q'.state = q.state
      /\ q'.head = q.head \/ (cpu.pc \in {"enq_empty", "enq_head"} /\ q'.head = cpu.arg)
      /\ q'.tail = q.tail \/ q'.tail = cpu.arg
      /\ q'.next = q.next \/ cpu.pc = "enq_link"
      /\ Follows(cpu, cpu')
      /\ \/ cpu.pc \in {"enq_link", "enq_empty"} /\ cpu'.pc \in {"enq_tail", "enq_head"}
         \/ cpu.pc \in {"enq_tail", "enq_head"} /\ cpu'.pc = cpu.after
      /\ cpu.pc = "enq_link" => cpu'.pc = "enq_tail" /\ q'.head = q.head
      /\ cpu.pc = "enq_tail" => q'.head = q.head
      /\ cpu.pc = "enq_empty" => \/ q'.head = q.head /\ cpu'.pc = "enq_head"
                                 \/ q'.head = cpu.arg /\ cpu'.pc = "enq_tail"
  <2>1. CASE enq_link
    <3>1. q' = [q EXCEPT !.next[cpu.tail] = cpu.arg] /\ Goto("enq_tail") /\ cpu.pc = "enq_link"
      BY <2>1 DEF enq_link
    <3>2. "enq_tail" \in Pcs
      BY DEF Pcs
    <3>3. Follows(cpu, cpu') /\ cpu'.pc = "enq_tail"
      BY <1>1, <3>1, <3>2, GotoFollows
    <3> QED BY <1>1, <1>2, <3>1, <3>3, SetLink
  <2>2. CASE enq_empty
    <3>1. /\ cpu.pc = "enq_empty"
          /\ \/ q' = [q EXCEPT !.tail = cpu.arg] /\ Goto("enq_head")
             \/ q' = [q EXCEPT !.head = cpu.arg] /\ Goto("enq_tail")
      BY <2>2 DEF enq_empty
    <3>2. "enq_tail" \in Pcs /\ "enq_head" \in Pcs
      BY DEF Pcs
    <3>3. CASE q' = [q EXCEPT !.tail = cpu.arg] /\ Goto("enq_head")
      <4>1. Follows(cpu, cpu') /\ cpu'.pc = "enq_head"
        BY <1>1, <3>3, <3>2, GotoFollows
      <4> QED BY <1>1, <1>2, <3>1, <3>3, <4>1, SetTail
    <3>4. CASE q' = [q EXCEPT !.head = cpu.arg] /\ Goto("enq_tail")
      <4>1. Follows(cpu, cpu') /\ cpu'.pc = "enq_tail"
        BY <1>1, <3>4, <3>2, GotoFollows
      <4> QED BY <1>1, <1>2, <3>1, <3>4, <4>1, SetHead
    <3> QED BY <3>1, <3>3, <3>4
  <2>3. CASE enq_last
    <3>1. /\ \/ cpu.pc = "enq_tail" /\ q' = [q EXCEPT !.tail = cpu.arg]
             \/ cpu.pc = "enq_head" /\ q' = [q EXCEPT !.head = cpu.arg]
          /\ Goto(cpu.after)
      BY <2>3 DEF enq_last
    <3>2. Follows(cpu, cpu') /\ cpu'.pc = cpu.after
      BY <1>1, <1>3, <3>1, GotoFollows
    <3>3. CASE cpu.pc = "enq_tail" /\ q' = [q EXCEPT !.tail = cpu.arg]
      BY <1>1, <1>2, <3>3, <3>2, SetTail
    <3>4. CASE cpu.pc = "enq_head" /\ q' = [q EXCEPT !.head = cpu.arg]
      BY <1>1, <1>2, <3>4, <3>2, SetHead
    <3> QED BY <3>1, <3>3, <3>4
  <2> QED BY <2>1, <2>2, <2>3
<1>7. SameMode(cpu, cpu')
  <2>1. CASE cpu'.pc \in {"enq_tail", "enq_head"}
    BY <1>1, <1>6, <2>1, EnqueueGoesOn DEF EnqPcs
  <2>2. CASE cpu'.pc = cpu.after
    BY <1>1, <1>6, <2>2, EnqueueReturns DEF EnqPcs
  <2> QED BY <1>6, <2>1, <2>2
<1>8. BootPhase'
  <2> SUFFICES ASSUME ~inService, InMain(cpu') PROVE BootPhase'
    BY <1>4 DEF BootPhase
  <2>1. cpu.thread = "boot" /\ cpu.after = "loaded"
    BY <1>3, <1>6 DEF InMain, Follows
  <2>2. InMain(cpu) /\ BootPhase
    BY <2>1 DEF InMain, IInv
  <2>3. /\ cpu.arg = first /\ q.current = idle /\ q.state[idle] = "RUNNING"
        /\ rsp[first] = first /\ cpu.pc # "enq_link" /\ q.next[first] = NULL
        /\ q.head = NULL \/ q.head = first
    BY <1>1, <2>2 DEF BootPhase, EnqPcs
  <2>4. q'.next = q.next /\ (q'.head = NULL \/ q'.head = first)
    BY <1>6, <2>3
  <2>5. cpu'.arg = first /\ cpu'.pc \in {"enq_tail", "enq_head", "loaded"}
    BY <1>6, <2>1, <2>3 DEF Follows
  <2> QED BY <1>4, <1>6, <2>3, <2>4, <2>5 DEF BootPhase
<1>9. MainWaits'
  <2> SUFFICES ASSUME frames["main"] # Stale PROVE MainWaits'
    BY <1>4 DEF MainWaits
  <2>1. inService /\ rsp[idle] = "main" /\ (IdleFirst \/ IdleTaken)
    BY DEF IInv, MainWaits
  <2>2. ASSUME IdleFirst PROVE IdleFirst'
    <3>1. /\ q.head = idle /\ q.tail # NULL /\ q.current \in Procs
          /\ cpu.pc \in {"enq_link", "enq_tail"} /\ cpu.after = "execve_zombie"
      BY <1>1, <2>2 DEF IdleFirst, Stopped, UserCode
    <3>2. q'.head = idle /\ q'.tail # NULL /\ q'.current \in Procs
      BY <1>2, <1>6, <3>1
    <3>3. cpu'.pc \in {"enq_tail", "execve_zombie"} /\ cpu'.after = "execve_zombie"
      BY <1>6, <3>1 DEF Follows
    <3> QED BY <3>2, <3>3 DEF IdleFirst
  <2>3. ASSUME IdleTaken PROVE IdleTaken'
    <3>1. cpu.next = idle /\ cpu.after = "set_current"
      BY <1>1, <2>3 DEF IdleTaken
    <3>2. cpu'.next = idle /\ cpu'.after = "set_current"
          /\ cpu'.pc \in {"enq_tail", "enq_head", "set_current"}
      BY <1>6, <3>1 DEF Follows
    <3> QED BY <3>2 DEF IdleTaken, EnqPcs
  <2> QED BY <1>4, <2>1, <2>2, <2>3 DEF MainWaits
<1> QED BY <1>4, <1>6, <1>7, <1>8, <1>9, LocalStep DEF Follows

\* A new block gets its first frame, and the step into enqueue.
LEMMA CreateStep ==
  ASSUME IInv, NEW p \in Procs, NEW after \in {"loaded", "execve_zombie"},
         CreateProc(p, after), cpu.pc \in {"main", "execve"},
         after = (IF cpu.pc = "main" THEN "loaded" ELSE "execve_zombie"),
         cpu.pc = "main" => p = first,
         UNCHANGED <<q, rsp, inService, ended>>
  PROVE  IInv'
<1>1. /\ TypeOK /\ cpu \in Contexts /\ frames \in Frames /\ p \in PCBs /\ p # idle
      /\ BootCode(cpu) \/ CallCode(cpu)
  BY KernelMode, Names DEF IInv, TypeOK, Frames
<1>2. /\ cpu' \in Contexts /\ cpu'.pc = "enq_fields" /\ cpu'.arg = p
      /\ cpu'.after = after /\ cpu'.thread = cpu.thread /\ cpu'.curr = cpu.curr
      /\ cpu'.prev = cpu.prev /\ cpu'.next = cpu.next
  BY <1>1, EnqueueFields DEF CreateProc
<1>3. SameMode(cpu, cpu')
  <2>1. CASE cpu.pc = "main"
    <3>1. BootCode(cpu)
      BY <1>1, <2>1 DEF CallCode, InSchedule, InEnqueue, EnqPcs, SchedPcs
    <3>2. BootCode(cpu')
      BY <1>1, <1>2, <2>1, <3>1 DEF BootCode, InEnqueue, EnqPcs
    <3> QED BY <1>2, <3>1, <3>2 DEF SameMode
  <2>2. CASE cpu.pc = "execve"
    <3>1. CallCode(cpu) /\ cpu.curr \in PCBs
      BY <1>1, <2>2 DEF BootCode, CallCode, InSchedule, InEnqueue, EnqPcs, SchedPcs
    <3>2. CallCode(cpu')
      BY <1>1, <1>2, <2>2, <3>1 DEF CallCode, InEnqueue, EnqPcs
    <3> QED BY <1>2, <3>1, <3>2 DEF SameMode
  <2> QED BY <2>1, <2>2
<1>4. PICK new \in {Stale, Context(p, "user")} : frames' = [frames EXCEPT ![p] = new]
  BY DEF CreateProc
<1>5. new \in Contexts /\ (new = Stale \/ UserCode(new))
  <2>1. "user" \in Pcs
    BY DEF Pcs
  <2> QED BY <1>1, <2>1, StaleType, ContextType DEF UserCode
<1>6. frames' \in Frames /\ frames'[p] = new /\ \A l \in Places \ {p} : frames'[l] = frames[l]
  BY <1>1, <1>4, <1>5, Names DEF Frames
<1>7. /\ frames'["main"] = frames["main"] /\ frames'["start"] = frames["start"]
      /\ frames'["top"] = frames["top"] /\ frames'["below"] = frames["below"]
  BY <1>1, <1>6, Names
<1>8. Known(frames')
  BY <1>5, <1>6, <1>7, Names DEF Known, IInv
<1>9. CpuKnown' /\ TopMatches'
  BY <1>3, <1>7, Modes DEF SameMode, CpuKnown, TopMatches, Entered, BelowEntered, IInv
<1>10. TypeOK'
  BY <1>1, <1>2, <1>6 DEF TypeOK, Frames
<1>11. BootPhase'
  <2> SUFFICES ASSUME ~inService, InMain(cpu') PROVE BootPhase'
    BY DEF BootPhase
  <2>1. cpu.pc = "main" /\ InMain(cpu)
    BY <1>2 DEF InMain
  <2>2. BootPhase
    BY DEF IInv
  <2> QED BY <1>2, <2>1, <2>2 DEF BootPhase
<1>12. MainWaits'
  <2> SUFFICES ASSUME frames["main"] # Stale PROVE MainWaits'
    BY <1>7 DEF MainWaits
  <2>1. inService /\ rsp[idle] = "main" /\ (IdleFirst \/ IdleTaken)
    BY DEF IInv, MainWaits
  <2>2. IdleFirst /\ cpu.pc = "execve"
    BY <1>1, <2>1 DEF IdleFirst, IdleTaken, EnqPcs, Stopped, UserCode
  <2>3. IdleFirst'
    BY <1>2, <2>2 DEF IdleFirst
  <2> QED BY <2>1, <2>3 DEF MainWaits
<1> QED BY <1>8, <1>9, <1>10, <1>11, <1>12 DEF IInv

LEMMA CreateSteps ==
  ASSUME IInv, BootCreate \/ execve_create
  PROVE  IInv'
<1>1. CASE BootCreate
  BY <1>1, CreateStep, Names DEF BootCreate
<1>2. CASE execve_create
  <2>1. PICK p \in Procs : CreateProc(p, "execve_zombie")
    BY <1>2 DEF execve_create
  <2> QED BY <1>2, <2>1, CreateStep DEF execve_create
<1> QED BY <1>1, <1>2

LEMMA BootSteps ==
  ASSUME IInv, BootNoProgram \/ scheduler_start
  PROVE  IInv'
<1>1. /\ TypeOK /\ cpu \in Contexts /\ cpu.pc \in {"main", "loaded"}
      /\ UNCHANGED <<q, rsp, frames, inService, ended>>
  BY DEF IInv, TypeOK, BootNoProgram, scheduler_start
<1>2. BootCode(cpu)
  <2>1. BootCode(cpu) \/ CallCode(cpu)
    BY <1>1, KernelMode DEF IInv
  <2> QED BY <1>1, <2>1 DEF CallCode, InSchedule, InEnqueue, EnqPcs, SchedPcs
<1>3. q' \in Queues
  BY <1>1 DEF TypeOK
<1>4. frames["main"] = Stale
  BY <1>1 DEF IInv, MainWaits, IdleFirst, IdleTaken, EnqPcs, Stopped, UserCode
<1>5. MainWaits'
  BY <1>1, <1>4 DEF MainWaits
<1>6. CASE BootNoProgram
  <2>1. "loaded" \in Pcs
    BY DEF Pcs
  <2>2. Follows(cpu, cpu') /\ cpu'.pc = "loaded"
    BY <1>1, <1>6, <2>1, GotoFollows DEF BootNoProgram
  <2>3. SameMode(cpu, cpu')
    BY <1>2, <2>2 DEF SameMode, BootCode, Follows
  <2>4. BootPhase'
    <3>1. InMain(cpu) /\ cpu.pc = "main"
      BY <1>2, <1>6 DEF InMain, BootCode, BootNoProgram
    <3> QED BY <1>1, <2>2, <3>1 DEF BootPhase, IInv, EnqPcs
  <2> QED BY <1>1, <1>3, <1>5, <2>2, <2>3, <2>4, LocalStep DEF Follows
<1>7. CASE scheduler_start
  <2>1. "sched" \in Pcs
    BY DEF Pcs
  <2>2. /\ cpu' \in Contexts /\ cpu'.pc = "sched" /\ cpu'.thread = "boot"
        /\ cpu'.after = "none"
    BY <1>7, <2>1, ContextType DEF scheduler_start
  <2>3. SameMode(cpu, cpu')
    BY <1>2, <2>2 DEF SameMode, BootCode, InSchedule
  <2>4. ~InMain(cpu')
    BY <2>2 DEF InMain
  <2>5. BootPhase'
    BY <2>4 DEF BootPhase
  <2> QED BY <1>1, <1>3, <1>5, <2>2, <2>3, <2>5, LocalStep
<1> QED BY <1>6, <1>7

LEMMA SchedBeginStep ==
  ASSUME IInv, sched_begin
  PROVE  IInv'
<1>1. /\ TypeOK /\ cpu \in Contexts /\ q \in Queues /\ cpu.pc = "sched"
      /\ BootCode(cpu) \/ CallCode(cpu)
      /\ UNCHANGED <<q, rsp, frames, inService, ended>>
  BY KernelMode DEF IInv, TypeOK, sched_begin
<1>2. /\ cpu' \in Contexts /\ cpu'.prev = q.current
      /\ cpu'.next = (IF q.head = NULL THEN idle ELSE q.head)
      /\ cpu'.pc = (IF q.head = NULL THEN "sched_test" ELSE "deq_head")
      /\ cpu'.thread = cpu.thread /\ cpu'.after = cpu.after
      /\ cpu'.next \in PCBs /\ cpu'.prev \in PCBs
  BY <1>1, BeginFields
<1>3. cpu.after # "loaded"
  BY <1>1 DEF BootCode, CallCode, InSchedule, InEnqueue, EnqPcs, SchedPcs
<1>4. SameMode(cpu, cpu')
  <2>1. InSchedule(cpu')
    BY <1>2, <1>3 DEF InSchedule, SchedPcs
  <2> QED BY <1>1, <1>2, <2>1 DEF SameMode, BootCode, CallCode
<1>5. BootPhase'
  <2>1. ~InMain(cpu')
    BY <1>2, <1>3 DEF InMain
  <2> QED BY <2>1 DEF BootPhase
<1>6. MainWaits'
  <2> SUFFICES ASSUME frames["main"] # Stale PROVE MainWaits'
    BY <1>1 DEF sched_begin, MainWaits
  <2>1. inService /\ rsp[idle] = "main" /\ (IdleFirst \/ IdleTaken)
    BY DEF IInv, MainWaits
  <2>2. IdleFirst
    BY <1>1, <2>1 DEF IdleTaken, EnqPcs
  <2>3. q.head = idle /\ q.head # NULL /\ q.current # idle
    BY <2>2, Names DEF IdleFirst
  <2>4. IdleTaken'
    BY <1>2, <2>3 DEF IdleTaken
  <2> QED BY <2>1, <2>4 DEF MainWaits, sched_begin
<1>7. q' = q /\ frames' = frames /\ rsp' = rsp /\ inService' = inService /\ ended' = ended
  BY DEF sched_begin
<1> QED BY <1>1, <1>2, <1>4, <1>5, <1>6, <1>7, LocalStep

\* deq_head, deq_tail, set_current and set_running.
LEMMA SchedStoresStep ==
  ASSUME IInv, deq_head \/ deq_tail \/ set_current \/ set_running
  PROVE  IInv'
<1>1. cpu.pc \in {"deq_head", "deq_tail", "set_current", "set_running"}
  BY DEF deq_head, deq_tail, set_current, set_running
<1>2. /\ TypeOK /\ cpu \in Contexts /\ q \in Queues
      /\ BootCode(cpu) \/ CallCode(cpu)
  BY <1>1, KernelMode DEF IInv, TypeOK
<1>3. cpu.prev \in PCBs /\ cpu.next \in PCBs /\ cpu.after # "loaded"
  BY <1>1, <1>2, InsideSchedule DEF SchedPcs
<1>4. frames' = frames /\ rsp' = rsp /\ inService' = inService /\ ended' = ended
  BY DEF deq_head, deq_tail, set_current, set_running
<1>5. /\ q' \in Queues /\ Follows(cpu, cpu')
      /\ \/ cpu.pc \in {"deq_head", "deq_tail"} /\ cpu'.pc \in {"deq_tail", "sched_test"}
         \/ cpu'.pc \in {"set_running", "switch"}
  <2>1. CASE deq_head
    <3> DEFINE pc == IF q.next[cpu.next] = NULL THEN "deq_tail" ELSE "sched_test"
    <3>1. q' = [q EXCEPT !.head = q.next[cpu.next]] /\ Goto(pc) /\ cpu.pc = "deq_head"
      BY <2>1 DEF deq_head
    <3>2. pc \in Pcs /\ pc \in {"deq_tail", "sched_test"}
      BY DEF Pcs
    <3>3. q.next[cpu.next] \in Blocks
      BY <1>2, <1>3, QueueType
    <3> HIDE DEF pc
    <3>4. Follows(cpu, cpu') /\ cpu'.pc = pc
      BY <1>2, <3>1, <3>2, GotoFollows
    <3> QED BY <1>2, <3>1, <3>2, <3>3, <3>4, SetHead
  <2>2. CASE deq_tail
    <3>1. q' = [q EXCEPT !.tail = NULL] /\ Goto("sched_test") /\ cpu.pc = "deq_tail"
      BY <2>2 DEF deq_tail
    <3>2. "sched_test" \in Pcs /\ NULL \in Blocks
      BY DEF Pcs, Blocks
    <3>4. Follows(cpu, cpu') /\ cpu'.pc = "sched_test"
      BY <1>2, <3>1, <3>2, GotoFollows
    <3> QED BY <1>2, <3>1, <3>2, <3>4, SetTail
  <2>3. CASE set_current
    <3>1. q' = [q EXCEPT !.current = cpu.next] /\ Goto("set_running")
      BY <2>3 DEF set_current
    <3>2. "set_running" \in Pcs
      BY DEF Pcs
    <3>4. Follows(cpu, cpu') /\ cpu'.pc = "set_running"
      BY <1>2, <3>1, <3>2, GotoFollows
    <3> QED BY <1>2, <1>3, <3>1, <3>2, <3>4, SetCurrent
  <2>4. CASE set_running
    <3>1. q' = [q EXCEPT !.state[cpu.next] = "RUNNING"] /\ Goto("switch")
      BY <2>4 DEF set_running
    <3>2. "switch" \in Pcs /\ "RUNNING" \in States
      BY DEF Pcs, States
    <3>4. Follows(cpu, cpu') /\ cpu'.pc = "switch"
      BY <1>2, <3>1, <3>2, GotoFollows
    <3> QED BY <1>2, <1>3, <3>1, <3>2, <3>4, SetState
  <2> QED BY <2>1, <2>2, <2>3, <2>4
<1>6. SameMode(cpu, cpu')
  BY <1>1, <1>2, <1>5, ScheduleGoesOn DEF SchedPcs
<1>7. BootPhase'
  <2>1. ~InMain(cpu')
    BY <1>3, <1>5 DEF InMain, Follows
  <2> QED BY <2>1 DEF BootPhase
<1>8. MainWaits'
  <2> SUFFICES ASSUME frames["main"] # Stale PROVE MainWaits'
    BY <1>4 DEF MainWaits
  <2>1. inService /\ rsp[idle] = "main" /\ (IdleFirst \/ IdleTaken)
    BY DEF IInv, MainWaits
  <2>2. IdleTaken
    BY <1>1, <2>1 DEF IdleFirst, Stopped, UserCode
  <2>3. IdleTaken'
    BY <1>1, <1>5, <2>2 DEF IdleTaken, Follows, EnqPcs
  <2> QED BY <1>4, <2>1, <2>3 DEF MainWaits
<1> QED BY <1>4, <1>5, <1>6, <1>7, <1>8, LocalStep DEF Follows

LEMMA SchedTestStep ==
  ASSUME IInv, sched_test
  PROVE  IInv'
<1>1. cpu.pc = "sched_test"
  BY DEF sched_test
<1>2. /\ TypeOK /\ cpu \in Contexts /\ q \in Queues
      /\ BootCode(cpu) \/ CallCode(cpu)
  BY <1>1, KernelMode DEF IInv, TypeOK
<1>3. cpu.prev \in PCBs /\ cpu.next \in PCBs /\ cpu.after # "loaded"
  BY <1>1, <1>2, InsideSchedule DEF SchedPcs
<1>4. frames' = frames /\ rsp' = rsp /\ inService' = inService /\ ended' = ended /\ q' = q
  BY DEF sched_test
<1>5. ASSUME frames["main"] # Stale
      PROVE  inService /\ rsp[idle] = "main" /\ cpu.next = idle /\ cpu.prev # idle
  BY <1>1, <1>5 DEF IInv, MainWaits, IdleFirst, IdleTaken, EnqPcs, Stopped, UserCode
<1>6. CASE cpu.prev = cpu.next
  <2> DEFINE pc == IF cpu.thread = "boot" THEN "idling" ELSE "sysret"
  <2>1. cpu' = Context(cpu.thread, pc) /\ pc \in Pcs
    BY <1>6 DEF sched_test, Pcs
  <2>2. cpu.thread \in PCBs \cup {"boot", NULL}
    BY <1>2 DEF Contexts
  <2>3. cpu' \in Contexts /\ cpu'.thread = cpu.thread /\ cpu'.pc = pc /\ cpu'.after = "none"
    <3> HIDE DEF pc
    <3> QED BY <2>1, <2>2, ContextType
  <2>4. SameMode(cpu, cpu')
    BY <1>2, <2>3, Names DEF SameMode, BootCode, CallCode
  <2>5. BootPhase'
    <3>1. ~InMain(cpu')
      BY <2>3 DEF InMain
    <3> QED BY <3>1 DEF BootPhase
  <2>6. MainWaits'
    BY <1>4, <1>5, <1>6 DEF MainWaits
  <2> QED BY <1>2, <1>4, <2>3, <2>4, <2>5, <2>6, LocalStep
<1>7. CASE cpu.prev # cpu.next /\ CallEnqueue(cpu.prev, "set_current")
  <2>1. /\ cpu' \in Contexts /\ cpu'.pc = "enq_fields" /\ cpu'.arg = cpu.prev
        /\ cpu'.after = "set_current" /\ cpu'.thread = cpu.thread /\ cpu'.curr = cpu.curr
        /\ cpu'.prev = cpu.prev /\ cpu'.next = cpu.next
    BY <1>2, <1>3, <1>7, EnqueueFields
  <2>2. InSchedule(cpu')
    BY <1>3, <2>1 DEF InSchedule, InEnqueue, EnqPcs
  <2>3. SameMode(cpu, cpu')
    BY <1>2, <2>1, <2>2 DEF SameMode, BootCode, CallCode
  <2>4. BootPhase'
    <3>1. ~InMain(cpu')
      BY <2>1 DEF InMain
    <3> QED BY <3>1 DEF BootPhase
  <2>5. MainWaits'
    <3>1. frames["main"] # Stale => IdleTaken'
      BY <1>5, <2>1 DEF IdleTaken, EnqPcs
    <3> QED BY <1>4, <1>5, <3>1 DEF MainWaits
  <2> QED BY <1>2, <1>4, <2>1, <2>3, <2>4, <2>5, LocalStep
<1>8. CASE cpu.prev # cpu.next /\ Goto("set_current")
  <2>1. "set_current" \in Pcs
    BY DEF Pcs
  <2>2. Follows(cpu, cpu') /\ cpu'.pc = "set_current"
    BY <1>2, <1>8, <2>1, GotoFollows
  <2>3. SameMode(cpu, cpu')
    BY <1>1, <1>2, <2>2, ScheduleGoesOn DEF SchedPcs
  <2>4. BootPhase'
    <3>1. ~InMain(cpu')
      BY <1>3, <2>2 DEF InMain, Follows
    <3> QED BY <3>1 DEF BootPhase
  <2>5. MainWaits'
    <3>1. frames["main"] # Stale => IdleTaken'
      BY <1>5, <2>2 DEF IdleTaken, Follows
    <3> QED BY <1>4, <1>5, <3>1 DEF MainWaits
  <2> QED BY <1>2, <1>4, <2>2, <2>3, <2>4, <2>5, LocalStep DEF Follows
<1> QED BY <1>6, <1>7, <1>8 DEF sched_test

\* exit_zombie, execve_zombie, execve_current and execve_running.
LEMMA CallStoresStep ==
  ASSUME IInv, exit_zombie \/ execve_zombie \/ execve_current \/ execve_running
  PROVE  IInv'
<1>1. cpu.pc \in {"exit", "execve_zombie", "execve_current", "execve_running"}
  BY DEF exit_zombie, execve_zombie, execve_current, execve_running, SetZombie
<1>2. /\ TypeOK /\ cpu \in Contexts /\ q \in Queues
      /\ BootCode(cpu) \/ CallCode(cpu)
  BY <1>1, KernelMode DEF IInv, TypeOK
<1>3. /\ CallCode(cpu) /\ cpu.thread \in PCBs /\ cpu.thread # "boot"
      /\ cpu.pc \in {"exit", "execve_zombie"} => cpu.curr \in PCBs
      /\ cpu.pc \in {"execve_zombie", "execve_current", "execve_running"} => cpu.arg \in Procs
  BY <1>1, <1>2, Names DEF BootCode, CallCode, InSchedule, InEnqueue, EnqPcs, SchedPcs
<1>4. frames' = frames /\ rsp' = rsp /\ inService' = inService /\ ended' = ended
  BY DEF exit_zombie, execve_zombie, execve_current, execve_running, SetZombie
<1>5. /\ q' \in Queues /\ cpu' \in Contexts /\ cpu'.thread = cpu.thread
      /\ q'.head = q.head /\ q'.tail = q.tail
      /\ q'.current = q.current \/ q'.current \in Procs
      /\ cpu'.pc \in {"sched", "execve_current", "execve_running", "sysret"}
      /\ CallCode(cpu')
  <2>1. CASE exit_zombie
    <3>1. q' = [q EXCEPT !.state[cpu.curr] = "ZOMBIE"] /\ Goto("sched") /\ cpu.pc = "exit"
      BY <2>1 DEF exit_zombie, SetZombie
    <3>2. "sched" \in Pcs /\ "ZOMBIE" \in States
      BY DEF Pcs, States
    <3>3. Follows(cpu, cpu') /\ cpu'.pc = "sched"
      BY <1>2, <3>1, <3>2, GotoFollows
    <3>4. q' \in Queues /\ q'.head = q.head /\ q'.tail = q.tail /\ q'.current = q.current
      BY <1>2, <1>3, <3>1, <3>2, SetState
    <3>5. cpu.after # "loaded"
      BY <3>1, <1>3 DEF CallCode, InSchedule, InEnqueue, EnqPcs, SchedPcs
    <3> QED BY <1>3, <3>3, <3>4, <3>5 DEF Follows, CallCode, InSchedule
  <2>2. CASE execve_zombie
    <3>1. q' = [q EXCEPT !.state[cpu.curr] = "ZOMBIE"] /\ Goto("execve_current")
          /\ cpu.pc = "execve_zombie"
      BY <2>2 DEF execve_zombie, SetZombie
    <3>2. "execve_current" \in Pcs /\ "ZOMBIE" \in States
      BY DEF Pcs, States
    <3>3. Follows(cpu, cpu') /\ cpu'.pc = "execve_current"
      BY <1>2, <3>1, <3>2, GotoFollows
    <3>4. q' \in Queues /\ q'.head = q.head /\ q'.tail = q.tail /\ q'.current = q.current
      BY <1>2, <1>3, <3>1, <3>2, SetState
    <3> QED BY <1>3, <3>1, <3>3, <3>4 DEF Follows, CallCode
  <2>3. CASE execve_current
    <3>1. q' = [q EXCEPT !.current = cpu.arg] /\ Goto("execve_running")
          /\ cpu.pc = "execve_current"
      BY <2>3 DEF execve_current
    <3>2. "execve_running" \in Pcs /\ cpu.arg \in PCBs
      BY <1>3, <3>1, Names DEF Pcs
    <3>3. Follows(cpu, cpu') /\ cpu'.pc = "execve_running"
      BY <1>2, <3>1, <3>2, GotoFollows
    <3>4. q' \in Queues /\ q'.head = q.head /\ q'.tail = q.tail /\ q'.current = cpu.arg
      BY <1>2, <3>1, <3>2, SetCurrent
    <3> QED BY <1>3, <3>1, <3>3, <3>4 DEF Follows, CallCode
  <2>4. CASE execve_running
    <3>1. q' = [q EXCEPT !.state[cpu.arg] = "RUNNING"]
          /\ cpu' = Context(cpu.thread, "sysret") /\ cpu.pc = "execve_running"
      BY <2>4 DEF execve_running
    <3>2. "sysret" \in Pcs /\ cpu.arg \in PCBs /\ "RUNNING" \in States
      BY <1>3, <3>1, Names DEF Pcs, States
    <3>3. cpu' \in Contexts /\ cpu'.pc = "sysret" /\ cpu'.thread = cpu.thread
      BY <1>3, <3>1, <3>2, ContextType
    <3>4. q' \in Queues /\ q'.head = q.head /\ q'.tail = q.tail /\ q'.current = q.current
      BY <1>2, <3>1, <3>2, SetState
    <3> QED BY <1>3, <3>3, <3>4 DEF CallCode
  <2> QED BY <2>1, <2>2, <2>3, <2>4
<1>6. SameMode(cpu, cpu')
  BY <1>3, <1>5 DEF SameMode
<1>7. BootPhase'
  <2>1. ~InMain(cpu')
    BY <1>3, <1>5 DEF InMain
  <2> QED BY <2>1 DEF BootPhase
<1>8. MainWaits'
  <2> SUFFICES ASSUME frames["main"] # Stale PROVE MainWaits'
    BY <1>4 DEF MainWaits
  <2>1. inService /\ rsp[idle] = "main" /\ (IdleFirst \/ IdleTaken)
    BY DEF IInv, MainWaits
  <2>2. q.head = idle /\ q.tail # NULL /\ q.current \in Procs
    BY <1>1, <2>1 DEF IdleFirst, IdleTaken, EnqPcs
  <2>3. IdleFirst'
    BY <1>5, <2>2 DEF IdleFirst
  <2> QED BY <1>4, <2>1, <2>3 DEF MainWaits
<1> QED BY <1>4, <1>5, <1>6, <1>7, <1>8, LocalStep

-----------------------------------------------------------------------------
(* Steps that change the stacks *)

LEMMA SwitchStep ==
  ASSUME IInv, switch_to_proc
  PROVE  IInv'
<1>1. /\ cpu.pc = "switch" /\ UNCHANGED <<q, rsp, inService, ended>>
      /\ cpu' = Resumed(frames, rsp[cpu.next]) /\ frames' = Popped(frames, rsp[cpu.next])
  BY DEF switch_to_proc
<1>2. /\ TypeOK /\ cpu \in Contexts /\ frames \in Frames /\ Known(frames)
      /\ BootCode(cpu) \/ CallCode(cpu)
  BY <1>1, KernelMode DEF IInv, TypeOK, Frames
<1>3. cpu.next \in PCBs /\ rsp[cpu.next] \in Places
  BY <1>1, <1>2, InsideSchedule DEF SchedPcs, TypeOK
<1>4. BelowEntered(frames)
  BY <1>2 DEF IInv, TopMatches, BelowEntered
<1> DEFINE l == rsp[cpu.next]
<1>5. /\ cpu' \in Contexts /\ frames' \in Frames /\ Known(frames')
      /\ CpuKnown' /\ TopMatches' /\ frames'[l] = Stale
      /\ \A m \in Places \ {l} : frames'[m] = frames[m]
      /\ InMain(cpu') => l = "main" /\ frames["main"] # Stale
  BY <1>1, <1>2, <1>3, <1>4, ResumeKnown
<1>6. TypeOK'
  BY <1>1, <1>2, <1>5 DEF TypeOK, Frames
<1>7. frames["main"] # Stale => inService /\ l = "main"
  BY <1>1 DEF IInv, MainWaits, IdleFirst, IdleTaken, EnqPcs, Stopped, UserCode
<1>8. BootPhase'
  BY <1>1, <1>5, <1>7 DEF BootPhase
<1>9. MainWaits'
  <2>1. frames'["main"] = Stale
    BY <1>5, <1>7, Names
  <2> QED BY <2>1 DEF MainWaits
<1> QED BY <1>5, <1>6, <1>8, <1>9 DEF IInv

LEMMA SysretStep ==
  ASSUME IInv, sysret
  PROVE  IInv' /\ cpu'.thread = cpu.thread
<1>1. /\ cpu.pc = "sysret" /\ UNCHANGED <<q, rsp, inService, ended>>
      /\ cpu' = Resumed(frames, "top") /\ frames' = Popped(frames, "top")
  BY DEF sysret
<1>2. /\ TypeOK /\ cpu \in Contexts /\ frames \in Frames /\ Known(frames)
      /\ BootCode(cpu) \/ CallCode(cpu)
  BY <1>1, KernelMode DEF IInv, TypeOK, Frames
<1>3. CallCode(cpu)
  BY <1>1, <1>2, Modes
<1>4. Entered(frames, cpu) /\ frames["below"] = Stale /\ BelowEntered(frames)
  BY <1>3 DEF IInv, TopMatches, BelowEntered
<1>5. cpu'.thread = cpu.thread
  BY <1>1, <1>4 DEF Resumed, Entered
<1>6. /\ cpu' \in Contexts /\ frames' \in Frames /\ Known(frames')
      /\ CpuKnown' /\ TopMatches'
      /\ \A m \in Places \ {"top"} : frames'[m] = frames[m]
      /\ UserCode(cpu') \/ cpu' = Wild
      /\ ~InMain(cpu')
  <2>1. "top" \in Places
    BY Names
  <2> QED BY <1>1, <1>2, <1>4, <2>1, ResumeKnown
<1>7. TypeOK'
  BY <1>1, <1>2, <1>6 DEF TypeOK, Frames
<1>8. BootPhase'
  BY <1>6 DEF BootPhase
<1>9. MainWaits'
  <2>1. frames'["main"] = frames["main"]
    BY <1>6, Names
  <2> SUFFICES ASSUME frames["main"] # Stale PROVE MainWaits'
    BY <2>1 DEF MainWaits
  <2>2. inService /\ rsp[idle] = "main" /\ IdleFirst
    BY <1>1 DEF IInv, MainWaits, IdleTaken, EnqPcs
  <2>3. UserCode(cpu') \/ Stopped'
    BY <1>6, StaleType DEF Stopped
  <2>4. IdleFirst'
    BY <1>1, <2>2, <2>3 DEF IdleFirst
  <2> QED BY <1>1, <2>2, <2>4 DEF MainWaits
<1> QED BY <1>5, <1>6, <1>7, <1>8, <1>9 DEF IInv

LEMMA EnterStep ==
  ASSUME IInv, NEW pc \in {"sysret", "exit", "execve", "halted"}, Enter(pc),
         ended' \subseteq ended \cup {<<cpu.thread, "exit">>, <<cpu.thread, "execve">>}
  PROVE  IInv'
<1>1. /\ cpu.pc = "user" /\ UNCHANGED <<q, inService>> /\ frames' = Pushed
      /\ rsp' = [rsp EXCEPT ![q.current] = "top"]
      /\ cpu' = [Context(cpu.thread, pc) EXCEPT !.curr = q.current]
  BY DEF Enter
<1>2. /\ TypeOK /\ cpu \in Contexts /\ frames \in Frames /\ Known(frames) /\ TopMatches
      /\ UserCode(cpu)
  <2>1. UserCode(cpu)
    BY <1>1, Modes DEF IInv, CpuKnown, Stopped
  <2> QED BY <2>1 DEF IInv, TypeOK, Frames
<1>3. Place = "top" /\ cpu.thread \in PCBs /\ q.current \in PCBs
  BY <1>2, PlaceOfMode, QueueType DEF UserCode, TypeOK
<1>4. /\ frames' \in Frames /\ Known(frames') /\ frames'["top"] = cpu
      /\ frames'["below"] = Stale /\ frames'["main"] = frames["main"]
  BY <1>1, <1>2, <1>3, PushKnown, Names
<1>5. /\ cpu' \in Contexts /\ cpu'.thread = cpu.thread /\ cpu'.pc = pc
      /\ cpu'.curr = q.current /\ cpu'.after = "none"
  <2> DEFINE c == Context(cpu.thread, pc)
  <2>1. pc \in Pcs
    BY DEF Pcs
  <2>2. c \in Contexts /\ c.thread = cpu.thread /\ c.pc = pc /\ c.after = "none"
    BY <1>3, <2>1, ContextType
  <2>3. cpu' = [c EXCEPT !.curr = q.current]
    BY <1>1
  <2> HIDE DEF c
  <2> QED BY <1>3, <2>2, <2>3 DEF Contexts
<1>6. CallCode(cpu') \/ Stopped'
  BY <1>3, <1>5 DEF CallCode, Stopped
<1>7. CpuKnown'
  BY <1>6 DEF CpuKnown
<1>8. ~BootCode(cpu') /\ ~InMain(cpu')
  BY <1>3, <1>5, Names DEF BootCode, InMain
<1>9. TopMatches'
  <2>1. cpu # Stale
    BY <1>2, Modes
  <2> QED BY <1>4, <1>5, <1>8, <2>1 DEF TopMatches, Entered
<1>10. TypeOK'
  <2>1. rsp' \in [PCBs -> Places]
    BY <1>1, <1>2, <1>3, Names DEF TypeOK
  <2>2. ended' \subseteq PCBs \X {"exit", "execve"}
    BY <1>2, <1>3 DEF TypeOK
  <2> QED BY <1>1, <1>2, <1>4, <1>5, <2>1, <2>2 DEF TypeOK, Frames
<1>11. BootPhase'
  BY <1>8 DEF BootPhase
<1>12. MainWaits'
  <2> SUFFICES ASSUME frames["main"] # Stale PROVE MainWaits'
    BY <1>4 DEF MainWaits
  <2>1. inService /\ rsp[idle] = "main" /\ IdleFirst
    BY <1>1 DEF IInv, MainWaits, IdleTaken, EnqPcs
  <2>2. rsp'[idle] = "main"
    BY <1>1, <1>2, <2>1, Names DEF TypeOK, IdleFirst
  <2>3. IdleFirst'
    BY <1>1, <1>5, <2>1 DEF IdleFirst, Stopped
  <2> QED BY <1>1, <2>1, <2>2, <2>3 DEF MainWaits
<1> QED BY <1>4, <1>7, <1>9, <1>10, <1>11, <1>12 DEF IInv

LEMMA CallsStep ==
  ASSUME IInv, CallOther \/ CallExit \/ CallExecve \/ Fault
  PROVE  IInv'
<1>1. CASE CallOther
  BY <1>1, EnterStep DEF CallOther
<1>2. CASE CallExit
  BY <1>2, EnterStep DEF CallExit
<1>3. CASE CallExecve
  BY <1>3, EnterStep DEF CallExecve
<1>4. CASE Fault
  BY <1>4, EnterStep DEF Fault
<1> QED BY <1>1, <1>2, <1>3, <1>4

\* An interrupt that returns to the code it interrupted.
LEMMA InterruptReturns ==
  ASSUME IInv, ~Stopped, ~inService, q' \in Queues, InMain(cpu) => q' = q,
         rsp' = [rsp EXCEPT ![q.current] = Place], frames' = Popped(Pushed, Place),
         UNCHANGED <<cpu, inService, ended>>
  PROVE  IInv'
<1>1. /\ TypeOK /\ cpu \in Contexts /\ frames \in Frames /\ Known(frames) /\ TopMatches
      /\ BootCode(cpu) \/ CallCode(cpu) \/ UserCode(cpu)
  BY DEF IInv, TypeOK, Frames, CpuKnown
<1>2. /\ Pushed \in Frames /\ Known(Pushed)
      /\ Place \in {"main", "start", "top", "below"} /\ Place \in Places
      /\ \A l \in Places \ {Place} :
           Pushed[l] = IF Place = "top" /\ l = "below" THEN Stale ELSE frames[l]
  BY <1>1, PushKnown, Names
<1> DEFINE f == Pushed
           l == Place
<1>3. /\ frames' \in Frames /\ Known(frames') /\ frames'[l] = Stale
      /\ \A m \in Places \ {l} : frames'[m] = f[m]
  <2>1. f \in Frames /\ Known(f) /\ l \in Places /\ frames' = Popped(f, l)
    BY <1>2
  <2> HIDE DEF f, l
  <2> QED BY <2>1, PopKnown
<1>4. TypeOK'
  <2>1. rsp' \in [PCBs -> Places]
    BY <1>1, <1>2, QueueType DEF TypeOK
  <2> QED BY <1>1, <1>3, <2>1 DEF TypeOK, Frames
<1>5. CpuKnown'
  BY DEF IInv, CpuKnown, Stopped
<1>6. TopMatches'
  <2>1. CASE CallCode(cpu)
    <3>1. Place = "below" /\ ~BootCode(cpu)
      BY <2>1, PlaceOfMode, Modes
    <3>2. frames'["below"] = Stale /\ frames'["top"] = frames["top"]
      BY <1>2, <1>3, <3>1, Names
    <3> QED BY <1>1, <2>1, <3>1, <3>2 DEF TopMatches, Entered
  <2>2. CASE BootCode(cpu)
    <3>1. Place \in {"main", "start"} /\ ~CallCode(cpu)
      BY <2>2, PlaceOfMode, Modes
    <3>2. frames'["below"] = frames["below"] /\ frames'["top"] = frames["top"]
      BY <1>2, <1>3, <3>1, Names
    <3> QED BY <1>1, <2>2, <3>1, <3>2 DEF TopMatches, Entered, BelowEntered
  <2>3. CASE UserCode(cpu)
    <3>1. ~CallCode(cpu) /\ ~BootCode(cpu)
      BY <2>3, Modes
    <3> QED BY <3>1 DEF TopMatches
  <2> QED BY <1>1, <2>1, <2>2, <2>3
<1>7. BootPhase'
  <2> SUFFICES ASSUME InMain(cpu) PROVE BootPhase'
    BY DEF BootPhase
  <2>1. q' = q /\ BootPhase /\ q.current = idle /\ rsp[first] = first
    BY DEF IInv, BootPhase
  <2>2. rsp'[first] = first
    BY <1>1, <2>1, Names DEF TypeOK
  <2> QED BY <2>1, <2>2 DEF BootPhase
<1>8. MainWaits'
  <2>1. frames["main"] = Stale
    BY DEF IInv, MainWaits
  <2>2. frames'["main"] = Stale
    BY <1>2, <1>3, <2>1, Names
  <2> QED BY <2>2 DEF MainWaits
<1> QED BY <1>3, <1>4, <1>5, <1>6, <1>7, <1>8 DEF IInv

\* What schedule does while the boot thread is inside kernel_main.
LEMMA ScheduleInMain ==
  ASSUME NEW r \in Queues, r.current = idle, r.state[idle] = "RUNNING",
         r.head = NULL \/ (r.head = first /\ r.next[first] = NULL)
  PROVE  /\ schedule(r).switched \in BOOLEAN
         /\ ~schedule(r).switched => schedule(r).q = r
         /\ schedule(r).switched => /\ schedule(r).q.head = idle
                                    /\ schedule(r).q.tail = idle
                                    /\ schedule(r).q.current = first
<1>1. CASE r.head = NULL
  BY <1>1, Names DEF schedule, dequeue
<1>2. CASE r.head = first /\ r.next[first] = NULL
  <2> DEFINE e == [head |-> NULL, tail |-> NULL, next |-> r.next, state |-> r.state,
                   current |-> r.current]
             u == enqueue(e, idle)
  <2>1. dequeue(r) = [q |-> e, p |-> first]
    BY <1>2, Names DEF dequeue
  <2>2. u.head = idle /\ u.tail = idle
    BY DEF enqueue
  <2> DEFINE d == dequeue(r)
             n == IF d.p = NULL THEN idle ELSE d.p
             v == IF d.q.state[r.current] = "RUNNING" THEN enqueue(d.q, r.current) ELSE d.q
  <2>3. schedule(r) = IF r.current = n THEN [q |-> d.q, switched |-> FALSE]
                                       ELSE [q |-> Run(v, n), switched |-> TRUE]
    BY DEF schedule
  <2>4. d.p = first /\ d.q = e
    BY <2>1
  <2>5. e.state = r.state
    OBVIOUS
  <2> HIDE DEF d, e
  <2>6. n = first /\ v = u
    BY <2>4, <2>5, Names
  <2> HIDE DEF n, v, u
  <2>7. schedule(r) = [q |-> Run(u, first), switched |-> TRUE]
    BY <2>3, <2>6, Names
  <2> QED BY <2>2, <2>7 DEF Run
<1> QED BY <1>1, <1>2

LEMMA TickStep ==
  ASSUME IInv, Tick
  PROVE  IInv'
<1> DEFINE r == schedule(q)
           rsp1 == [rsp EXCEPT ![q.current] = Place]
           to == rsp1[r.q.current]
<1>1. /\ ~Stopped /\ ~inService /\ q' = r.q /\ rsp' = rsp1 /\ ended' = ended
      /\ IF r.switched
           THEN cpu' = Resumed(Pushed, to) /\ frames' = Popped(Pushed, to) /\ inService' = TRUE
           ELSE frames' = Popped(Pushed, Place) /\ UNCHANGED <<cpu, inService>>
  BY DEF Tick
<1>2. /\ TypeOK /\ cpu \in Contexts /\ frames \in Frames /\ Known(frames) /\ TopMatches
      /\ BootCode(cpu) \/ CallCode(cpu) \/ UserCode(cpu)
  BY <1>1 DEF IInv, TypeOK, Frames, CpuKnown
<1>3. q \in Queues /\ q' \in Queues /\ q.current \in PCBs /\ q'.current \in PCBs
  BY <1>1, <1>2, ScheduleType, QueueType DEF TypeOK
<1>4. InMain(cpu) => /\ q.current = idle /\ q.state[idle] = "RUNNING" /\ rsp[first] = first
                     /\ q.head = NULL \/ (q.head = first /\ q.next[first] = NULL)
  BY <1>1 DEF IInv, BootPhase
<1>5. CASE ~r.switched
  <2>1. InMain(cpu) => q' = q
    BY <1>1, <1>3, <1>4, <1>5, ScheduleInMain
  <2> QED BY <1>1, <1>3, <1>5, <2>1, InterruptReturns
<1>6. CASE r.switched
  <2>1. /\ Pushed \in Frames /\ Known(Pushed) /\ BelowEntered(Pushed)
        /\ Place \in {"main", "start", "top", "below"} /\ Place \in Places
        /\ \A l \in Places \ {Place} :
             Pushed[l] = IF Place = "top" /\ l = "below" THEN Stale ELSE frames[l]
    BY <1>2, PushKnown, Names
  <2>2. rsp1 \in [PCBs -> Places]
    BY <1>2, <1>3, <2>1 DEF TypeOK
  <2>3. to \in Places
    BY <1>1, <1>3, <2>2
  <2>4. cpu' = Resumed(Pushed, to) /\ frames' = Popped(Pushed, to) /\ inService' = TRUE
    BY <1>1, <1>6
  <2>5. /\ cpu' \in Contexts /\ frames' \in Frames /\ Known(frames')
        /\ CpuKnown' /\ TopMatches' /\ frames'[to] = Stale
        /\ \A m \in Places \ {to} : frames'[m] = Pushed[m]
        /\ to \in {"top"} \cup PCBs => UserCode(cpu') \/ cpu' = Wild
    <3> DEFINE f == Pushed
    <3>1. f \in Frames /\ Known(f) /\ BelowEntered(f) /\ cpu' = Resumed(f, to)
          /\ frames' = Popped(f, to)
      BY <2>1, <2>4
    <3> HIDE DEF f, to
    <3>2. /\ cpu' \in Contexts /\ frames' \in Frames /\ Known(frames')
          /\ CpuKnown' /\ TopMatches' /\ frames'[to] = Stale
          /\ \A m \in Places \ {to} : frames'[m] = f[m]
          /\ to \in {"top"} \cup PCBs => UserCode(cpu') \/ cpu' = Wild
      BY <2>3, <3>1, ResumeKnown
    <3> QED BY <3>2 DEF f
  <2>6. TypeOK'
    BY <1>1, <1>2, <1>3, <2>2, <2>4, <2>5 DEF TypeOK, Frames
  <2>7. BootPhase'
    BY <2>4 DEF BootPhase
  <2>8. MainWaits'
    <3> SUFFICES ASSUME frames'["main"] # Stale PROVE MainWaits'
      BY DEF MainWaits
    <3>1. frames["main"] = Stale
      BY <1>1 DEF IInv, MainWaits
    <3>2. Place = "main"
      <4>1. Pushed["main"] # Stale
        BY <2>3, <2>5, Names
      <4> QED BY <2>1, <3>1, <4>1, Names
    <3>3. InMain(cpu)
      BY <1>2, <3>2, PlaceOfMode
    <3>4. q'.head = idle /\ q'.tail = idle /\ q'.current = first
      BY <1>1, <1>3, <1>4, <1>6, <3>3, ScheduleInMain
    <3>5. rsp'[idle] = "main" /\ to = first
      BY <1>1, <1>2, <1>4, <3>2, <3>3, <3>4, Names DEF TypeOK
    <3>6. UserCode(cpu') \/ Stopped'
      BY <2>5, <3>5, StaleType, Names DEF Stopped
    <3>7. IdleFirst'
      BY <3>4, <3>6, Names DEF IdleFirst
    <3> QED BY <2>4, <3>5, <3>7 DEF MainWaits
  <2> QED BY <2>5, <2>6, <2>7, <2>8 DEF IInv
<1> QED BY <1>5, <1>6

LEMMA OtherIrqStep ==
  ASSUME IInv, OtherIrq
  PROVE  IInv'
<1>1. q' \in Queues
  BY DEF IInv, TypeOK, OtherIrq
<1> QED BY <1>1, InterruptReturns DEF OtherIrq

-----------------------------------------------------------------------------
(* The block at the head of the list is on it *)

\* A set of numbers that is not empty has a least one.
LEMMA LeastNumber ==
  ASSUME NEW T, T \subseteq Nat, T # {}
  PROVE  \E x \in T : \A y \in T : x <= y
<1> DEFINE R == OpToRel(<, Nat)
<1>1. IsWellFoundedOn(R, Nat)
  BY NatLessThanWellFounded
<1>2. \A x, y \in Nat : y < x => <<y, x>> \in R
  BY DEF OpToRel
<1> HIDE DEF R
<1>3. PICK x \in T : \A y \in T : <<y, x>> \notin R
  BY <1>1, WFMin
<1>4. ASSUME NEW y \in T PROVE x <= y
  <2>1. x \in Nat /\ y \in Nat
    OBVIOUS
  <2>2. ~(y < x)
    BY <1>2, <1>3, <2>1
  <2> QED BY <2>1, <2>2
<1> QED BY <1>4

\* The first n steps of a walk exist for every n, and only one way, so that
\* the walk along any list, whole or broken, is what its definition says.
LEMMA WalkStarts ==
  ASSUME NEW r \in Queues
  PROVE  Walk(r)[0] = r.head
<1> DEFINE D(n) == 0 .. n
           Part(n, h) == /\ h \in [D(n) -> Blocks]
                         /\ h[0] = r.head
                         /\ \A i \in 1 .. n : h[i] = Behind(r, h[i-1])
           Rec(w) == [i \in Nat |-> IF i = 0 THEN r.head ELSE Behind(r, w[i-1])]
<1>1. \A b \in Blocks : Behind(r, b) \in Blocks
  BY QueueType, NullAssumption DEF Behind, Blocks
<1>2. r.head \in Blocks
  BY QueueType
<1>3. \A n \in Nat : \E h : Part(n, h)
  <2> DEFINE Bad == {n \in Nat : ~ \E h : Part(n, h)}
  <2> SUFFICES ASSUME Bad # {} PROVE FALSE
    OBVIOUS
  <2>1. PICK n \in Bad : \A m \in Bad : n <= m
    <3>1. Bad \subseteq Nat
      OBVIOUS
    <3> HIDE DEF Bad
    <3> QED BY <3>1, LeastNumber
  <2>2. CASE n = 0
    <3>1. Part(0, [i \in D(0) |-> r.head])
      BY <1>2
    <3> QED BY <2>1, <2>2, <3>1
  <2>3. CASE n # 0
    <3>1. n \in Nat /\ n - 1 \in Nat /\ n - 1 \notin Bad
      <4>1. Bad \subseteq Nat
        OBVIOUS
      <4> HIDE DEF Bad
      <4>2. n \in Nat /\ n - 1 \in Nat
        BY <2>1, <2>3, <4>1
      <4> QED BY <2>1, <4>2
    <3>2. PICK h : Part(n - 1, h)
      BY <3>1
    <3> DEFINE g == [i \in D(n) |-> IF i = n THEN Behind(r, h[n-1]) ELSE h[i]]
    <3>3. h[n-1] \in Blocks /\ \A i \in D(n-1) : h[i] \in Blocks
      BY <3>1, <3>2
    <3>4. g \in [D(n) -> Blocks]
      BY <1>1, <3>1, <3>3
    <3>5. g[0] = r.head
      BY <2>3, <3>1, <3>2
    <3>6. ASSUME NEW i \in 1 .. n PROVE g[i] = Behind(r, g[i-1])
      <4>1. i - 1 \in D(n-1) /\ g[i-1] = h[i-1]
        BY <3>1
      <4>2. CASE i = n
        BY <3>1, <4>1, <4>2
      <4>3. CASE i # n
        <5>1. i \in 1 .. n - 1 /\ g[i] = h[i]
          BY <3>1, <4>3
        <5> QED BY <5>1, <4>1, <3>2
      <4> QED BY <4>2, <4>3
    <3>7. Part(n, g)
      BY <3>4, <3>5, <3>6
    <3> QED BY <2>1, <3>7
  <2> QED BY <2>2, <2>3
<1>4. ASSUME NEW m \in Nat, NEW n \in Nat, NEW g, NEW h, Part(m, g), Part(n, h)
      PROVE  \A i \in Nat : i <= m /\ i <= n => g[i] = h[i]
  <2> DEFINE Bad == {i \in Nat : i <= m /\ i <= n /\ g[i] # h[i]}
  <2> SUFFICES ASSUME Bad # {} PROVE FALSE
    OBVIOUS
  <2>1. PICK i \in Bad : \A j \in Bad : i <= j
    <3>1. Bad \subseteq Nat
      OBVIOUS
    <3> HIDE DEF Bad
    <3> QED BY <3>1, LeastNumber
  <2>2. i \in Nat /\ i <= m /\ i <= n /\ g[i] # h[i]
    BY <2>1
  <2>3. i # 0
    BY <1>4, <2>2
  <2>4. i - 1 \in Nat /\ i - 1 \notin Bad /\ i \in 1 .. m /\ i \in 1 .. n
    BY <2>1, <2>2, <2>3
  <2>5. g[i-1] = h[i-1]
    BY <2>2, <2>4
  <2> QED BY <1>4, <2>2, <2>4, <2>5
<1> DEFINE P(n) == CHOOSE h : Part(n, h)
           w0 == [n \in Nat |-> P(n)[n]]
<1>5. \A n \in Nat : Part(n, P(n))
  <2> SUFFICES ASSUME NEW n \in Nat PROVE Part(n, P(n))
    OBVIOUS
  <2>1. \E h : Part(n, h)
    BY <1>3
  <2> HIDE DEF Part
  <2> QED BY <2>1
<1>6. w0 = Rec(w0)
  <2> SUFFICES ASSUME NEW n \in Nat PROVE w0[n] = Rec(w0)[n]
    OBVIOUS
  <2>1. Part(n, P(n))
    BY <1>5
  <2>2. CASE n = 0
    <3>1. P(n)[0] = r.head
      BY <2>1
    <3> HIDE DEF P
    <3> QED BY <2>2, <3>1
  <2>3. CASE n # 0
    <3>1. n - 1 \in Nat /\ n - 1 <= n /\ n - 1 <= n - 1 /\ n \in 1 .. n
      BY <2>3
    <3>2. Part(n - 1, P(n-1))
      BY <1>5, <3>1
    <3>3. P(n)[n-1] = P(n-1)[n-1]
      <4> HIDE DEF P, Part
      <4>1. \A i \in Nat : i <= n /\ i <= n - 1 => P(n)[i] = P(n-1)[i]
        BY <1>4, <2>1, <3>1, <3>2
      <4> QED BY <4>1, <3>1
    <3>4. P(n)[n] = Behind(r, P(n)[n-1])
      <4> HIDE DEF P
      <4> QED BY <2>1, <3>1
    <3> HIDE DEF P
    <3> QED BY <2>3, <3>1, <3>3, <3>4
  <2> QED BY <2>2, <2>3
<1>7. Walk(r) = Rec(Walk(r))
  <2>1. Walk(r) = CHOOSE h : h = Rec(h)
    BY DEF Walk
  <2> HIDE DEF w0, Rec
  <2> QED BY <2>1, <1>6
<1>8. \A v : Rec(v)[0] = r.head
  OBVIOUS
<1> HIDE DEF Rec
<1> QED BY <1>7, <1>8

LEMMA HeadOnChain ==
  ASSUME NEW r \in Queues, r.head # NULL
  PROVE  1 \in DOMAIN Chain(r) /\ Chain(r)[1] = r.head
<1> DEFINE w == Walk(r)
           N == Cardinality(PCBs)
           Met == {i \in 0 .. N : w[i] # NULL}
           n == Cardinality(Met)
<1>1. IsFiniteSet(PCBs) /\ N \in Nat
  BY FiniteAssumption, FS_AddElement, FS_CardinalityType DEF PCBs
<1>2. w[0] = r.head
  BY WalkStarts
<1>3. 0 \in Met
  BY <1>1, <1>2
<1>4. IsFiniteSet(Met)
  <2>1. IsFiniteSet(0 .. N)
    BY <1>1, FS_Interval
  <2>2. Met \subseteq 0 .. N
    OBVIOUS
  <2> HIDE DEF Met, N
  <2> QED BY <2>1, <2>2, FS_Subset
<1>5. n \in Nat /\ n # 0
  <2> HIDE DEF Met
  <2> QED BY <1>3, <1>4, FS_CardinalityType, FS_EmptySet
<1>6. Chain(r) = [i \in 1 .. n |-> w[i-1]]
  BY DEF Chain
<1> HIDE DEF n, w
<1> QED BY <1>2, <1>5, <1>6

-----------------------------------------------------------------------------
LEMMA InitInv == Init => IInv
<1> SUFFICES ASSUME Init PROVE IInv
  OBVIOUS
<1>1. q \in Queues /\ q.head = NULL /\ q.tail = NULL /\ q.current = idle
      /\ q.state[idle] = "RUNNING"
  BY Names DEF Init, InitQueue, Queues, States
<1>2. frames \in Frames /\ \A l \in Places : frames[l] = Stale
  BY StaleType DEF Init, Frames
<1>3. /\ cpu \in Contexts /\ cpu.thread = "boot" /\ cpu.pc = "main" /\ cpu.after = "none"
  <2>1. "main" \in Pcs
    BY DEF Pcs
  <2> QED BY <2>1, ContextType DEF Init
<1>4. TypeOK
  BY <1>1, <1>2, <1>3, Names DEF Init, TypeOK, Frames
<1>5. Known(frames) /\ MainWaits /\ BelowEntered(frames)
  BY <1>2, Names DEF Known, MainWaits, BelowEntered
<1>6. BootCode(cpu)
  BY <1>3 DEF BootCode
<1>7. CpuKnown /\ TopMatches
  BY <1>5, <1>6, Modes DEF CpuKnown, TopMatches
<1>8. BootPhase
  BY <1>1, <1>3, Names DEF BootPhase, Init, EnqPcs
<1> QED BY <1>4, <1>5, <1>7, <1>8 DEF IInv

LEMMA NextStep ==
  ASSUME IInv, [Next]_vars
  PROVE  IInv'
<1>1. CASE UNCHANGED vars
  BY <1>1 DEF vars, IInv, TypeOK, CpuKnown, TopMatches, BootPhase, MainWaits, IdleFirst,
              IdleTaken, Stopped
<1>2. CASE Boot
  BY <1>2, CreateSteps, BootSteps DEF Boot
<1>3. CASE Enqueue
  BY <1>3, EnqFieldsStep, EnqStoresStep DEF Enqueue
<1>4. CASE Schedule
  BY <1>4, SchedBeginStep, SchedStoresStep, SchedTestStep, SwitchStep DEF Schedule
<1>5. CASE Syscall
  BY <1>5, CallsStep, SysretStep, CallStoresStep, CreateSteps DEF Syscall
<1>6. CASE Tick
  BY <1>6, TickStep
<1>7. CASE OtherIrq
  BY <1>7, OtherIrqStep
<1> QED BY <1>1, <1>2, <1>3, <1>4, <1>5, <1>6, <1>7 DEF Next

\* The inductive invariant, for any finite set of blocks and any system calls.
THEOREM InvHolds == Spec => []IInv
<1>1. IInv /\ [Next]_vars => IInv'
  BY NextStep
<1> QED BY <1>1, InitInv, PTL DEF Spec

\* For any number of processes, the boot thread that the timer interrupts
\* inside kernel_main keeps its frame, idle_proc.rsp points to it, and idle_proc
\* is on the list of ready blocks or being switched to (main.c, proc.c).
THEOREM BootThreadKept == Spec => []MainResumable
<1>1. IInv => MainResumable
  <2> SUFFICES ASSUME IInv, frames["main"] # Stale
               PROVE  /\ frames["main"].thread = "boot" /\ rsp[idle] = "main"
                      /\ idle \in Queued \/ cpu.next = idle
    BY DEF MainResumable
  <2>1. frames["main"].thread = "boot"
    BY DEF IInv, Known, BootCode
  <2>2. rsp[idle] = "main" /\ (IdleFirst \/ IdleTaken)
    BY DEF IInv, MainWaits
  <2>3. CASE IdleFirst
    <3>1. q \in Queues /\ q.head = idle /\ q.head # NULL
      BY <2>3, Names DEF IInv, TypeOK, IdleFirst
    <3>2. 1 \in DOMAIN Chain(q) /\ Chain(q)[1] = idle
      BY <3>1, HeadOnChain
    <3>3. idle \in Queued
      BY <3>2 DEF Queued
    <3> QED BY <2>1, <2>2, <3>3
  <2>4. CASE IdleTaken
    BY <2>1, <2>2, <2>4 DEF IdleTaken
  <2> QED BY <2>2, <2>3, <2>4
<1> QED BY <1>1, InvHolds, PTL

\* For any number of processes, a system call returns to the thread that made
\* it (isr_common_stub), whatever interrupts and switches come in between.
THEOREM CallsReturn == Spec => SyscallReturnsToCaller
<1>1. IInv /\ [Next]_vars => [sysret => cpu'.thread = cpu.thread]_vars
  BY SysretStep
<1> QED BY <1>1, InvHolds, PTL DEF Spec, SyscallReturnsToCaller

\* For any number of processes g_current_proc is never NULL, the saved stack
\* pointers point to places where a frame can lie, and the C locals that
\* enqueue, schedule and the system calls dereference are blocks where they are
\* used.
THEOREM TypeCorrect == Spec => [](TypeOK /\ CpuKnown)
<1>1. IInv => TypeOK /\ CpuKnown
  BY DEF IInv
<1> QED BY <1>1, InvHolds, PTL
=============================================================================
