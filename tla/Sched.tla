-------------------------------- MODULE Sched --------------------------------
(***************************************************************************)
(* Scheduling in SukiOS as the machine sees it: the boot thread, the user  *)
(* processes and their system calls, and the timer interrupt, which calls  *)
(* schedule() in the middle of any of them (proc.c, proc_switch.asm,       *)
(* idt.c, idt_stubs.asm, apic_timer.c and the end of main.c).              *)
(*                                                                         *)
(* The timer interrupt runs with interrupts off and is one step.  Code     *)
(* that runs with interrupts on takes one step per store to a shared       *)
(* variable; its C locals travel in the saved context.                     *)
(*                                                                         *)
(* A context is saved on a stack, at a place:                              *)
(*   "main"  the boot stack, interrupted inside kernel_main,               *)
(*   "start" the boot stack, interrupted inside scheduler_start,           *)
(*   "top"   the top of the one stack TSS.rsp0 names, where every entry    *)
(*           from ring 3 pushes its frame,                                 *)
(*   "below" that stack below a system call's frame,                       *)
(*   p       the kernel_stack of block p, with its first frame.            *)
(* Once a frame is popped, or its place used again, what lies there is not *)
(* a context that may be resumed: Stale, or another thread's context.      *)
(***************************************************************************)
EXTENDS ProcQueue

CONSTANTS
  first,        \* the block main creates for /ISHELL
  Calls,        \* the system calls programs make
  StackAllocs   \* outcomes of the kmalloc in prepare_user_stack

ASSUME CallsAssumption ==
  /\ first \in Procs
  /\ Calls \subseteq {"other", "exit", "execve"}
  /\ StackAllocs \subseteq BOOLEAN

VARIABLES
  q,          \* ready queue, process states and g_current_proc (ProcQueue)
  rsp,        \* the field rsp of every block: the place of its frame
  frames,     \* what lies at every place
  cpu,        \* the context that is running
  inService,  \* the local APIC has delivered a timer interrupt and waits
              \* for its EOI; it delivers no other of vectors 0x20..0x2F
  ended       \* the threads that ended, and how: by exit or, replaced by
              \* another program, by execve

vars == <<q, rsp, frames, cpu, inService, ended>>

-----------------------------------------------------------------------------
Places == {"main", "start", "top", "below"} \cup PCBs

ASSUME NamesAssumption ==
  {"main", "start", "top", "below", "boot"} \cap (PCBs \cup {NULL}) = {}

Pcs == {"main", "loaded", "idling", "user", "sysret", "halted", "wild", "stale",
        "enq_fields", "enq_link", "enq_empty", "enq_tail", "enq_head",
        "sched", "deq_head", "deq_tail", "sched_test", "set_current",
        "set_running", "switch", "exit", "execve", "execve_zombie",
        "execve_current", "execve_running"}

\* A context: the thread it belongs to, where it is, and its C locals:
\* curr of syscall_handler, prev and next of schedule, arg and tail of
\* enqueue, and where enqueue returns to.
Context(thread, pc) ==
  [thread |-> thread, pc |-> pc, curr |-> NULL, prev |-> NULL, next |-> NULL,
   arg |-> NULL, tail |-> NULL, after |-> "none"]

Stale == Context(NULL, "stale")

\* The machine goes on with whatever a stale frame holds.
Wild == Context(NULL, "wild")

Stopped == cpu.pc \in {"wild", "halted"}

\* Mutation: an interrupt in kernel mode starts at the top of the stack too.
Place_AlwaysTop ==
  IF cpu.thread = "boot"
    THEN IF cpu.pc \in {"main", "loaded"} \/ cpu.after = "loaded"
           THEN "main" ELSE "start"
    ELSE "top"

\* Where an interrupt of the running context pushes its frame.
Place ==
  IF cpu.thread = "boot"
    THEN IF cpu.pc \in {"main", "loaded"} \/ cpu.after = "loaded"
           THEN "main" ELSE "start"
    ELSE IF cpu.pc = "user" THEN "top" ELSE "below"

\* The frame is pushed; the stack below the place is used by the handler.
Pushed ==
  IF Place = "top" THEN [[frames EXCEPT !["top"] = cpu] EXCEPT !["below"] = Stale]
                   ELSE [frames EXCEPT ![Place] = cpu]

\* Resume the frame at a place, which is then popped.
Resumed(f, place) == IF f[place] = Stale THEN Wild ELSE f[place]
Popped(f, place)  == [f EXCEPT ![place] = Stale]

\* The running code goes on at pc, with local variables as they are in c.
At(c, pc) == [c EXCEPT !.pc = pc]
Goto(pc) == cpu' = At(cpu, pc)

\* It calls enqueue(p) and goes on at pc after when that returns.
CallEnqueue(p, after) ==
  cpu' = At([[cpu EXCEPT !.arg = p] EXCEPT !.after = after], "enq_fields")

-----------------------------------------------------------------------------
(* The initial state is the one after scheduler_init and apic_timer_init.  *)
(* idle's own first frame ends two words early: iretq would pop RSP and SS *)
(* from beyond its stack.                                                  *)

Init ==
  /\ q = InitQueue
  /\ rsp = [p \in PCBs |-> p]
  /\ frames = [l \in Places |-> Stale]
  /\ cpu = Context("boot", "main")
  /\ inService = FALSE
  /\ ended = {}

\* prepare_user_stack for a new block p, and the step into enqueue(p).
\* Without a stack rsp keeps what kmalloc left in the block.
CreateProc(p, after) ==
  /\ q.state[p] = "UNUSED"
  /\ \E stack \in StackAllocs :
       frames' = [frames EXCEPT ![p] = IF stack THEN Context(p, "user") ELSE Stale]
  /\ CallEnqueue(p, after)

\* main loads the first program and creates its process, or cannot.
BootCreate ==
  /\ cpu.pc = "main"
  /\ CreateProc(first, "loaded")
  /\ UNCHANGED <<q, rsp, inService, ended>>

BootNoProgram ==
  /\ cpu.pc = "main"
  /\ Goto("loaded")
  /\ UNCHANGED <<q, rsp, frames, inService, ended>>

\* scheduler_start calls schedule; if that returns, it halts between
\* interrupts for ever (pc "idling").
scheduler_start ==
  /\ cpu.pc = "loaded"
  /\ cpu' = Context("boot", "sched")
  /\ UNCHANGED <<q, rsp, frames, inService, ended>>

-----------------------------------------------------------------------------
(* enqueue, with interrupts on.                                            *)

enq_fields ==
  /\ cpu.pc = "enq_fields"
  /\ q' = [[q EXCEPT !.next[cpu.arg] = NULL] EXCEPT !.state[cpu.arg] = "READY"]
  /\ cpu' = At([cpu EXCEPT !.tail = q.tail],
               IF q.tail = NULL THEN "enq_empty" ELSE "enq_link")
  /\ UNCHANGED <<rsp, frames, inService, ended>>

enq_link ==
  /\ cpu.pc = "enq_link"
  /\ q' = [q EXCEPT !.next[cpu.tail] = cpu.arg]
  /\ Goto("enq_tail")
  /\ UNCHANGED <<rsp, frames, inService, ended>>

\* Into an empty queue: the compiler may order the two stores either way.
enq_empty ==
  /\ cpu.pc = "enq_empty"
  /\ \/ q' = [q EXCEPT !.tail = cpu.arg] /\ Goto("enq_head")
     \/ q' = [q EXCEPT !.head = cpu.arg] /\ Goto("enq_tail")
  /\ UNCHANGED <<rsp, frames, inService, ended>>

enq_last ==
  /\ \/ cpu.pc = "enq_tail" /\ q' = [q EXCEPT !.tail = cpu.arg]
     \/ cpu.pc = "enq_head" /\ q' = [q EXCEPT !.head = cpu.arg]
  /\ Goto(cpu.after)
  /\ UNCHANGED <<rsp, frames, inService, ended>>

-----------------------------------------------------------------------------
(* schedule, with interrupts on: called by scheduler_start and by exit.    *)

sched_begin ==
  /\ cpu.pc = "sched"
  /\ LET next == IF q.head = NULL THEN idle ELSE q.head
     IN  cpu' = At([[cpu EXCEPT !.prev = q.current] EXCEPT !.next = next],
                   IF q.head = NULL THEN "sched_test" ELSE "deq_head")
  /\ UNCHANGED <<q, rsp, frames, inService, ended>>

deq_head ==
  /\ cpu.pc = "deq_head"
  /\ q' = [q EXCEPT !.head = q.next[cpu.next]]
  /\ Goto(IF q.next[cpu.next] = NULL THEN "deq_tail" ELSE "sched_test")
  /\ UNCHANGED <<rsp, frames, inService, ended>>

deq_tail ==
  /\ cpu.pc = "deq_tail"
  /\ q' = [q EXCEPT !.tail = NULL]
  /\ Goto("sched_test")
  /\ UNCHANGED <<rsp, frames, inService, ended>>

\* The tests of schedule: nothing to do; prev goes back into the queue; or
\* it does not run any more and is dropped.
sched_test ==
  /\ cpu.pc = "sched_test"
  /\ \/ /\ cpu.prev = cpu.next
        /\ cpu' = Context(cpu.thread, IF cpu.thread = "boot" THEN "idling"
                                                             ELSE "sysret")
     \/ /\ cpu.prev # cpu.next
        /\ q.state[cpu.prev] = "RUNNING"
        /\ CallEnqueue(cpu.prev, "set_current")
     \/ /\ cpu.prev # cpu.next
        /\ q.state[cpu.prev] # "RUNNING"
        /\ Goto("set_current")
  /\ UNCHANGED <<q, rsp, frames, inService, ended>>

set_current ==
  /\ cpu.pc = "set_current"
  /\ q' = [q EXCEPT !.current = cpu.next]
  /\ Goto("set_running")
  /\ UNCHANGED <<rsp, frames, inService, ended>>

set_running ==
  /\ cpu.pc = "set_running"
  /\ q' = [q EXCEPT !.state[cpu.next] = "RUNNING"]
  /\ Goto("switch")
  /\ UNCHANGED <<rsp, frames, inService, ended>>

switch_to_proc ==
  /\ cpu.pc = "switch"
  /\ cpu' = Resumed(frames, rsp[cpu.next])
  /\ frames' = Popped(frames, rsp[cpu.next])
  /\ UNCHANGED <<q, rsp, inService, ended>>

-----------------------------------------------------------------------------
\* The timer interrupt: irq_common_stub saves the stack pointer in the
\* current block, whoever that is; apic_timer_irq_handler calls schedule.
\* If that switches, switch_to_proc never comes back to irq_handler, whose
\* EOI is not sent; if not, the EOI is sent and the frame popped.
Tick ==
  LET r    == schedule(q)
      rsp1 == [rsp EXCEPT ![q.current] = Place]
      to   == rsp1[r.q.current]
  IN  /\ ~Stopped
      /\ ~inService
      /\ q' = r.q
      /\ rsp' = rsp1
      /\ IF r.switched
           THEN /\ cpu' = Resumed(Pushed, to)
                /\ frames' = Popped(Pushed, to)
                /\ inService' = TRUE
           ELSE /\ frames' = Popped(Pushed, Place)
                /\ UNCHANGED <<cpu, inService>>
      /\ UNCHANGED ended

\* Any other interrupt, the keyboard's: the same stub, no schedule, an EOI.
OtherIrq ==
  /\ ~Stopped
  /\ ~inService
  /\ rsp' = [rsp EXCEPT ![q.current] = Place]
  /\ frames' = Popped(Pushed, Place)
  /\ UNCHANGED <<q, cpu, inService, ended>>

-----------------------------------------------------------------------------
(* System calls.  isr_common_stub saves the frame and the stack pointer,   *)
(* then lets interrupts in.                                                *)

Enter(pc) ==
  /\ cpu.pc = "user"
  /\ frames' = Pushed
  /\ rsp' = [rsp EXCEPT ![q.current] = "top"]
  /\ cpu' = [Context(cpu.thread, pc) EXCEPT !.curr = q.current]
  /\ UNCHANGED <<q, inService>>

\* write, read, getpid, a call that does not exist, an execve that fails.
CallOther == "other" \in Calls /\ Enter("sysret") /\ UNCHANGED ended

CallExit ==
  /\ "exit" \in Calls
  /\ Enter("exit")
  /\ ended' = ended \cup {<<cpu.thread, "exit">>}

CallExecve ==
  /\ "execve" \in Calls
  /\ \E p \in Procs : q.state[p] = "UNUSED"
  /\ Enter("execve")
  /\ ended' = ended \cup {<<cpu.thread, "execve">>}

\* A fault in user mode: exception_handler reports it and halts the machine.
Fault ==
  /\ Enter("halted")
  /\ UNCHANGED ended

SetZombie(pc, next) ==
  /\ cpu.pc = pc
  /\ q' = [q EXCEPT !.state[cpu.curr] = "ZOMBIE"]
  /\ Goto(next)
  /\ UNCHANGED <<rsp, frames, inService, ended>>

exit_zombie == SetZombie("exit", "sched")

\* execve creates a process, as main does, ...
execve_create ==
  /\ cpu.pc = "execve"
  /\ \E p \in Procs : CreateProc(p, "execve_zombie")
  /\ UNCHANGED <<q, rsp, inService, ended>>

\* ... and puts it in the place of the one that called.
execve_zombie == SetZombie("execve_zombie", "execve_current")

execve_current ==
  /\ cpu.pc = "execve_current"
  /\ q' = [q EXCEPT !.current = cpu.arg]
  /\ Goto("execve_running")
  /\ UNCHANGED <<rsp, frames, inService, ended>>

execve_running ==
  /\ cpu.pc = "execve_running"
  /\ q' = [q EXCEPT !.state[cpu.arg] = "RUNNING"]
  /\ cpu' = Context(cpu.thread, "sysret")
  /\ UNCHANGED <<rsp, frames, inService, ended>>

\* The end of isr_common_stub, with interrupts off: the frame above is
\* popped.
sysret ==
  /\ cpu.pc = "sysret"
  /\ cpu' = Resumed(frames, "top")
  /\ frames' = Popped(frames, "top")
  /\ UNCHANGED <<q, rsp, inService, ended>>

-----------------------------------------------------------------------------
Boot == BootCreate \/ BootNoProgram \/ scheduler_start

Enqueue == enq_fields \/ enq_link \/ enq_empty \/ enq_last

Schedule ==
  \/ sched_begin \/ deq_head \/ deq_tail \/ sched_test
  \/ set_current \/ set_running \/ switch_to_proc

Syscall ==
  \/ CallOther \/ CallExit \/ CallExecve \/ Fault \/ sysret
  \/ exit_zombie
  \/ execve_create \/ execve_zombie \/ execve_current \/ execve_running

Next == Boot \/ Enqueue \/ Schedule \/ Syscall \/ Tick \/ OtherIrq

Spec == Init /\ [][Next]_vars

-----------------------------------------------------------------------------
Contexts ==
  [thread : PCBs \cup {"boot", NULL}, pc : Pcs,
   curr : PCBs \cup {NULL}, prev : PCBs \cup {NULL}, next : PCBs \cup {NULL},
   arg : PCBs \cup {NULL}, tail : PCBs \cup {NULL},
   after : {"none", "loaded", "set_current", "execve_zombie"}]

\* The variables have their types; in particular g_current_proc is never
\* NULL, which schedule and the interrupt stubs rely on.
TypeOK ==
  /\ q \in Queues
  /\ rsp \in [PCBs -> Places]
  /\ frames \in [Places -> Contexts]
  /\ cpu \in Contexts
  /\ inService \in BOOLEAN
  /\ ended \subseteq PCBs \X {"exit", "execve"}

Queued == LET c == Chain(q) IN { c[i] : i \in DOMAIN c }

\* If the timer takes the processor away from the boot thread inside
\* kernel_main, the boot thread is not lost, whatever the processes do
\* (exit, execve, in any order with further interrupts): its frame stays
\* intact, idle_proc.rsp points to it, and idle_proc waits in the queue or
\* is the one being switched to.
MainResumable ==
  frames["main"] # Stale =>
    /\ frames["main"].thread = "boot"
    /\ rsp[idle] = "main"
    /\ idle \in Queued \/ cpu.next = idle

\* A system call returns to the thread that made it, although every entry
\* from ring 3 pushes its frame at the same address and schedule may run in
\* between.
SyscallReturnsToCaller ==
  [][sysret => cpu'.thread = cpu.thread]_vars

-----------------------------------------------------------------------------
(* What the sources say and the code does not keep in every case (README,  *)
(* "Where the code differs").                                              *)

\* README.md: "irq_handler() ... calls the registered handler, sends the
\* LAPIC EOI": whenever code other than the handler runs, the interrupt has
\* been acknowledged.
EoiSent == ~inService

\* proc.h: rsp is the "kernel stack pointer (points to r15 of the
\* interrupt_frame)": a process is never switched to through an rsp where
\* no saved frame lies.
FrameResumed == cpu.pc # "wild"

\* README.md: exit leaves user mode and returns to the kernel's idle loop: a
\* thread that called exit runs no user code any more.
ExitIsFinal == cpu.pc = "user" => <<cpu.thread, "exit">> \notin ended

\* ishell: after a successful execve the process is replaced and the call
\* does not return.
ExecveReplaces == cpu.pc = "user" => <<cpu.thread, "execve">> \notin ended
=============================================================================
