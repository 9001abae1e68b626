----------------------------- MODULE ReadyQueue -----------------------------
(***************************************************************************)
(* The linked ready queue of proc.c under calls that do not overlap in     *)
(* time, as its functions expect: every operation is one step, as it is in *)
(* the timer interrupt, which runs with interrupts off.  Where the kernel  *)
(* does let calls overlap (interrupts stay on in exit, execve and          *)
(* scheduler_start) is the subject of module Sched, as is execve.          *)
(***************************************************************************)
EXTENDS ProcQueue

VARIABLE q

Init == q = InitQueue

\* The end of proc_create_from_elf.
Create(p) ==
  /\ q.state[p] = "UNUSED"
  /\ q' = enqueue(q, p)

\* schedule called by the timer interrupt or by scheduler_start.
Tick == q' = schedule(q).q

\* System call 60 on behalf of the current process.
Exit ==
  /\ q.current # idle
  /\ q' = schedule([q EXCEPT !.state[q.current] = "ZOMBIE"]).q

Next ==
  \/ \E p \in Procs : Create(p)
  \/ Tick
  \/ Exit

Spec == Init /\ [][Next]_q

-----------------------------------------------------------------------------
Waiting == Chain(q)

\* The fields have their types.
TypeOK == q \in Queues

\* tail is where the list from head ends, so enqueue, which looks at tail
\* alone, always links behind the last process and never starts a second
\* list or a cycle.
TailEndsList ==
  /\ q.head = NULL <=> q.tail = NULL
  /\ q.head # NULL => Waiting[Len(Waiting)] = q.tail /\ q.next[q.tail] = NULL

Fifo == INSTANCE ReadyFifo
  WITH queue <- Waiting, state <- q.state, current <- q.current

\* The linked list implements the queue of ReadyFifo.
ImplementsFifo == Fifo!Spec

\* Nobody falls off the list and nobody is on it twice: the READY processes
\* are exactly the ones reached from ready_queue_head, and g_current_proc
\* alone is RUNNING.
NobodyLost == Fifo!NobodyLost

\* When the list is empty the boot thread is the one running, so schedule's
\* choice of idle_proc for an empty list starts no second copy of it and
\* exit always finds a process to run.
IdleTakesOver == Fifo!IdleTakesOver

\* A process that exited stays a ZOMBIE.
ZombiesStay == Fifo!ZombiesStay
=============================================================================
