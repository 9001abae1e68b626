------------------------------ MODULE ReadyFifo ------------------------------
(***************************************************************************)
(* What the scheduler of SukiOS promises when its functions do not overlap *)
(* in time: the ready processes wait in a first-in first-out queue, the    *)
(* first of them runs next, the one that was running goes to the end, and  *)
(* one that exited is gone.  The boot thread takes part as idle, which is  *)
(* also what runs when nobody waits.  Module ReadyQueue, the linked list   *)
(* of kernel/InitKernel/proc.c, implements this one.                       *)
(***************************************************************************)
EXTENDS Processes, Integers, Sequences

VARIABLES
  queue,    \* the processes waiting, first to run first
  state,    \* of every process
  current   \* the process that runs

vars == <<queue, state, current>>

Init ==
  /\ queue = <<>>
  /\ state = [p \in PCBs |-> IF p = idle THEN "RUNNING" ELSE "UNUSED"]
  /\ current = idle

\* proc_create_from_elf.
Create(p) ==
  /\ state[p] = "UNUSED"
  /\ queue' = Append(queue, p)
  /\ state' = [state EXCEPT ![p] = "READY"]
  /\ UNCHANGED current

\* The first process in the queue runs; the current one, unless it exits,
\* waits behind all others.
Switch(exits) ==
  /\ queue # <<>>
  /\ current' = Head(queue)
  /\ queue' = IF exits THEN Tail(queue) ELSE Append(Tail(queue), current)
  /\ state' = [state EXCEPT ![current] = IF exits THEN "ZOMBIE" ELSE "READY",
                            ![Head(queue)] = "RUNNING"]

\* A timer interrupt, or scheduler_start.  With nobody waiting idle is the
\* one that runs, and goes on.
Preempt ==
  \/ Switch(FALSE)
  \/ queue = <<>> /\ current = idle /\ UNCHANGED vars

\* exit; idle, the boot thread, makes no system calls.
Exit == current # idle /\ Switch(TRUE)

Next ==
  \/ \E p \in Procs : Create(p)
  \/ Preempt
  \/ Exit

Spec == Init /\ [][Next]_vars

-----------------------------------------------------------------------------
\* The queue holds processes, and the current one is a process.
TypeOK ==
  /\ queue \in Seq(PCBs)
  /\ state \in [PCBs -> States]
  /\ current \in PCBs

\* Nobody is lost and nobody runs twice: the READY processes are exactly the
\* ones in the queue, each there once; the current one, and only it, is
\* RUNNING.  So a ZOMBIE is never queued and never runs again.
NobodyLost ==
  /\ \A p \in PCBs : state[p] = "READY" <=> \E i \in 1 .. Len(queue) : queue[i] = p
  /\ \A i, j \in 1 .. Len(queue) : queue[i] = queue[j] => i = j
  /\ \A p \in PCBs : state[p] = "RUNNING" <=> p = current

\* When nobody waits, idle is the one running: schedule's choice of idle for
\* an empty queue never starts a second copy of it, and exit always finds a
\* process to run.
IdleTakesOver == queue = <<>> => current = idle

\* A process that exited stays so.
ZombiesStay ==
  [][\A p \in PCBs : state[p] = "ZOMBIE" => state'[p] = "ZOMBIE"]_vars
=============================================================================
