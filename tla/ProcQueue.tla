------------------------------ MODULE ProcQueue ------------------------------
(***************************************************************************)
(* The ready queue of SukiOS, kernel/InitKernel/proc.c: a singly linked    *)
(* list threaded through the process control blocks, with pointers to its  *)
(* first and its last block, and schedule(), which takes the next process  *)
(* from it.  Each operator is one C function run to its end; a queue is a  *)
(* record q with                                                           *)
(*   head, tail   ready_queue_head and ready_queue_tail,                   *)
(*   next, state  those fields of every process control block,             *)
(*   current      g_current_proc.                                          *)
(***************************************************************************)
EXTENDS Processes, Integers, Sequences, FiniteSets

CONSTANT NULL

ASSUME NullAssumption == NULL \notin PCBs
ASSUME FiniteAssumption == IsFiniteSet(Procs)

Queues ==
  [head : PCBs \cup {NULL}, tail : PCBs \cup {NULL}, next : [PCBs -> PCBs \cup {NULL}],
   state : [PCBs -> States], current : PCBs]

\* After scheduler_init: the boot thread runs as idle and nothing is queued.
InitQueue ==
  [head |-> NULL, tail |-> NULL,
   next    |-> [p \in PCBs |-> NULL],
   state   |-> [p \in PCBs |-> IF p = idle THEN "RUNNING" ELSE "UNUSED"],
   current |-> idle]

\* Mutation: the link of the new last block is not cleared.
enqueue_KeepNext(q, p) ==
  IF q.tail # NULL
    THEN [q EXCEPT !.state[p] = "READY", !.next[q.tail] = p, !.tail = p]
    ELSE [q EXCEPT !.state[p] = "READY", !.head = p, !.tail = p]

enqueue(q, p) ==
  LET cleared == [q.next EXCEPT ![p] = NULL]
  IN  [head    |-> IF q.tail = NULL THEN p ELSE q.head,
       tail    |-> p,
       next    |-> IF q.tail = NULL THEN cleared ELSE [cleared EXCEPT ![q.tail] = p],
       state   |-> [q.state EXCEPT ![p] = "READY"],
       current |-> q.current]

\* Mutation: the tail keeps pointing at the block that left.
dequeue_KeepTail(q) ==
  IF q.head = NULL
    THEN [q |-> q, p |-> NULL]
    ELSE [q |-> [q EXCEPT !.head = q.next[q.head]], p |-> q.head]

\* The queue without its first block, and that block or NULL.
dequeue(q) ==
  IF q.head = NULL
    THEN [q |-> q, p |-> NULL]
    ELSE LET rest == q.next[q.head]
         IN  [q |-> [head |-> rest,
                     tail |-> IF rest = NULL THEN NULL ELSE q.tail,
                     next |-> q.next, state |-> q.state, current |-> q.current],
              p |-> q.head]

\* Mutation: the process that loses the processor is not put back.
schedule_DropPrev(q) ==
  LET prev == q.current
      d    == dequeue(q)
      next == IF d.p = NULL THEN idle ELSE d.p
  IN  IF prev = next
        THEN [q |-> d.q, switched |-> FALSE]
        ELSE [q |-> [d.q EXCEPT !.current = next, !.state[prev] = "READY",
                                !.state[next] = "RUNNING"],
              switched |-> TRUE]

\* p gets the processor.
Run(q, p) ==
  [head |-> q.head, tail |-> q.tail, next |-> q.next,
   state |-> [q.state EXCEPT ![p] = "RUNNING"], current |-> p]

\* schedule up to its call of switch_to_proc; when the block to run is the
\* current one it returns with no switch.
schedule(q) ==
  LET prev == q.current
      d    == dequeue(q)
      next == IF d.p = NULL THEN idle ELSE d.p
      r    == IF d.q.state[prev] = "RUNNING" THEN enqueue(d.q, prev) ELSE d.q
  IN  IF prev = next
        THEN [q |-> d.q, switched |-> FALSE]
        ELSE [q |-> Run(r, next), switched |-> TRUE]

-----------------------------------------------------------------------------
\* The block behind p on the list; behind the end there is nothing.
Behind(q, p) == IF p = NULL THEN NULL ELSE q.next[p]

\* The blocks met from ready_queue_head on along the next pointers: the first,
\* the one after i steps, and all of them.  Of a list that went round in a
\* circle one block would be met twice.
Walk(q) ==
  LET w[i \in Nat] == IF i = 0 THEN q.head ELSE Behind(q, w[i-1]) IN w

Chain(q) ==
  LET w == Walk(q)
      n == Cardinality({i \in 0 .. Cardinality(PCBs) : w[i] # NULL})
  IN  [i \in 1 .. n |-> w[i-1]]
=============================================================================
