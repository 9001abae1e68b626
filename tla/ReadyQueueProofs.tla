-------------------------- MODULE ReadyQueueProofs --------------------------
(***************************************************************************)
(* Proofs about the linked ready queue of proc.c, for any finite set of    *)
(* process control blocks: tail is where the list ends, and the list       *)
(* implements the first-in first-out queue of ReadyFifo; and about that    *)
(* queue itself.                                                           *)
(*                                                                         *)
(* The list is followed by a walk along the next pointers.  IsChain says,  *)
(* place by place, what a list that holds the sequence s looks like; lemma *)
(* WalkFindsChain shows that the walk finds s again, and lemmas            *)
(* EnqueueChain and DequeueChain what the two functions make of s.         *)
(***************************************************************************)
EXTENDS ReadyQueue, FiniteSetTheorems, WellFoundedInduction, TLAPS

\* The list of r is s: no block twice, head its first and tail its last one,
\* and each block linked to the one behind it.
IsChain(r, s) ==
  /\ s \in Seq(PCBs)
  /\ \A i, j \in 1 .. Len(s) : s[i] = s[j] => i = j
  /\ r.head = IF Len(s) = 0 THEN NULL ELSE s[1]
  /\ r.tail = IF Len(s) = 0 THEN NULL ELSE s[Len(s)]
  /\ \A i \in 1 .. Len(s) : r.next[s[i]] = IF i = Len(s) THEN NULL ELSE s[i+1]

-----------------------------------------------------------------------------
\* A set of numbers that is not empty has a least one.
LEMMA LeastNumber ==
  ASSUME NEW T, T \subseteq Nat, T # {}
  PROVE  \E x \in T : \A y \in T : x <= y
<1> DEFINE R == OpToRel(<, Nat)
<1>1. IsWellFoundedOn(R, Nat)
  BY NatLessThanWellFounded
<1>2. \A x, y \in Nat : y < x => <<y, x>> \in R
  BY DEF OpToRel
<1> HIDE DEF R
<1>3. PICK x \in T : \A y \in T : <<y, x>> \notin R
  BY <1>1, WFMin
<1>4. ASSUME NEW y \in T PROVE x <= y
  <2>1. x \in Nat /\ y \in Nat
    OBVIOUS
  <2>2. ~ (y < x)
    BY <1>2, <1>3, <2>1
  <2> QED BY <2>1, <2>2
<1> QED BY <1>4

\* The walk along a list that holds s meets s, and then nothing.
LEMMA WalkPlaces ==
  ASSUME NEW r \in Queues, NEW s, IsChain(r, s)
  PROVE  \A i \in Nat : Walk(r)[i] = IF i < Len(s) THEN s[i+1] ELSE NULL
<1> DEFINE Rec(w) == [i \in Nat |-> IF i = 0 THEN r.head ELSE Behind(r, w[i-1])]
           g == [i \in Nat |-> IF i < Len(s) THEN s[i+1] ELSE NULL]
           w == Walk(r)
<1>1. Len(s) \in Nat /\ \A i \in 1 .. Len(s) : s[i] \in PCBs /\ s[i] # NULL
  BY NullAssumption DEF IsChain
<1>2. g = Rec(g)
  <2>1. ASSUME NEW i \in Nat PROVE g[i] = Rec(g)[i]
    <3>1. CASE i = 0
      BY <3>1, <1>1 DEF IsChain
    <3>2. CASE i # 0
      <4>1. i - 1 \in Nat /\ g[i-1] = IF i - 1 < Len(s) THEN s[i] ELSE NULL
        BY <3>2
      <4>2. CASE i - 1 < Len(s)
        <5>1. i \in 1 .. Len(s) /\ g[i-1] = s[i] /\ g[i-1] # NULL
          BY <4>1, <4>2, <3>2, <1>1
        <5>2. r.next[s[i]] = g[i]
          BY <5>1, <1>1 DEF IsChain
        <5> QED BY <5>1, <5>2, <3>2 DEF Behind
      <4>3. CASE ~ (i - 1 < Len(s))
        BY <4>1, <4>3, <3>2, <1>1 DEF Behind
      <4> QED BY <4>2, <4>3
    <3> QED BY <3>1, <3>2
  <2> QED BY <2>1
<1>3. w = Rec(w)
  <2>1. w = CHOOSE h : h = Rec(h)
    BY DEF Walk
  <2> HIDE DEF w, g, Rec
  <2> QED BY <2>1, <1>2
<1>4. \A i \in Nat : w[i] = g[i]
  <2> DEFINE Bad == {i \in Nat : w[i] # g[i]}
  <2> SUFFICES ASSUME Bad # {} PROVE FALSE
    OBVIOUS
  <2>1. PICK i \in Bad : \A j \in Bad : i <= j
    BY LeastNumber, Bad \subseteq Nat
  <2>2. \A j \in Nat : w[j] = IF j = 0 THEN r.head ELSE Behind(r, w[j-1])
    <3> HIDE DEF w
    <3> QED BY <1>3
  <2>3. \A j \in Nat : g[j] = IF j = 0 THEN r.head ELSE Behind(r, g[j-1])
    <3> HIDE DEF g
    <3> QED BY <1>2
  <2> HIDE DEF w, g
  <2>4. i \in Nat /\ i # 0 /\ i - 1 \in Nat /\ i - 1 \notin Bad
    BY <2>1, <2>2, <2>3
  <2>5. w[i-1] = g[i-1]
    BY <2>4
  <2> QED BY <2>1, <2>2, <2>3, <2>4, <2>5
<1> QED BY <1>4

\* A list that holds no block twice is not longer than there are blocks, so
\* Chain sees all of it.
LEMMA WalkFindsChain ==
  ASSUME NEW r \in Queues, NEW s, IsChain(r, s)
  PROVE  Chain(r) = s
<1> DEFINE w == Walk(r)
           N == Cardinality(PCBs)
           Met == {i \in 0 .. N : w[i] # NULL}
<1>1. s \in Seq(PCBs) /\ Len(s) \in Nat /\ \A i \in 1 .. Len(s) : s[i] \in PCBs /\ s[i] # NULL
  BY NullAssumption DEF IsChain
<1>2. IsFiniteSet(PCBs) /\ N \in Nat
  BY FiniteAssumption, FS_AddElement, FS_CardinalityType DEF PCBs
<1>3. Len(s) <= N
  <2>1. s \in Injection(1 .. Len(s), PCBs)
    BY <1>1 DEF Injection, IsInjective, IsChain
  <2>2. Cardinality(1 .. Len(s)) <= N
    BY <2>1, <1>2, FS_Injection
  <2>3. Cardinality(1 .. Len(s)) = Len(s)
    BY <1>1, FS_Interval
  <2> QED BY <2>2, <2>3
<1>4. Met = 0 .. Len(s) - 1
  BY WalkPlaces, <1>1, <1>2, <1>3
<1>5. Cardinality(Met) = Len(s)
  <2> HIDE DEF Met
  <2>1. 0 \in Int /\ Len(s) - 1 \in Int
    BY <1>1
  <2>2. Cardinality(0 .. Len(s) - 1) = IF 0 > Len(s) - 1 THEN 0 ELSE (Len(s) - 1) - 0 + 1
    BY <2>1, FS_Interval, Zenon
  <2>3. Cardinality(0 .. Len(s) - 1) = Len(s)
    BY <2>2, <1>1
  <2> QED BY <1>4, <2>3
<1>6. \A i \in 1 .. Len(s) : w[i-1] = s[i]
  BY WalkPlaces, <1>1
<1>7. Chain(r) = [i \in 1 .. Len(s) |-> w[i-1]]
  BY <1>5 DEF Chain
<1>8. s = [i \in 1 .. Len(s) |-> s[i]]
  BY <1>1
<1> HIDE DEF w
<1> QED BY <1>6, <1>7, <1>8

-----------------------------------------------------------------------------
\* enqueue links a block that is not on the list behind the last one.
LEMMA EnqueueChain ==
  ASSUME NEW r \in Queues, NEW s, IsChain(r, s), NEW p \in PCBs,
         \A i \in 1 .. Len(s) : s[i] # p
  PROVE  /\ enqueue(r, p) \in Queues
         /\ IsChain(enqueue(r, p), Append(s, p))
         /\ enqueue(r, p).state = [r.state EXCEPT ![p] = "READY"]
         /\ enqueue(r, p).current = r.current
<1> DEFINE e == enqueue(r, p)
           t == Append(s, p)
<1>1. /\ s \in Seq(PCBs) /\ Len(s) \in Nat
      /\ \A i \in 1 .. Len(s) : s[i] \in PCBs /\ s[i] # NULL
  BY NullAssumption DEF IsChain
<1>2. /\ t \in Seq(PCBs) /\ Len(t) = Len(s) + 1 /\ t[Len(t)] = p
      /\ \A i \in 1 .. Len(s) : t[i] = s[i]
  BY <1>1
<1>3. \A i, j \in 1 .. Len(t) : t[i] = t[j] => i = j
  BY <1>1, <1>2 DEF IsChain
<1>6. e \in Queues /\ e.state = [r.state EXCEPT ![p] = "READY"] /\ e.current = r.current
  BY DEF enqueue, Queues, States
<1>4. CASE Len(s) = 0
  <2>1. r.tail = NULL
    BY <1>4 DEF IsChain
  <2>2. e.head = t[1] /\ e.tail = t[Len(t)] /\ e.next[p] = NULL
    BY <2>1, <1>2, <1>4 DEF Queues, enqueue
  <2>3. \A i \in 1 .. Len(t) : i = Len(t) /\ t[i] = p
    BY <1>2, <1>4
  <2>4. IsChain(e, t)
    <3> HIDE DEF e, t
    <3> QED BY <2>2, <2>3, <1>2, <1>3, <1>4 DEF IsChain
  <2> QED BY <2>4, <1>6
<1>5. CASE Len(s) # 0
  <2>1. Len(s) \in 1 .. Len(s) /\ r.tail = s[Len(s)] /\ r.tail # NULL /\ r.tail \in PCBs
        /\ r.tail # p
    BY <1>5, <1>1 DEF IsChain
  <2>3. e.head = t[1] /\ e.tail = t[Len(t)]
    BY <2>1, <1>1, <1>2, <1>5 DEF enqueue, IsChain
  <2>4. /\ e.next[p] = NULL /\ e.next[r.tail] = p
        /\ \A x \in PCBs : x # p /\ x # r.tail => e.next[x] = r.next[x]
    BY <2>1 DEF enqueue, Queues
  <2>5. ASSUME NEW i \in 1 .. Len(t)
        PROVE  e.next[t[i]] = IF i = Len(t) THEN NULL ELSE t[i+1]
    <3>1. CASE i = Len(t)
      BY <3>1, <1>2, <2>4
    <3>2. CASE i = Len(s)
      BY <3>2, <1>1, <1>2, <2>1, <2>4
    <3>3. CASE i \in 1 .. Len(s) - 1
      <4>1. i \in 1 .. Len(s) /\ i # Len(s) /\ i + 1 \in 1 .. Len(s) /\ t[i] = s[i] /\ t[i+1] = s[i+1]
            /\ i # Len(t)
        BY <3>3, <1>1, <1>2
      <4>2. s[i] # p /\ s[i] # r.tail /\ s[i] \in PCBs
        BY <4>1, <2>1, <1>1 DEF IsChain
      <4>3. r.next[s[i]] = s[i+1]
        BY <4>1 DEF IsChain
      <4> QED BY <4>1, <4>2, <4>3, <2>4
    <3> QED BY <3>1, <3>2, <3>3, <1>1, <1>2
  <2>6. IsChain(e, t)
    <3> HIDE DEF e, t
    <3> QED BY <2>3, <2>5, <1>1, <1>2, <1>3 DEF IsChain
  <2> QED BY <2>6, <1>6
<1> QED BY <1>4, <1>5

\* dequeue takes the first block off, and clears tail with the last one.
LEMMA DequeueChain ==
  ASSUME NEW r \in Queues, NEW s, IsChain(r, s), s # <<>>
  PROVE  /\ dequeue(r).q \in Queues
         /\ IsChain(dequeue(r).q, Tail(s))
         /\ dequeue(r).q.state = r.state
         /\ dequeue(r).q.current = r.current
         /\ dequeue(r).p = Head(s)
<1> DEFINE d == dequeue(r).q
           t == Tail(s)
<1>1. /\ s \in Seq(PCBs) /\ Len(s) \in Nat /\ Len(s) >= 1
      /\ \A i \in 1 .. Len(s) : s[i] \in PCBs /\ s[i] # NULL
  BY NullAssumption DEF IsChain
<1>2. /\ t \in Seq(PCBs) /\ Len(t) = Len(s) - 1
      /\ \A i \in 1 .. Len(t) : t[i] = s[i+1]
      /\ Head(s) = s[1]
  BY <1>1
<1>3. r.head = s[1] /\ r.head # NULL /\ r.head \in PCBs
  BY <1>1 DEF IsChain
<1>4. r.next[r.head] = IF Len(s) = 1 THEN NULL ELSE s[2]
  <2>1. 1 \in 1 .. Len(s) /\ 1 + 1 = 2
    BY <1>1
  <2> QED BY <2>1, <1>3 DEF IsChain
<1>5. dequeue(r).p = r.head
  BY <1>3 DEF dequeue
<1>6. /\ d \in Queues /\ d.next = r.next /\ d.state = r.state /\ d.current = r.current
      /\ d.head = r.next[r.head] /\ d.tail = IF r.next[r.head] = NULL THEN NULL ELSE r.tail
  BY <1>3 DEF Queues, dequeue
<1> HIDE DEF d, t
<1>7. d.head = IF Len(t) = 0 THEN NULL ELSE t[1]
  BY <1>6, <1>4, <1>2, <1>1
<1>8. d.tail = IF Len(t) = 0 THEN NULL ELSE t[Len(t)]
  <2>1. Len(s) # 1 => 2 \in 1 .. Len(s) /\ s[2] # NULL /\ Len(t) \in 1 .. Len(t)
    BY <1>1, <1>2
  <2>2. r.tail = s[Len(s)]
    BY <1>1 DEF IsChain
  <2> QED BY <2>1, <2>2, <1>6, <1>4, <1>2, <1>1
<1>9. \A i, j \in 1 .. Len(t) : t[i] = t[j] => i = j
  <2> SUFFICES ASSUME NEW i \in 1 .. Len(t), NEW j \in 1 .. Len(t), t[i] = t[j]
               PROVE  i = j
    OBVIOUS
  <2>1. i + 1 \in 1 .. Len(s) /\ j + 1 \in 1 .. Len(s) /\ s[i+1] = s[j+1]
    BY <1>1, <1>2
  <2>2. i + 1 = j + 1
    BY <2>1 DEF IsChain
  <2> QED BY <2>2, <1>1, <1>2
<1>10. \A i \in 1 .. Len(t) : d.next[t[i]] = IF i = Len(t) THEN NULL ELSE t[i+1]
  <2> SUFFICES ASSUME NEW i \in 1 .. Len(t)
               PROVE  d.next[t[i]] = IF i = Len(t) THEN NULL ELSE t[i+1]
    OBVIOUS
  <2>1. i + 1 \in 1 .. Len(s) /\ t[i] = s[i+1]
    BY <1>1, <1>2
  <2>2. r.next[s[i+1]] = IF i + 1 = Len(s) THEN NULL ELSE s[(i+1)+1]
    BY <2>1 DEF IsChain
  <2>3. i # Len(t) => i + 1 \in 1 .. Len(t) /\ t[i+1] = s[(i+1)+1]
    BY <1>1, <1>2
  <2> QED BY <2>1, <2>2, <2>3, <1>1, <1>2, <1>6
<1>11. IsChain(d, t)
  BY <1>2, <1>7, <1>8, <1>9, <1>10 DEF IsChain
<1> QED BY <1>2, <1>3, <1>5, <1>6, <1>11 DEF d, t

\* schedule with a list that is not empty and a current process that is not on
\* it: the first block runs, and the current one is linked behind the others
\* when it is still RUNNING.
LEMMA ScheduleChain ==
  ASSUME NEW r \in Queues, NEW s, IsChain(r, s), s # <<>>,
         \A i \in 1 .. Len(s) : s[i] # r.current
  PROVE  LET f    == schedule(r).q
             goes == r.state[r.current] = "RUNNING"
             left == IF goes THEN [r.state EXCEPT ![r.current] = "READY"] ELSE r.state
         IN  /\ f \in Queues
             /\ IsChain(f, IF goes THEN Append(Tail(s), r.current) ELSE Tail(s))
             /\ f.state = [left EXCEPT ![Head(s)] = "RUNNING"]
             /\ f.current = Head(s)
<1> DEFINE d == dequeue(r).q
           goes == r.state[r.current] = "RUNNING"
           left == IF goes THEN [r.state EXCEPT ![r.current] = "READY"] ELSE r.state
           e == IF goes THEN enqueue(d, r.current) ELSE d
           t == IF goes THEN Append(Tail(s), r.current) ELSE Tail(s)
<1>1. /\ s \in Seq(PCBs) /\ Head(s) = s[1] /\ Head(s) \in PCBs /\ Head(s) # NULL
      /\ Head(s) # r.current /\ r.current \in PCBs
  BY NullAssumption DEF IsChain, Queues
<1>2. /\ d \in Queues /\ IsChain(d, Tail(s)) /\ d.state = r.state
      /\ d.current = r.current /\ dequeue(r).p = Head(s)
  BY DequeueChain
<1>3. \A i \in 1 .. Len(Tail(s)) : Tail(s)[i] # r.current
  BY <1>1
<1>4. schedule(r).q = Run(e, Head(s))
  BY <1>1, <1>2, Zenon DEF schedule
<1>5. e \in Queues /\ IsChain(e, t) /\ e.state = left
  <2> HIDE DEF d
  <2>1. CASE goes
    <3>1. /\ enqueue(d, r.current) \in Queues
          /\ IsChain(enqueue(d, r.current), Append(Tail(s), r.current))
          /\ enqueue(d, r.current).state = [d.state EXCEPT ![r.current] = "READY"]
      <4> DEFINE u == Tail(s)
                 p == r.current
      <4>1. d \in Queues /\ IsChain(d, u) /\ p \in PCBs
        BY <1>1, <1>2
      <4>2. \A i \in 1 .. Len(u) : u[i] # p
        BY <1>3
      <4> HIDE DEF u, p
      <4>3. /\ enqueue(d, p) \in Queues /\ IsChain(enqueue(d, p), Append(u, p))
            /\ enqueue(d, p).state = [d.state EXCEPT ![p] = "READY"]
        BY <4>1, <4>2, EnqueueChain
      <4> QED BY <4>3, Zenon DEF u, p
    <3> QED BY <2>1, <3>1, <1>2
  <2>2. CASE ~goes
    BY <2>2, <1>2
  <2> QED BY <2>1, <2>2
<1> HIDE DEF d, e, t, goes
<1>6. /\ Run(e, Head(s)) \in Queues
      /\ Run(e, Head(s)).state = [left EXCEPT ![Head(s)] = "RUNNING"]
      /\ Run(e, Head(s)).current = Head(s)
  BY <1>1, <1>5 DEF Run, Queues, States
<1>7. IsChain(Run(e, Head(s)), t)
  BY <1>5 DEF Run, IsChain
<1> QED BY <1>4, <1>6, <1>7 DEF t, goes

\* schedule with an empty list returns to idle, when that is what runs.
LEMMA ScheduleEmpty ==
  ASSUME NEW r \in Queues, IsChain(r, <<>>), r.current = idle
  PROVE  schedule(r).q = r
<1>1. r.head = NULL
  BY DEF IsChain
<1> QED BY <1>1 DEF schedule, dequeue

-----------------------------------------------------------------------------
(* The queue of ReadyFifo, of any values: s waits, st is the state of each *)
(* process and c the current one; t, su and d are the same after a step.   *)

Typed(s, st, c) == s \in Seq(PCBs) /\ st \in [PCBs -> States] /\ c \in PCBs

Nobody(s, st, c) ==
  /\ \A p \in PCBs : st[p] = "READY" <=> \E i \in 1 .. Len(s) : s[i] = p
  /\ \A i, j \in 1 .. Len(s) : s[i] = s[j] => i = j
  /\ \A p \in PCBs : st[p] = "RUNNING" <=> p = c

\* idle neither exits nor is ever unallocated, so it runs or waits.  Without
\* this IdleTakesOver is not inductive: exit with an empty queue would have
\* nobody to run.
Alive(st) == st[idle] \in {"READY", "RUNNING"}

Sound(s, st, c) == Typed(s, st, c) /\ Nobody(s, st, c) /\ Alive(st)

Created(p, s, st, c, t, su, d) ==
  st[p] = "UNUSED" /\ t = Append(s, p) /\ su = [st EXCEPT ![p] = "READY"] /\ d = c

Switched(exits, s, st, c, t, su, d) ==
  /\ s # <<>>
  /\ d = Head(s)
  /\ t = IF exits THEN Tail(s) ELSE Append(Tail(s), c)
  /\ su = [st EXCEPT ![c] = IF exits THEN "ZOMBIE" ELSE "READY", ![Head(s)] = "RUNNING"]

\* A step of ReadyFifo.
Stepped(s, st, c, t, su, d) ==
  \/ \E p \in Procs : Created(p, s, st, c, t, su, d)
  \/ Switched(FALSE, s, st, c, t, su, d)
  \/ c # idle /\ Switched(TRUE, s, st, c, t, su, d)
  \/ t = s /\ su = st /\ d = c

\* The queue after Create and Switch, position by position: what Append and
\* Tail do to the places of the waiting processes.
LEMMA AppendPlaces ==
  ASSUME NEW S, NEW s \in Seq(S), NEW x \in S
  PROVE  /\ Append(s, x) \in Seq(S)
         /\ Len(Append(s, x)) = Len(s) + 1
         /\ \A i \in 1 .. Len(s) : Append(s, x)[i] = s[i]
         /\ Append(s, x)[Len(s) + 1] = x
  OBVIOUS

LEMMA TailPlaces ==
  ASSUME NEW S, NEW s \in Seq(S), s # <<>>
  PROVE  /\ Head(s) \in S /\ Head(s) = s[1]
         /\ Tail(s) \in Seq(S)
         /\ Len(s) \in Nat /\ Len(s) >= 1
         /\ Len(Tail(s)) = Len(s) - 1
         /\ \A i \in 1 .. Len(s) - 1 : Tail(s)[i] = s[i + 1]
  OBVIOUS

LEMMA StartSound ==
  Sound(<<>>, [p \in PCBs |-> IF p = idle THEN "RUNNING" ELSE "UNUSED"], idle)
<1> DEFINE st == [p \in PCBs |-> IF p = idle THEN "RUNNING" ELSE "UNUSED"]
<1>1. st \in [PCBs -> States] /\ idle \in PCBs
  BY DEF PCBs, States
<1>2. \A p \in PCBs : st[p] # "READY" /\ (st[p] = "RUNNING" <=> p = idle)
  OBVIOUS
<1>3. st[idle] = "RUNNING"
  BY <1>1
<1> HIDE DEF st
<1>4. Nobody(<<>>, st, idle)
  BY <1>2 DEF Nobody
<1>5. Typed(<<>>, st, idle) /\ Alive(st)
  BY <1>1, <1>3 DEF Typed, Alive
<1>6. Sound(<<>>, st, idle)
  BY <1>4, <1>5 DEF Sound
<1> QED BY <1>6 DEF st

\* The process that is created was not waiting, so it waits once.
LEMMA CreatedSound ==
  ASSUME NEW s, NEW st, NEW c, NEW t, NEW su, NEW d, Sound(s, st, c),
         NEW p \in Procs, Created(p, s, st, c, t, su, d)
  PROVE  Sound(t, su, d)
<1> USE DEF Sound
<1>1. p \in PCBs /\ s \in Seq(PCBs) /\ st \in [PCBs -> States]
  BY DEF Typed, PCBs
<1>2. /\ t \in Seq(PCBs)
      /\ Len(t) = Len(s) + 1
      /\ \A i \in 1 .. Len(s) : t[i] = s[i]
      /\ t[Len(s) + 1] = p
  BY <1>1, AppendPlaces DEF Created
<1>3. Len(s) \in Nat
  BY <1>1
<1>4. \A i \in 1 .. Len(s) : s[i] # p /\ s[i] \in PCBs
  BY <1>1 DEF Created, Nobody
<1>5. Typed(t, su, d)
  BY <1>1, <1>2 DEF Typed, Created, States
<1>6. \A r \in PCBs : su[r] = "READY"
                        <=> \E i \in 1 .. Len(t) : t[i] = r
  BY <1>1, <1>2, <1>3, <1>4 DEF Created, Nobody
<1>7. \A i, j \in 1 .. Len(t) : t[i] = t[j] => i = j
  BY <1>2, <1>3, <1>4 DEF Nobody
<1>8. \A r \in PCBs : su[r] = "RUNNING" <=> r = d
  BY <1>1 DEF Created, Nobody
<1>9. Alive(su)
  BY <1>1, IdleAssumption DEF Created, Alive, PCBs
<1> QED BY <1>5, <1>6, <1>7, <1>8, <1>9 DEF Nobody

\* The first process leaves the queue and the current one, which was not in
\* it, joins at the end or is gone.
LEMMA SwitchedSound ==
  ASSUME NEW s, NEW st, NEW c, NEW t, NEW su, NEW d, Sound(s, st, c),
         NEW exits \in BOOLEAN, Switched(exits, s, st, c, t, su, d), exits => c # idle
  PROVE  Sound(t, su, d)
<1> USE DEF Sound
<1> DEFINE first == Head(s)
           rest  == Tail(s)
<1>1. s \in Seq(PCBs) /\ st \in [PCBs -> States] /\ c \in PCBs
  BY DEF Typed
<1>2. /\ first \in PCBs /\ first = s[1]
      /\ rest \in Seq(PCBs)
      /\ Len(s) \in Nat /\ Len(s) >= 1
      /\ Len(rest) = Len(s) - 1
      /\ \A i \in 1 .. Len(s) - 1 : rest[i] = s[i + 1]
  BY <1>1, TailPlaces DEF Switched
<1>3. first # c
  BY <1>1, <1>2 DEF Nobody
<1>4. \A i \in 1 .. Len(rest) : rest[i] # first /\ rest[i] # c
  BY <1>1, <1>2 DEF Nobody
<1>5. \A r \in PCBs : (st[r] = "READY" /\ r # first)
                        <=> \E i \in 1 .. Len(rest) : rest[i] = r
  <2>1. ASSUME NEW r \in PCBs, st[r] = "READY", r # first
        PROVE  \E i \in 1 .. Len(rest) : rest[i] = r
    <3>1. PICK i \in 1 .. Len(s) : s[i] = r
      BY <2>1 DEF Nobody
    <3>2. i # 1 /\ i - 1 \in 1 .. Len(rest) /\ rest[i - 1] = r
      BY <3>1, <2>1, <1>2
    <3> QED BY <3>2
  <2>2. ASSUME NEW i \in 1 .. Len(rest)
        PROVE  st[rest[i]] = "READY"
    BY <1>1, <1>2 DEF Nobody
  <2> QED BY <2>1, <2>2, <1>4
<1>6. \A i, j \in 1 .. Len(rest) : rest[i] = rest[j] => i = j
  BY <1>2 DEF Nobody
<1>7. /\ su \in [PCBs -> States]
      /\ su[first] = "RUNNING"
      /\ su[c] = IF exits THEN "ZOMBIE" ELSE "READY"
      /\ \A r \in PCBs : r # first /\ r # c => su[r] = st[r]
  BY <1>1, <1>2, <1>3 DEF Switched, States
<1>8. \A r \in PCBs : su[r] = "RUNNING" <=> r = d
  BY <1>1, <1>2, <1>3, <1>7 DEF Switched, Nobody
<1>9. Alive(su)
  BY <1>7, IdleAssumption DEF Alive, PCBs
<1>10. Len(rest) \in Nat
  BY <1>2
<1>11. CASE exits
  <2>1. t = rest
    BY <1>11 DEF Switched
  <2>2. \A r \in PCBs : su[r] = "READY"
                          <=> \E i \in 1 .. Len(t) : t[i] = r
    BY <2>1, <1>1, <1>3, <1>4, <1>5, <1>7, <1>11
  <2>3. Typed(t, su, d)
    BY <2>1, <1>2, <1>7 DEF Typed, Switched
  <2> QED BY <2>1, <2>2, <2>3, <1>6, <1>8, <1>9 DEF Nobody
<1>12. CASE ~exits
  <2>1. /\ t \in Seq(PCBs)
        /\ Len(t) = Len(rest) + 1
        /\ \A i \in 1 .. Len(rest) : t[i] = rest[i]
        /\ t[Len(rest) + 1] = c
    BY <1>1, <1>2, <1>12, AppendPlaces DEF Switched
  <2>2. \A r \in PCBs : su[r] = "READY"
                          <=> \E i \in 1 .. Len(t) : t[i] = r
    <3>1. \A r \in PCBs : (\E i \in 1 .. Len(t) : t[i] = r)
            <=> (r = c \/ \E i \in 1 .. Len(rest) : rest[i] = r)
      <4>1. ASSUME NEW i \in 1 .. Len(t)
            PROVE  t[i] = c \/ \E j \in 1 .. Len(rest) : rest[j] = t[i]
        <5>1. i = Len(rest) + 1 \/ i \in 1 .. Len(rest)
          BY <2>1, <1>10
        <5> QED BY <5>1, <2>1
      <4>3. \A i \in 1 .. Len(rest) : i \in 1 .. Len(t)
        BY <2>1, <1>10
      <4>4. Len(rest) + 1 \in 1 .. Len(t)
        BY <2>1, <1>10
      <4> HIDE DEF rest
      <4> QED BY <4>1, <4>3, <4>4, <2>1
    <3> QED BY <3>1, <1>1, <1>3, <1>5, <1>7, <1>12 DEF Nobody
  <2>3. \A i, j \in 1 .. Len(t) : t[i] = t[j] => i = j
    <3> HIDE DEF rest
    <3>1. \A i \in 1 .. Len(t) : i = Len(rest) + 1 \/ i \in 1 .. Len(rest)
      BY <2>1, <1>10
    <3> QED BY <3>1, <2>1, <1>10, <1>4, <1>6
  <2>4. Typed(t, su, d)
    BY <2>1, <1>2, <1>7 DEF Typed, Switched
  <2> QED BY <2>2, <2>3, <2>4, <1>8, <1>9 DEF Nobody
<1> QED BY <1>11, <1>12

LEMMA SteppedSound ==
  ASSUME NEW s, NEW st, NEW c, NEW t, NEW su, NEW d, Sound(s, st, c),
         Stepped(s, st, c, t, su, d)
  PROVE  Sound(t, su, d)
<1>1. ASSUME NEW p \in Procs, Created(p, s, st, c, t, su, d) PROVE Sound(t, su, d)
  BY <1>1, CreatedSound
<1>2. CASE Switched(FALSE, s, st, c, t, su, d)
  BY <1>2, SwitchedSound
<1>3. CASE c # idle /\ Switched(TRUE, s, st, c, t, su, d)
  BY <1>3, SwitchedSound
<1>4. CASE t = s /\ su = st /\ d = c
  BY <1>4
<1> QED BY <1>1, <1>2, <1>3, <1>4 DEF Stepped

\* With an empty queue idle is the one that runs.
LEMMA SoundIdle ==
  ASSUME NEW s, NEW st, NEW c, Sound(s, st, c), s = <<>>
  PROVE  c = idle
<1>1. 1 .. Len(s) = {} /\ idle \in PCBs
  BY DEF PCBs
<1>2. st[idle] # "READY"
  BY <1>1 DEF Sound, Nobody
<1> QED BY <1>1, <1>2 DEF Sound, Nobody, Alive

\* Neither the process that is created nor the two that change places in a
\* switch have exited before.
LEMMA SteppedStays ==
  ASSUME NEW s, NEW st, NEW c, NEW t, NEW su, NEW d, Sound(s, st, c),
         Stepped(s, st, c, t, su, d)
  PROVE  \A p \in PCBs : st[p] = "ZOMBIE" => su[p] = "ZOMBIE"
<1> DEFINE Stay == \A p \in PCBs : st[p] = "ZOMBIE" => su[p] = "ZOMBIE"
<1>1. ASSUME NEW exits \in BOOLEAN, Switched(exits, s, st, c, t, su, d) PROVE Stay
  <2>1. Head(s) \in PCBs /\ st[Head(s)] = "READY"
    <3>1. Head(s) \in PCBs /\ Head(s) = s[1] /\ 1 \in 1 .. Len(s)
      BY <1>1, TailPlaces DEF Switched, Sound, Typed
    <3> QED BY <3>1 DEF Sound, Nobody
  <2>2. c \in PCBs /\ st[c] = "RUNNING"
    BY DEF Sound, Typed, Nobody
  <2> QED BY <1>1, <2>1, <2>2 DEF Switched, Sound, Typed
<1>2. ASSUME NEW p \in Procs, Created(p, s, st, c, t, su, d) PROVE Stay
  BY <1>2 DEF Created, Sound, Typed
<1>3. CASE t = s /\ su = st /\ d = c
  BY <1>3
<1> QED BY <1>1, <1>2, <1>3 DEF Stepped

-----------------------------------------------------------------------------
(* ReadyFifo itself, of any variables that obey it.                        *)

VARIABLES line, states, running

Any == INSTANCE ReadyFifo WITH queue <- line, state <- states, current <- running

AnyInv == Sound(line, states, running)

LEMMA AnyStep == [Any!Next]_Any!vars => Stepped(line, states, running, line', states', running')
<1> SUFFICES ASSUME [Any!Next]_Any!vars
             PROVE  Stepped(line, states, running, line', states', running')
  OBVIOUS
<1>1. ASSUME NEW p \in Procs, Any!Create(p)
      PROVE  Created(p, line, states, running, line', states', running')
  BY <1>1 DEF Any!Create, Created
<1>2. ASSUME NEW exits \in BOOLEAN, Any!Switch(exits)
      PROVE  Switched(exits, line, states, running, line', states', running')
  BY <1>2, Zenon DEF Any!Switch, Switched
<1>3. CASE UNCHANGED Any!vars
  BY <1>3 DEF Any!vars, Stepped
<1> QED BY <1>1, <1>2, <1>3 DEF Any!Next, Any!Preempt, Any!Exit, Stepped

\* The inductive invariant of the queue.
LEMMA AnyInvHolds == Any!Spec => []AnyInv
<1>1. Any!Init => AnyInv
  BY StartSound DEF Any!Init, AnyInv, Any!PCBs, PCBs
<1>2. AnyInv /\ [Any!Next]_Any!vars => AnyInv'
  <2> SUFFICES ASSUME AnyInv, [Any!Next]_Any!vars PROVE AnyInv'
    OBVIOUS
  <2>1. Sound(line', states', running')
    BY AnyStep, SteppedSound DEF AnyInv
  <2> QED BY <2>1 DEF AnyInv
<1> QED BY <1>1, <1>2, PTL DEF Any!Spec

\* For any number of processes: create, preempt and exit keep the READY
\* processes exactly in the queue, each once, and the current one RUNNING.
THEOREM ReadyNeverLost == Any!Spec => [](Any!TypeOK /\ Any!NobodyLost)
<1>1. AnyInv => Any!TypeOK /\ Any!NobodyLost
  BY DEF AnyInv, Sound, Typed, Nobody, Any!TypeOK, Any!NobodyLost, Any!PCBs, PCBs,
         Any!States, States
<1> QED BY <1>1, AnyInvHolds, PTL

\* For any number of processes: schedule finds the queue empty only while
\* idle runs.
THEOREM EmptyMeansIdle == Any!Spec => []Any!IdleTakesOver
<1>1. AnyInv => Any!IdleTakesOver
  BY SoundIdle DEF AnyInv, Any!IdleTakesOver
<1> QED BY <1>1, AnyInvHolds, PTL

\* For any number of processes: no step brings an exited process back.
THEOREM ExitIsFinal == Any!Spec => Any!ZombiesStay
<1> DEFINE Stay == \A p \in Any!PCBs : states[p] = "ZOMBIE" => states'[p] = "ZOMBIE"
<1>1. ASSUME AnyInv, [Any!Next]_Any!vars PROVE Stay
  BY <1>1, AnyStep, SteppedStays DEF AnyInv, Any!PCBs, PCBs
<1>2. AnyInv /\ [Any!Next]_Any!vars => [Stay]_Any!vars
  BY <1>1
<1> QED BY <1>2, AnyInvHolds, PTL DEF Any!Spec, Any!ZombiesStay

-----------------------------------------------------------------------------
(* The linked list.                                                        *)

\* The list holds what Chain finds on it, and the queue it stands for has the
\* invariant of ReadyFifo.  The second part is needed for the first: a block
\* put at the end must not be on the list already.
IInv == q \in Queues /\ IsChain(q, Waiting) /\ Sound(Waiting, q.state, q.current)

LEMMA InitInv == Init => IInv /\ Fifo!Init
<1> SUFFICES ASSUME Init PROVE IInv /\ Fifo!Init
  OBVIOUS
<1>1. q \in Queues
  BY DEF Init, InitQueue, Queues, PCBs, States
<1>2. IsChain(q, <<>>)
  BY DEF Init, InitQueue, IsChain
<1>3. Waiting = <<>>
  BY <1>1, <1>2, WalkFindsChain DEF Waiting
<1>4. Fifo!Init
  BY <1>3 DEF Fifo!Init, Init, InitQueue, Fifo!PCBs, PCBs
<1>5. Sound(Waiting, q.state, q.current)
  BY <1>3, StartSound DEF Init, InitQueue
<1> QED BY <1>1, <1>2, <1>3, <1>4, <1>5 DEF IInv

\* A queue whose list is s' after a step is one on which Chain finds s'.
LEMMA CreateStep ==
  ASSUME IInv, NEW p \in Procs, Create(p)
  PROVE  q' \in Queues /\ IsChain(q', Waiting') /\ Fifo!Create(p)
<1>1. p \in PCBs /\ q.state[p] = "UNUSED" /\ q' = enqueue(q, p)
  BY DEF Create, PCBs
<1>2. \A i \in 1 .. Len(Waiting) : Waiting[i] # p
  BY <1>1 DEF IInv, Sound, Nobody, PCBs
<1>3. /\ q' \in Queues /\ IsChain(q', Append(Waiting, p))
      /\ q'.state = [q.state EXCEPT ![p] = "READY"] /\ q'.current = q.current
  BY <1>1, <1>2, EnqueueChain DEF IInv
<1>4. Waiting' = Append(Waiting, p)
  BY <1>3, WalkFindsChain DEF Waiting
<1> QED BY <1>1, <1>3, <1>4 DEF Fifo!Create

\* What the invariant says of the current process and of the processes in the
\* list.
LEMMA CurrentNotWaiting ==
  ASSUME IInv
  PROVE  /\ q.current \in PCBs /\ q.state[q.current] = "RUNNING"
         /\ \A i \in 1 .. Len(Waiting) : Waiting[i] # q.current
         /\ Waiting = <<>> => q.current = idle
<1>1. q.current \in PCBs /\ q.state[q.current] = "RUNNING"
  BY DEF IInv, Queues, Sound, Nobody, PCBs
<1>2. Waiting = <<>> => q.current = idle
  BY DEF IInv, Sound, Nobody, Alive, PCBs
<1> QED BY <1>1, <1>2 DEF IInv, Sound, Nobody, PCBs

\* The timer interrupt: a switch, or nothing at all.
LEMMA TickStep ==
  ASSUME IInv, Tick
  PROVE  q' \in Queues /\ IsChain(q', Waiting') /\ Fifo!Preempt
<1>1. /\ q \in Queues /\ IsChain(q, Waiting)
      /\ q.current \in PCBs /\ q.state[q.current] = "RUNNING"
      /\ \A i \in 1 .. Len(Waiting) : Waiting[i] # q.current
      /\ Waiting = <<>> => q.current = idle
  BY CurrentNotWaiting DEF IInv
<1>2. CASE Waiting = <<>>
  <2>1. q' = q
    BY <1>1, <1>2, ScheduleEmpty DEF Tick
  <2>2. Waiting' = Waiting
    BY <2>1 DEF Waiting
  <2> QED BY <2>1, <2>2, <1>1, <1>2 DEF Fifo!Preempt, Fifo!vars
<1>3. CASE Waiting # <<>>
  <2>1. /\ q' \in Queues /\ IsChain(q', Append(Tail(Waiting), q.current))
        /\ q'.state = [[q.state EXCEPT ![q.current] = "READY"]
                         EXCEPT ![Head(Waiting)] = "RUNNING"]
        /\ q'.current = Head(Waiting)
    BY <1>1, <1>3, ScheduleChain DEF Tick
  <2>2. Waiting' = Append(Tail(Waiting), q.current)
    BY <2>1, WalkFindsChain DEF Waiting
  <2>3. Fifo!Switch(FALSE)
    BY <2>1, <2>2, <1>3 DEF Fifo!Switch
  <2> QED BY <2>1, <2>2, <2>3 DEF Fifo!Preempt
<1> QED BY <1>2, <1>3

\* exit: the current process is a ZOMBIE before schedule looks at it, and there
\* is always another one to run.
LEMMA ExitStep ==
  ASSUME IInv, Exit
  PROVE  q' \in Queues /\ IsChain(q', Waiting') /\ Fifo!Exit
<1> DEFINE z == [q EXCEPT !.state[q.current] = "ZOMBIE"]
<1>1. /\ q \in Queues /\ IsChain(q, Waiting)
      /\ q.current \in PCBs /\ q.current # idle /\ Waiting # <<>>
      /\ \A i \in 1 .. Len(Waiting) : Waiting[i] # q.current
  BY CurrentNotWaiting DEF IInv, Exit
<1>2. /\ z \in Queues /\ z.current = q.current
      /\ z.state = [q.state EXCEPT ![q.current] = "ZOMBIE"]
      /\ z.head = q.head /\ z.tail = q.tail /\ z.next = q.next
  BY <1>1 DEF Queues, States
<1>3. q' = schedule(z).q
  BY DEF Exit
<1> HIDE DEF z
<1>4. IsChain(z, Waiting) /\ z.state[z.current] # "RUNNING"
  BY <1>1, <1>2 DEF IsChain, Queues
<1>5. /\ q' \in Queues /\ IsChain(q', Tail(Waiting))
      /\ q'.state = [z.state EXCEPT ![Head(Waiting)] = "RUNNING"]
      /\ q'.current = Head(Waiting)
  <2>1. \A i \in 1 .. Len(Waiting) : Waiting[i] # z.current
    BY <1>1, <1>2
  <2>2. z \in Queues
    BY <1>2
  <2> QED BY <1>1, <1>3, <1>4, <2>1, <2>2, ScheduleChain
<1>6. Waiting' = Tail(Waiting)
  BY <1>5, WalkFindsChain DEF Waiting
<1>7. Fifo!Switch(TRUE)
  BY <1>1, <1>2, <1>5, <1>6 DEF Fifo!Switch
<1> QED BY <1>1, <1>5, <1>6, <1>7 DEF Fifo!Exit

\* A step of ReadyFifo by the linked queue, in terms of the values.
LEMMA FifoStep ==
  [Fifo!Next]_Fifo!vars => Stepped(Waiting, q.state, q.current, Waiting', q'.state, q'.current)
<1> SUFFICES ASSUME [Fifo!Next]_Fifo!vars
             PROVE  Stepped(Waiting, q.state, q.current, Waiting', q'.state, q'.current)
  OBVIOUS
<1>1. ASSUME NEW p \in Procs, Fifo!Create(p)
      PROVE  Created(p, Waiting, q.state, q.current, Waiting', q'.state, q'.current)
  BY <1>1 DEF Fifo!Create, Created
<1>2. ASSUME NEW exits \in BOOLEAN, Fifo!Switch(exits)
      PROVE  Switched(exits, Waiting, q.state, q.current, Waiting', q'.state, q'.current)
  BY <1>2, Zenon DEF Fifo!Switch, Switched
<1>3. CASE UNCHANGED Fifo!vars
  BY <1>3 DEF Fifo!vars, Stepped
<1> QED BY <1>1, <1>2, <1>3 DEF Fifo!Next, Fifo!Preempt, Fifo!Exit, Stepped

\* Every step of the linked queue keeps the invariant and is a step, or a
\* stutter, of ReadyFifo.
LEMMA NextStep ==
  ASSUME IInv, [Next]_q
  PROVE  IInv' /\ [Fifo!Next]_Fifo!vars
<1>1. /\ q' \in Queues /\ IsChain(q', Waiting') /\ [Fifo!Next]_Fifo!vars
  <2>1. ASSUME NEW p \in Procs, Create(p)
        PROVE  q' \in Queues /\ IsChain(q', Waiting') /\ [Fifo!Next]_Fifo!vars
    BY <2>1, CreateStep DEF Fifo!Next
  <2>2. CASE Tick
    BY <2>2, TickStep DEF Fifo!Next
  <2>3. CASE Exit
    BY <2>3, ExitStep DEF Fifo!Next
  <2>4. CASE q' = q
    <3>1. Waiting' = Waiting
      BY <2>4 DEF Waiting
    <3> QED BY <2>4, <3>1 DEF IInv, Fifo!vars
  <2> QED BY <2>1, <2>2, <2>3, <2>4 DEF Next
<1>2. Sound(Waiting', q'.state, q'.current)
  BY <1>1, FifoStep, SteppedSound DEF IInv
<1> QED BY <1>1, <1>2 DEF IInv

-----------------------------------------------------------------------------
\* The inductive invariant holds in every reachable state.
THEOREM InvHolds == Spec => []IInv
<1>1. Init => IInv
  BY InitInv
<1>2. IInv /\ [Next]_q => IInv'
  BY NextStep
<1> QED BY <1>1, <1>2, PTL DEF Spec

\* For any number of processes: ready_queue_tail is the block the list from
\* ready_queue_head ends at, so enqueue never cuts the list or closes a circle.
THEOREM TailIsLast == Spec => []TailEndsList
<1>1. IInv => TailEndsList
  <2> SUFFICES ASSUME IInv PROVE TailEndsList
    OBVIOUS
  <2>1. /\ Waiting \in Seq(PCBs) /\ Len(Waiting) \in Nat
        /\ \A i \in 1 .. Len(Waiting) : Waiting[i] # NULL
    BY NullAssumption DEF IInv, IsChain
  <2>2. q.head = NULL <=> Len(Waiting) = 0
    BY <2>1 DEF IInv, IsChain
  <2>3. q.tail = NULL <=> Len(Waiting) = 0
    BY <2>1 DEF IInv, IsChain
  <2>4. Len(Waiting) # 0 => Waiting[Len(Waiting)] = q.tail /\ q.next[q.tail] = NULL
    BY <2>1 DEF IInv, IsChain
  <2> QED BY <2>2, <2>3, <2>4 DEF TailEndsList
<1> QED BY <1>1, InvHolds, PTL

\* For any number of processes: the list threaded through the control blocks is
\* the first-in first-out queue of ReadyFifo.
THEOREM ListIsFifo == Spec => ImplementsFifo
<1>1. Init => Fifo!Init
  BY InitInv
<1>2. IInv /\ [Next]_q => [Fifo!Next]_Fifo!vars
  BY NextStep
<1> QED BY <1>1, <1>2, InvHolds, PTL DEF Spec, ImplementsFifo, Fifo!Spec

\* For any number of processes: the READY ones are exactly the ones on the list
\* from ready_queue_head, each once, g_current_proc alone is RUNNING, and an
\* empty list means that the boot thread runs.
THEOREM ListLosesNobody == Spec => [](NobodyLost /\ IdleTakesOver)
<1>1. IInv => NobodyLost /\ IdleTakesOver
  <2> SUFFICES ASSUME IInv PROVE NobodyLost /\ IdleTakesOver
    OBVIOUS
  <2>1. NobodyLost
    BY DEF IInv, Sound, Nobody, NobodyLost, Fifo!NobodyLost, Fifo!PCBs, PCBs
  <2>2. IdleTakesOver
    BY CurrentNotWaiting DEF IdleTakesOver, Fifo!IdleTakesOver
  <2> QED BY <2>1, <2>2
<1> QED BY <1>1, InvHolds, PTL

\* For any number of processes: no step of the linked queue brings back a
\* process that exited.
THEOREM ZombiesStayOff == Spec => ZombiesStay
<1> DEFINE Stay == \A p \in PCBs : q.state[p] = "ZOMBIE" => q'.state[p] = "ZOMBIE"
<1>1. ASSUME IInv, [Next]_q
      PROVE  Stay
  BY <1>1, NextStep, FifoStep, SteppedStays DEF IInv
<1>2. IInv /\ [Next]_q
        => [\A p \in Fifo!PCBs : q.state[p] = "ZOMBIE" => (q.state')[p] = "ZOMBIE"]_Fifo!vars
  BY <1>1 DEF Fifo!PCBs, PCBs
<1> QED BY <1>2, InvHolds, PTL DEF Spec, ZombiesStay, Fifo!ZombiesStay
=============================================================================
