------------------------------ MODULE HeapSpec ------------------------------
(***************************************************************************)
(* What the kernel heap of SukiOS promises, without its headers, footers   *)
(* and lists: the mapped part of the heap region holds extents, some given *)
(* to callers and some free, that never overlap.  kernel/InitKernel/heap.c *)
(* is modelled word by word in module Heap, which implements this one.     *)
(*                                                                         *)
(* An extent is a pair <<lo, hi>>: the words lo .. hi - 1 counted from     *)
(* heap_start.  Mapped words that belong to no extent are the ones a       *)
(* failed expand_to left behind.                                           *)
(***************************************************************************)
EXTENDS HeapRegion

VARIABLES
  mapped,  \* heap_mapped_size
  busy,    \* the extents of allocated blocks
  free     \* the extents of free blocks

vars == <<mapped, busy, free>>

Extent == { e \in Nat \X Nat : e[1] < e[2] }

\* heap_init maps the first page and makes it one free block, or fails and
\* leaves the heap empty.
Init ==
  /\ mapped \in 0 .. heap_max_size
  /\ busy = {}
  /\ free = IF mapped = 0 THEN {} ELSE { <<0, mapped>> }

\* What is left of the extent e once its first n words are taken.
Rest(e, n) == IF e[1] + n < e[2] THEN { <<e[1] + n, e[2]>> } ELSE {}

\* kmalloc finds a free block and takes its first n words.
Alloc(e, n) ==
  /\ e \in free
  /\ n \in Nat \ {0}
  /\ e[1] + n <= e[2]
  /\ busy' = busy \cup { <<e[1], e[1] + n>> }
  /\ free' = (free \ {e}) \cup Rest(e, n)
  /\ UNCHANGED mapped

\* kmalloc finds none, maps m more words and takes the first n of them.
AllocGrow(m, n) ==
  /\ m \in 1 .. heap_max_size - mapped
  /\ n \in 1 .. m
  /\ busy' = busy \cup { <<mapped, mapped + n>> }
  /\ free' = free \cup Rest(<<mapped, mapped + m>>, n)
  /\ mapped' = mapped + m

\* kmalloc maps m more words, then a page cannot be had and it gives up.
GrowFailed(m) ==
  /\ m \in 1 .. heap_max_size - mapped
  /\ mapped' = mapped + m
  /\ UNCHANGED <<busy, free>>

\* kfree gives an allocated block back and merges it with the free blocks
\* just before it and just after it (sets of at most one element).
Release(e, before, after) ==
  /\ e \in busy
  /\ before \subseteq free /\ after \subseteq free
  /\ \A b \in before : b[2] = e[1]
  /\ \A a \in after : a[1] = e[2]
  /\ busy' = busy \ {e}
  /\ \E lo, hi \in 0 .. mapped :
       /\ IF before = {} THEN lo = e[1] ELSE \E b \in before : lo = b[1]
       /\ IF after = {} THEN hi = e[2] ELSE \E a \in after : hi = a[2]
       /\ free' = (free \ (before \cup after)) \cup { <<lo, hi>> }
  /\ UNCHANGED mapped

Next ==
  \/ \E e \in free : \E n \in 1 .. e[2] - e[1] : Alloc(e, n)
  \/ \E m \in 1 .. heap_max_size - mapped :
       \/ \E n \in 1 .. m : AllocGrow(m, n)
       \/ GrowFailed(m)
  \/ \E e \in busy :
       \E before \in SUBSET free : \E after \in SUBSET free :
         Release(e, before, after)

Spec == Init /\ [][Next]_vars

-----------------------------------------------------------------------------
\* The heap never maps more than its region.
TypeOK ==
  /\ mapped \in 0 .. heap_max_size
  /\ busy \subseteq Extent
  /\ free \subseteq Extent

\* No two extents share a word.
Apart(a, b) == a[2] <= b[1] \/ b[2] <= a[1]

\* No two callers of kmalloc share a word, no caller's block shares a word
\* with a block on the free list, and every block lies in mapped memory.
NoOverlap ==
  /\ \A a, b \in busy \cup free : a # b => Apart(a, b)
  /\ busy \cap free = {}
  /\ \A a \in busy \cup free : a[2] <= mapped

\* A block in use is never moved, resized or taken away by a step made for
\* somebody else: a step takes at most one extent out of busy, and its words
\* are free afterwards.
OthersUndisturbed ==
  [][\A a, b \in busy \ busy' :
       /\ a = b
       /\ \E f \in free' : f[1] <= a[1] /\ a[2] <= f[2]]_vars
=============================================================================
