------------------------------- MODULE MCHeap -------------------------------
(***************************************************************************)
(* Instances of Heap for TLC: two callers and a region of two pages of 16  *)
(* words, each with room for two of the smallest blocks.  A request of 18  *)
(* words needs more than a page: where one is left, expand_to maps it,     *)
(* fails, and leaves a gap.  Sizes are such that a block too small to be   *)
(* split has the size asked for, so that heap_allocated_bytes is bounded.  *)
(***************************************************************************)
EXTENDS Heap

MCClients == {-2, -3}
MCMagic == -1
\* No members, a block of a page, and more than HEAP_MAX_ALLOC.
MCCalloc == {<<0, 1>>, <<2, 5>>, <<2, 10>>}
=============================================================================
