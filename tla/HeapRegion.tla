----------------------------- MODULE HeapRegion -----------------------------
(***************************************************************************)
(* The region reserved for the kernel heap (HEAP_MAX_SIZE in heap.h),      *)
(* common to what the heap promises (HeapSpec) and how it works (Heap).    *)
(***************************************************************************)
EXTENDS Integers

CONSTANT heap_max_size  \* words reserved for the heap

ASSUME HeapMaxAssumption == heap_max_size \in Nat
=============================================================================
