------------------------------ MODULE Processes ------------------------------
(***************************************************************************)
(* The process control blocks of SukiOS (proc.h), common to what the       *)
(* scheduler promises (ReadyFifo) and how proc.c does it (ProcQueue).      *)
(***************************************************************************)

CONSTANTS
  Procs,   \* the control blocks proc_create_from_elf may allocate
  idle     \* the block idle_proc

ASSUME IdleAssumption == idle \notin Procs

PCBs == Procs \cup {idle}

\* UNUSED: the block is not allocated.  PROC_BLOCKED is never assigned.
States == {"UNUSED", "READY", "RUNNING", "ZOMBIE"}
=============================================================================
