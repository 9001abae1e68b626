------------------------------ MODULE MCFiles -------------------------------
(***************************************************************************)
(* Instances of Files for TLC.                                             *)
(***************************************************************************)
EXTENDS Files

\* The kernel as it is: two programs are loaded at the same time.
Loading ==
  [calls |-> {"open", "read", "close"}, requests |-> {1, 3}, handles |-> 2,
   readPast |-> FALSE, errors |-> TRUE, crashes |-> TRUE]

\* One caller uses everything, until the volume is full.
Filling ==
  [calls |-> {"open", "write", "close", "create", "delete"}, requests |-> {3},
   handles |-> 1, readPast |-> FALSE, errors |-> TRUE, crashes |-> FALSE]

\* Two files are written and deleted while power fails between disk writes.
Failing ==
  [calls |-> {"open", "write", "close", "delete"}, requests |-> {3},
   handles |-> 2, readPast |-> FALSE, errors |-> TRUE, crashes |-> TRUE]

MCWorlds == {Loading, Filling, Failing}

\* Writing and closing on a disk that never fails.
Writing ==
  [calls |-> {"open", "write", "close"}, requests |-> {1, 3},
   handles |-> 2, readPast |-> FALSE, errors |-> FALSE, crashes |-> FALSE]

MCWritingOnly == {Writing}
=============================================================================
