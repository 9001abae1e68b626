------------------------------- MODULE MCIde -------------------------------
(***************************************************************************)
(* Instances of Ide for TLC.                                               *)
(***************************************************************************)
EXTENDS Ide

Machine(m, s) == [master |-> m, slave |-> s]

\* A drive that may refuse a command, asked for sectors whose numbers differ
\* in every register.
Refusing ==
  [kind |-> Machine("ata", "none"), ops |-> {"read", "write"}, lbas |-> {5, 10, 14},
   faults |-> {"read", "write"}, lag |-> FALSE, overlap |-> FALSE, calls |-> 3]

\* A drive that fails while it writes.
Failing ==
  [Refusing EXCEPT !.lbas = {5, 10}, !.faults = {"data", "flush"}]

\* The other machines: the disk is the slave, or there is none.
Others ==
  {[Refusing EXCEPT !.kind = Machine(m, s), !.lbas = {5}, !.calls = 1] :
     m \in {"atapi", "none"}, s \in {"ata", "atapi", "none"}}

\* A drive that is slow to show that it is busy.
Slow == [Refusing EXCEPT !.ops = {"read"}, !.faults = {}, !.lag = TRUE]

MCSetups == {Refusing, Failing, Slow} \cup Others
=============================================================================
