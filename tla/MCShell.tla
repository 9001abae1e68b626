------------------------------ MODULE MCShell ------------------------------
(***************************************************************************)
(* Instances of Shell for TLC: sessions that each type one kind of line.   *)
(***************************************************************************)
EXTENDS Shell

\* Lines are typed and taken back until buf is full and several are done.
Editing ==
  [prefix |-> << >>, keys |-> {"x", "y", BS, NL}, strokes |-> 6, size |-> 5,
   files |-> {}, others |-> 0, overlap |-> FALSE]

\* Commands, alone and with something behind them.
Commands ==
  [Editing EXCEPT !.keys = {"help", "exit", "echo", "exec", "x", SP, NL},
                  !.strokes = 3]

Echoing ==
  [Editing EXCEPT !.prefix = <<"echo", SP, "-n", SP>>, !.size = 12,
                  !.keys = {"x", SP, QUOTE, NL}, !.strokes = 5]

\* Up to three words for exec, with any spaces, or a path.
Arguments ==
  [Editing EXCEPT !.prefix = <<"exec", SP>>, !.keys = {"x", SP, NL}, !.size = 12,
                  !.strokes = 7]

Paths ==
  [Arguments EXCEPT !.keys = {"x", "/", NL}, !.strokes = 3,
                    !.files = {<<"/", "x">>}]

\* Another process writes between the shell's characters.
Shared == [Editing EXCEPT !.keys = {"x", NL}, !.strokes = 3, !.others = 3]

MCSetups == {Editing, Commands, Echoing, Arguments, Paths, Shared}
=============================================================================
