------------------------------- MODULE Shell -------------------------------
(***************************************************************************)
(* The user shell (app/ishell/main.c): its line editor, its commands and   *)
(* the way it splits a line in place, with the terminal it writes to one   *)
(* character per system call.  Another process may write too.              *)
(*                                                                         *)
(* A character is a symbol.  A command word, an option or a message counts *)
(* as one symbol; of the program names one letter is kept.  buf keeps what *)
(* earlier lines left behind the terminator, as in the program.            *)
(*                                                                         *)
(* External, modelled from how the shell uses it: the user, who may type   *)
(* anything, and execve, which finds absolute paths only (vfs.c:53).       *)
(***************************************************************************)
EXTENDS Tty, FiniteSets

CONSTANTS
  MaxArgs,      \* arguments split off by exec, 7 in the program
  Setups        \* the sessions considered, see Setup

SP == " "
QUOTE == "quote"
NUL == "nul"

\* A session.
Setup ==
  [prefix  : Seq(STRING),      \* typed first, letter by letter
   keys    : SUBSET STRING,    \* typed after it, in any order
   strokes : Nat,              \* bound: keys typed after the prefix
   size    : Nat \ {0, 1},     \* of buf, 256 in the program
   files   : SUBSET Seq(STRING),   \* absolute paths of the files on the disk
   others  : Nat,              \* bound: characters the other process writes
   overlap : BOOLEAN]          \* ... also while the shell is in tty_putchar

ASSUME ShellAssumption ==
  /\ Writers = {"shell", "other"}
  /\ MaxArgs \in Nat \ {0}
  /\ Setups \subseteq Setup
  /\ \A s \in Setups : NUL \notin s.keys \cup ToSet(s.prefix)

VARIABLES
  setup,
  buf, idx,
  pc,        \* where the shell is
  out,       \* characters it has still to write before it goes on
  exec,      \* the execve call being prepared or made
  strokes,   \* keys typed so far
  others,    \* characters the other process wrote
  typed,     \* history: keys read since the prompt
  answer     \* history: what the command of this line printed

shell == <<buf, idx, pc, out, exec>>
vars == <<tty, setup, shell, strokes, others, typed, answer>>

-----------------------------------------------------------------------------
(* Strings in buf *)

\* The first position from i on with a character in S; the terminator ends it.
Find(b, i, S) ==
  CHOOSE j \in i .. setup.size - 1 :
    b[j] \in S \cup {NUL} /\ \A k \in i .. j-1 : b[k] \notin S \cup {NUL}

CStr(b, i) == [k \in 1 .. Find(b, i, {}) - i |-> b[i + k - 1]]

None == -1

strchr(b, i, c) == LET j == Find(b, i, {c}) IN IF b[j] = c THEN j ELSE None

SkipSpaces(b, i) ==
  CHOOSE j \in i .. setup.size - 1 : b[j] # SP /\ \A k \in i .. j-1 : b[k] = SP

Cut(b, i) == IF i = None THEN b ELSE [b EXCEPT ![i] = NUL]

-----------------------------------------------------------------------------
(* The commands *)

\* The loop of echo over its text: quoted parts as they are, runs of spaces as
\* one, and one space dropped behind a closing quote.
EchoText(b, start) ==
  LET f[p \in start .. setup.size - 1] ==
        CASE b[p] = NUL -> << >>
          [] b[p] = QUOTE ->
               LET q == Find(b, p + 1, {QUOTE})
                   r == IF b[q] = QUOTE THEN q + 1 ELSE q
               IN [k \in 1 .. q-p-1 |-> b[p + k]]
                    \o f[IF b[r] = SP THEN r + 1 ELSE r]
          [] b[p] = SP -> IF p > start /\ b[p-1] # SP
                          THEN <<SP>> \o f[SkipSpaces(b, p)] ELSE f[p + 1]
          [] OTHER -> <<b[p]>> \o f[p + 1]
  IN f[start]

\* echo: the text after the first word is cut off at its first space, and the
\* cut is undone only when the word before it is -n.
Echo(b, space) ==
  LET next == strchr(b, space + 1, SP)
      dash == next # None /\ CStr(Cut(b, next), space + 1) = <<"-n">>
      From(b2, start) ==
        [buf |-> b2, text |-> IF b2[start] # NUL THEN EchoText(b2, start)
                              ELSE IF dash THEN << >> ELSE <<NL>>]
  IN IF space = None THEN [buf |-> b, text |-> <<NL>>]
     ELSE IF dash THEN From(b, SkipSpaces(b, next + 1))
     ELSE From(Cut(b, next), SkipSpaces(Cut(b, next), space + 1))

\* Mutant: the spaces between two arguments are not skipped.
Split_OneSpace(b, program) ==
  LET f[p \in program .. setup.size - 1, n \in 1..MaxArgs] ==
        IF b[p] = NUL \/ n = MaxArgs THEN [starts |-> << >>, cuts |-> {}]
        ELSE IF b[p] # SP THEN f[p + 1, n]
        ELSE LET rest == f[p + 1, n + 1]
             IN [starts |-> <<p + 1>> \o rest.starts, cuts |-> {p} \cup rest.cuts]
  IN f[program, 1]

\* The loop of exec over its text: where further arguments start, and which
\* spaces are overwritten to end the one before.
Split(b, program) ==
  LET f[p \in program .. setup.size - 1, n \in 1..MaxArgs] ==
        IF b[p] = NUL \/ n = MaxArgs THEN [starts |-> << >>, cuts |-> {}]
        ELSE IF b[p] # SP THEN f[p + 1, n]
        ELSE LET q == SkipSpaces(b, p + 1)
                 Also(rest, starts) == [starts |-> starts \o rest.starts,
                                        cuts |-> {p} \cup rest.cuts]
             IN IF b[q] = NUL THEN Also(f[q, n], << >>) ELSE Also(f[q, n + 1], <<q>>)
  IN f[program, 1]

NoExec == [mode |-> "none", p |-> 0, args |-> << >>]

\* The path handed to execve: the name, or with '/' put before it.
Path == IF exec.mode = "full" THEN <<"/">> \o CStr(buf, exec.p) ELSE CStr(buf, exec.p)

Trying(path) == <<"exec: trying">> \o path \o <<NL>>

-----------------------------------------------------------------------------
Init ==
  /\ tty_init
  /\ setup \in Setups
  /\ buf = [i \in 0 .. setup.size - 1 |-> NUL] /\ idx = 0
  /\ pc = "prompt" /\ out = <<"banner", NL>>
  /\ exec = NoExec
  /\ strokes = 0 /\ others = 0 /\ typed = << >> /\ answer = << >>

\* The write system call for the next character of out.
Write ==
  /\ out # << >>
  /\ PutStart("shell", Head(out))
  /\ out' = Tail(out)
  /\ UNCHANGED <<setup, buf, idx, pc, exec, strokes, others, typed, answer>>

\* The shell is back from its last write.
Ready(l) == pc = l /\ out = << >> /\ At("shell", "done")

Prompt ==
  /\ Ready("prompt")
  /\ idx' = 0 /\ pc' = "read" /\ out' = <<">", SP>>
  /\ exec' = NoExec /\ typed' = << >> /\ answer' = << >>
  /\ UNCHANGED <<tty, setup, buf, strokes, others>>

\* The key the user types next.
NextKeys ==
  IF strokes < Len(setup.prefix) THEN {setup.prefix[strokes + 1]}
  ELSE IF strokes < Len(setup.prefix) + setup.strokes THEN setup.keys ELSE {}

\* Mutant: a backspace is echoed also when the line is empty.
Edit_BackTooFar(c) ==
  CASE c = NL -> pc' = "parse" /\ out' = <<NL>> /\ UNCHANGED <<buf, idx>>
    [] c = BS -> /\ idx' = IF idx > 0 THEN idx - 1 ELSE idx
                 /\ out' = <<BS>>
                 /\ UNCHANGED <<buf, pc>>
    [] OTHER  -> LET room == idx < setup.size - 1
                 IN /\ idx' = IF room THEN idx + 1 ELSE idx
                    /\ buf' = IF room THEN [buf EXCEPT ![idx] = c] ELSE buf
                    /\ out' = IF room THEN <<c>> ELSE << >>
                    /\ UNCHANGED pc

\* What a key does to the line and what is echoed.
Edit(c) ==
  CASE c = NL -> pc' = "parse" /\ out' = <<NL>> /\ UNCHANGED <<buf, idx>>
    [] c = BS -> /\ idx' = IF idx > 0 THEN idx - 1 ELSE idx
                 /\ out' = IF idx > 0 THEN <<BS>> ELSE << >>
                 /\ UNCHANGED <<buf, pc>>
    [] OTHER  -> LET room == idx < setup.size - 1
                 IN /\ idx' = IF room THEN idx + 1 ELSE idx
                    /\ buf' = IF room THEN [buf EXCEPT ![idx] = c] ELSE buf
                    /\ out' = IF room THEN <<c>> ELSE << >>
                    /\ UNCHANGED pc

\* A key arrives in the read system call.
Read == \E c \in NextKeys :
  /\ Ready("read")
  /\ Edit(c)
  /\ strokes' = strokes + 1
  /\ typed' = Append(typed, c)
  /\ UNCHANGED <<tty, setup, exec, others, answer>>

\* Mutant: the line is not terminated.
Parse_NoEnd ==
  /\ Ready("parse")
  /\ pc' = (IF idx = 0 THEN "prompt" ELSE "command")
  /\ UNCHANGED <<tty, setup, buf, idx, out, exec, strokes, others, typed, answer>>

\* Mutant: an empty line does not lead back to the prompt.
Parse_EmptyWaits ==
  /\ Ready("parse") /\ idx # 0
  /\ pc' = "command" /\ buf' = Cut(buf, idx)
  /\ UNCHANGED <<tty, setup, idx, out, exec, strokes, others, typed, answer>>

\* The line is terminated; an empty one is skipped.
Parse ==
  /\ Ready("parse")
  /\ pc' = (IF idx = 0 THEN "prompt" ELSE "command")
  /\ buf' = IF idx = 0 THEN buf ELSE Cut(buf, idx)
  /\ UNCHANGED <<tty, setup, idx, out, exec, strokes, others, typed, answer>>

Prints(text) == out' = text /\ answer' = text

\* help, ls and cat print a text of their own.
Builtin(word, space) ==
  /\ word \in {"help", "ls", "cat"}
  /\ Prints(<<word, NL>>)
  /\ buf' = Cut(buf, space)
  /\ pc' = "prompt"
  /\ UNCHANGED exec

EchoCommand(word, space) ==
  LET Run(e) == Prints(e.text) /\ buf' = e.buf
  IN /\ word = "echo"
     /\ Run(Echo(Cut(buf, space), space))
     /\ pc' = "prompt"
     /\ UNCHANGED exec

\* exit ends the process; the kernel prints a line of its own.
Exit(word) ==
  /\ word = "exit"
  /\ Prints(<<"Bye!", NL, "[exit]", NL>>)
  /\ pc' = "exited"
  /\ UNCHANGED <<buf, exec>>

ExecCommand(word, space) ==
  LET b == Cut(buf, space)
      program == IF space = None THEN None ELSE SkipSpaces(b, space + 1)
      Run(s) ==
        /\ buf' = [i \in DOMAIN b |-> IF i \in s.cuts THEN NUL ELSE b[i]]
        /\ exec' = [mode |-> "name", p |-> program, args |-> <<program>> \o s.starts]
        /\ pc' = "execve"
        /\ out' = Trying(CStr(buf', program))
        /\ UNCHANGED answer
  IN /\ word = "exec"
     /\ IF program = None \/ b[program] = NUL
        THEN Prints(<<"exec: no program", NL>>) /\ pc' = "prompt" /\ buf' = b
             /\ UNCHANGED exec
        ELSE Run(Split(b, program))

\* Any other word is taken for the path of a program.
Other(word, space) ==
  /\ word \notin {"help", "ls", "cat", "echo", "exit", "exec"}
  /\ buf' = Cut(buf, space)
  /\ exec' = [NoExec EXCEPT !.mode = "bare"]
  /\ pc' = "execve"
  /\ UNCHANGED <<out, answer>>

\* The first word, up to a space, chooses; strcmp must match all of it.
Command ==
  LET space == strchr(buf, 0, SP)
      first == CStr(Cut(buf, space), 0)
      word  == IF Len(first) = 1 THEN first[1] ELSE "other"
  IN /\ Ready("command")
     /\ \/ Builtin(word, space) \/ EchoCommand(word, space) \/ Exit(word)
        \/ ExecCommand(word, space) \/ Other(word, space)
     /\ UNCHANGED <<tty, setup, idx, strokes, others, typed>>

\* execve answers 0, -2 (no such file), -12 (no memory) or -1; a file that is
\* there can still be no program.
Answers(path) ==
  IF path \in setup.files THEN {"ok", "Out of memory", "Invalid ELF"} ELSE {"No such file"}

\* A name without '/' in front is tried again with it; then the reason, or for
\* a bare word the whole line, is printed.
Failed(ret) ==
  IF exec.mode = "name" /\ buf[exec.p] # "/"
  THEN /\ exec' = [exec EXCEPT !.mode = "full"]
       /\ out' = Trying(<<"/">> \o CStr(buf, exec.p))
       /\ UNCHANGED <<pc, answer>>
  ELSE /\ Prints(IF exec.mode = "bare"
                 THEN <<"not found">> \o [i \in 1..idx |-> buf[i-1]] \o <<NL>>
                 ELSE <<"exec failed", ret, NL>>)
       /\ pc' = "prompt" /\ UNCHANGED exec

Execve == \E ret \in Answers(Path) :
  /\ Ready("execve")
  /\ IF ret = "ok" THEN pc' = "prompt" /\ UNCHANGED <<out, exec, answer>> ELSE Failed(ret)
  /\ UNCHANGED <<tty, setup, buf, idx, strokes, others, typed>>

\* The other process writes a character.
OtherWrite ==
  /\ others < setup.others /\ (setup.overlap \/ At("shell", "done"))
  /\ PutStart("other", "z")
  /\ others' = others + 1
  /\ UNCHANGED <<setup, shell, strokes, typed, answer>>

\* tty_putchar goes on, in either process.
Putting ==
  /\ \/ (setup.overlap \/ At("other", "done")) /\ Put("shell")
     \/ Put("other")
  /\ UNCHANGED <<setup, shell, strokes, others, typed, answer>>

Serial == UartSent /\ UNCHANGED <<setup, shell, strokes, others, typed, answer>>

ShellStep == Write \/ Prompt \/ Parse \/ Command \/ Execve

Next == ShellStep \/ Read \/ OtherWrite \/ Putting \/ Serial

\* The shell and the writers are scheduled, and the port sends.
Spec ==
  Init /\ [][Next]_vars /\ WF_vars(ShellStep) /\ WF_vars(Putting) /\ WF_vars(Serial)

-----------------------------------------------------------------------------
\* Types: idx leaves room for the terminator, and the cursor is on the screen
\* or, inside tty_putchar, just beyond the end of a row or of the screen.
TypeOK ==
  /\ idx \in 0 .. setup.size - 1 /\ DOMAIN buf = 0 .. setup.size - 1
  /\ pc \in {"prompt", "read", "parse", "command", "execve", "exited"}
  /\ exec.mode \in {"none", "name", "full", "bare"} /\ Len(exec.args) <= MaxArgs
  /\ strokes \in 0 .. Len(setup.prefix) + setup.strokes /\ others \in 0..setup.others
  /\ term_row \in 0..VGA_HEIGHT /\ term_col \in 0..VGA_WIDTH /\ thre \in BOOLEAN
  /\ Quiet => Here \in Cells

\* The line as the user sees it in his mind: every key adds its character while
\* there is room, a backspace takes back the last one.
Keyed(line, c, room) ==
  CASE c = NL -> line
    [] c = BS -> IF line = << >> THEN line ELSE Front(line)
    [] OTHER  -> IF Len(line) < room THEN Append(line, c) ELSE line

\* The line after each number of keys.
Lines(keys, room) ==
  LET after[n \in Nat] == IF n = 0 THEN << >> ELSE Keyed(after[n-1], keys[n], room)
  IN after

Edited(keys) == Lines(keys, setup.size - 1)[Len(keys)]

\* The command parser gets the line that was typed: nothing of a longer line
\* before it, which is still in buf, and nothing that was taken back.
LineIsTyped == pc = "command" => CStr(buf, 0) = Edited(typed)

\* While a line is typed the screen shows, up to the cursor, the prompt and
\* what is in buf: the shell echoes on its own and "relies on the backspace of
\* the VGA driver" (ishell/main.c:100), so the two could drift apart.  They do
\* in the rows above when a backspace meets the start of a row, so that a line
\* with a backspace is compared in the row of the cursor only.
EditedLineShown ==
  LET line == <<">", SP>> \o [i \in 1..idx |-> buf[i-1]]
  IN (Ready("read") /\ Quiet /\ setup.others = 0)
     => \A k \in 0 .. Len(line) - 1 :
          (Here - 1 - k \in Cells /\ (k < term_col \/ BS \notin ToSet(typed)))
            => term_buffer[Here - 1 - k] = line[Len(line) - k]

\* The words of a line.
Words(line) ==
  SelectSeq(FoldLeft(LAMBDA ws, c : IF c = SP THEN Append(ws, << >>)
                                    ELSE Front(ws) \o <<Append(Last(ws), c)>>,
                     << << >> >>, line),
            LAMBDA w : w # << >>)

\* exec hands execve the words of the line, each a string of its own in buf:
\* whatever the spaces, all words up to the limit arrive whole, in order and
\* without spaces; what is over stays with the last one.
ExecGetsWords ==
  (pc = "execve" /\ exec.mode # "bare") =>
    LET words == Tail(Words(Edited(typed)))
        n == IF Len(words) < MaxArgs THEN Len(words) ELSE MaxArgs
    IN /\ Len(exec.args) = n
       /\ \A i \in 1..n : i < MaxArgs => CStr(buf, exec.args[i]) = words[i]

\* exec reports a missing file only when there is no file of that name, with
\* or without '/' ("exec ISHELL tries /ISHELL", README.md:643).
NoSuchFileTrue ==
  answer = <<"exec failed", "No such file", NL>> =>
    LET name == Words(Edited(typed))[2]
    IN setup.files \cap {name, <<"/">> \o name} = {}

Joined(words) == FoldLeft(LAMBDA s, w : IF s = << >> THEN w ELSE s \o <<SP>> \o w,
                          << >>, words)

\* echo -n prints its words with one space between them and no line end, and a
\* quoted text as it is (README.md:634, 641).
EchoQuiet ==
  LET line == Edited(typed)
      text == SubSeq(line, 5, Len(line))
      inner == SubSeq(text, 2, Len(text) - 1)
  IN (pc = "prompt" /\ IsPrefix(<<"echo", SP, "-n", SP>>, line)) =>
       /\ (QUOTE \notin ToSet(text) /\ text # << >> /\ Last(text) # SP)
            => answer = Joined(Words(text))
       /\ (Len(text) > 1 /\ text = <<QUOTE>> \o inner \o <<QUOTE>>
             /\ QUOTE \notin ToSet(inner)) => answer = inner

\* Every line is answered and followed by a prompt, unless it is exit: no
\* command leaves the shell waiting, and tty_putchar ends although it waits
\* for the serial port.
LineAnswered == (pc \notin {"read", "exited"}) ~> (pc \in {"read", "exited"})

-----------------------------------------------------------------------------
(* What the sources say and the code does not keep in every case (README,  *)
(* "Where the code differs").                                              *)

\* echo prints its words and ends the line (README.md:648, "echo hello world").
EchoPrints ==
  LET line == Edited(typed)
  IN (pc = "prompt" /\ typed # << >> /\ IsPrefix(<<"echo", SP>>, line)
       /\ ToSet(line) \cap {QUOTE, "-n"} = {})
     => answer = Append(Joined(Tail(Words(line))), NL)

\* "[cmd] - Run application" (ishell/main.c:133): a word that names a program
\* in the root directory is not reported as unknown.
BareCommandRuns ==
  (answer # << >> /\ answer[1] = "not found") =>
    <<"/">> \o Words(Edited(typed))[1] \notin setup.files
=============================================================================
