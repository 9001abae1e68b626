-------------------------------- MODULE Tty --------------------------------
(***************************************************************************)
(* The text terminal (tty.c) and the serial port it copies to (uart.c).    *)
(* tty_putchar is called with interrupts on and has no lock, so it takes a *)
(* step per store to term_row, term_col and the screen; writers are the    *)
(* contexts that may be inside it.  A character is a symbol: NL, BS or a   *)
(* thing that fills one cell.                                              *)
(***************************************************************************)
EXTENDS Integers, Sequences, SequencesExt

CONSTANTS
  VGA_WIDTH, VGA_HEIGHT,
  Writers

ASSUME TtyAssumption ==
  VGA_WIDTH \in Nat \ {0} /\ VGA_HEIGHT \in Nat \ {0}

VARIABLES
  term_buffer,   \* the cells of the screen, row after row
  term_row, term_col,
  putting,       \* for each writer, the character and where tty_putchar is
  thre,          \* the serial port can take a character (external)
  rows           \* history: the text as rows without a limit, see Shown

tty == <<term_buffer, term_row, term_col, putting, thre, rows>>

NL == "nl"
BS == "bs"
Blank == " "
Cells == 0 .. VGA_WIDTH * VGA_HEIGHT - 1

Done == [pc |-> "done", c |-> Blank]

tty_init ==
  /\ term_buffer = [i \in Cells |-> Blank]
  /\ term_row = 0 /\ term_col = 0
  /\ putting = [w \in Writers |-> Done]
  /\ thre = TRUE
  /\ rows = << << >> >>

-----------------------------------------------------------------------------
\* What a character does to the text: it ends the last row, takes back its
\* last character, or is added to it; a full row is followed by a new one.
Written(text, c) ==
  LET last == Last(text)
      With(row) == [text EXCEPT ![Len(text)] = row]
  IN CASE c = NL -> Append(text, << >>)
       [] c = BS -> IF last = << >> THEN text ELSE With(Front(last))
       [] OTHER  -> IF Len(last) + 1 = VGA_WIDTH
                    THEN Append(With(Append(last, c)), << >>)
                    ELSE With(Append(last, c))

At(w, pc) == putting[w].pc = pc

Goto(w, pc) == putting' = [putting EXCEPT ![w].pc = pc]

\* tty_putchar(c) is entered by w.
PutStart(w, c) ==
  /\ At(w, "done")
  /\ putting' = [putting EXCEPT ![w] = [pc |-> "uart", c |-> c]]
  /\ rows' = Written(rows, c)
  /\ UNCHANGED <<term_buffer, term_row, term_col, thre>>

\* uart_putchar polls until the port is ready and sends.
uart_putchar(w) ==
  /\ At(w, "uart") /\ thre
  /\ thre' = FALSE
  /\ Goto(w, "draw")
  /\ UNCHANGED <<term_buffer, term_row, term_col, rows>>

\* The port has sent the character (external).
UartSent ==
  /\ ~thre /\ thre' = TRUE
  /\ UNCHANGED <<term_buffer, term_row, term_col, putting, rows>>

Here == term_row * VGA_WIDTH + term_col

\* A store beside the screen hits other memory.
Stored(i, c) == IF i \in Cells THEN [term_buffer EXCEPT ![i] = c] ELSE term_buffer

DrawNewline(w) ==
  /\ At(w, "draw") /\ putting[w].c = NL
  /\ term_col' = 0
  /\ Goto(w, "row")
  /\ UNCHANGED <<term_buffer, term_row, thre, rows>>

\* A backspace goes back and blanks, but not over the start of a row.
DrawBackspace(w) ==
  /\ At(w, "draw") /\ putting[w].c = BS
  /\ IF term_col > 0
     THEN /\ term_col' = term_col - 1
          /\ term_buffer' = Stored(Here - 1, Blank)
     ELSE UNCHANGED <<term_col, term_buffer>>
  /\ putting' = [putting EXCEPT ![w] = Done]
  /\ UNCHANGED <<term_row, thre, rows>>

DrawStore(w) ==
  /\ At(w, "draw") /\ putting[w].c \notin {NL, BS}
  /\ term_buffer' = Stored(Here, putting[w].c)
  /\ Goto(w, "advance")
  /\ UNCHANGED <<term_row, term_col, thre, rows>>

DrawAdvance(w) ==
  /\ At(w, "advance")
  /\ term_col' = term_col + 1
  /\ putting' = [putting EXCEPT ![w] = IF term_col + 1 = VGA_WIDTH
                                       THEN [@ EXCEPT !.pc = "wrap"] ELSE Done]
  /\ UNCHANGED <<term_buffer, term_row, thre, rows>>

DrawWrap(w) ==
  /\ At(w, "wrap")
  /\ term_col' = 0
  /\ Goto(w, "row")
  /\ UNCHANGED <<term_buffer, term_row, thre, rows>>

DrawRow(w) ==
  /\ At(w, "row")
  /\ term_row' = term_row + 1
  /\ putting' = [putting EXCEPT ![w] = IF term_row + 1 = VGA_HEIGHT
                                       THEN [@ EXCEPT !.pc = "scroll"] ELSE Done]
  /\ UNCHANGED <<term_buffer, term_col, thre, rows>>

\* Mutant: the last row keeps its old text.
tty_scroll_KeepsLast(w) ==
  /\ At(w, "scroll")
  /\ term_row' = VGA_HEIGHT - 1
  /\ term_buffer' = [i \in Cells |-> term_buffer[IF i + VGA_WIDTH \in Cells
                                                 THEN i + VGA_WIDTH ELSE i]]
  /\ putting' = [putting EXCEPT ![w] = Done]
  /\ UNCHANGED <<term_col, thre, rows>>

tty_scroll(w) ==
  /\ At(w, "scroll")
  /\ term_row' = VGA_HEIGHT - 1
  /\ term_buffer' = [i \in Cells |-> IF i + VGA_WIDTH \in Cells
                                     THEN term_buffer[i + VGA_WIDTH] ELSE Blank]
  /\ putting' = [putting EXCEPT ![w] = Done]
  /\ UNCHANGED <<term_col, thre, rows>>

\* The rest of tty_putchar in w.
Put(w) ==
  \/ uart_putchar(w) \/ DrawNewline(w) \/ DrawBackspace(w) \/ DrawStore(w)
  \/ DrawAdvance(w) \/ DrawWrap(w) \/ DrawRow(w) \/ tty_scroll(w)

-----------------------------------------------------------------------------
Quiet == \A w \in Writers : At(w, "done")

\* The rows above the screen, and those that fit on it: the last ones.
Above(text) == IF Len(text) > VGA_HEIGHT THEN Len(text) - VGA_HEIGHT ELSE 0
Shown(text) == SubSeq(text, 1 + Above(text), Len(text))

CellOf(view, i) ==
  LET y == (i \div VGA_WIDTH) + 1
      x == (i % VGA_WIDTH) + 1
  IN IF y <= Len(view) /\ x <= Len(view[y]) THEN view[y][x] ELSE Blank

\* Between two calls of tty_putchar the screen shows the last rows of all text
\* written since tty_init, wrapped at VGA_WIDTH, with the rest of it blank and
\* the next character going to the end of the text: nothing is lost, repeated
\* or left over by wrapping, scrolling and going back.
ScreenShowsText ==
  Quiet => LET view == Shown(rows)
           IN /\ \A i \in Cells : term_buffer[i] = CellOf(view, i)
              /\ term_row = Len(view) - 1 /\ term_col = Len(Last(view))
=============================================================================
