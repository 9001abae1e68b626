---------------------------- MODULE ShellProofs ----------------------------
(***************************************************************************)
(* Proofs about the shell and the terminal, for every size of the screen   *)
(* and of buf and whatever is typed and written.                           *)
(*                                                                         *)
(* Three invariants.  Screen says for every place inside tty_putchar which *)
(* text the screen shows and what is still to be done to it.  Editor says  *)
(* that the line taken from the keys is in front of idx in buf.  Echoed    *)
(* says that the text ends in the prompt and that line once the characters *)
(* in out are written.                                                     *)
(***************************************************************************)
EXTENDS Shell, WellFoundedInduction, TLAPS

W == VGA_WIDTH
H == VGA_HEIGHT

\* A text of characters of X; the next character goes to its last row.
Rows(X) == {t \in Seq(Seq(X)) : Len(t) > 0 /\ \A i \in 1..Len(t) : Len(t[i]) <= W}
Texts(X) == {t \in Rows(X) : Len(t[Len(t)]) < W}

\* Row y, column x of the screen, when the end of t is shown.
Cell(t, y, x) ==
  LET i == y + 1 + Above(t)
  IN IF i <= Len(t) /\ x < Len(t[i]) THEN t[i][x + 1] ELSE Blank

\* The row of the screen in which t ends.
RowOf(t) == Len(t) - 1 - Above(t)

\* t with another last row.
WithRow(t, row) == [t EXCEPT ![Len(t)] = row]

LEMMA Sizes == W \in Nat /\ W > 0 /\ H \in Nat /\ H > 0
BY TtyAssumption DEF W, H

LEMMA RowsType ==
  ASSUME NEW X, NEW t \in Rows(X)
  PROVE  /\ t \in Seq(Seq(X)) /\ Len(t) \in Nat /\ Len(t) > 0
         /\ \A i \in 1..Len(t) : t[i] \in Seq(X) /\ Len(t[i]) \in Nat /\ Len(t[i]) <= W
         /\ Last(t) = t[Len(t)] /\ t[Len(t)] \in Seq(X) /\ Len(t[Len(t)]) \in Nat
         /\ Len(t[Len(t)]) <= W
         /\ Above(t) \in Nat /\ RowOf(t) \in 0..H-1 /\ RowOf(t) + 1 + Above(t) = Len(t)
<1>1. t \in Seq(Seq(X)) /\ Len(t) \in Nat /\ Len(t) > 0
  BY DEF Rows
<1>2. \A i \in 1..Len(t) : t[i] \in Seq(X) /\ Len(t[i]) \in Nat /\ Len(t[i]) <= W
  BY <1>1 DEF Rows
<1>3. Len(t) \in 1..Len(t)
  BY <1>1
<1>4. Above(t) \in Nat /\ RowOf(t) \in 0..H-1 /\ RowOf(t) + 1 + Above(t) = Len(t)
  BY <1>1, Sizes DEF Above, RowOf, H
<1> QED BY <1>1, <1>2, <1>3, <1>4 DEF Last

\* The texts that a step of tty_putchar makes.
LEMMA WithRowType ==
  ASSUME NEW X, NEW t \in Rows(X), NEW row \in Seq(X), Len(row) <= W
  PROVE  /\ WithRow(t, row) \in Rows(X)
         /\ Len(WithRow(t, row)) = Len(t)
         /\ WithRow(t, row)[Len(t)] = row
         /\ \A i \in 1..Len(t) - 1 : WithRow(t, row)[i] = t[i]
<1> DEFINE r == WithRow(t, row)
<1>1. t \in Seq(Seq(X)) /\ Len(t) \in Nat /\ Len(t) > 0 /\ Len(t) \in 1..Len(t)
  BY RowsType
<1>2. r \in Seq(Seq(X)) /\ Len(r) = Len(t)
  BY <1>1 DEF WithRow
<1>3. r[Len(t)] = row
  BY <1>1 DEF WithRow
<1>4. \A i \in 1..Len(t) - 1 : r[i] = t[i]
  BY <1>1 DEF WithRow
<1>5. \A i \in 1..Len(t) : Len(r[i]) <= W
  <2> SUFFICES ASSUME NEW i \in 1..Len(t) PROVE Len(r[i]) <= W
    OBVIOUS
  <2>1. CASE i = Len(t)
    BY <1>3, <2>1
  <2>2. CASE i # Len(t)
    <3>1. i \in 1..Len(t) - 1 /\ Len(t[i]) <= W
      BY <1>1, <2>2, RowsType
    <3> QED BY <1>4, <3>1
  <2> QED BY <2>1, <2>2
<1>6. r \in Rows(X)
  <2> HIDE DEF r
  <2> QED BY <1>1, <1>2, <1>5 DEF Rows
<1> QED BY <1>2, <1>3, <1>4, <1>6

LEMMA NewRowType ==
  ASSUME NEW X, NEW t \in Rows(X)
  PROVE  /\ Append(t, << >>) \in Texts(X)
         /\ Len(Append(t, << >>)) = Len(t) + 1
         /\ Append(t, << >>)[Len(t) + 1] = << >>
         /\ \A i \in 1..Len(t) : Append(t, << >>)[i] = t[i]
<1> DEFINE r == Append(t, << >>)
<1>1. t \in Seq(Seq(X)) /\ Len(t) \in Nat /\ << >> \in Seq(X) /\ Len(<< >>) = 0
  BY RowsType
<1>2. /\ r \in Seq(Seq(X)) /\ Len(r) = Len(t) + 1 /\ r[Len(t) + 1] = << >>
      /\ \A i \in 1..Len(t) : r[i] = t[i]
  BY <1>1
<1>3. \A i \in 1..Len(t) + 1 : Len(r[i]) <= W
  <2> SUFFICES ASSUME NEW i \in 1..Len(t) + 1 PROVE Len(r[i]) <= W
    OBVIOUS
  <2>1. CASE i = Len(t) + 1
    BY <1>1, <1>2, <2>1, Sizes
  <2>2. CASE i # Len(t) + 1
    <3>1. i \in 1..Len(t)
      BY <1>1, <2>2
    <3> QED BY <1>2, <3>1, RowsType
  <2> QED BY <2>1, <2>2
<1>4. r \in Rows(X)
  <2> HIDE DEF r
  <2> QED BY <1>1, <1>2, <1>3 DEF Rows
<1>5. r \in Texts(X)
  <2> HIDE DEF r
  <2>1. r[Len(r)] = << >>
    BY <1>2
  <2> QED BY <1>1, <1>4, <2>1, Sizes DEF Texts
<1> QED BY <1>2, <1>5

\* A text over fewer characters is one over more.
LEMMA MoreCharacters ==
  ASSUME NEW X, NEW Y, X \subseteq Y
  PROVE  Rows(X) \subseteq Rows(Y) /\ Texts(X) \subseteq Texts(Y)
<1>1. Seq(X) \subseteq Seq(Y)
  OBVIOUS
<1>2. Seq(Seq(X)) \subseteq Seq(Seq(Y))
  BY <1>1
<1> QED BY <1>2 DEF Rows, Texts

\* What a character does to a text.
LEMMA WrittenIs ==
  ASSUME NEW X, NEW t \in Texts(X), NEW c \in X
  PROVE  /\ c = NL => Written(t, c) = Append(t, << >>)
         /\ c = BS /\ Len(t[Len(t)]) = 0 => Written(t, c) = t
         /\ c = BS /\ Len(t[Len(t)]) > 0 =>
              Written(t, c) = WithRow(t, SubSeq(t[Len(t)], 1, Len(t[Len(t)]) - 1))
         /\ c \notin {NL, BS} =>
              Written(t, c) = IF Len(t[Len(t)]) + 1 = W
                              THEN Append(WithRow(t, Append(t[Len(t)], c)), << >>)
                              ELSE WithRow(t, Append(t[Len(t)], c))
<1>1. t \in Rows(X)
  BY DEF Texts
<1>2. Last(t) = t[Len(t)] /\ t[Len(t)] \in Seq(X)
  BY <1>1, RowsType
<1>3. t[Len(t)] = << >> <=> Len(t[Len(t)]) = 0
  BY <1>2
<1>4. Front(t[Len(t)]) = SubSeq(t[Len(t)], 1, Len(t[Len(t)]) - 1)
  BY DEF Front
<1>5. NL # BS
  BY DEF NL, BS
<1>6. Len(t[Len(t)]) \in Nat
  BY <1>2
<1> DEFINE l == t[Len(t)]
<1>7. CASE c = NL
  BY <1>7, <1>5 DEF Written
<1>8. CASE c = BS
  BY <1>8, <1>5, <1>2, <1>3, <1>4, <1>6 DEF Written, WithRow
<1>9. CASE c \notin {NL, BS}
  BY <1>9, <1>2 DEF Written, WithRow, W
<1> QED BY <1>7, <1>8, <1>9, <1>5

LEMMA WrittenType ==
  ASSUME NEW X, NEW t \in Texts(X), NEW c \in X
  PROVE  Written(t, c) \in Texts(X)
<1> DEFINE l == t[Len(t)]
<1>1. /\ t \in Rows(X) /\ l \in Seq(X) /\ Len(l) \in Nat /\ Len(l) < W
      /\ Len(t) \in Nat /\ Len(t) > 0
  BY RowsType DEF Texts
<1>2. CASE c = NL
  <2>1. Written(t, c) = Append(t, << >>)
    BY <1>2, WrittenIs
  <2> QED BY <1>1, <2>1, NewRowType
<1>3. CASE c = BS /\ Len(l) = 0
  BY <1>3, WrittenIs
<1>4. CASE c = BS /\ Len(l) > 0
  <2> DEFINE r == SubSeq(l, 1, Len(l) - 1)
  <2>1. r \in Seq(X) /\ Len(r) = Len(l) - 1
    BY <1>1, <1>4
  <2> HIDE DEF r
  <2>2. WithRow(t, r) \in Rows(X) /\ Len(WithRow(t, r)) = Len(t) /\ WithRow(t, r)[Len(t)] = r
    <3>1. Len(r) <= W
      BY <1>1, <2>1, Sizes
    <3> QED BY <1>1, <2>1, <3>1, WithRowType
  <2>3. Written(t, c) = WithRow(t, r)
    BY <1>4, WrittenIs DEF r
  <2>4. Len(r) < W
    BY <1>1, <2>1, Sizes
  <2> QED BY <2>2, <2>3, <2>4 DEF Texts
<1>5. CASE c \notin {NL, BS}
  <2> DEFINE r == Append(l, c)
  <2>1. r \in Seq(X) /\ Len(r) = Len(l) + 1
    BY <1>1
  <2> HIDE DEF r
  <2>2. WithRow(t, r) \in Rows(X) /\ Len(WithRow(t, r)) = Len(t) /\ WithRow(t, r)[Len(t)] = r
    <3>1. Len(r) <= W
      BY <1>1, <2>1, Sizes
    <3> QED BY <1>1, <2>1, <3>1, WithRowType
  <2>3. CASE Len(l) + 1 = W
    <3>1. Written(t, c) = Append(WithRow(t, r), << >>)
      BY <1>5, <2>3, WrittenIs DEF r
    <3> QED BY <2>2, <3>1, NewRowType
  <2>4. CASE Len(l) + 1 # W
    <3>1. Written(t, c) = WithRow(t, r)
      BY <1>5, <2>4, WrittenIs DEF r
    <3>2. Len(r) < W
      BY <1>1, <2>1, <2>4, Sizes
    <3> QED BY <2>2, <3>1, <3>2 DEF Texts
  <2> QED BY <2>3, <2>4
<1> QED BY <1>2, <1>3, <1>4, <1>5, <1>1

-----------------------------------------------------------------------------
(* Cells of the screen *)

\* Two numbers in the same row and column are the same, row by row.
LEMMA Quotients ==
  ASSUME NEW b \in Nat, b > 0, NEW y1 \in Nat, NEW x1 \in 0..b-1,
         NEW y2 \in Nat, NEW x2 \in 0..b-1, y1 * b + x1 = y2 * b + x2
  PROVE  y1 = y2 /\ x1 = x2
<1>1. ~(y1 < y2)
  <2> SUFFICES ASSUME y1 + 1 <= y2 PROVE FALSE
    OBVIOUS
  <2>1. (y1 + 1) * b <= y2 * b
    OBVIOUS
  <2>2. (y1 + 1) * b = y1 * b + b
    OBVIOUS
  <2>3. y1 * b \in Int /\ y2 * b \in Int
    OBVIOUS
  <2> QED BY <2>1, <2>2, <2>3
<1>2. ~(y2 < y1)
  <2> SUFFICES ASSUME y2 + 1 <= y1 PROVE FALSE
    OBVIOUS
  <2>1. (y2 + 1) * b <= y1 * b
    OBVIOUS
  <2>2. (y2 + 1) * b = y2 * b + b
    OBVIOUS
  <2>3. y1 * b \in Int /\ y2 * b \in Int
    OBVIOUS
  <2> QED BY <2>1, <2>2, <2>3
<1>3. y1 = y2
  BY <1>1, <1>2
<1> QED BY <1>3

LEMMA CellsOf ==
  /\ \A i \in Cells : /\ i \div VGA_WIDTH \in 0..H-1 /\ i % VGA_WIDTH \in 0..W-1
                       /\ i = (i \div VGA_WIDTH) * W + (i % VGA_WIDTH)
  /\ \A y \in 0..H-1, x \in 0..W-1 : y * W + x \in Cells
<1>1. ASSUME NEW i \in Cells
      PROVE  /\ i \div VGA_WIDTH \in 0..H-1 /\ i % VGA_WIDTH \in 0..W-1
             /\ i = (i \div VGA_WIDTH) * W + (i % VGA_WIDTH)
  <2> DEFINE y == i \div VGA_WIDTH
             r == i % VGA_WIDTH
  <2>0. VGA_WIDTH \in Nat /\ VGA_WIDTH > 0 /\ W = VGA_WIDTH /\ VGA_HEIGHT = H
    BY Sizes DEF W, H
  <2>1. i \in Nat /\ i < VGA_WIDTH * VGA_HEIGHT
    BY Sizes DEF Cells, W, H
  <2>2. y \in Int /\ r \in 0 .. VGA_WIDTH - 1 /\ i = VGA_WIDTH * y + r
    BY <2>0, <2>1
  <2> HIDE DEF y, r
  <2>3. y >= 0
    <3> SUFFICES ASSUME y <= -1 PROVE FALSE
      BY <2>2
    <3>1. VGA_WIDTH * y <= VGA_WIDTH * (-1)
      BY <2>0, <2>2
    <3> QED BY <3>1, <2>0, <2>1, <2>2
  <2>4. y < H
    <3> SUFFICES ASSUME y >= H PROVE FALSE
      BY <2>2, Sizes
    <3>1. VGA_WIDTH * y >= VGA_WIDTH * H
      BY <2>0, <2>2, Sizes
    <3>2. VGA_WIDTH * y \in Int /\ VGA_WIDTH * H \in Int
      BY <2>0, <2>2, Sizes
    <3> QED BY <3>1, <3>2, <2>0, <2>1, <2>2
  <2>5. VGA_WIDTH * y = y * W
    BY <2>0, <2>2
  <2>6. y \in 0..H-1 /\ r \in 0..W-1 /\ i = y * W + r
    BY <2>0, <2>2, <2>3, <2>4, <2>5, Sizes
  <2> QED BY <2>6 DEF y, r
<1>2. ASSUME NEW y \in 0..H-1, NEW x \in 0..W-1 PROVE y * W + x \in Cells
  <2>1. y + 1 <= H
    BY Sizes
  <2>2. (y + 1) * W <= H * W
    BY <2>1, Sizes
  <2>3. (y + 1) * W = y * W + W
    BY Sizes
  <2>4. y * W \in Nat /\ H * W \in Nat
    BY Sizes
  <2>5. H * W = VGA_WIDTH * VGA_HEIGHT
    BY Sizes DEF H, W
  <2>6. y * W + x \in 0 .. H * W - 1
    BY <2>2, <2>3, <2>4, Sizes
  <2> QED BY <2>5, <2>6 DEF Cells
<1> QED BY <1>1, <1>2

\* A store to one cell of the screen.
LEMMA OtherCells ==
  ASSUME NEW y1 \in 0..H-1, NEW x1 \in 0..W-1, NEW y2 \in 0..H-1, NEW x2 \in 0..W-1
  PROVE  y1 * W + x1 = y2 * W + x2 <=> y1 = y2 /\ x1 = x2
BY Quotients, Sizes

-----------------------------------------------------------------------------
(* What the screen shows of a text *)

\* An empty row at the end: the screen stays, or scrolls by one row.
LEMMA CellNewRow ==
  ASSUME NEW X, NEW t \in Rows(X), NEW y \in 0..H-1, NEW x \in 0..W-1
  PROVE  /\ Len(t) < H =>
              Cell(Append(t, << >>), y, x) = Cell(t, y, x) /\ RowOf(Append(t, << >>)) = Len(t)
         /\ Len(t) >= H =>
              /\ Cell(Append(t, << >>), y, x) = IF y + 1 \in 0..H-1 THEN Cell(t, y + 1, x)
                                                ELSE Blank
              /\ RowOf(Append(t, << >>)) = H - 1
<1> DEFINE r == Append(t, << >>)
           n == Len(t)
<1>1. n \in Nat /\ n > 0 /\ Above(t) \in Nat /\ Len(<< >>) = 0
  BY RowsType
<1>2. /\ Len(r) = n + 1 /\ r[n + 1] = << >> /\ \A i \in 1..n : r[i] = t[i]
  BY NewRowType
<1> HIDE DEF r
<1>3. CASE n < H
  <2>1. Above(t) = 0 /\ Above(r) = 0
    BY <1>1, <1>2, <1>3, Sizes DEF Above, H
  <2>2. Cell(r, y, x) = Cell(t, y, x)
    <3>1. CASE y + 1 <= n
      <4>1. y + 1 \in 1..n /\ r[y + 1] = t[y + 1]
        BY <1>1, <1>2, <3>1, Sizes
      <4> QED BY <1>1, <1>2, <2>1, <3>1, <4>1, Sizes DEF Cell
    <3>2. CASE ~(y + 1 <= n)
      <4>1. Cell(t, y, x) = Blank
        BY <1>1, <2>1, <3>2, Sizes DEF Cell
      <4>2. y + 1 <= n + 1 => r[y + 1] = << >>
        BY <1>1, <1>2, <3>2, Sizes
      <4>3. Cell(r, y, x) = Blank
        BY <1>1, <1>2, <2>1, <4>2, Sizes DEF Cell
      <4> QED BY <4>1, <4>3
    <3> QED BY <3>1, <3>2
  <2> QED BY <1>1, <1>2, <1>3, <2>1, <2>2, Sizes DEF RowOf, r
<1>4. CASE n >= H
  <2>1. Above(r) = Above(t) + 1 /\ Above(t) = n - H
    BY <1>1, <1>2, <1>4, Sizes DEF Above, H
  <2>2. RowOf(r) = H - 1
    BY <1>1, <1>2, <2>1, Sizes DEF RowOf
  <2>3. CASE y + 1 \in 0..H-1
    <3>1. y + 1 + Above(r) \in 1..n /\ y + 1 + Above(r) = y + 1 + 1 + Above(t)
      BY <1>1, <2>1, <2>3, Sizes
    <3>2. Cell(r, y, x) = Cell(t, y + 1, x)
      BY <1>1, <1>2, <3>1 DEF Cell
    <3> QED BY <1>4, <2>2, <2>3, <3>2, <1>1, Sizes DEF r
  <2>4. CASE y + 1 \notin 0..H-1
    <3>1. y + 1 + Above(r) = n + 1
      BY <1>1, <2>1, <2>4, Sizes
    <3>2. Cell(r, y, x) = Blank
      BY <1>1, <1>2, <3>1 DEF Cell
    <3> QED BY <1>4, <2>2, <2>4, <3>2, <1>1, Sizes DEF r
  <2> QED BY <2>3, <2>4
<1> QED BY <1>1, <1>3, <1>4, Sizes

\* Another last row: the rows above it stay.
LEMMA CellWithRow ==
  ASSUME NEW X, NEW t \in Rows(X), NEW row \in Seq(X), Len(row) <= W,
         NEW y \in 0..H-1, NEW x \in 0..W-1
  PROVE  /\ RowOf(WithRow(t, row)) = RowOf(t)
         /\ y # RowOf(t) => Cell(WithRow(t, row), y, x) = Cell(t, y, x)
         /\ y = RowOf(t) => Cell(WithRow(t, row), y, x) =
                            IF x < Len(row) THEN row[x + 1] ELSE Blank
<1> DEFINE r == WithRow(t, row)
           n == Len(t)
<1>1. /\ n \in Nat /\ n > 0 /\ Above(t) \in Nat /\ RowOf(t) + 1 + Above(t) = n
      /\ RowOf(t) \in 0..H-1
  BY RowsType
<1>2. Len(r) = n /\ r[n] = row /\ \A i \in 1..n-1 : r[i] = t[i]
  BY WithRowType
<1> HIDE DEF r
<1>3. Above(r) = Above(t) /\ RowOf(r) = RowOf(t)
  BY <1>2 DEF Above, RowOf
<1>4. CASE y = RowOf(t)
  <2>1. y + 1 + Above(r) = n
    BY <1>1, <1>3, <1>4
  <2>2. Cell(r, y, x) = IF x < Len(row) THEN row[x + 1] ELSE Blank
    BY <1>1, <1>2, <2>1 DEF Cell
  <2> QED BY <1>3, <1>4, <2>2 DEF r
<1>5. CASE y # RowOf(t)
  <2>1. y + 1 + Above(t) # n /\ y + 1 + Above(t) \in Nat /\ y + 1 + Above(t) >= 1
    BY <1>1, <1>5, Sizes
  <2>2. Cell(r, y, x) = Cell(t, y, x)
    <3> DEFINE i == y + 1 + Above(t)
    <3>1. i <= n => i \in 1..n-1
      BY <1>1, <2>1
    <3>2. i <= n => r[i] = t[i]
      BY <1>2, <3>1
    <3> QED BY <1>2, <1>3, <3>2 DEF Cell
  <2> QED BY <1>3, <1>5, <2>2 DEF r
<1> QED BY <1>4, <1>5

-----------------------------------------------------------------------------
(* tty_putchar, step by step *)

PutPcs == {"done", "uart", "draw", "advance", "wrap", "row", "scroll"}

Putters(X) == [Writers -> [pc : PutPcs, c : X]]

Buffer == term_buffer = [i \in Cells |-> term_buffer[i]]

\* The screen shows the end of t, and the cursor is there.
Drawn(t) == \A y \in 0..H-1, x \in 0..W-1 : term_buffer[y * W + x] = Cell(t, y, x)

Shows(t) == Drawn(t) /\ term_row = RowOf(t) /\ term_col = Len(t[Len(t)])

\* The writer w is making t of a text s: the character of w is still to be
\* drawn, or drawn and not counted, or in need of a new row.
Drawing(w, t, X) ==
  LET c == putting[w].c
  IN \/ /\ putting[w].pc \in {"uart", "draw"}
        /\ \E s \in Texts(X) : t = Written(s, c) /\ Shows(s)
     \/ /\ putting[w].pc = "advance" /\ c \notin {NL, BS}
        /\ \E s \in Texts(X) :
             /\ t = Written(s, c) /\ Drawn(WithRow(s, Append(s[Len(s)], c)))
             /\ term_row = RowOf(s) /\ term_col = Len(s[Len(s)])
     \/ /\ putting[w].pc = "wrap"
        /\ \E s \in Rows(X) :
             t = Append(s, << >>) /\ Drawn(s) /\ term_row = RowOf(s)
     \/ /\ putting[w].pc = "row" /\ term_col = 0
        /\ \E s \in Rows(X) :
             t = Append(s, << >>) /\ Drawn(s) /\ term_row = RowOf(s)
     \/ /\ putting[w].pc = "scroll" /\ term_col = 0
        /\ \E s \in Rows(X) :
             t = Append(s, << >>) /\ Drawn(s) /\ Len(s) >= H

\* What a step of w leaves: t is on the screen, or w goes on to draw it.
Progress(w, t, X) ==
  IF putting[w].pc = "done" THEN Shows(t) ELSE Drawing(w, t, X)

LEMMA PutType ==
  ASSUME NEW X, Blank \in X, NEW w \in Writers, putting \in Putters(X), Buffer, Put(w)
  PROVE  /\ putting' \in Putters(X) /\ Buffer'
         /\ \A v \in Writers : v # w => putting'[v] = putting[v]
         /\ rows' = rows
         /\ putting'[w].pc # "done" => putting'[w].c = putting[w].c
<1>1. putting[w] \in [pc : PutPcs, c : X] /\ Done \in [pc : PutPcs, c : X] /\ Done.pc = "done"
  BY DEF Putters, PutPcs, Done
<1>2. Buffer'
  BY DEF Put, uart_putchar, DrawNewline, DrawBackspace, DrawStore, DrawAdvance, DrawWrap,
     DrawRow, tty_scroll, Buffer, Stored
<1>3. ASSUME NEW at \in PutPcs, putting' = [putting EXCEPT ![w].pc = at]
      PROVE  /\ putting' \in Putters(X)
             /\ \A v \in Writers : v # w => putting'[v] = putting[v]
             /\ putting'[w].c = putting[w].c
  BY <1>1, <1>3 DEF Putters
<1>4. ASSUME putting' = [putting EXCEPT ![w] = Done]
      PROVE  /\ putting' \in Putters(X)
             /\ \A v \in Writers : v # w => putting'[v] = putting[v]
             /\ putting'[w].pc = "done"
  BY <1>1, <1>4 DEF Putters
<1>5. rows' = rows
  BY DEF Put, uart_putchar, DrawNewline, DrawBackspace, DrawStore, DrawAdvance, DrawWrap,
     DrawRow, tty_scroll
<1>6. \/ \E at \in PutPcs : putting' = [putting EXCEPT ![w].pc = at]
      \/ putting' = [putting EXCEPT ![w] = Done]
  <2>1. CASE uart_putchar(w) \/ DrawNewline(w) \/ DrawStore(w) \/ DrawWrap(w)
    BY <2>1 DEF uart_putchar, DrawNewline, DrawStore, DrawWrap, Goto, PutPcs
  <2>2. CASE DrawBackspace(w) \/ tty_scroll(w)
    BY <2>2 DEF DrawBackspace, tty_scroll
  <2>3. CASE DrawAdvance(w)
    <3>1. CASE term_col + 1 = VGA_WIDTH
      <4>1. putting' = [putting EXCEPT ![w] = [putting[w] EXCEPT !.pc = "wrap"]]
        BY <2>3, <3>1 DEF DrawAdvance, Putters
      <4>2. putting' = [putting EXCEPT ![w].pc = "wrap"]
        BY <4>1 DEF Putters
      <4> QED BY <4>2 DEF PutPcs
    <3>2. CASE term_col + 1 # VGA_WIDTH
      BY <2>3, <3>2 DEF DrawAdvance
    <3> QED BY <3>1, <3>2
  <2>4. CASE DrawRow(w)
    <3>1. CASE term_row + 1 = VGA_HEIGHT
      <4>1. putting' = [putting EXCEPT ![w] = [putting[w] EXCEPT !.pc = "scroll"]]
        BY <2>4, <3>1 DEF DrawRow, Putters
      <4>2. putting' = [putting EXCEPT ![w].pc = "scroll"]
        BY <4>1 DEF Putters
      <4> QED BY <4>2 DEF PutPcs
    <3>2. CASE term_row + 1 # VGA_HEIGHT
      BY <2>4, <3>2 DEF DrawRow
    <3> QED BY <3>1, <3>2
  <2> QED BY <2>1, <2>2, <2>3, <2>4 DEF Put
<1> QED BY <1>2, <1>3, <1>4, <1>5, <1>6

LEMMA StoreCell ==
  ASSUME Buffer, NEW y1 \in 0..H-1, NEW x1 \in 0..W-1, NEW c,
         term_buffer' = Stored(y1 * W + x1, c)
  PROVE  \A y \in 0..H-1, x \in 0..W-1 :
           term_buffer'[y * W + x] = IF y = y1 /\ x = x1 THEN c ELSE term_buffer[y * W + x]
<1> SUFFICES ASSUME NEW y \in 0..H-1, NEW x \in 0..W-1
             PROVE  term_buffer'[y * W + x] =
                      IF y = y1 /\ x = x1 THEN c ELSE term_buffer[y * W + x]
  OBVIOUS
<1> DEFINE i == y * W + x
           j == y1 * W + x1
<1>1. i \in Cells /\ j \in Cells
  BY CellsOf
<1>2. i = j <=> y = y1 /\ x = x1
  BY OtherCells
<1> HIDE DEF i, j
<1>3. term_buffer' = [term_buffer EXCEPT ![j] = c]
  BY <1>1 DEF Stored, j
<1>4. term_buffer'[i] = IF i = j THEN c ELSE term_buffer[i]
  BY <1>1, <1>3 DEF Buffer
<1> QED BY <1>2, <1>4 DEF i

\* The last row of a text that is not full.
LEMMA LastRow ==
  ASSUME NEW X, NEW s \in Texts(X)
  PROVE  /\ s \in Rows(X) /\ s[Len(s)] \in Seq(X) /\ Len(s[Len(s)]) \in 0..W-1
         /\ RowOf(s) \in 0..H-1 /\ Len(s) \in Nat /\ Len(s) > 0
         /\ \A x \in 0..W-1 : Cell(s, RowOf(s), x) =
               IF x < Len(s[Len(s)]) THEN s[Len(s)][x + 1] ELSE Blank
<1>1. s \in Rows(X) /\ Len(s[Len(s)]) < W
  BY DEF Texts
<1>2. /\ s[Len(s)] \in Seq(X) /\ Len(s[Len(s)]) \in Nat /\ RowOf(s) \in 0..H-1
      /\ RowOf(s) + 1 + Above(s) = Len(s) /\ Len(s) \in Nat /\ Len(s) > 0
  BY <1>1, RowsType
<1>3. Len(s[Len(s)]) \in 0..W-1
  BY <1>1, <1>2, Sizes
<1>4. \A x \in 0..W-1 : Cell(s, RowOf(s), x) =
               IF x < Len(s[Len(s)]) THEN s[Len(s)][x + 1] ELSE Blank
  BY <1>2 DEF Cell
<1> QED BY <1>1, <1>2, <1>3, <1>4

LEMMA UartStep ==
  ASSUME NEW X, NEW w \in Writers, NEW t \in Texts(X), putting \in Putters(X),
         Drawing(w, t, X), uart_putchar(w)
  PROVE  Progress(w, t, X)'
<1>1. putting'[w].pc = "draw" /\ putting'[w].c = putting[w].c /\ putting[w].pc = "uart"
  BY DEF uart_putchar, Goto, Putters, At
<1>2. PICK s \in Texts(X) : t = Written(s, putting[w].c) /\ Shows(s)
  BY <1>1 DEF Drawing
<1>3. Shows(s)'
  BY <1>2 DEF Shows, Drawn, uart_putchar
<1> QED BY <1>1, <1>2, <1>3 DEF Progress, Drawing

LEMMA NewlineStep ==
  ASSUME NEW X, NEW w \in Writers, NEW t \in Texts(X), putting \in Putters(X),
         Drawing(w, t, X), DrawNewline(w)
  PROVE  Progress(w, t, X)'
<1>1. /\ putting'[w].pc = "row" /\ putting[w].pc = "draw" /\ putting[w].c = NL
      /\ putting[w].c \in X
  BY DEF DrawNewline, Goto, Putters, At
<1>2. PICK s \in Texts(X) : t = Written(s, putting[w].c) /\ Shows(s)
  BY <1>1 DEF Drawing
<1>3. t = Append(s, << >>) /\ s \in Rows(X)
  BY <1>1, <1>2, WrittenIs, LastRow
<1>4. Drawn(s)' /\ term_row' = RowOf(s) /\ term_col' = 0
  BY <1>2 DEF Shows, Drawn, DrawNewline
<1> QED BY <1>1, <1>3, <1>4 DEF Progress, Drawing

LEMMA WrapStep ==
  ASSUME NEW X, NEW w \in Writers, NEW t \in Texts(X), putting \in Putters(X),
         Drawing(w, t, X), DrawWrap(w)
  PROVE  Progress(w, t, X)'
<1>1. putting'[w].pc = "row" /\ putting[w].pc = "wrap"
  BY DEF DrawWrap, Goto, Putters, At
<1>2. PICK s \in Rows(X) : t = Append(s, << >>) /\ Drawn(s) /\ term_row = RowOf(s)
  BY <1>1 DEF Drawing
<1>3. Drawn(s)' /\ term_row' = RowOf(s) /\ term_col' = 0
  BY <1>2 DEF Drawn, DrawWrap
<1> QED BY <1>1, <1>2, <1>3 DEF Progress, Drawing

LEMMA BackspaceStep ==
  ASSUME NEW X, NEW w \in Writers, NEW t \in Texts(X), putting \in Putters(X), Buffer,
         Drawing(w, t, X), DrawBackspace(w)
  PROVE  Progress(w, t, X)'
<1>1. /\ putting'[w].pc = "done" /\ putting[w].pc = "draw" /\ putting[w].c = BS
      /\ putting[w].c \in X
  BY DEF DrawBackspace, Putters, At, Done
<1>2. PICK s \in Texts(X) : t = Written(s, putting[w].c) /\ Shows(s)
  BY <1>1 DEF Drawing
<1> DEFINE l == s[Len(s)]
<1>3. /\ s \in Rows(X) /\ l \in Seq(X) /\ Len(l) \in 0..W-1 /\ RowOf(s) \in 0..H-1
      /\ term_row = RowOf(s) /\ term_col = Len(l) /\ term_row' = term_row
  BY <1>2, LastRow DEF Shows, DrawBackspace
<1>4. CASE Len(l) = 0
  <2>1. t = s
    BY <1>1, <1>2, <1>4, WrittenIs
  <2>2. term_col' = term_col /\ term_buffer' = term_buffer
    BY <1>3, <1>4 DEF DrawBackspace
  <2>3. Shows(s)'
    BY <1>2, <1>3, <2>2 DEF Shows, Drawn
  <2> QED BY <1>1, <2>1, <2>3 DEF Progress
<1>5. CASE Len(l) > 0
  <2> DEFINE r == SubSeq(l, 1, Len(l) - 1)
  <2>1. r \in Seq(X) /\ Len(r) = Len(l) - 1 /\ \A i \in 1..Len(l)-1 : r[i] = l[i]
    BY <1>3, <1>5
  <2>2. t = WithRow(s, r)
    BY <1>1, <1>2, <1>5, WrittenIs
  <2> HIDE DEF r
  <2>3. Len(l) - 1 \in 0..W-1 /\ Len(r) <= W
    BY <1>3, <1>5, <2>1, Sizes
  <2>4. t[Len(t)] = r
    BY <1>3, <2>1, <2>2, <2>3, WithRowType
  <2>5. term_col' = Len(l) - 1 /\ term_buffer' = Stored(RowOf(s) * W + (Len(l) - 1), Blank)
    <3>1. term_col > 0
      BY <1>3, <1>5
    <3>2. term_col' = term_col - 1 /\ term_buffer' = Stored(Here - 1, Blank)
      BY <3>1 DEF DrawBackspace
    <3>3. RowOf(s) * W \in Int
      BY <1>3, Sizes
    <3>4. Here - 1 = RowOf(s) * W + (Len(l) - 1)
      BY <1>3, <3>3 DEF Here, W
    <3> QED BY <1>3, <3>2, <3>4
  <2>6. \A y \in 0..H-1, x \in 0..W-1 : term_buffer'[y * W + x] =
          IF y = RowOf(s) /\ x = Len(l) - 1 THEN Blank ELSE term_buffer[y * W + x]
    BY <1>3, <2>3, <2>5, StoreCell
  <2>7. ASSUME NEW y \in 0..H-1, NEW x \in 0..W-1
        PROVE  term_buffer'[y * W + x] = Cell(t, y, x)
    <3>1. term_buffer[y * W + x] = Cell(s, y, x)
      BY <1>2 DEF Shows, Drawn
    <3>2. CASE y # RowOf(s)
      BY <1>3, <2>1, <2>2, <2>3, <2>6, <3>1, <3>2, CellWithRow
    <3>3. CASE y = RowOf(s)
      <4>1. Cell(t, y, x) = IF x < Len(r) THEN r[x + 1] ELSE Blank
        BY <1>3, <2>1, <2>2, <2>3, <3>3, CellWithRow
      <4>2. Cell(s, y, x) = IF x < Len(l) THEN l[x + 1] ELSE Blank
        BY <3>3, LastRow
      <4>3. x < Len(r) => x + 1 \in 1..Len(l)-1 /\ r[x + 1] = l[x + 1]
        BY <1>3, <2>1, <2>3, Sizes
      <4>4. x < Len(l) <=> x < Len(r) \/ x = Len(l) - 1
        BY <1>3, <2>1, <2>3, Sizes
      <4>5. term_buffer'[y * W + x] = IF x = Len(l) - 1 THEN Blank ELSE Cell(s, y, x)
        BY <2>6, <3>1, <3>3
      <4>6. x = Len(l) - 1 => ~(x < Len(r))
        BY <1>3, <2>1
      <4>7. CASE x = Len(l) - 1
        BY <4>1, <4>5, <4>6, <4>7
      <4>8. CASE x # Len(l) - 1
        BY <4>1, <4>2, <4>3, <4>4, <4>5, <4>8
      <4> QED BY <4>7, <4>8
    <3> QED BY <3>2, <3>3
  <2>8. RowOf(t) = RowOf(s)
    <3>1. 0 \in 0..H-1 /\ 0 \in 0..W-1
      BY Sizes
    <3> QED BY <1>3, <2>1, <2>2, <2>3, <3>1, CellWithRow
  <2>9. Shows(t)'
    BY <1>3, <2>1, <2>4, <2>5, <2>7, <2>8 DEF Shows, Drawn
  <2> QED BY <1>1, <2>9 DEF Progress
<1> QED BY <1>3, <1>4, <1>5

LEMMA StoreStep ==
  ASSUME NEW X, NEW w \in Writers, NEW t \in Texts(X), putting \in Putters(X), Buffer,
         Drawing(w, t, X), DrawStore(w)
  PROVE  Progress(w, t, X)'
<1>0. PICK c \in X : putting[w].c = c
  BY DEF Putters
<1>1. /\ putting'[w].pc = "advance" /\ putting[w].pc = "draw" /\ c \notin {NL, BS}
      /\ c \in X /\ putting'[w].c = c
  BY <1>0 DEF DrawStore, Goto, Putters, At
<1>2. PICK s \in Texts(X) : t = Written(s, c) /\ Shows(s)
  BY <1>0, <1>1 DEF Drawing
<1> DEFINE l == s[Len(s)]
           r == Append(l, c)
<1>3. /\ s \in Rows(X) /\ l \in Seq(X) /\ Len(l) \in 0..W-1 /\ RowOf(s) \in 0..H-1
      /\ term_row = RowOf(s) /\ term_col = Len(l)
      /\ term_row' = term_row /\ term_col' = term_col
  BY <1>2, LastRow DEF Shows, DrawStore
<1>4. r \in Seq(X) /\ Len(r) = Len(l) + 1 /\ r[Len(l) + 1] = c /\ \A i \in 1..Len(l) : r[i] = l[i]
  BY <1>1, <1>3
<1>5. Len(r) <= W
  BY <1>3, <1>4, Sizes
<1> HIDE DEF r
<1>6. term_buffer' = Stored(RowOf(s) * W + Len(l), c)
  BY <1>0, <1>3 DEF DrawStore, Here, W
<1>7. \A y \in 0..H-1, x \in 0..W-1 : term_buffer'[y * W + x] =
        IF y = RowOf(s) /\ x = Len(l) THEN c ELSE term_buffer[y * W + x]
  BY <1>3, <1>6, StoreCell
<1>8. ASSUME NEW y \in 0..H-1, NEW x \in 0..W-1
      PROVE  term_buffer'[y * W + x] = Cell(WithRow(s, r), y, x)
  <2>1. term_buffer[y * W + x] = Cell(s, y, x)
    BY <1>2 DEF Shows, Drawn
  <2>2. CASE y # RowOf(s)
    BY <1>3, <1>4, <1>5, <1>7, <2>1, <2>2, CellWithRow
  <2>3. CASE y = RowOf(s)
    <3>1. Cell(WithRow(s, r), y, x) = IF x < Len(r) THEN r[x + 1] ELSE Blank
      BY <1>3, <1>4, <1>5, <2>3, CellWithRow
    <3>2. Cell(s, y, x) = IF x < Len(l) THEN l[x + 1] ELSE Blank
      BY <2>3, LastRow
    <3>3. term_buffer'[y * W + x] = IF x = Len(l) THEN c ELSE Cell(s, y, x)
      BY <1>7, <2>1, <2>3
    <3>4. x < Len(l) => r[x + 1] = l[x + 1]
      <4>1. x < Len(l) => x + 1 \in 1..Len(l)
        BY <1>3, Sizes
      <4> QED BY <1>4, <4>1
    <3>5. x < Len(r) <=> x < Len(l) \/ x = Len(l)
      BY <1>3, <1>4, Sizes
    <3>6. CASE x = Len(l)
      BY <1>4, <3>1, <3>3, <3>5, <3>6
    <3>7. CASE x # Len(l)
      BY <3>1, <3>2, <3>3, <3>4, <3>5, <3>7
    <3> QED BY <3>6, <3>7
  <2> QED BY <2>2, <2>3
<1>9. Drawn(WithRow(s, r))'
  BY <1>8 DEF Drawn
<1>10. Drawn(WithRow(s, Append(s[Len(s)], putting[w].c)))'
  BY <1>1, <1>9 DEF r
<1> QED BY <1>1, <1>2, <1>3, <1>10 DEF Progress, Drawing

LEMMA AdvanceStep ==
  ASSUME NEW X, NEW w \in Writers, NEW t \in Texts(X), putting \in Putters(X),
         Drawing(w, t, X), DrawAdvance(w)
  PROVE  Progress(w, t, X)'
<1>0. PICK c \in X : putting[w].c = c
  BY DEF Putters
<1>1. putting[w].pc = "advance" /\ c \notin {NL, BS} /\ c \in X
  BY <1>0 DEF DrawAdvance, Putters, At, Drawing
<1>2. PICK s \in Texts(X) :
        /\ t = Written(s, c) /\ Drawn(WithRow(s, Append(s[Len(s)], c)))
        /\ term_row = RowOf(s) /\ term_col = Len(s[Len(s)])
  BY <1>0, <1>1 DEF Drawing
<1> DEFINE l == s[Len(s)]
           r == Append(l, c)
           u == WithRow(s, r)
<1>3. /\ s \in Rows(X) /\ l \in Seq(X) /\ Len(l) \in 0..W-1 /\ RowOf(s) \in 0..H-1
      /\ term_col' = Len(l) + 1 /\ term_row' = RowOf(s)
  BY <1>2, LastRow DEF DrawAdvance
<1>4. r \in Seq(X) /\ Len(r) = Len(l) + 1
  BY <1>1, <1>3
<1>5. Len(r) <= W
  BY <1>3, <1>4, Sizes
<1>6. Drawn(u)'
  BY <1>2 DEF Drawn, DrawAdvance
<1>7. c \notin {NL, BS} => t = IF Len(l) + 1 = W THEN Append(u, << >>) ELSE u
  BY <1>1, <1>2, WrittenIs
<1> HIDE DEF r
<1>8. u \in Rows(X) /\ u[Len(u)] = r
  BY <1>3, <1>4, <1>5, WithRowType
<1>9. RowOf(u) = RowOf(s)
  <2>1. 0 \in 0..H-1 /\ 0 \in 0..W-1
    BY Sizes
  <2> QED BY <1>3, <1>4, <1>5, <2>1, CellWithRow
<1> HIDE DEF u
<1>10. CASE Len(l) + 1 = W
  <2>1. putting'[w].pc = "wrap"
    <3>1. term_col + 1 = VGA_WIDTH
      BY <1>2, <1>10 DEF W
    <3> QED BY <3>1 DEF DrawAdvance, Putters
  <2>2. t = Append(u, << >>)
    BY <1>1, <1>7, <1>10
  <2> QED BY <1>3, <1>6, <1>8, <1>9, <2>1, <2>2 DEF Progress, Drawing
<1>11. CASE Len(l) + 1 # W
  <2>1. putting'[w].pc = "done"
    <3>1. term_col + 1 # VGA_WIDTH
      BY <1>2, <1>11 DEF W
    <3> QED BY <3>1 DEF DrawAdvance, Putters, Done
  <2>2. t = u
    BY <1>1, <1>7, <1>11
  <2>3. Shows(t)'
    BY <1>3, <1>4, <1>6, <1>8, <1>9, <2>2 DEF Shows
  <2> QED BY <2>1, <2>3 DEF Progress
<1> QED BY <1>10, <1>11

LEMMA RowStep ==
  ASSUME NEW X, NEW w \in Writers, NEW t \in Texts(X), putting \in Putters(X),
         Drawing(w, t, X), DrawRow(w)
  PROVE  Progress(w, t, X)'
<1>1. putting[w].pc = "row" /\ term_col = 0
  BY DEF DrawRow, At, Drawing
<1>2. PICK s \in Rows(X) : t = Append(s, << >>) /\ Drawn(s) /\ term_row = RowOf(s)
  BY <1>1 DEF Drawing
<1>3. /\ term_row' = RowOf(s) + 1 /\ term_col' = 0 /\ Drawn(s)' /\ RowOf(s) \in 0..H-1
      /\ Len(s) \in Nat /\ Len(s) > 0
  BY <1>1, <1>2, RowsType DEF DrawRow, Drawn
<1>4. RowOf(s) + 1 = H <=> Len(s) >= H
  BY <1>3, Sizes DEF RowOf, Above, H
<1>5. Len(s) < H => RowOf(s) + 1 = Len(s)
  BY <1>3, Sizes DEF RowOf, Above, H
<1>6. CASE Len(s) >= H
  <2>1. putting'[w].pc = "scroll"
    <3>1. term_row + 1 = VGA_HEIGHT
      BY <1>2, <1>4, <1>6 DEF H
    <3> QED BY <3>1 DEF DrawRow, Putters
  <2> QED BY <1>2, <1>3, <1>6, <2>1 DEF Progress, Drawing
<1>7. CASE Len(s) < H
  <2>1. putting'[w].pc = "done"
    <3>1. term_row + 1 # VGA_HEIGHT
      BY <1>2, <1>3, <1>4, <1>7, Sizes DEF H
    <3> QED BY <3>1 DEF DrawRow, Putters, Done
  <2>2. \A y \in 0..H-1, x \in 0..W-1 : Cell(t, y, x) = Cell(s, y, x)
    BY <1>2, <1>7, CellNewRow
  <2>3. RowOf(t) = Len(s)
    <3>1. 0 \in 0..H-1 /\ 0 \in 0..W-1
      BY Sizes
    <3> QED BY <1>2, <1>7, <3>1, CellNewRow
  <2>4. Len(t[Len(t)]) = 0
    BY <1>2, NewRowType
  <2>5. Shows(t)'
    BY <1>3, <1>5, <1>7, <2>2, <2>3, <2>4 DEF Shows, Drawn
  <2> QED BY <2>1, <2>5 DEF Progress
<1> QED BY <1>3, <1>6, <1>7, Sizes

LEMMA ScrollStep ==
  ASSUME NEW X, NEW w \in Writers, NEW t \in Texts(X), putting \in Putters(X),
         Drawing(w, t, X), tty_scroll(w)
  PROVE  Progress(w, t, X)'
<1>1. putting[w].pc = "scroll" /\ term_col = 0 /\ putting'[w].pc = "done"
  BY DEF tty_scroll, At, Drawing, Putters, Done
<1>2. PICK s \in Rows(X) : t = Append(s, << >>) /\ Drawn(s) /\ Len(s) >= H
  BY <1>1 DEF Drawing
<1>3. term_row' = H - 1 /\ term_col' = 0
  BY <1>1 DEF tty_scroll, H
<1>4. RowOf(t) = H - 1 /\ Len(t[Len(t)]) = 0
  <2>1. 0 \in 0..H-1 /\ 0 \in 0..W-1
    BY Sizes
  <2> QED BY <1>2, <2>1, CellNewRow, NewRowType
<1>5. ASSUME NEW y \in 0..H-1, NEW x \in 0..W-1
      PROVE  term_buffer'[y * W + x] = Cell(t, y, x)
  <2> DEFINE i == y * W + x
             j == (y + 1) * W + x
  <2>1. i \in Cells
    BY CellsOf
  <2>2. i + VGA_WIDTH = j
    BY Sizes DEF W
  <2>3. Cell(t, y, x) = IF y + 1 \in 0..H-1 THEN Cell(s, y + 1, x) ELSE Blank
    BY <1>2, CellNewRow
  <2>4. y + 1 \in 0..H-1 <=> j \in Cells
    <3>1. y + 1 \in 0..H-1 => j \in Cells
      BY CellsOf
    <3>2. y + 1 \notin 0..H-1 => j \notin Cells
      <4> SUFFICES ASSUME y + 1 \notin 0..H-1 PROVE j \notin Cells
        OBVIOUS
      <4>1. y + 1 = H
        BY Sizes
      <4>2. j = W * H + x /\ W * H \in Int
        BY <4>1, Sizes
      <4> QED BY <4>2, Sizes DEF Cells, W, H
    <3> QED BY <3>1, <3>2
  <2> HIDE DEF i, j
  <2>5. term_buffer'[i] = IF j \in Cells THEN term_buffer[j] ELSE Blank
    BY <2>1, <2>2 DEF tty_scroll
  <2>6. y + 1 \in 0..H-1 => term_buffer[j] = Cell(s, y + 1, x)
    BY <1>2 DEF Drawn, j
  <2> QED BY <2>3, <2>4, <2>5, <2>6 DEF i
<1>6. Shows(t)'
  BY <1>3, <1>4, <1>5 DEF Shows, Drawn
<1> QED BY <1>1, <1>6 DEF Progress

\* A step of tty_putchar goes on with the text it is to make, or has made it.
LEMMA PutStep ==
  ASSUME NEW X, NEW w \in Writers, NEW t \in Texts(X), putting \in Putters(X), Buffer,
         Drawing(w, t, X), Put(w)
  PROVE  Progress(w, t, X)'
BY UartStep, NewlineStep, WrapStep, BackspaceStep, StoreStep, AdvanceStep, RowStep,
   ScrollStep DEF Put

-----------------------------------------------------------------------------
(* The screen and its writers *)

\* The writers start one after the other: a second one, the shell, waits with
\* its character until the first is done.
ScreenAt(X) ==
  /\ Blank \in X /\ putting \in Putters(X) /\ rows \in Texts(X) /\ Buffer
  /\ IF putting["other"].pc = "done"
     THEN Progress("shell", rows, X)
     ELSE IF putting["shell"].pc = "done" THEN Drawing("other", rows, X)
     ELSE /\ putting["shell"].pc = "uart"
          /\ \E t \in Texts(X) :
               Drawing("other", t, X) /\ rows = Written(t, putting["shell"].c)

Screen == \E X : ScreenAt(X)

LEMMA TwoWriters ==
  ASSUME NEW X, putting \in Putters(X)
  PROVE  /\ "shell" \in Writers /\ "other" \in Writers /\ Writers = {"shell", "other"}
         /\ \A w \in Writers : putting[w].pc \in PutPcs /\ putting[w].c \in X
BY ShellAssumption DEF Putters

LEMMA DrawingMore ==
  ASSUME NEW X, NEW Y, X \subseteq Y, NEW w, NEW t, Drawing(w, t, X)
  PROVE  Drawing(w, t, Y)
<1>1. Rows(X) \subseteq Rows(Y) /\ Texts(X) \subseteq Texts(Y)
  BY MoreCharacters
<1> QED BY <1>1 DEF Drawing

LEMMA ScreenKept ==
  ASSUME Screen, UNCHANGED <<term_buffer, term_row, term_col, putting, rows>>
  PROVE  Screen'
<1>1. PICK X : ScreenAt(X)
  BY DEF Screen
<1>2. ScreenAt(X)'
  BY <1>1 DEF ScreenAt, Progress, Drawing, Shows, Drawn, Buffer
<1> QED BY <1>2 DEF Screen

LEMMA StartStep ==
  ASSUME Screen, NEW w \in {"shell", "other"}, NEW c, PutStart(w, c),
         w = "other" => putting["shell"].pc = "done"
  PROVE  Screen'
<1>1. PICK X : ScreenAt(X)
  BY DEF Screen
<1> DEFINE Y == X \cup {c}
<1>2. /\ Blank \in Y /\ rows \in Texts(Y) /\ putting \in Putters(Y)
      /\ putting \in Putters(X)
  BY <1>1, MoreCharacters DEF ScreenAt, Putters
<1>3. putting[w].pc = "done" /\ w \in Writers
  BY <1>2, TwoWriters DEF PutStart, At
<1>4. putting' \in Putters(Y) /\ putting'[w].pc = "uart" /\ putting'[w].c = c
  BY <1>2, <1>3 DEF PutStart, Putters, PutPcs
<1>5. \A v \in Writers : v # w => putting'[v] = putting[v]
  BY <1>2, <1>3 DEF PutStart, Putters
<1>6. rows' = Written(rows, c) /\ rows' \in Texts(Y)
  BY <1>2, WrittenType DEF PutStart
<1>7. Buffer'
  BY <1>1 DEF ScreenAt, Buffer, PutStart
<1>8. PICK t \in Texts(Y) : t = rows
  BY <1>2
<1>9. ASSUME Shows(rows) PROVE Drawing(w, rows, Y)'
  <2>1. Shows(t)'
    BY <1>8, <1>9 DEF Shows, Drawn, PutStart
  <2>2. rows' = Written(t, putting'[w].c)
    BY <1>4, <1>6, <1>8
  <2> QED BY <1>4, <2>1, <2>2 DEF Drawing
<1>10. CASE putting["other"].pc = "done" /\ putting["shell"].pc = "done"
  <2>1. Shows(rows)
    BY <1>1, <1>10 DEF ScreenAt, Progress
  <2>2. Drawing(w, rows, Y)'
    BY <1>9, <2>1
  <2>3. CASE w = "shell"
    <3>1. putting'["other"].pc = "done" /\ putting'["shell"].pc = "uart"
      BY <1>2, <1>4, <1>5, <1>10, <2>3, TwoWriters
    <3>2. Progress("shell", rows, Y)'
      BY <2>2, <2>3, <3>1 DEF Progress
    <3> QED BY <1>2, <1>4, <1>6, <1>7, <3>1, <3>2 DEF ScreenAt, Screen
  <2>4. CASE w = "other"
    <3>1. putting'["shell"].pc = "done" /\ putting'["other"].pc = "uart"
      BY <1>2, <1>4, <1>5, <1>10, <2>4, TwoWriters
    <3> QED BY <1>2, <1>4, <1>6, <1>7, <2>2, <2>4, <3>1 DEF ScreenAt, Screen
  <2> QED BY <2>3, <2>4
<1>11. CASE w = "shell" /\ putting["other"].pc # "done"
  <2>1. Drawing("other", rows, X)
    BY <1>1, <1>3, <1>11 DEF ScreenAt
  <2>2. Drawing("other", t, Y)
    BY <2>1, <1>8, DrawingMore
  <2>3. putting'["other"] = putting["other"]
    BY <1>2, <1>5, <1>11, TwoWriters
  <2>4. Drawing("other", t, Y)'
    BY <2>2, <2>3 DEF Drawing, Shows, Drawn, PutStart
  <2>5. rows' = Written(t, putting'["shell"].c) /\ putting'["shell"].pc = "uart"
    BY <1>4, <1>6, <1>8, <1>11
  <2> QED BY <1>2, <1>4, <1>6, <1>7, <1>11, <2>3, <2>4, <2>5 DEF ScreenAt, Screen
<1> QED BY <1>3, <1>10, <1>11

\* One writer goes on, the other waits or is outside.
LEMMA PuttingStep ==
  ASSUME Screen, NEW w \in {"shell", "other"}, Put(w),
         w = "shell" => putting["other"].pc = "done"
  PROVE  Screen'
<1>1. PICK X : ScreenAt(X)
  BY DEF Screen
<1>2. /\ Blank \in X /\ putting \in Putters(X) /\ rows \in Texts(X) /\ Buffer /\ w \in Writers
  BY <1>1, TwoWriters DEF ScreenAt
<1>3. putting[w].pc # "done"
  BY DEF Put, uart_putchar, DrawNewline, DrawBackspace, DrawStore, DrawAdvance, DrawWrap,
     DrawRow, tty_scroll, At
<1>4. /\ putting' \in Putters(X) /\ Buffer' /\ rows' = rows
      /\ \A v \in Writers : v # w => putting'[v] = putting[v]
  BY <1>2, PutType
<1>5. PICK t \in Texts(X) : t = rows
  BY <1>2
<1>6. CASE w = "shell"
  <2>1. Drawing("shell", t, X)
    BY <1>1, <1>3, <1>5, <1>6 DEF ScreenAt, Progress
  <2>2. Progress("shell", t, X)'
    BY <1>2, <1>6, <2>1, PutStep
  <2>3. Progress("shell", rows, X)'
    BY <1>4, <1>5, <2>2 DEF Progress, Drawing, Shows, Drawn
  <2>4. putting'["other"].pc = "done"
    BY <1>2, <1>4, <1>6, TwoWriters
  <2> QED BY <1>2, <1>4, <2>3, <2>4 DEF ScreenAt, Screen
<1>7. CASE w = "other" /\ putting["shell"].pc = "done"
  <2>1. Drawing("other", t, X)
    BY <1>1, <1>3, <1>5, <1>7 DEF ScreenAt
  <2>2. Progress("other", t, X)'
    BY <1>2, <1>7, <2>1, PutStep
  <2>3. Progress("other", rows, X)'
    BY <1>4, <1>5, <2>2 DEF Progress, Drawing, Shows, Drawn
  <2>4. putting'["shell"].pc = "done"
    BY <1>2, <1>4, <1>7, TwoWriters
  <2> QED BY <1>2, <1>4, <2>3, <2>4 DEF ScreenAt, Screen, Progress
<1>8. CASE w = "other" /\ putting["shell"].pc # "done"
  <2>1. PICK u \in Texts(X) : Drawing("other", u, X) /\ t = Written(u, putting["shell"].c)
    BY <1>1, <1>3, <1>5, <1>8 DEF ScreenAt
  <2>2. putting'["shell"] = putting["shell"] /\ putting["shell"].pc = "uart"
    BY <1>1, <1>2, <1>3, <1>4, <1>8, TwoWriters DEF ScreenAt
  <2>3. Progress("other", u, X)'
    BY <1>2, <1>8, <2>1, PutStep
  <2>4. rows' = Written(u, putting'["shell"].c)
    BY <1>4, <1>5, <2>1, <2>2
  <2>5. CASE putting'["other"].pc = "done"
    <3>1. Shows(u)'
      BY <2>3, <2>5 DEF Progress
    <3>2. Drawing("shell", rows, X)'
      BY <2>2, <2>4, <3>1 DEF Drawing
    <3> QED BY <1>2, <1>4, <2>2, <2>5, <3>2 DEF ScreenAt, Screen, Progress
  <2>6. CASE putting'["other"].pc # "done"
    <3>1. Drawing("other", u, X)'
      BY <2>3, <2>6 DEF Progress
    <3> QED BY <1>2, <1>4, <2>2, <2>4, <2>6, <3>1 DEF ScreenAt, Screen
  <2> QED BY <2>5, <2>6
<1> QED BY <1>6, <1>7, <1>8

LEMMA ScreenInit == tty_init => Screen
<1> SUFFICES ASSUME tty_init PROVE Screen
  OBVIOUS
<1> DEFINE t == << << >> >>
<1>1. t \in Texts({Blank}) /\ Len(t) = 1 /\ Len(t[1]) = 0
  BY Sizes DEF Texts, Rows
<1>2. putting \in Putters({Blank}) /\ putting["shell"].pc = "done" /\ putting["other"].pc = "done"
  BY ShellAssumption DEF tty_init, Putters, Done, PutPcs
<1>3. Buffer /\ rows = t /\ term_row = 0 /\ term_col = 0
  BY DEF tty_init, Buffer
<1>4. Above(t) = 0 /\ RowOf(t) = 0
  BY <1>1, Sizes DEF Above, RowOf, H
<1> HIDE DEF t
<1>5. ASSUME NEW y \in 0..H-1, NEW x \in 0..W-1 PROVE term_buffer[y * W + x] = Cell(t, y, x)
  <2>1. term_buffer[y * W + x] = Blank
    BY CellsOf DEF tty_init
  <2>2. Cell(t, y, x) = Blank
    BY <1>1, <1>4, Sizes DEF Cell
  <2> QED BY <2>1, <2>2
<1>6. Shows(rows)
  BY <1>1, <1>3, <1>4, <1>5 DEF Shows, Drawn
<1> QED BY <1>1, <1>2, <1>3, <1>6 DEF Screen, ScreenAt, Progress

\* The rows on the screen are the last rows of the text.
LEMMA ShownIs ==
  ASSUME NEW X, NEW t \in Rows(X)
  PROVE  /\ Len(Shown(t)) = RowOf(t) + 1 /\ Last(Shown(t)) = t[Len(t)]
         /\ \A i \in Cells : CellOf(Shown(t), i) = Cell(t, i \div VGA_WIDTH, i % VGA_WIDTH)
<1> DEFINE v == Shown(t)
           a == Above(t)
<1>1. /\ t \in Seq(Seq(X)) /\ Len(t) \in Nat /\ a \in Nat /\ RowOf(t) \in 0..H-1
      /\ RowOf(t) + 1 + a = Len(t)
  BY RowsType
<1> HIDE DEF a
<1>2. v = SubSeq(t, 1 + a, Len(t))
  BY DEF Shown, a
<1>3. 1 + a \in Nat /\ 1 + a <= Len(t) /\ 1 + a >= 1
  BY <1>1
<1>4. Len(v) = Len(t) - a /\ \A j \in 1..Len(t) - a : v[j] = t[j + a]
  BY <1>1, <1>2, <1>3
<1> HIDE DEF v
<1>5. Len(v) = RowOf(t) + 1
  BY <1>1, <1>4
<1>6. Last(v) = t[Len(t)]
  <2>1. Len(v) \in 1..Len(t) - a /\ Len(v) + a = Len(t)
    BY <1>1, <1>4, <1>5
  <2> QED BY <1>4, <2>1 DEF Last
<1>7. ASSUME NEW i \in Cells PROVE CellOf(v, i) = Cell(t, i \div VGA_WIDTH, i % VGA_WIDTH)
  <2> DEFINE y == i \div VGA_WIDTH
             x == i % VGA_WIDTH
  <2>1. y \in 0..H-1 /\ x \in 0..W-1
    BY CellsOf
  <2>2. CellOf(v, i) = IF y + 1 <= Len(v) /\ x + 1 <= Len(v[y + 1]) THEN v[y + 1][x + 1] ELSE Blank
    BY DEF CellOf
  <2> HIDE DEF y, x
  <2>3. CASE y + 1 <= Len(v)
    <3>1. y + 1 \in 1..Len(t) - a /\ y + 1 + a <= Len(t) /\ y + 1 + a \in 1..Len(t)
      BY <1>1, <1>4, <2>1, <2>3, Sizes
    <3>2. v[y + 1] = t[y + 1 + a]
      BY <1>4, <3>1
    <3>3. Len(t[y + 1 + a]) \in Nat
      BY <3>1, RowsType
    <3>4. x + 1 <= Len(t[y + 1 + a]) <=> x < Len(t[y + 1 + a])
      BY <2>1, <3>3, Sizes
    <3>5. CellOf(v, i) = Cell(t, y, x)
      BY <2>2, <2>3, <3>1, <3>2, <3>4 DEF Cell, a
    <3> QED BY <3>5 DEF y, x
  <2>4. CASE ~(y + 1 <= Len(v))
    <3>1. ~(y + 1 + a <= Len(t))
      BY <1>1, <1>4, <2>1, <2>4, Sizes
    <3>2. CellOf(v, i) = Cell(t, y, x)
      BY <2>2, <2>4, <3>1 DEF Cell, a
    <3> QED BY <3>2 DEF y, x
  <2> QED BY <2>3, <2>4
<1> QED BY <1>5, <1>6, <1>7 DEF v

LEMMA ScreenIsText == Screen => ScreenShowsText
<1> SUFFICES ASSUME Screen, Quiet PROVE ScreenShowsText
  BY DEF ScreenShowsText
<1>1. PICK X : ScreenAt(X)
  BY DEF Screen
<1>2. putting["shell"].pc = "done" /\ putting["other"].pc = "done"
  BY ShellAssumption DEF Quiet, At
<1>3. Shows(rows) /\ rows \in Rows(X)
  BY <1>1, <1>2 DEF ScreenAt, Progress, Texts
<1>4. ASSUME NEW i \in Cells PROVE term_buffer[i] = CellOf(Shown(rows), i)
  <2>1. /\ i \div VGA_WIDTH \in 0..H-1 /\ i % VGA_WIDTH \in 0..W-1
        /\ i = (i \div VGA_WIDTH) * W + (i % VGA_WIDTH)
    BY CellsOf
  <2>2. term_buffer[i] = Cell(rows, i \div VGA_WIDTH, i % VGA_WIDTH)
    BY <1>3, <2>1 DEF Shows, Drawn
  <2> QED BY <1>3, <2>2, ShownIs
<1>5. term_row = Len(Shown(rows)) - 1 /\ term_col = Len(Last(Shown(rows)))
  <2>1. Len(Shown(rows)) = RowOf(rows) + 1 /\ Last(Shown(rows)) = rows[Len(rows)]
        /\ RowOf(rows) \in 0..H-1
    BY <1>3, ShownIs, RowsType
  <2> QED BY <1>3, <2>1, Sizes DEF Shows
<1> QED BY <1>4, <1>5 DEF ScreenShowsText

-----------------------------------------------------------------------------
(* The line that is typed *)

\* A set of numbers that is not empty has a least one.
LEMMA LeastNumber ==
  ASSUME NEW T, T \subseteq Nat, T # {}
  PROVE  \E x \in T : \A y \in T : x <= y
<1> DEFINE R == OpToRel(<, Nat)
<1>1. IsWellFoundedOn(R, Nat)
  BY NatLessThanWellFounded
<1>2. \A x, y \in Nat : y < x => <<y, x>> \in R
  BY DEF OpToRel
<1> HIDE DEF R
<1>3. PICK x \in T : \A y \in T : <<y, x>> \notin R
  BY <1>1, WFMin
<1>4. ASSUME NEW y \in T PROVE x <= y
  <2>1. x \in Nat /\ y \in Nat
    OBVIOUS
  <2>2. ~(y < x)
    BY <1>2, <1>3, <2>1
  <2> QED BY <2>1, <2>2
<1> QED BY <1>4

\* The lines after the first keys exist, and only one way, so that Lines is
\* what its definition says.
LEMMA LinesAre ==
  ASSUME NEW keys, NEW room
  PROVE  /\ Lines(keys, room)[0] = << >>
         /\ \A n \in Nat : n # 0 =>
              Lines(keys, room)[n] = Keyed(Lines(keys, room)[n-1], keys[n], room)
<1> DEFINE F(v, i) == Keyed(v, keys[i], room)
           Part(n, h) == /\ h = [i \in 0 .. n |-> h[i]]
                         /\ h[0] = << >>
                         /\ \A i \in 1 .. n : h[i] = F(h[i-1], i)
           Rec(w) == [n \in Nat |-> IF n = 0 THEN << >> ELSE F(w[n-1], n)]
<1>1. Lines(keys, room) = CHOOSE h : h = Rec(h)
  BY DEF Lines
<1> HIDE DEF F
<1>3. \A n \in Nat : \E h : Part(n, h)
  <2> DEFINE Bad == {n \in Nat : ~ \E h : Part(n, h)}
  <2> SUFFICES ASSUME Bad # {} PROVE FALSE
    OBVIOUS
  <2>1. PICK n \in Bad : \A m \in Bad : n <= m
    <3>1. Bad \subseteq Nat
      OBVIOUS
    <3> HIDE DEF Bad
    <3> QED BY <3>1, LeastNumber
  <2>2. CASE n = 0
    <3>1. Part(0, [i \in 0 .. 0 |-> << >>])
      OBVIOUS
    <3> QED BY <2>1, <2>2, <3>1
  <2>3. CASE n # 0
    <3>1. n \in Nat /\ n - 1 \in Nat /\ n - 1 \notin Bad
      <4>1. Bad \subseteq Nat
        OBVIOUS
      <4> HIDE DEF Bad
      <4>2. n \in Nat /\ n - 1 \in Nat
        BY <2>1, <2>3, <4>1
      <4> QED BY <2>1, <4>2
    <3>2. PICK h : Part(n - 1, h)
      BY <3>1
    <3> DEFINE g == [i \in 0 .. n |-> IF i = n THEN F(h[n-1], n) ELSE h[i]]
    <3>3. g = [i \in 0 .. n |-> g[i]]
      OBVIOUS
    <3>4. g[0] = << >>
      BY <2>3, <3>1, <3>2
    <3>5. ASSUME NEW i \in 1 .. n PROVE g[i] = F(g[i-1], i)
      <4>1. i - 1 \in 0 .. n - 1 /\ g[i-1] = h[i-1]
        BY <3>1
      <4>2. CASE i = n
        BY <3>1, <4>1, <4>2
      <4>3. CASE i # n
        <5>1. i \in 1 .. n - 1 /\ g[i] = h[i]
          BY <3>1, <4>3
        <5> QED BY <5>1, <4>1, <3>2
      <4> QED BY <4>2, <4>3
    <3>6. Part(n, g)
      BY <3>3, <3>4, <3>5
    <3> QED BY <2>1, <3>6
  <2> QED BY <2>2, <2>3
<1>4. ASSUME NEW m \in Nat, NEW n \in Nat, NEW g, NEW h, Part(m, g), Part(n, h)
      PROVE  \A i \in Nat : i <= m /\ i <= n => g[i] = h[i]
  <2> DEFINE Bad == {i \in Nat : i <= m /\ i <= n /\ g[i] # h[i]}
  <2> SUFFICES ASSUME Bad # {} PROVE FALSE
    OBVIOUS
  <2>1. PICK i \in Bad : \A j \in Bad : i <= j
    <3>1. Bad \subseteq Nat
      OBVIOUS
    <3> HIDE DEF Bad
    <3> QED BY <3>1, LeastNumber
  <2>2. i \in Nat /\ i <= m /\ i <= n /\ g[i] # h[i]
    BY <2>1
  <2>3. i # 0
    BY <1>4, <2>2
  <2>4. i - 1 \in Nat /\ i - 1 \notin Bad /\ i \in 1 .. m /\ i \in 1 .. n
    BY <2>1, <2>2, <2>3
  <2>5. g[i-1] = h[i-1]
    BY <2>2, <2>4
  <2> QED BY <1>4, <2>2, <2>4, <2>5
<1> DEFINE P(n) == CHOOSE h : Part(n, h)
           w0 == [n \in Nat |-> P(n)[n]]
<1>5. \A n \in Nat : Part(n, P(n))
  <2> SUFFICES ASSUME NEW n \in Nat PROVE Part(n, P(n))
    OBVIOUS
  <2>1. \E h : Part(n, h)
    BY <1>3
  <2> HIDE DEF Part
  <2> QED BY <2>1
<1>6. w0 = Rec(w0)
  <2> SUFFICES ASSUME NEW n \in Nat PROVE w0[n] = Rec(w0)[n]
    OBVIOUS
  <2>1. Part(n, P(n))
    BY <1>5
  <2>2. CASE n = 0
    <3>1. P(n)[0] = << >>
      BY <2>1
    <3> HIDE DEF P
    <3> QED BY <2>2, <3>1
  <2>3. CASE n # 0
    <3>1. n - 1 \in Nat /\ n - 1 <= n /\ n - 1 <= n - 1 /\ n \in 1 .. n
      BY <2>3
    <3>2. Part(n - 1, P(n-1))
      BY <1>5, <3>1
    <3>3. P(n)[n-1] = P(n-1)[n-1]
      <4> HIDE DEF P, Part
      <4>1. \A i \in Nat : i <= n /\ i <= n - 1 => P(n)[i] = P(n-1)[i]
        BY <1>4, <2>1, <3>1, <3>2
      <4> QED BY <4>1, <3>1
    <3>4. P(n)[n] = F(P(n)[n-1], n)
      <4> HIDE DEF P
      <4> QED BY <2>1, <3>1
    <3> HIDE DEF P
    <3> QED BY <2>3, <3>1, <3>3, <3>4
  <2> QED BY <2>2, <2>3
<1> DEFINE L == Lines(keys, room)
<1>7. L = Rec(L)
  <2> HIDE DEF w0, Rec
  <2> QED BY <1>1, <1>6
<1> HIDE DEF L
<1>8. L[0] = << >>
  BY <1>7
<1>9. \A n \in Nat : n # 0 => L[n] = F(L[n-1], n)
  BY <1>7
<1> QED BY <1>8, <1>9 DEF L, F

\* One more key.
LEMMA OneMoreKey ==
  ASSUME NEW S, NEW keys \in Seq(S), NEW c \in S, NEW room
  PROVE  Lines(Append(keys, c), room)[Len(keys) + 1] =
           Keyed(Lines(keys, room)[Len(keys)], c, room)
<1> DEFINE k2 == Append(keys, c)
           n == Len(keys)
           L == Lines(keys, room)
           L2 == Lines(k2, room)
<1>1. n \in Nat /\ k2[n + 1] = c /\ \A i \in 1..n : k2[i] = keys[i]
  OBVIOUS
<1>2. L[0] = << >> /\ \A i \in Nat : i # 0 => L[i] = Keyed(L[i-1], keys[i], room)
  BY LinesAre
<1>3. L2[0] = << >> /\ \A i \in Nat : i # 0 => L2[i] = Keyed(L2[i-1], k2[i], room)
  BY LinesAre
<1> HIDE DEF L, L2, k2
<1>4. \A i \in Nat : i <= n => L[i] = L2[i]
  <2> DEFINE Bad == {i \in Nat : i <= n /\ L[i] # L2[i]}
  <2> SUFFICES ASSUME Bad # {} PROVE FALSE
    OBVIOUS
  <2>1. PICK i \in Bad : \A j \in Bad : i <= j
    <3>1. Bad \subseteq Nat
      OBVIOUS
    <3> HIDE DEF Bad
    <3> QED BY <3>1, LeastNumber
  <2>2. i \in Nat /\ i <= n /\ L[i] # L2[i]
    BY <2>1
  <2>3. i # 0
    BY <1>2, <1>3, <2>2
  <2>4. i - 1 \in Nat /\ i - 1 \notin Bad /\ i \in 1 .. n
    BY <1>1, <2>1, <2>2, <2>3
  <2>5. L[i-1] = L2[i-1] /\ keys[i] = k2[i]
    BY <1>1, <2>2, <2>4
  <2> QED BY <1>2, <1>3, <2>2, <2>3, <2>5
<1>5. n + 1 \in Nat /\ n + 1 # 0 /\ n + 1 - 1 = n
  BY <1>1
<1>6. L2[n + 1] = Keyed(L2[n], k2[n + 1], room)
  BY <1>3, <1>5
<1>7. L[n] = L2[n]
  BY <1>1, <1>4
<1> QED BY <1>1, <1>6, <1>7 DEF L, L2, k2

-----------------------------------------------------------------------------
(* The line editor *)

\* The first n characters of buf.
FirstOf(b, n) == [i \in 1..n |-> b[i-1]]

\* b is an array of the positions up to m.
IsBuf(b, m) == b = [i \in 0..m |-> b[i]]

LEMMA FirstType ==
  ASSUME NEW S, NEW n \in Nat, NEW b, \A i \in 0..n-1 : b[i] \in S
  PROVE  /\ FirstOf(b, n) \in Seq(S) /\ Len(FirstOf(b, n)) = n
         /\ \A i \in 1..n : FirstOf(b, n)[i] = b[i-1]
<1> DEFINE L == FirstOf(b, n)
<1>1. \A i \in 1..n : b[i-1] \in S
  <2> SUFFICES ASSUME NEW i \in 1..n PROVE b[i-1] \in S
    OBVIOUS
  <2>1. i - 1 \in 0..n-1
    OBVIOUS
  <2> QED BY <2>1
<1>2. L \in [1..n -> S] /\ DOMAIN L = 1..n /\ \A i \in 1..n : L[i] = b[i-1]
  BY <1>1 DEF FirstOf
<1>3. L \in Seq(S)
  BY <1>2
<1>4. Len(L) = n
  BY <1>2, <1>3
<1> QED BY <1>2, <1>3, <1>4

\* A key and the line: what is kept in buf is what Keyed says.
LEMMA KeyEnd ==
  ASSUME NEW line, NEW room PROVE Keyed(line, NL, room) = line
BY DEF Keyed, NL, BS

LEMMA KeyBack ==
  ASSUME NEW S, NEW n \in Nat, NEW b, \A i \in 0..n-1 : b[i] \in S, NEW room
  PROVE  Keyed(FirstOf(b, n), BS, room) = FirstOf(b, IF n > 0 THEN n - 1 ELSE n)
<1> DEFINE L == FirstOf(b, n)
<1>1. L \in Seq(S) /\ Len(L) = n /\ \A i \in 1..n : L[i] = b[i-1]
  BY FirstType
<1>2. NL # BS
  BY DEF NL, BS
<1> HIDE DEF L
<1>3. ASSUME n > 0 PROVE Keyed(L, BS, room) = FirstOf(b, n - 1)
  <2>1. L # << >>
    BY <1>1, <1>3
  <2>2. Keyed(L, BS, room) = SubSeq(L, 1, n - 1)
    BY <1>1, <1>2, <2>1 DEF Keyed, Front
  <2>3. SubSeq(L, 1, n - 1) = [i \in 1..n-1 |-> L[i]]
    BY <1>1, <1>3
  <2>4. \A i \in 1..n-1 : L[i] = b[i-1]
    BY <1>1
  <2> QED BY <2>2, <2>3, <2>4 DEF FirstOf
<1>4. ASSUME n = 0 PROVE Keyed(L, BS, room) = L
  <2>1. L = << >>
    BY <1>1, <1>4
  <2> QED BY <1>2, <2>1 DEF Keyed
<1> QED BY <1>3, <1>4 DEF L

LEMMA AppendIs ==
  ASSUME NEW S, NEW s \in Seq(S), NEW c \in S
  PROVE  /\ Append(s, c) \in Seq(S) /\ Len(Append(s, c)) = Len(s) + 1
         /\ Append(s, c)[Len(s) + 1] = c /\ \A i \in 1..Len(s) : Append(s, c)[i] = s[i]
OBVIOUS

LEMMA KeyAdds ==
  ASSUME NEW S, NEW n \in Nat, NEW b, \A i \in 0..n-1 : b[i] \in S,
         NEW c \in S, c \notin {NL, BS}, NEW room \in Nat,
         n < room, NEW b2, \A i \in 0..n : b2[i] = IF i = n THEN c ELSE b[i]
  PROVE  Keyed(FirstOf(b, n), c, room) = FirstOf(b2, n + 1)
<1> DEFINE L == FirstOf(b, n)
           A == Append(L, c)
<1>1. L \in Seq(S) /\ Len(L) = n /\ \A i \in 1..n : L[i] = b[i-1]
  BY FirstType
<1> HIDE DEF L
<1>2. Keyed(L, c, room) = A
  BY <1>1 DEF Keyed
<1>3. A \in Seq(S) /\ Len(A) = n + 1 /\ A[n + 1] = c /\ \A i \in 1..n : A[i] = L[i]
  BY <1>1, AppendIs
<1> HIDE DEF A
<1>4. A = [i \in 1..n+1 |-> A[i]]
  BY <1>3
<1>5. ASSUME NEW i \in 1..n+1 PROVE A[i] = b2[i-1]
  <2>1. CASE i = n + 1
    <3>1. i - 1 = n /\ n \in 0..n
      BY <2>1
    <3> QED BY <1>3, <2>1, <3>1
  <2>2. CASE i # n + 1
    <3>1. i \in 1..n /\ i - 1 \in 0..n /\ i - 1 # n
      BY <2>2
    <3> QED BY <1>1, <1>3, <3>1
  <2> QED BY <2>1, <2>2
<1>6. A = FirstOf(b2, n + 1)
  BY <1>4, <1>5 DEF FirstOf
<1> QED BY <1>2, <1>6 DEF L

LEMMA KeyFull ==
  ASSUME NEW S, NEW n \in Nat, NEW b, \A i \in 0..n-1 : b[i] \in S,
         NEW c \in S, c \notin {NL, BS}
  PROVE  Keyed(FirstOf(b, n), c, n) = FirstOf(b, n)
<1> DEFINE L == FirstOf(b, n)
<1>1. Len(L) = n
  BY FirstType
<1> HIDE DEF L
<1>2. Keyed(L, c, n) = L
  BY <1>1 DEF Keyed
<1> QED BY <1>2 DEF L

EditorType ==
  /\ setup \in Setups
  /\ idx \in 0 .. setup.size - 1
  /\ buf = [i \in 0 .. setup.size - 1 |-> buf[i]]
  /\ typed \in Seq(STRING) /\ strokes \in Nat

\* What is read so far is in front of idx, without a terminator; once the line
\* is terminated it ends there.
Editor ==
  /\ EditorType
  /\ pc \in {"read", "parse"} => /\ Edited(typed) = FirstOf(buf, idx)
                                 /\ \A i \in 0..idx-1 : buf[i] \in STRING \ {NUL}
  /\ LineIsTyped

LEMMA SetupType ==
  ASSUME setup \in Setups, strokes \in Nat
  PROVE  /\ setup.size \in Nat /\ setup.size > 1 /\ setup.size - 1 \in Nat
         /\ setup.others \in Nat
         /\ NextKeys \subseteq STRING \ {NUL}
<1>1. setup \in Setup /\ NUL \notin setup.keys \cup ToSet(setup.prefix)
  BY ShellAssumption
<1>2. setup.size \in Nat \ {0, 1} /\ setup.others \in Nat /\ setup.prefix \in Seq(STRING) /\ setup.keys \subseteq STRING
  BY <1>1 DEF Setup
<1>3. ASSUME NEW c \in NextKeys PROVE c \in STRING \ {NUL}
  <2>1. CASE c \in setup.keys
    BY <1>1, <1>2, <2>1
  <2>2. CASE strokes < Len(setup.prefix) /\ c = setup.prefix[strokes + 1]
    <3>1. strokes + 1 \in DOMAIN setup.prefix
      BY <1>2, <2>2
    <3>2. c \in ToSet(setup.prefix)
      BY <2>2, <3>1 DEF ToSet
    <3>3. c \in STRING
      BY <1>2, <2>2, <3>1
    <3> QED BY <1>1, <3>2, <3>3
  <2> QED BY <2>1, <2>2 DEF NextKeys
<1> QED BY <1>2, <1>3

LEMMA EditorInit == Init => Editor
<1> SUFFICES ASSUME Init PROVE Editor
  OBVIOUS
<1>1. setup \in Setups /\ strokes = 0 /\ typed = << >> /\ pc = "prompt" /\ idx = 0
  BY DEF Init
<1>2. setup.size - 1 \in Nat
  BY <1>1, SetupType
<1>3. buf = [i \in 0 .. setup.size - 1 |-> buf[i]]
  BY DEF Init
<1>4. << >> \in Seq(STRING)
  OBVIOUS
<1> QED BY <1>1, <1>2, <1>3, <1>4 DEF Editor, EditorType, LineIsTyped

LEMMA EditorKept ==
  ASSUME Editor, UNCHANGED <<setup, buf, idx, typed, strokes, pc>>
  PROVE  Editor'
BY DEF Editor, EditorType, LineIsTyped, Edited, CStr, Find

LEMMA EditorPrompt == Editor /\ Prompt => Editor'
<1> SUFFICES ASSUME Editor, Prompt PROVE Editor'
  OBVIOUS
<1>1. setup' = setup /\ buf' = buf /\ strokes' = strokes /\ typed' = << >> /\ idx' = 0 /\ pc' = "read"
  BY DEF Prompt
<1>2. EditorType'
  <2>1. setup.size - 1 \in Nat
    BY SetupType DEF Editor, EditorType
  <2>2. << >> \in Seq(STRING)
    OBVIOUS
  <2> QED BY <1>1, <2>1, <2>2 DEF Editor, EditorType
<1>3. Edited(typed)' = << >>
  <2>1. Lines(<< >>, setup.size - 1)[0] = << >>
    BY LinesAre
  <2>2. Len(<< >>) = 0
    OBVIOUS
  <2> QED BY <1>1, <2>1, <2>2 DEF Edited
<1>4. FirstOf(buf, idx)' = << >>
  <2>1. FirstOf(buf', 0) = << >>
    BY DEF FirstOf
  <2> QED BY <1>1, <2>1
<1>5. (\A i \in 0..idx-1 : buf[i] \in STRING \ {NUL})'
  BY <1>1
<1> QED BY <1>1, <1>2, <1>3, <1>4, <1>5 DEF Editor, LineIsTyped

LEMMA EditorRead == Editor /\ Read => Editor'
<1> SUFFICES ASSUME Editor, Read PROVE Editor'
  OBVIOUS
<1>1. PICK c \in NextKeys : /\ Ready("read") /\ Edit(c)
                            /\ strokes' = strokes + 1 /\ typed' = Append(typed, c)
                            /\ UNCHANGED <<tty, setup, exec, others, answer>>
  BY DEF Read
<1>2. /\ setup \in Setups /\ idx \in 0 .. setup.size - 1 /\ strokes \in Nat
      /\ buf = [i \in 0 .. setup.size - 1 |-> buf[i]] /\ typed \in Seq(STRING)
      /\ pc = "read" /\ setup' = setup
      /\ Edited(typed) = FirstOf(buf, idx) /\ \A i \in 0..idx-1 : buf[i] \in STRING \ {NUL}
  BY <1>1 DEF Editor, EditorType, Ready
<1>m. PICK m \in Nat : m = setup.size - 1
  BY <1>2, SetupType
<1>3. c \in STRING \ {NUL} /\ NL # BS
  BY <1>2, SetupType DEF NL, BS
<1>4. Edited(typed)' = Keyed(FirstOf(buf, idx), c, m)
  <2>1. Len(typed') = Len(typed) + 1
    BY <1>1, <1>2, <1>3
  <2>2. Lines(Append(typed, c), m)[Len(typed) + 1] = Keyed(Lines(typed, m)[Len(typed)], c, m)
    BY <1>2, <1>3, OneMoreKey
  <2> QED BY <1>1, <1>2, <1>m, <2>1, <2>2 DEF Edited
<1>5. typed' \in Seq(STRING) /\ strokes' \in Nat
  BY <1>1, <1>2, <1>3
<1>6. PICK b : b = buf
  OBVIOUS
<1>7. PICK n \in 0..m : n = idx
  BY <1>2, <1>m
<1>8. /\ IsBuf(b, m) /\ \A i \in 0..n-1 : b[i] \in STRING \ {NUL}
      /\ Edited(typed)' = Keyed(FirstOf(b, n), c, m)
      /\ n \in Nat /\ n <= m
  <2>1. Edited(typed)' = Keyed(FirstOf(b, n), c, m)
    BY <1>4, <1>6, <1>7
  <2>2. IsBuf(b, m)
    BY <1>2, <1>6, <1>m DEF IsBuf
  <2>3. \A i \in 0..n-1 : b[i] \in STRING \ {NUL}
    BY <1>2, <1>6, <1>7
  <2>4. n \in Nat /\ n <= m
    OBVIOUS
  <2> QED BY <2>1, <2>2, <2>3, <2>4
<1>9. \A i \in 0..n-1 : b[i] \in STRING
  BY <1>8
<1>10. ASSUME NEW b2, NEW n2 \in 0..m, buf' = b2, idx' = n2, pc' \in {"read", "parse"},
              IsBuf(b2, m), \A i \in 0..n2-1 : b2[i] \in STRING \ {NUL},
              Keyed(FirstOf(b, n), c, m) = FirstOf(b2, n2)
       PROVE  Editor'
  <2>1. EditorType'
    BY <1>2, <1>5, <1>10, <1>m DEF EditorType, IsBuf
  <2> QED BY <1>8, <1>10, <2>1 DEF Editor, LineIsTyped
<1>11. CASE c = NL
  <2>1. buf' = b /\ idx' = n /\ pc' = "parse"
    BY <1>1, <1>3, <1>6, <1>7, <1>11 DEF Edit
  <2>2. Keyed(FirstOf(b, n), c, m) = FirstOf(b, n)
    BY <1>11, KeyEnd
  <2> QED BY <1>8, <1>10, <2>1, <2>2
<1>12. CASE c = BS
  <2>1. PICK k : k = IF n > 0 THEN n - 1 ELSE n
    OBVIOUS
  <2>2. buf' = b /\ idx' = k /\ pc' = "read"
    BY <1>1, <1>2, <1>3, <1>6, <1>7, <1>12, <2>1 DEF Edit
  <2>3. k \in 0..m /\ \A i \in 0..k-1 : i \in 0..n-1
    BY <1>8, <2>1
  <2>4. Keyed(FirstOf(b, n), c, m) = FirstOf(b, k)
    BY <1>8, <1>9, <1>12, <2>1, KeyBack
  <2> QED BY <1>8, <1>10, <2>2, <2>3, <2>4
<1>13. CASE c \notin {NL, BS}
  <2>1. /\ pc' = "read"
        /\ n < m => idx' = n + 1 /\ buf' = [b EXCEPT ![n] = c]
        /\ ~(n < m) => idx' = n /\ buf' = b
    BY <1>1, <1>2, <1>6, <1>7, <1>13, <1>m DEF Edit
  <2>2. CASE n < m
    <3>0. PICK b2 : b2 = [b EXCEPT ![n] = c]
      OBVIOUS
    <3>1. IsBuf(b2, m)
      BY <1>8, <3>0 DEF IsBuf
    <3>2. \A i \in 0..n : b2[i] = IF i = n THEN c ELSE b[i]
      BY <1>8, <2>2, <3>0 DEF IsBuf
    <3>3. n + 1 \in 0..m /\ \A i \in 0..n+1-1 : b2[i] \in STRING \ {NUL}
      <4>1. ASSUME NEW i \in 0..n+1-1 PROVE b2[i] \in STRING \ {NUL}
        <5>1. i \in 0..n /\ (i = n \/ i \in 0..n-1)
          BY <1>8
        <5> QED BY <1>3, <1>8, <3>2, <5>1
      <4> QED BY <1>3, <1>8, <2>2, <4>1
    <3>4. Keyed(FirstOf(b, n), c, m) = FirstOf(b2, n + 1)
      <4>1. PICK S : S = STRING
        OBVIOUS
      <4>2. n \in Nat /\ c \in S /\ c \notin {NL, BS} /\ \A i \in 0..n-1 : b[i] \in S
        BY <1>3, <1>8, <1>9, <1>13, <4>1
      <4> QED BY <2>2, <3>2, <4>2, KeyAdds
    <3>5. buf' = b2 /\ idx' = n + 1 /\ pc' \in {"read", "parse"}
      BY <2>1, <2>2, <3>0
    <3> QED BY <1>10, <3>1, <3>3, <3>4, <3>5
  <2>3. CASE n = m
    <3>1. buf' = b /\ idx' = n /\ pc' \in {"read", "parse"}
      BY <2>1, <2>3
    <3>2. Keyed(FirstOf(b, n), c, m) = FirstOf(b, n)
      BY <1>3, <1>8, <1>9, <1>13, <2>3, KeyFull
    <3> QED BY <1>8, <1>10, <3>1, <3>2
  <2> QED BY <1>3, <2>2, <2>3
<1> QED BY <1>11, <1>12, <1>13

\* The terminator is where CStr stops.
LEMMA EditorParse == Editor /\ Parse => Editor'
<1> SUFFICES ASSUME Editor, Parse PROVE Editor'
  OBVIOUS
<1>1. /\ setup \in Setups /\ idx \in 0 .. setup.size - 1
      /\ buf = [i \in 0 .. setup.size - 1 |-> buf[i]] /\ pc = "parse"
      /\ Edited(typed) = FirstOf(buf, idx) /\ \A i \in 0..idx-1 : buf[i] \in STRING \ {NUL}
  BY DEF Editor, EditorType, Ready, Parse
<1>2. setup' = setup /\ idx' = idx /\ typed' = typed /\ strokes' = strokes
  BY DEF Parse
<1>3. CASE idx = 0
  <2>1. buf' = buf /\ pc' = "prompt"
    BY <1>3 DEF Parse
  <2> QED BY <1>2, <2>1 DEF Editor, EditorType, LineIsTyped
<1>4. CASE idx # 0
  <2>1. buf' = [buf EXCEPT ![idx] = NUL] /\ pc' = "command"
    <3>1. idx # None
      BY <1>1 DEF None
    <3> QED BY <1>4, <3>1 DEF Parse, Cut
  <2>2. PICK b : b = buf'
    OBVIOUS
  <2>3. PICK n : n = idx
    OBVIOUS
  <2>4. PICK m \in Nat : m = setup.size - 1
    BY <1>1, SetupType DEF Editor, EditorType
  <2>5. b = [i \in 0..m |-> b[i]]
    BY <1>1, <2>1, <2>2, <2>4
  <2>6. /\ b[n] = NUL /\ n \in 0..m /\ n \in Nat
        /\ \A i \in 0..n-1 : b[i] = buf[i] /\ b[i] # NUL
    <3>1. n \in 0..m /\ n \in Nat /\ \A i \in 0..n-1 : i \in 0..m /\ i # n
      BY <1>1, <2>3, <2>4
    <3>2. b = [buf EXCEPT ![n] = NUL] /\ buf = [i \in 0..m |-> buf[i]]
      BY <1>1, <2>1, <2>2, <2>3, <2>4
    <3>3. b[n] = NUL /\ \A i \in 0..n-1 : b[i] = buf[i]
      BY <3>1, <3>2
    <3> QED BY <1>1, <2>3, <3>1, <3>3
  <2>7. Find(b, 0, {}) = n
    <3> DEFINE Is(j) == b[j] \in {} \cup {NUL} /\ \A k \in 0 .. j-1 : b[k] \notin {} \cup {NUL}
    <3>1. Is(n)
      BY <2>6
    <3>2. ASSUME NEW j \in 0..m, Is(j) PROVE j = n
      <4>1. ~(j < n)
        <5>1. j < n => j \in 0..n-1
          BY <2>6
        <5> QED BY <2>6, <3>2, <5>1
      <4>2. ~(n < j)
        <5>1. n < j => n \in 0..j-1
          BY <2>6
        <5> QED BY <2>6, <3>2, <5>1
      <4> QED BY <2>6, <4>1, <4>2
    <3>3. Find(b, 0, {}) = CHOOSE j \in 0..m : Is(j)
      BY <2>4 DEF Find
    <3> HIDE DEF Is
    <3> QED BY <2>6, <3>1, <3>2, <3>3
  <2>8. CStr(buf, 0)' = FirstOf(b, n)
    <3>1. Find(buf, 0, {})' = n
      BY <1>2, <2>2, <2>7 DEF Find
    <3>2. n - 0 = n /\ \A k \in 1..n : 0 + k - 1 = k - 1
      BY <2>6
    <3> QED BY <2>2, <3>1, <3>2 DEF CStr, FirstOf
  <2>9. FirstOf(b, n) = FirstOf(buf, idx)
    <3>1. \A i \in 1..n : i - 1 \in 0..n-1
      BY <2>6
    <3> QED BY <2>3, <2>6, <3>1 DEF FirstOf
  <2>10. Edited(typed)' = Edited(typed)
    BY <1>2 DEF Edited
  <2>11. EditorType'
    BY <1>2, <2>2, <2>4, <2>5 DEF Editor, EditorType
  <2> QED BY <1>1, <2>1, <2>8, <2>9, <2>10, <2>11 DEF Editor, LineIsTyped
<1> QED BY <1>3, <1>4

LEMMA CutType ==
  ASSUME NEW D, NEW b, b = [i \in D |-> b[i]], NEW j
  PROVE  Cut(b, j) = [i \in D |-> Cut(b, j)[i]]
BY DEF Cut

LEMMA EditorCommand == Editor /\ Command => Editor'
<1> SUFFICES ASSUME Editor, Command PROVE Editor'
  OBVIOUS
<1>1. PICK space, word :
        \/ Builtin(word, space) \/ EchoCommand(word, space) \/ Exit(word)
        \/ ExecCommand(word, space) \/ Other(word, space)
  BY DEF Command
<1>2. UNCHANGED <<setup, idx, strokes, typed>>
  BY DEF Command
<1> DEFINE D == 0 .. setup.size - 1
<1>3. buf = [i \in D |-> buf[i]]
  BY DEF Editor, EditorType
<1> HIDE DEF D
<1>4. PICK b : b = Cut(buf, space)
  OBVIOUS
<1>5. b = [i \in D |-> b[i]]
  BY <1>3, <1>4, CutType
<1>6. buf' = [i \in D |-> buf'[i]] /\ pc' \in {"prompt", "exited", "execve"}
  <2>1. CASE Builtin(word, space)
    BY <1>4, <1>5, <2>1 DEF Builtin
  <2>2. CASE EchoCommand(word, space)
    <3>1. buf' = Echo(b, space).buf /\ pc' = "prompt"
      BY <1>4, <2>2 DEF EchoCommand
    <3>2. Echo(b, space).buf \in {b, Cut(b, strchr(b, space + 1, SP))}
      BY DEF Echo
    <3> QED BY <1>5, <3>1, <3>2, CutType
  <2>3. CASE Exit(word)
    BY <1>3, <2>3 DEF Exit
  <2>4. CASE ExecCommand(word, space)
    <3>1. /\ pc' \in {"prompt", "execve"}
          /\ buf' = b \/ \E C : buf' = [i \in DOMAIN b |-> IF i \in C THEN NUL ELSE b[i]]
      <4>1. pc' \in {"prompt", "execve"}
        BY <2>4 DEF ExecCommand
      <4> DEFINE Cuts(p) == Split(b, p).cuts
      <4>2. \/ buf' = b
            \/ \E p : buf' = [i \in DOMAIN b |-> IF i \in Cuts(p) THEN NUL ELSE b[i]]
        BY <1>4, <2>4 DEF ExecCommand
      <4> HIDE DEF Cuts
      <4> QED BY <4>1, <4>2
    <3>2. DOMAIN b = D
      BY <1>5
    <3> QED BY <1>5, <3>1, <3>2
  <2>5. CASE Other(word, space)
    BY <1>4, <1>5, <2>5 DEF Other
  <2> QED BY <1>1, <2>1, <2>2, <2>3, <2>4, <2>5
<1> QED BY <1>2, <1>6 DEF Editor, EditorType, LineIsTyped, D

LEMMA EditorExecve == Editor /\ Execve => Editor'
<1> SUFFICES ASSUME Editor, Execve PROVE Editor'
  OBVIOUS
<1>1. UNCHANGED <<setup, buf, idx, strokes, typed>> /\ pc = "execve"
  BY DEF Execve, Ready
<1>2. pc' \in {"prompt", "execve"}
  BY <1>1 DEF Execve, Failed
<1> QED BY <1>1, <1>2 DEF Editor, EditorType, LineIsTyped

LEMMA EditorNext == Editor /\ [Next]_vars => Editor'
<1> SUFFICES ASSUME Editor, [Next]_vars PROVE Editor'
  OBVIOUS
<1>1. CASE Write \/ OtherWrite \/ Putting \/ Serial \/ UNCHANGED vars
  BY <1>1, EditorKept DEF Write, OtherWrite, Putting, Serial, vars, shell
<1> QED BY <1>1, EditorPrompt, EditorRead, EditorParse, EditorCommand, EditorExecve DEF Next, ShellStep

-----------------------------------------------------------------------------
\* No process enters tty_putchar while another is inside it: the kernel has no
\* lock that ensures this, it holds while the shell is the only writer or the
\* timer does not switch inside a write.
NoOverlap == \A s \in Setups : ~s.overlap

LEMMA ScreenNext ==
  ASSUME NoOverlap, Screen, setup \in Setups, [Next]_vars
  PROVE  Screen'
<1>1. ~setup.overlap
  BY DEF NoOverlap
<1>2. CASE Write
  <2>1. PICK c : c = Head(out)
    OBVIOUS
  <2>2. PutStart("shell", c)
    BY <1>2, <2>1 DEF Write
  <2> QED BY <2>2, StartStep
<1>3. CASE OtherWrite
  <2>1. PutStart("other", "z") /\ putting["shell"].pc = "done"
    BY <1>1, <1>3 DEF OtherWrite, At
  <2> QED BY <2>1, StartStep
<1>4. CASE Putting
  <2>1. CASE Put("other")
    BY <2>1, PuttingStep
  <2>2. CASE Put("shell") /\ putting["other"].pc = "done"
    BY <2>2, PuttingStep
  <2> QED BY <1>1, <1>4, <2>1, <2>2 DEF Putting, At
<1>5. CASE Serial
  BY <1>5, ScreenKept DEF Serial, UartSent
<1>6. CASE Prompt \/ Parse \/ Command \/ Execve \/ Read \/ UNCHANGED vars
  <2>1. UNCHANGED tty
    BY <1>6 DEF Prompt, Parse, Command, Execve, Read, vars
  <2> QED BY <2>1, ScreenKept DEF tty
<1> QED BY <1>2, <1>3, <1>4, <1>5, <1>6 DEF Next, ShellStep

-----------------------------------------------------------------------------
(* The line on the screen *)

\* The cells from column x of row y of a text to its end.
Back(t, y, x) == (Len(t) - y) * W + Len(t[Len(t)]) - x

\* t ends in the first m characters of l, wrapped at W; only the last row is
\* considered unless b.
Ends(t, l, m, b) ==
  \A y \in 1..Len(t), x \in 1..W :
    ((y = Len(t) \/ b) /\ Back(t, y, x) \in 0..m-1)
      => x <= Len(t[y]) /\ t[y][x] = l[m - Back(t, y, x)]

LEMMA BackType ==
  ASSUME NEW X, NEW t \in Rows(X), NEW y \in 1..Len(t), NEW x \in 1..W
  PROVE  /\ Back(t, y, x) \in Int
         /\ y = Len(t) => Back(t, y, x) = Len(t[Len(t)]) - x
         /\ y # Len(t) => Back(t, y, x) >= Len(t[Len(t)]) + W - x
<1> DEFINE n == Len(t)
           k == Len(t[Len(t)])
<1>1. n \in Nat /\ k \in Nat /\ W \in Nat
  BY RowsType, Sizes
<1>2. PICK p : p = (n - y) * W
  OBVIOUS
<1>3. p \in Int
  BY <1>1, <1>2
<1>4. y = n => p = 0
  BY <1>1, <1>2
<1>5. y # n => p >= W
  <2> SUFFICES ASSUME y # n PROVE p >= W
    OBVIOUS
  <2>1. n - y >= 1 /\ n - y \in Nat
    BY <1>1
  <2>2. PICK q \in Nat : q = n - y
    BY <2>1
  <2>3. q * W >= 1 * W
    BY <1>1, <2>1, <2>2
  <2> QED BY <1>1, <1>2, <2>2, <2>3
<1>6. Back(t, y, x) = p + k - x
  BY <1>2 DEF Back
<1> HIDE DEF n, k
<1>7. /\ Back(t, y, x) \in Int
      /\ y = n => Back(t, y, x) = k - x
      /\ y # n => Back(t, y, x) >= k + W - x
  BY <1>1, <1>3, <1>4, <1>5, <1>6
<1> QED BY <1>7 DEF n, k

LEMMA EndsLast ==
  ASSUME NEW t, NEW l, NEW m, NEW b, NEW b2, b2 => b, Ends(t, l, m, b)
  PROVE  Ends(t, l, m, b2)
BY DEF Ends

\* A character at the end of the last row.
LEMMA EndsRow ==
  ASSUME NEW X, NEW t \in Texts(X), NEW c \in X, NEW l, NEW l2, NEW m \in Nat, NEW b,
         Ends(t, l, m, b), \A i \in 1..m+1 : l2[i] = IF i = m + 1 THEN c ELSE l[i]
  PROVE  Ends(WithRow(t, Append(t[Len(t)], c)), l2, m + 1, b)
<1> DEFINE n == Len(t)
           r == t[Len(t)]
           r2 == Append(r, c)
           u == WithRow(t, r2)
<1>1. /\ t \in Rows(X) /\ n \in Nat /\ n > 0 /\ r \in Seq(X) /\ Len(r) \in Nat /\ Len(r) < W
      /\ W \in Nat
  BY RowsType, Sizes DEF Texts
<1>2. r2 \in Seq(X) /\ Len(r2) = Len(r) + 1 /\ r2[Len(r) + 1] = c /\ \A i \in 1..Len(r) : r2[i] = r[i]
  BY <1>1, AppendIs
<1> HIDE DEF r2
<1>3. /\ u \in Rows(X) /\ Len(u) = n /\ u[n] = r2
      /\ \A i \in 1..n-1 : u[i] = t[i]
  <2>1. Len(r2) <= W
    BY <1>1, <1>2
  <2> QED BY <1>1, <1>2, <2>1, WithRowType
<1> HIDE DEF u
<1> SUFFICES ASSUME NEW y \in 1..n, NEW x \in 1..W, y = n \/ b, Back(u, y, x) \in 0..m
             PROVE  x <= Len(u[y]) /\ u[y][x] = l2[m + 1 - Back(u, y, x)]
  BY <1>1, <1>3 DEF Ends, u, r2
<1>4. Back(t, y, x) \in Int /\ Back(u, y, x) = Back(t, y, x) + 1
  <2>1. Back(t, y, x) \in Int
    BY <1>1, BackType
  <2>2. PICK p : p = (n - y) * W
    OBVIOUS
  <2>3. p \in Int
    BY <1>1, <2>2
  <2>4. Back(t, y, x) = p + Len(r) - x /\ Back(u, y, x) = p + Len(r2) - x
    BY <1>3, <2>2 DEF Back
  <2> HIDE DEF r, n
  <2> QED BY <1>1, <1>2, <2>1, <2>3, <2>4
<1>5. PICK d \in Int : d = Back(t, y, x)
  BY <1>4
<1>6. CASE d = -1
  <2>1. y = n
    <3> SUFFICES ASSUME y # n PROVE FALSE
      OBVIOUS
    <3>1. Back(t, y, x) >= Len(r) + W - x
      BY <1>1, BackType
    <3> HIDE DEF r, n
    <3> QED BY <1>1, <1>5, <1>6, <3>1
  <2>2. x = Len(r) + 1
    <3>1. Back(t, y, x) = Len(r) - x
      BY <1>1, <2>1, BackType
    <3>2. Len(r) - x = -1
      BY <1>5, <1>6, <3>1
    <3> HIDE DEF r, n
    <3> QED BY <1>1, <3>2
  <2>3. u[y] = r2 /\ u[y][x] = c /\ x <= Len(u[y])
    BY <1>1, <1>2, <1>3, <2>1, <2>2
  <2>4. m + 1 - Back(u, y, x) = m + 1 /\ m + 1 \in 1..m+1
    BY <1>4, <1>5, <1>6
  <2> QED BY <2>3, <2>4
<1>7. CASE d # -1
  <2>1. d \in 0..m-1 /\ m + 1 - Back(u, y, x) = m - d /\ m - d \in 1..m+1 /\ m - d # m + 1
    BY <1>4, <1>5, <1>7
  <2>2. x <= Len(t[y]) /\ t[y][x] = l[m - d]
    BY <1>5, <2>1 DEF Ends
  <2>3. l2[m + 1 - Back(u, y, x)] = l[m - d]
    BY <2>1
  <2>4. CASE y = n
    <3>1. t[y] = r /\ u[y] = r2 /\ x \in 1..Len(r)
      BY <1>1, <1>3, <2>2, <2>4
    <3> QED BY <1>1, <1>2, <2>2, <2>3, <3>1
  <2>5. CASE y # n
    <3>1. y \in 1..n-1
      BY <1>1, <2>5
    <3>2. u[y] = t[y]
      BY <1>3, <3>1
    <3> QED BY <2>2, <2>3, <3>2
  <2> QED BY <2>4, <2>5
<1> QED BY <1>6, <1>7

\* A full last row is followed by an empty one.
LEMMA EndsNewRow ==
  ASSUME NEW X, NEW t \in Rows(X), Len(t[Len(t)]) = W, NEW l, NEW m \in Nat, NEW b,
         Ends(t, l, m, b)
  PROVE  Ends(Append(t, << >>), l, m, b)
<1> DEFINE n == Len(t)
           u == Append(t, << >>)
<1>1. n \in Nat /\ n > 0 /\ W \in Nat /\ Len(<< >>) = 0
  BY RowsType, Sizes
<1>2. Len(u) = n + 1 /\ u[n + 1] = << >> /\ \A i \in 1..n : u[i] = t[i]
  BY NewRowType
<1> HIDE DEF u
<1> SUFFICES ASSUME NEW y \in 1..n+1, NEW x \in 1..W, y = n + 1 \/ b, Back(u, y, x) \in 0..m-1
             PROVE  x <= Len(u[y]) /\ u[y][x] = l[m - Back(u, y, x)]
  BY <1>2 DEF Ends, u
<1>3. y # n + 1
  <2> SUFFICES ASSUME y = n + 1 PROVE FALSE
    OBVIOUS
  <2>1. n + 1 - y = 0 /\ (n + 1 - y) * W = 0
    BY <1>1
  <2>2. Back(u, y, x) = -x
    BY <1>1, <1>2, <2>1 DEF Back
  <2> QED BY <2>2, <1>1
<1>4. y \in 1..n /\ u[y] = t[y]
  BY <1>1, <1>2, <1>3
<1>5. Back(u, y, x) = Back(t, y, x)
  <2>1. (n + 1 - y) * W = (n - y) * W + W
    BY <1>1
  <2>2. (n - y) * W \in Int
    BY <1>1
  <2>3. PICK p \in Int : p = (n - y) * W
    BY <2>2
  <2>4. Back(u, y, x) = p + W + 0 - x
    BY <1>1, <1>2, <2>1, <2>3 DEF Back
  <2>5. Back(t, y, x) = p + W - x
    BY <2>3 DEF Back
  <2> QED BY <1>1, <2>3, <2>4, <2>5
<1>6. b
  BY <1>3
<1> QED BY <1>4, <1>5, <1>6 DEF Ends

\* What the echo of a key does to the end of the text.
LEMMA EndsMore ==
  ASSUME NEW X, NEW t \in Texts(X), NEW c \in X, c \notin {NL, BS},
         NEW l, NEW l2, NEW m \in Nat, NEW b, Ends(t, l, m, b),
         \A i \in 1..m+1 : l2[i] = IF i = m + 1 THEN c ELSE l[i]
  PROVE  Ends(Written(t, c), l2, m + 1, b)
<1> DEFINE r == t[Len(t)]
           r2 == Append(r, c)
           u == WithRow(t, r2)
<1>1. Ends(u, l2, m + 1, b)
  BY EndsRow
<1>2. t \in Rows(X) /\ r \in Seq(X) /\ Len(r) \in Nat /\ Len(r) < W /\ W \in Nat
  BY RowsType, Sizes DEF Texts
<1>3. r2 \in Seq(X) /\ Len(r2) = Len(r) + 1
  BY <1>2, AppendIs
<1>5. Written(t, c) = IF Len(r) + 1 = W THEN Append(u, << >>) ELSE u
  BY WrittenIs
<1> HIDE DEF r2
<1>4. u \in Rows(X) /\ u[Len(u)] = r2
  <2>1. Len(r2) <= W
    BY <1>2, <1>3
  <2> QED BY <1>2, <1>3, <2>1, WithRowType
<1> HIDE DEF u
<1>6. CASE Len(r) + 1 = W
  <2>1. Len(u[Len(u)]) = W
    BY <1>3, <1>4, <1>6
  <2>2. Ends(Append(u, << >>), l2, m + 1, b)
    BY <1>1, <1>4, <2>1, EndsNewRow
  <2> QED BY <1>5, <1>6, <2>2
<1>7. CASE Len(r) + 1 # W
  BY <1>1, <1>5, <1>7
<1> QED BY <1>6, <1>7

LEMMA EndsLess ==
  ASSUME NEW X, NEW t \in Texts(X), BS \in X, NEW l, NEW m \in Nat, Ends(t, l, m + 1, FALSE)
  PROVE  Ends(Written(t, BS), l, m, FALSE)
<1> DEFINE n == Len(t)
           r == t[Len(t)]
<1>1. /\ t \in Rows(X) /\ n \in Nat /\ n > 0 /\ r \in Seq(X) /\ Len(r) \in Nat /\ Len(r) < W
      /\ W \in Nat
  BY RowsType, Sizes DEF Texts
<1>2. CASE Len(r) = 0
  <2>1. Written(t, BS) = t
    BY <1>2, WrittenIs
  <2>2. ASSUME NEW x \in 1..W PROVE Back(t, n, x) = -x
    <3>1. n \in 1..n
      BY <1>1
    <3>2. Back(t, n, x) = Len(r) - x
      BY <1>1, <3>1, BackType
    <3> QED BY <1>1, <1>2, <3>2
  <2>3. ASSUME NEW x \in 1..W PROVE Back(t, n, x) \notin 0..m-1
    BY <1>1, <2>2
  <2> QED BY <2>1, <2>3 DEF Ends
<1>3. CASE Len(r) > 0
  <2> DEFINE r2 == SubSeq(r, 1, Len(r) - 1)
             u == WithRow(t, r2)
  <2>1. r2 \in Seq(X) /\ Len(r2) = Len(r) - 1 /\ \A i \in 1..Len(r)-1 : r2[i] = r[i]
    BY <1>1, <1>3
  <2>2. Written(t, BS) = u
    BY <1>3, WrittenIs
  <2> HIDE DEF r2
  <2>3. u \in Rows(X) /\ Len(u) = n /\ u[n] = r2
    <3>1. Len(r2) <= W
      BY <1>1, <2>1
    <3> QED BY <1>1, <2>1, <3>1, WithRowType
  <2> HIDE DEF u
  <2>4. ASSUME NEW x \in 1..W, Back(u, n, x) \in 0..m-1
        PROVE  x <= Len(u[n]) /\ u[n][x] = l[m - Back(u, n, x)]
    <3>1. n \in 1..n
      BY <1>1
    <3>2. Back(u, n, x) = Len(r2) - x
      BY <2>3, <3>1, BackType
    <3>3. Back(t, n, x) = Len(r) - x
      BY <1>1, <3>1, BackType
    <3>4. /\ Back(t, n, x) \in 0..m /\ m + 1 - Back(t, n, x) = m - Back(u, n, x)
          /\ x \in 1..Len(r)-1
      <4> HIDE DEF r, n
      <4> QED BY <1>1, <2>1, <2>4, <3>2, <3>3
    <3>5. t[n][x] = l[m + 1 - Back(t, n, x)]
      BY <3>1, <3>4 DEF Ends
    <3>6. r2[x] = r[x] /\ x <= Len(r2)
      <4> HIDE DEF r
      <4> QED BY <1>1, <2>1, <3>4
    <3> QED BY <2>3, <3>4, <3>5, <3>6
  <2>5. Ends(u, l, m, FALSE)
    BY <2>3, <2>4 DEF Ends
  <2> QED BY <2>2, <2>5
<1>4. Len(r) = 0 \/ Len(r) > 0
  BY <1>1
<1> QED BY <1>2, <1>3, <1>4

\* The prompt and what is in buf.
LineOf(b) == [i \in Nat |-> IF i = 1 THEN ">" ELSE IF i = 2 THEN SP ELSE b[i-3]]

\* When the rest of out is written, the text ends in the line.
Echoed ==
  (pc = "read" /\ setup.others = 0) =>
    LET Good(t) == Ends(t, LineOf(buf), idx + 2, BS \notin ToSet(typed))
    IN \/ out = << >> /\ Good(rows)
       \/ \E c : out = <<c>> /\ Good(Written(rows, c))
       \/ out = <<">", SP>> /\ Good(Written(Written(rows, ">"), SP))

LEMMA EchoedKept ==
  ASSUME Echoed, UNCHANGED <<setup, pc, out, buf, idx, typed, rows>>
  PROVE  Echoed'
BY DEF Echoed

LEMMA EchoedWrite == Echoed /\ Write => Echoed'
<1> SUFFICES ASSUME Echoed, Write, pc = "read", setup.others = 0 PROVE Echoed'
  BY DEF Echoed, Write
<1>1. PICK l, m, b : l = LineOf(buf) /\ m = idx + 2 /\ b = (BS \notin ToSet(typed))
  OBVIOUS
<1>2. PICK t : t = rows
  OBVIOUS
<1>3. \/ out = << >> /\ Ends(t, l, m, b)
      \/ \E c : out = <<c>> /\ Ends(Written(t, c), l, m, b)
      \/ out = <<">", SP>> /\ Ends(Written(Written(t, ">"), SP), l, m, b)
  BY <1>1, <1>2 DEF Echoed
<1>4. /\ out # << >> /\ out' = Tail(out) /\ rows' = Written(t, Head(out))
      /\ UNCHANGED <<setup, buf, idx, pc, typed>>
  BY <1>2 DEF Write, PutStart
<1>5. CASE \E c : out = <<c>> /\ Ends(Written(t, c), l, m, b)
  <2>1. PICK c : out = <<c>> /\ Ends(Written(t, c), l, m, b)
    BY <1>5
  <2>2. Tail(<<c>>) = << >> /\ Head(<<c>>) = c
    OBVIOUS
  <2>3. out' = << >> /\ rows' = Written(t, c)
    BY <1>4, <2>1, <2>2
  <2> QED BY <1>1, <1>4, <2>1, <2>3 DEF Echoed
<1>6. CASE out = <<">", SP>> /\ Ends(Written(Written(t, ">"), SP), l, m, b)
  <2>1. Tail(<<">", SP>>) = <<SP>> /\ Head(<<">", SP>>) = ">"
    OBVIOUS
  <2>2. out' = <<SP>> /\ rows' = Written(t, ">")
    BY <1>4, <1>6, <2>1
  <2>3. \E c : out' = <<c>> /\ Ends(Written(rows', c), l, m, b)
    BY <1>6, <2>2
  <2> QED BY <1>1, <1>4, <2>3 DEF Echoed
<1> QED BY <1>3, <1>4, <1>5, <1>6

LEMMA ScreenRows ==
  ASSUME Screen
  PROVE  \E X : rows \in Texts(X)
BY DEF Screen, ScreenAt

LEMMA EchoedPrompt == Screen /\ Prompt => Echoed'
<1> SUFFICES ASSUME Screen, Prompt PROVE Echoed'
  OBVIOUS
<1>1. PICK X : rows \in Texts(X)
  BY ScreenRows
<1> DEFINE Y == X \cup {">", SP}
<1>2. rows \in Texts(Y) /\ ">" \in Y /\ SP \in Y
  BY <1>1, MoreCharacters
<1> HIDE DEF Y
<1>3. PICK t \in Texts(Y) : t = rows
  BY <1>2
<1>4. PICK l : l = LineOf(buf)
  OBVIOUS
<1>5. l[1] = ">" /\ l[2] = SP
  BY <1>4 DEF LineOf
<1>6. ">" \notin {NL, BS} /\ SP \notin {NL, BS}
  BY DEF NL, BS, SP
<1>7. Ends(t, l, 0, TRUE)
  BY DEF Ends
<1>8. Ends(Written(t, ">"), l, 1, TRUE)
  <2>1. \A i \in 1..0+1 : l[i] = IF i = 0 + 1 THEN ">" ELSE l[i]
    BY <1>5
  <2>2. Ends(Written(t, ">"), l, 0 + 1, TRUE)
    BY <1>2, <1>6, <1>7, <2>1, EndsMore
  <2>3. 0 + 1 = 1
    OBVIOUS
  <2> QED BY <2>2, <2>3
<1>9. Ends(Written(Written(t, ">"), SP), l, 2, TRUE)
  <2>1. \A i \in 1..1+1 : l[i] = IF i = 1 + 1 THEN SP ELSE l[i]
    BY <1>5
  <2>2. PICK u : u = Written(t, ">")
    OBVIOUS
  <2>3. u \in Texts(Y) /\ Ends(u, l, 1, TRUE)
    BY <1>2, <1>8, <2>2, WrittenType
  <2>4. Ends(Written(u, SP), l, 1 + 1, TRUE)
    BY <1>2, <1>6, <2>1, <2>3, EndsMore
  <2>5. 1 + 1 = 2
    OBVIOUS
  <2> QED BY <2>2, <2>4, <2>5
<1>10. /\ idx' = 0 /\ out' = <<">", SP>> /\ typed' = << >>
       /\ buf' = buf /\ rows' = t
  BY <1>3 DEF Prompt, tty
<1>11. 0 + 2 = 2
  OBVIOUS
<1>12. BS \notin ToSet(<< >>)
  BY DEF ToSet
<1> QED BY <1>4, <1>9, <1>10, <1>11, <1>12 DEF Echoed

LEMMA EchoedRead == Screen /\ Editor /\ Echoed /\ Read => Echoed'
<1> SUFFICES ASSUME Screen, Editor, Echoed, Read, pc' = "read", setup.others = 0 PROVE Echoed'
  BY DEF Echoed, Read
<1>1. PICK c \in NextKeys : /\ Ready("read") /\ Edit(c)
                            /\ strokes' = strokes + 1 /\ typed' = Append(typed, c)
                            /\ UNCHANGED <<tty, setup, exec, others, answer>>
  BY DEF Read
<1>2. PICK X : rows \in Texts(X)
  BY ScreenRows
<1>3. PICK Y : Y = X \cup {c, BS}
  OBVIOUS
<1>4. rows \in Texts(Y) /\ c \in Y /\ BS \in Y
  BY <1>2, <1>3, MoreCharacters
<1>5. PICK t \in Texts(Y) : t = rows
  BY <1>4
<1>6. PICK b : b = buf
  OBVIOUS
<1>7. PICK k : k = setup.size - 1
  OBVIOUS
<1>8. /\ pc = "read" /\ out = << >> /\ rows' = t /\ setup' = setup
      /\ idx \in 0..k /\ IsBuf(b, k) /\ typed \in Seq(STRING) /\ setup \in Setups
      /\ strokes \in Nat
  BY <1>1, <1>5, <1>6, <1>7 DEF Ready, tty, Editor, EditorType, IsBuf
<1>9. PICK n \in 0..k : n = idx
  BY <1>8
<1>10. PICK B : B = (BS \notin ToSet(typed))
  OBVIOUS
<1>11. PICK B2 : B2 = (BS \notin ToSet(typed))'
  OBVIOUS
<1>12. c \in STRING /\ k \in Nat /\ NL # BS
  BY <1>7, <1>8, SetupType DEF NL, BS
<1>13. (B2 => B) /\ (B2 => c # BS)
  <2> DEFINE u == Append(typed, c)
  <2>1. /\ Len(typed) \in Nat /\ Len(u) = Len(typed) + 1 /\ u[Len(typed) + 1] = c
        /\ DOMAIN u = 1..Len(typed)+1 /\ DOMAIN typed = 1..Len(typed)
        /\ \A i \in 1..Len(typed) : u[i] = typed[i]
    BY <1>8, <1>12
  <2> HIDE DEF u
  <2>2. Len(typed) + 1 \in DOMAIN u /\ DOMAIN typed \subseteq DOMAIN u
    BY <2>1
  <2>3. c \in ToSet(u)
    BY <2>1, <2>2 DEF ToSet
  <2>4. ToSet(typed) \subseteq ToSet(u)
    BY <2>1, <2>2 DEF ToSet
  <2>5. typed' = u
    BY <1>1 DEF u
  <2> QED BY <1>10, <1>11, <2>3, <2>4, <2>5
<1>14. Ends(t, LineOf(b), n + 2, B)
  BY <1>5, <1>6, <1>8, <1>9, <1>10 DEF Echoed
<1>15. ASSUME out' = << >>, buf' = b, idx' = n PROVE Echoed'
  <2>1. Ends(t, LineOf(b), n + 2, B2)
    BY <1>13, <1>14, EndsLast
  <2> QED BY <1>8, <1>11, <1>15, <2>1 DEF Echoed
<1>16. ASSUME NEW v, NEW b2, NEW n2, out' = <<v>>, buf' = b2, idx' = n2,
              Ends(Written(t, v), LineOf(b2), n2 + 2, B2)
       PROVE  Echoed'
  BY <1>8, <1>11, <1>16 DEF Echoed
<1>17. n \in Nat /\ n + 2 \in Nat
  BY <1>12
<1>18. c # NL
  <2>1. c = NL => pc' = "parse"
    BY <1>1, <1>12 DEF Edit
  <2> QED BY <2>1
<1>19. CASE c = BS /\ n = 0
  <2>1. out' = << >> /\ buf' = b /\ idx' = n
    BY <1>1, <1>6, <1>9, <1>12, <1>19 DEF Edit
  <2> QED BY <1>15, <2>1
<1>20. CASE c = BS /\ n # 0
  <2>1. out' = <<BS>> /\ buf' = b /\ idx' = n - 1
    <3>1. idx > 0
      BY <1>9, <1>17, <1>20
    <3> QED BY <1>1, <1>6, <1>9, <1>12, <1>20, <3>1 DEF Edit
  <2>2. PICK m \in Nat : m = n + 1
    BY <1>17
  <2>3. Ends(t, LineOf(b), m + 1, FALSE)
    <3>1. m + 1 = n + 2
      BY <1>17, <2>2
    <3> QED BY <1>14, <3>1, EndsLast
  <2>4. Ends(Written(t, BS), LineOf(b), m, FALSE)
    BY <1>4, <2>3, EndsLess
  <2>5. n - 1 + 2 = m
    BY <1>17, <2>2
  <2>6. Ends(Written(t, BS), LineOf(b), n - 1 + 2, B2)
    BY <1>13, <1>20, <2>4, <2>5, EndsLast
  <2> QED BY <1>16, <2>1, <2>6
<1>21. CASE c # BS /\ n = k
  <2>1. out' = << >> /\ buf' = b /\ idx' = n
    <3>1. ~(idx < setup.size - 1)
      BY <1>7, <1>9, <1>12, <1>21
    <3> QED BY <1>1, <1>6, <1>9, <1>18, <1>21, <3>1 DEF Edit
  <2> QED BY <1>15, <2>1
<1>22. CASE c # BS /\ n # k
  <2>1. PICK b2 : b2 = [b EXCEPT ![n] = c]
    OBVIOUS
  <2>2. out' = <<c>> /\ buf' = b2 /\ idx' = n + 1
    <3>1. idx < setup.size - 1
      BY <1>7, <1>9, <1>12, <1>22
    <3> QED BY <1>1, <1>6, <1>9, <1>18, <1>22, <2>1, <3>1 DEF Edit
  <2>3. \A i \in 0..n : b2[i] = IF i = n THEN c ELSE b[i]
    BY <1>8, <1>12, <1>17, <2>1 DEF IsBuf
  <2>4. \A i \in 1..n+2+1 : LineOf(b2)[i] = IF i = n + 2 + 1 THEN c ELSE LineOf(b)[i]
    <3> SUFFICES ASSUME NEW i \in 1..n+2+1
                 PROVE  LineOf(b2)[i] = IF i = n + 2 + 1 THEN c ELSE LineOf(b)[i]
      OBVIOUS
    <3>1. i \in Nat /\ (i \notin {1, 2} => i - 3 \in 0..n)
      BY <1>17
    <3>2. i = n + 2 + 1 <=> (i - 3 = n)
      BY <1>17, <3>1
    <3>3. i \in {1, 2} => i # n + 2 + 1
      BY <1>17
    <3>4. CASE i \in {1, 2}
      BY <3>1, <3>3, <3>4 DEF LineOf
    <3>5. CASE i \notin {1, 2}
      <4>1. LineOf(b2)[i] = b2[i-3] /\ LineOf(b)[i] = b[i-3]
        BY <3>1, <3>5 DEF LineOf
      <4>2. b2[i-3] = IF i - 3 = n THEN c ELSE b[i-3]
        BY <2>3, <3>1, <3>5
      <4> QED BY <3>2, <4>1, <4>2
    <3> QED BY <3>4, <3>5
  <2>5. Ends(Written(t, c), LineOf(b2), n + 2 + 1, B)
    <3>1. c \notin {NL, BS}
      BY <1>18, <1>22
    <3>2. PICK l, l2 : l = LineOf(b) /\ l2 = LineOf(b2)
      OBVIOUS
    <3>3. PICK m \in Nat : m = n + 2
      BY <1>17
    <3>4. Ends(t, l, m, B) /\ \A i \in 1..m+1 : l2[i] = IF i = m + 1 THEN c ELSE l[i]
      BY <1>14, <2>4, <3>2, <3>3
    <3>5. Ends(Written(t, c), l2, m + 1, B)
      BY <1>4, <3>1, <3>4, EndsMore
    <3> QED BY <3>2, <3>3, <3>5
  <2>6. n + 2 + 1 = n + 1 + 2
    BY <1>17
  <2>7. Ends(Written(t, c), LineOf(b2), n + 1 + 2, B2)
    BY <1>13, <2>5, <2>6, EndsLast
  <2> QED BY <1>16, <2>2, <2>7
<1> QED BY <1>19, <1>20, <1>21, <1>22

LEMMA EchoedNext ==
  Screen /\ Editor /\ Echoed /\ others \in Nat /\ [Next]_vars => Echoed' /\ others' \in Nat
<1> SUFFICES ASSUME Screen, Editor, Echoed, others \in Nat, [Next]_vars
             PROVE  Echoed' /\ others' \in Nat
  OBVIOUS
<1>1. CASE OtherWrite
  <2>1. others' \in Nat
    BY <1>1 DEF OtherWrite
  <2>2. setup.others # 0 /\ setup' = setup
    BY <1>1 DEF OtherWrite
  <2> QED BY <2>1, <2>2 DEF Echoed
<1>2. CASE Putting \/ Serial \/ UNCHANGED vars
  <2>1. rows' = rows
    BY <1>2 DEF Putting, Put, Serial, UartSent, vars, tty, uart_putchar, DrawNewline,
       DrawBackspace, DrawStore, DrawAdvance, DrawWrap, DrawRow, tty_scroll
  <2>2. UNCHANGED <<setup, pc, out, buf, idx, typed, others>>
    BY <1>2 DEF Putting, Serial, vars, shell
  <2> QED BY <2>1, <2>2, EchoedKept
<1>3. CASE Parse \/ Command \/ Execve
  <2>1. others' = others
    BY <1>3 DEF Parse, Command, Execve
  <2>2. pc' # "read"
    <3>1. CASE Parse
      BY <3>1 DEF Parse
    <3>2. CASE Command
      <4>1. PICK space, word :
              \/ Builtin(word, space) \/ EchoCommand(word, space) \/ Exit(word)
              \/ ExecCommand(word, space) \/ Other(word, space)
        BY <3>2 DEF Command
      <4>2. pc' \in {"prompt", "exited", "execve"}
        BY <4>1 DEF Builtin, EchoCommand, Exit, ExecCommand, Other
      <4> QED BY <4>2
    <3>3. CASE Execve
      <4>1. pc = "execve"
        BY <3>3 DEF Execve, Ready
      <4>2. pc' \in {"prompt", "execve"}
        BY <3>3, <4>1 DEF Execve, Failed
      <4> QED BY <4>2
    <3> QED BY <1>3, <3>1, <3>2, <3>3
  <2> QED BY <2>1, <2>2 DEF Echoed
<1>4. CASE Write \/ Prompt \/ Read
  <2>1. others' = others
    BY <1>4 DEF Write, Prompt, Read
  <2> QED BY <1>4, <2>1, EchoedWrite, EchoedPrompt, EchoedRead
<1> QED BY <1>1, <1>2, <1>3, <1>4 DEF Next, ShellStep

\* The line as EditedLineShown has it.
LEMMA PromptLine ==
  ASSUME NEW S, NEW p \in S, NEW q \in S, NEW f \in Seq(S)
  PROVE  /\ Len(<<p, q>> \o f) = Len(f) + 2
         /\ (<<p, q>> \o f)[1] = p /\ (<<p, q>> \o f)[2] = q
         /\ \A i \in 1..Len(f) : (<<p, q>> \o f)[i + 2] = f[i]
<1>1. <<p, q>> \in Seq(S) /\ Len(<<p, q>>) = 2 /\ <<p, q>>[1] = p /\ <<p, q>>[2] = q
  OBVIOUS
<1>2. PICK g \in Seq(S) : g = <<p, q>>
  BY <1>1
<1>3. Len(g) = 2 /\ g[1] = p /\ g[2] = q
  BY <1>1, <1>2
<1>4. /\ Len(g \o f) = Len(f) + 2 /\ (g \o f)[1] = p /\ (g \o f)[2] = q
      /\ \A i \in 1..Len(f) : (g \o f)[i + 2] = f[i]
  <2>1. Len(g \o f) = Len(g) + Len(f)
    OBVIOUS
  <2>2. Len(f) \in Nat
    OBVIOUS
  <2>3. \A i \in 1..Len(g)+Len(f) :
          (g \o f)[i] = IF i <= Len(g) THEN g[i] ELSE f[i - Len(g)]
    OBVIOUS
  <2>4. PICK h, k : h = g \o f /\ k = Len(f)
    OBVIOUS
  <2>5. k \in Nat /\ \A i \in 1..2+k : h[i] = IF i <= 2 THEN g[i] ELSE f[i - 2]
    BY <1>3, <2>2, <2>3, <2>4
  <2>6. h[1] = p /\ h[2] = q
    <3>1. 1 \in 1..2+k /\ 2 \in 1..2+k /\ 1 <= 2 /\ 2 <= 2
      BY <2>5
    <3> QED BY <1>3, <2>5, <3>1
  <2>7. ASSUME NEW i \in 1..k PROVE h[i + 2] = f[i]
    <3>1. i + 2 \in 1..2+k /\ ~(i + 2 <= 2) /\ i + 2 - 2 = i
      BY <2>5
    <3>2. h[i + 2] = f[i + 2 - 2]
      BY <2>5, <3>1
    <3> QED BY <3>1, <3>2
  <2>8. Len(g \o f) = Len(f) + 2
    BY <1>3, <2>1, <2>2
  <2> QED BY <2>4, <2>6, <2>7, <2>8
<1> QED BY <1>2, <1>4

LEMMA LineIs ==
  ASSUME Editor, pc = "read"
  PROVE  LET line == <<">", SP>> \o [i \in 1..idx |-> buf[i-1]]
         IN /\ idx \in Nat /\ Len(line) = idx + 2
            /\ \A i \in 1..idx+2 : line[i] = LineOf(buf)[i]
<1>1. idx \in Nat
  BY DEF Editor, EditorType
<1>2. PICK n \in Nat : n = idx
  BY <1>1
<1>3. PICK b : b = buf
  OBVIOUS
<1>4. PICK p, q : p = ">" /\ q = SP
  OBVIOUS
<1>5. PICK S : S = STRING \cup {p, q}
  OBVIOUS
<1>6. p \in S /\ q \in S /\ \A i \in 0..n-1 : b[i] \in S
  <2>1. p \in S /\ q \in S
    BY <1>5
  <2>2. \A i \in 0..idx-1 : buf[i] \in STRING
    BY DEF Editor
  <2> QED BY <1>2, <1>3, <1>5, <2>1, <2>2
<1>7. PICK f : f = FirstOf(b, n)
  OBVIOUS
<1>8. f \in Seq(S) /\ Len(f) = n /\ \A i \in 1..n : f[i] = b[i-1]
  BY <1>6, <1>7, FirstType
<1>9. PICK l : l = <<p, q>> \o f
  OBVIOUS
<1>10. Len(l) = n + 2 /\ l[1] = p /\ l[2] = q /\ \A i \in 1..n : l[i + 2] = f[i]
  BY <1>6, <1>8, <1>9, PromptLine
<1>11. ASSUME NEW i \in 1..n+2 PROVE l[i] = LineOf(b)[i]
  <2>1. i \in Nat
    OBVIOUS
  <2>2. CASE i \in {1, 2}
    BY <1>4, <1>10, <2>1, <2>2 DEF LineOf
  <2>3. CASE i \notin {1, 2}
    <3>1. i - 2 \in 1..n /\ i - 2 + 2 = i /\ i - 2 - 1 = i - 3
      BY <2>3
    <3>2. l[i] = b[i-3]
      BY <1>8, <1>10, <3>1
    <3> QED BY <2>1, <2>3, <3>2 DEF LineOf
  <2> QED BY <2>2, <2>3
<1>12. l = <<">", SP>> \o [i \in 1..idx |-> buf[i-1]]
  BY <1>2, <1>3, <1>4, <1>7, <1>9 DEF FirstOf
<1> QED BY <1>1, <1>2, <1>3, <1>10, <1>11, <1>12

\* What is k cells before the cursor is k characters before the end.
LEMMA CursorBack ==
  ASSUME NEW X, NEW t \in Texts(X), Shows(t), NEW l, NEW m \in Nat, NEW b, Ends(t, l, m, b),
         NEW k \in 0..m-1, Here - 1 - k \in Cells, k < term_col \/ b
  PROVE  term_buffer[Here - 1 - k] = l[m - k]
<1> DEFINE n == Len(t)
           C == Len(t[Len(t)])
           R == RowOf(t)
           A == Above(t)
<1>1. /\ t \in Rows(X) /\ n \in Nat /\ n > 0 /\ C \in Nat /\ C < W /\ W \in Nat /\ W > 0
      /\ R \in 0..H-1 /\ A \in Nat /\ R + 1 + A = n /\ H \in Nat
  BY RowsType, Sizes DEF Texts
<1>2. term_row = R /\ term_col = C
  BY DEF Shows
<1>3. PICK p \in Cells : p = Here - 1 - k
  OBVIOUS
<1>4. PICK y0 \in 0..H-1, x0 \in 0..W-1 : p = y0 * W + x0
  BY CellsOf
<1>5. Here = R * W + C
  BY <1>2 DEF Here, W
<1> HIDE DEF n, C, R, A
<1>6. PICK rw \in Int : rw = R * W
  BY <1>1
<1>7. PICK yw \in Int : yw = y0 * W
  BY <1>1
<1>8. k \in Nat /\ yw + x0 = rw + C - 1 - k
  BY <1>1, <1>3, <1>4, <1>5, <1>6, <1>7
<1>9. y0 <= R
  <2> SUFFICES ASSUME y0 >= R + 1 PROVE FALSE
    BY <1>1
  <2>1. y0 * W >= (R + 1) * W
    BY <1>1
  <2>2. (R + 1) * W = R * W + W
    BY <1>1
  <2>3. yw >= rw + W
    BY <1>6, <1>7, <2>1, <2>2
  <2> QED BY <1>1, <1>8, <2>3
<1>10. ASSUME k < C PROVE y0 = R
  <2> SUFFICES ASSUME y0 + 1 <= R PROVE FALSE
    BY <1>1, <1>9
  <2>1. R * W >= (y0 + 1) * W
    BY <1>1
  <2>2. (y0 + 1) * W = y0 * W + W
    BY <1>1
  <2>3. rw >= yw + W
    BY <1>6, <1>7, <2>1, <2>2
  <2> QED BY <1>1, <1>8, <1>10, <2>3
<1>11. PICK y \in 1..n : y = y0 + 1 + A
  BY <1>1, <1>9
<1>12. PICK x \in 1..W : x = x0 + 1
  BY <1>1
<1>13. Back(t, y, x) = k
  <2>1. n - y = R - y0
    BY <1>1, <1>11
  <2>2. (R - y0) * W = R * W - y0 * W
    BY <1>1
  <2>3. (n - y) * W = rw - yw
    BY <1>6, <1>7, <2>1, <2>2
  <2>4. Back(t, y, x) = (n - y) * W + C - x
    BY DEF Back, n, C
  <2> QED BY <1>1, <1>8, <1>12, <2>3, <2>4
<1>14. y = n \/ b
  BY <1>1, <1>2, <1>10, <1>11
<1>15. x <= Len(t[y]) /\ t[y][x] = l[m - k]
  BY <1>13, <1>14 DEF Ends, n
<1>16. term_buffer[p] = Cell(t, y0, x0)
  BY <1>4 DEF Shows, Drawn
<1>17. Cell(t, y0, x0) = t[y][x]
  <2>1. y <= Len(t) /\ y0 + 1 + Above(t) = y
    BY <1>1, <1>11 DEF n, A
  <2>2. x0 + 1 = x
    BY <1>12
  <2>3. t \in Seq(Seq(X)) /\ Len(t[y]) \in Nat
    BY <1>1, RowsType DEF n
  <2>4. x0 < Len(t[y])
    BY <1>15, <2>2, <2>3, <1>1
  <2> QED BY <2>1, <2>2, <2>4 DEF Cell
<1> QED BY <1>3, <1>15, <1>16, <1>17

LEMMA EchoedShown == Screen /\ Editor /\ Echoed => EditedLineShown
<1> SUFFICES ASSUME Screen, Editor, Echoed, Ready("read"), Quiet, setup.others = 0
             PROVE  EditedLineShown
  BY DEF EditedLineShown
<1>1. PICK X : ScreenAt(X)
  BY DEF Screen
<1>2. rows \in Texts(X) /\ Shows(rows)
  <2>1. putting["other"].pc = "done" /\ putting["shell"].pc = "done"
    BY <1>1, TwoWriters DEF Quiet, At, ScreenAt
  <2> QED BY <1>1, <2>1 DEF ScreenAt, Progress
<1>3. pc = "read" /\ out = << >>
  BY DEF Ready
<1>4. PICK l : l = LineOf(buf)
  OBVIOUS
<1>5. PICK b : b = (BS \notin ToSet(typed))
  OBVIOUS
<1>6. idx \in Nat
  BY <1>3, LineIs
<1>7. PICK m \in Nat : m = idx + 2
  BY <1>6
<1>8. Ends(rows, l, m, b)
  <2>1. \A c : << >> # <<c>>
    OBVIOUS
  <2>2. << >> # <<">", SP>>
    OBVIOUS
  <2> QED BY <1>3, <1>4, <1>5, <1>7, <2>1, <2>2 DEF Echoed
<1>9. PICK line : line = <<">", SP>> \o [i \in 1..idx |-> buf[i-1]]
  OBVIOUS
<1>10. Len(line) = m /\ \A i \in 1..m : line[i] = l[i]
  BY <1>3, <1>4, <1>7, <1>9, LineIs
<1>11. ASSUME NEW k \in 0..m-1, Here - 1 - k \in Cells, k < term_col \/ b
       PROVE  term_buffer[Here - 1 - k] = line[m - k]
  <2>1. PICK t \in Texts(X) : t = rows
    BY <1>2
  <2>2. term_buffer[Here - 1 - k] = l[m - k]
    BY <1>2, <1>8, <1>11, <2>1, CursorBack
  <2>3. m - k \in 1..m
    OBVIOUS
  <2> QED BY <1>10, <2>2, <2>3
<1> QED BY <1>5, <1>9, <1>10, <1>11 DEF EditedLineShown

-----------------------------------------------------------------------------
(* The theorems *)

\* LineIsTyped holds in every session: after '\0' is put at idx (ishell/main.c)
\* the command parser reads exactly what was typed less what was taken back,
\* whatever a longer line left behind it in buf, for every size of buf.
THEOREM LineReachesParser == Spec => []LineIsTyped
<1>1. Editor => LineIsTyped
  BY DEF Editor
<1> QED BY <1>1, EditorInit, EditorNext, PTL DEF Spec

\* ScreenShowsText holds for every size of the screen and every text, as long
\* as writers do not meet inside tty_putchar: between two calls the screen is
\* the end of the text written since tty_init, through wrapping, scrolling and
\* backspace (tty.c).
THEOREM ScreenIsRight == NoOverlap => (Spec => []ScreenShowsText)
<1> SUFFICES ASSUME NoOverlap PROVE Spec => []ScreenShowsText
  OBVIOUS
<1>1. Init => Screen /\ Editor
  BY EditorInit, ScreenInit DEF Init
<1>2. (Screen /\ Editor) /\ [Next]_vars => (Screen /\ Editor)'
  BY EditorNext, ScreenNext DEF Editor, EditorType
<1>3. Screen => ScreenShowsText
  BY ScreenIsText
<1> QED BY <1>1, <1>2, <1>3, PTL DEF Spec

\* EditedLineShown holds under the same hypothesis: what the shell echoes and
\* what tty_putchar makes of it keep the prompt and buf before the cursor, over
\* any number of wrapped rows, and in the cursor's row after a backspace.
THEOREM LineIsOnScreen == NoOverlap => (Spec => []EditedLineShown)
<1> SUFFICES ASSUME NoOverlap PROVE Spec => []EditedLineShown
  OBVIOUS
<1> DEFINE Inv == Screen /\ Editor /\ Echoed /\ others \in Nat
<1>1. Init => Inv
  <2>1. Init => Echoed /\ others \in Nat
    BY DEF Init, Echoed
  <2> QED BY <2>1, EditorInit, ScreenInit DEF Init
<1>2. Inv /\ [Next]_vars => Inv'
  BY EditorNext, ScreenNext, EchoedNext DEF Editor, EditorType
<1>3. Inv => EditedLineShown
  BY EchoedShown
<1> QED BY <1>1, <1>2, <1>3, PTL DEF Spec
=============================================================================
