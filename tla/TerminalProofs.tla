--------------------------- MODULE TerminalProofs ---------------------------
(***************************************************************************)
(* The screen shows the command that is typed, for every size of screen,   *)
(* prompt and buffer.                                                      *)
(*                                                                         *)
(* First the arithmetic of a line that wraps: where its characters stand,  *)
(* what one putchar does to a line (it grows or shrinks by its last        *)
(* character) and what puts does.  Then one lemma per action, for          *)
(* TerminalInv, and the theorems.                                          *)
(***************************************************************************)
EXTENDS TerminalInvariant, NatLemmas

-----------------------------------------------------------------------------
(* The screen                                                               *)

Width == COLS + 1

(* The cell of the k-th character of a line that begins on row b.           *)
RowAt(b, k)  == b + (k \div Width)
CellAt(b, k) == RowAt(b, k) * COLS + (k % Width)

LEMMA Sizes ==
  /\ COLS \in Nat \ {0} /\ ROWS \in Nat \ {0} /\ Width \in Nat \ {0} /\ Width = COLS + 1
  /\ UINT8 \in Nat /\ UINT8 > ROWS /\ UINT8 > MAX_CMD_LENGTH + COLS + 1
  /\ MAX_CMD_LENGTH \in Nat \ {0} /\ PromptLengths \subseteq Nat \ {0} /\ MaxOutput \in Nat
BY TerminalAssumption DEF Width

(* Every character but those at column COLS has a cell of its own, before   *)
(* the cells of the characters that follow.                                 *)
LEMMA CellsInOrder ==
  ASSUME NEW b \in Nat, NEW j \in Nat, NEW k \in Nat, j < k, j % Width # COLS
  PROVE  CellAt(b, j) < CellAt(b, k)
<1> DEFINE q == k \div Width
           r == k % Width
           p == j \div Width
           s == j % Width
           c == COLS
<1>1. /\ q \in Nat /\ r \in 0 .. c /\ p \in Nat /\ s \in 0 .. c - 1 /\ c \in Nat
      /\ p < q \/ (p = q /\ s < r)
  <2>1. Width \in Nat \ {0} /\ Width - 1 = COLS /\ COLS \in Nat
    BY Sizes
  <2>2. q \in Nat /\ r \in 0 .. Width - 1 /\ p \in Nat /\ s \in 0 .. Width - 1
    BY <2>1, DivMod
  <2>3. p < q \/ (p = q /\ s < r)
    BY <2>1, DivMonotone
  <2> HIDE DEF q, r, p, Width
  <2>4. QED
    BY <2>1, <2>2, <2>3
<1>2. CellAt(b, j) = (b + p) * c + s /\ CellAt(b, k) = (b + q) * c + r
  BY DEF CellAt, RowAt
<1> HIDE DEF q, r, p, s, c
<1>3. CASE p < q
  <2>1. b + p \in Nat /\ b + q \in Nat /\ b + p < b + q
    BY <1>1, <1>3
  <2>2. (b + p) * c + c <= (b + q) * c
    BY <1>1, <2>1, ProductGrows
  <2>3. (b + p) * c \in Nat /\ (b + q) * c \in Nat
    BY <1>1, <2>1
  <2>4. QED
    BY <1>1, <1>2, <2>2, <2>3
<1>4. CASE p = q /\ s < r
  <2>1. (b + q) * c \in Nat
    BY <1>1
  <2>2. QED
    BY <1>1, <1>2, <1>4, <2>1
<1>5. QED
  BY <1>1, <1>3, <1>4

LEMMA CellOnScreen ==
  ASSUME NEW b \in Nat, NEW k \in Nat, RowAt(b, k) < ROWS, k % Width # COLS
  PROVE  CellAt(b, k) \in Cells
<1> DEFINE x == RowAt(b, k)
           r == k % Width
           c == COLS
           y == ROWS
<1>1. x \in Nat /\ r \in 0 .. c - 1 /\ c \in Nat /\ y \in Nat /\ x < y
  <2>1. Width \in Nat \ {0} /\ Width - 1 = COLS /\ COLS \in Nat /\ ROWS \in Nat
    BY Sizes
  <2>2. k \div Width \in Nat /\ r \in 0 .. Width - 1
    BY <2>1, DivMod
  <2>3. QED
    BY <2>1, <2>2 DEF RowAt
<1>2. CellAt(b, k) = x * c + r
  BY DEF CellAt
<1> HIDE DEF x, r, c, y
<1>3. x * c + c <= y * c /\ x * c \in Nat /\ y * c \in Nat
  BY <1>1, ProductGrows
<1>4. x * c + r \in 0 .. y * c - 1
  BY <1>1, <1>3
<1>5. QED
  BY <1>2, <1>4 DEF Cells, y, c

(* framebuffer_write changes one cell at most, and never the cursor.        *)
Wrote(w, t, cell, c) ==
  /\ w \in Terminals /\ w.row = t.row /\ w.col = t.col
  /\ \A i \in Cells : w.screen[i] = IF i = cell THEN c ELSE t.screen[i]

LEMMA WriteType ==
  ASSUME NEW t \in Terminals, NEW row \in Nat, NEW col \in Nat, NEW c \in Characters
  PROVE  Wrote(framebuffer_write(t, row, col, c), t, row * COLS + col, c)
<1>1. t.screen \in [Cells -> Characters]
  BY DEF Terminals
<1>2. QED
  BY <1>1 DEF framebuffer_write, Terminals, Wrote

(* The row after the last one, and the one after clear_screen, is the first.*)
LEMMA NextRow ==
  ASSUME NEW r \in 0 .. ROWS - 1 \cup {UINT8 - 1}
  PROVE  /\ ((r + 1) % UINT8) % ROWS \in 0 .. ROWS - 1
         /\ r + 1 < ROWS => ((r + 1) % UINT8) % ROWS = r + 1
<1>1. \A k \in Nat : k % ROWS \in 0 .. ROWS - 1
  BY Sizes, DivMod
<1>2. CASE r = UINT8 - 1
  <2>1. (r + 1) % UINT8 = 0
    BY <1>2, Sizes, ModUp
  <2>2. QED
    BY <1>1, <1>2, <2>1, Sizes
<1>3. CASE r \in 0 .. ROWS - 1
  <2>1. (r + 1) % UINT8 = r + 1
    <3>1. r \in 0 .. UINT8 - 1 /\ r + 1 # UINT8 /\ UINT8 \in Nat \ {0}
      BY <1>3, Sizes
    <3>2. QED
      BY <3>1, ModUp
  <2>2. r + 1 < ROWS => (r + 1) % ROWS = r + 1
    BY <1>3, Sizes, ModUp
  <2>3. QED
    BY <1>1, <1>3, <2>1, <2>2
<1>4. QED
  BY <1>2, <1>3

LEMMA NewlineStep ==
  ASSUME NEW t \in Terminals
  PROVE  /\ putchar(t, Newline) \in Terminals
         /\ putchar(t, Newline).row \in 0 .. ROWS - 1 /\ putchar(t, Newline).col = 0
<1>1. putchar(t, Newline) = [t EXCEPT !.row = ((t.row + 1) % UINT8) % ROWS, !.col = 0]
  BY DEF putchar, Newline, Backspace
<1>2. t.row \in 0 .. ROWS - 1 \cup {UINT8 - 1} /\ 0 \in 0 .. COLS
  BY Sizes DEF Terminals
<1>3. ((t.row + 1) % UINT8) % ROWS \in 0 .. ROWS - 1
  BY <1>2, NextRow
<1>4. QED
  BY <1>1, <1>2, <1>3 DEF Terminals

(* A character goes where the cursor is, which moves on by one column, or   *)
(* from column COLS to the next row.                                        *)
LEMMA CharacterStep ==
  ASSUME NEW t \in Terminals, NEW c \in Letters \cup {PromptChar}
  PROVE  /\ putchar(t, c) \in Terminals
         /\ \A i \in Cells : putchar(t, c).screen[i] =
                               IF i = t.row * COLS + t.col THEN c ELSE t.screen[i]
         /\ t.col < COLS => putchar(t, c).row = t.row /\ putchar(t, c).col = t.col + 1
         /\ t.col = COLS => /\ putchar(t, c).row = ((t.row + 1) % UINT8) % ROWS
                            /\ putchar(t, c).col = 0
<1> DEFINE f == framebuffer_write(t, t.row, t.col, c)
           nr == ((t.row + 1) % UINT8) % ROWS
<1>1. c \in Characters /\ c # Backspace /\ c # Newline
  BY TerminalAssumption DEF Characters, PromptChar, Backspace, Newline
<1>2. t.row \in 0 .. ROWS - 1 \cup {UINT8 - 1} /\ t.row \in Nat /\ t.col \in 0 .. COLS
  BY Sizes DEF Terminals
<1>3. /\ f \in Terminals /\ f.row = t.row /\ f.col = t.col
      /\ \A i \in Cells : f.screen[i] = IF i = t.row * COLS + t.col THEN c ELSE t.screen[i]
  <2>1. t.col \in Nat
    BY <1>2, Sizes
  <2>2. Wrote(f, t, t.row * COLS + t.col, c)
    BY <1>1, <1>2, <2>1, WriteType
  <2> HIDE DEF f
  <2>3. QED
    BY <2>2 DEF Wrote
<1>4. nr \in 0 .. ROWS - 1
  BY <1>2, NextRow
<1>5. putchar(t, c) = IF t.col + 1 = COLS + 1
                      THEN [[f EXCEPT !.col = t.col + 1] EXCEPT !.row = nr, !.col = 0]
                      ELSE [f EXCEPT !.col = t.col + 1]
  <2>1. [f EXCEPT !.col = t.col + 1].col = t.col + 1
    BY <1>3 DEF Terminals
  <2>2. QED
    BY <1>1, <2>1 DEF putchar
<1> HIDE DEF f, nr
<1>6. CASE t.col < COLS
  <2>1. putchar(t, c) = [f EXCEPT !.col = t.col + 1] /\ t.col + 1 \in 0 .. COLS /\ t.col # COLS
    BY <1>2, <1>5, <1>6, Sizes
  <2>2. QED
    BY <1>3, <2>1 DEF Terminals
<1>7. CASE t.col = COLS
  <2>1. putchar(t, c) = [[f EXCEPT !.col = t.col + 1] EXCEPT !.row = nr, !.col = 0] /\ 0 \in 0 .. COLS
    BY <1>2, <1>5, <1>7, Sizes
  <2>2. QED
    <3>1. putchar(t, c) \in Terminals /\ putchar(t, c).row = nr /\ putchar(t, c).col = 0
      BY <1>3, <1>4, <2>1, Sizes DEF Terminals
    <3>2. putchar(t, c).screen = f.screen
      BY <1>3, <2>1 DEF Terminals
    <3>3. QED
      BY <1>3, <1>7, <3>1, <3>2, Sizes DEF nr
<1>8. QED
  BY <1>2, <1>6, <1>7, Sizes

(* A backspace takes the cursor back, and blanks the cell it comes to; at   *)
(* the beginning of a row it goes behind the row before, and blanks none.   *)
LEMMA BackspaceStep ==
  ASSUME NEW t \in Terminals, t.row \in 0 .. ROWS - 1
  PROVE  /\ putchar(t, Backspace) \in Terminals /\ putchar(t, Backspace).row \in 0 .. ROWS - 1
         /\ t.col > 0 =>
              /\ putchar(t, Backspace).row = t.row /\ putchar(t, Backspace).col = t.col - 1
              /\ \A i \in Cells : putchar(t, Backspace).screen[i] =
                                    IF i = t.row * COLS + (t.col - 1) THEN Blank ELSE t.screen[i]
         /\ t.col = 0 /\ t.row > 0 =>
              /\ putchar(t, Backspace).row = t.row - 1 /\ putchar(t, Backspace).col = COLS
              /\ putchar(t, Backspace).screen = t.screen
<1>1. t.row \in 0 .. ROWS - 1 \cup {UINT8 - 1} /\ t.row \in Nat /\ t.col \in 0 .. COLS /\ Blank \in Characters
  BY Sizes DEF Terminals, Characters
<1>2. CASE t.col > 0
  <2> DEFINE f == framebuffer_write(t, t.row, t.col - 1, Blank)
  <2>1. t.col - 1 \in Nat /\ t.col - 1 \in 0 .. COLS
    BY <1>1, <1>2, Sizes
  <2>2. /\ f \in Terminals /\ f.row = t.row /\ f.col = t.col
        /\ \A i \in Cells : f.screen[i] = IF i = t.row * COLS + (t.col - 1) THEN Blank ELSE t.screen[i]
    <3>1. Wrote(f, t, t.row * COLS + (t.col - 1), Blank)
      BY <1>1, <2>1, WriteType
    <3> HIDE DEF f
    <3>2. QED
      BY <3>1 DEF Wrote
  <2>3. putchar(t, Backspace) = [f EXCEPT !.col = t.col - 1]
    BY <1>2 DEF putchar
  <2> HIDE DEF f
  <2>4. QED
    BY <1>1, <1>2, <2>1, <2>2, <2>3 DEF Terminals
<1>3. CASE t.col = 0 /\ t.row > 0
  <2>1. putchar(t, Backspace) = [t EXCEPT !.row = t.row - 1, !.col = COLS]
    BY <1>3 DEF putchar
  <2>2. t.row - 1 \in 0 .. ROWS - 1
    BY <1>1, <1>3, Sizes
  <2>3. COLS \in 0 .. COLS
    BY Sizes
  <2>4. /\ putchar(t, Backspace) \in Terminals /\ putchar(t, Backspace).row = t.row - 1
        /\ putchar(t, Backspace).col = COLS /\ putchar(t, Backspace).screen = t.screen
    BY <2>1, <2>2, <2>3 DEF Terminals
  <2>5. QED
    BY <1>3, <2>2, <2>4
<1>4. CASE t.col = 0 /\ t.row = 0
  BY <1>4 DEF putchar
<1>5. QED
  BY <1>1, <1>2, <1>3, <1>4

(* puts repeats putchar.                                                    *)
Printed(f, t, c, count) ==
  /\ f \in [0 .. count -> Terminals]
  /\ f[0] = t /\ f[count] = puts(t, c, count)
  /\ \A i \in 1 .. count : f[i] = putchar(f[i - 1], c)

LEMMA PutsSteps ==
  ASSUME NEW t \in Terminals, NEW c \in Letters \cup {PromptChar}, NEW count \in Nat
  PROVE  \E f : Printed(f, t, c, count)
<1> DEFINE Steps(f) == f = [i \in 0 .. count |-> IF i = 0 THEN t ELSE putchar(f[i - 1], c)]
           put == [x \in Terminals |-> putchar(x, c)]
           shown == CHOOSE f : Steps(f)
<1>1. put \in [Terminals -> Terminals]
  BY CharacterStep
<1>2. PICK f \in [0 .. count -> Terminals] : f[0] = t /\ \A i \in 1 .. count : f[i] = put[f[i - 1]]
  <2> HIDE DEF put
  <2>1. \E f : Iterates(f, Terminals, put, t, count)
    BY <1>1, IterationExists
  <2>2. QED
    BY <2>1 DEF Iterates
<1>3. \A i \in 1 .. count : f[i] = putchar(f[i - 1], c)
  <2>1. \A i \in 1 .. count : i - 1 \in 0 .. count
    OBVIOUS
  <2>2. QED
    BY <1>2, <2>1
<1>4. Steps(f)
  <2>1. \A i \in 0 .. count : f[i] = IF i = 0 THEN t ELSE putchar(f[i - 1], c)
    BY <1>2, <1>3
  <2>2. QED
    BY <1>2, <2>1
<1>5. Steps(shown)
  <2> HIDE DEF Steps
  <2>1. QED
    BY <1>4
<1>6. shown = f
  <2> HIDE DEF shown
  <2>1. \A i \in 1 .. count : i \in 0 .. count /\ i # 0 /\ i - 1 \in 0 .. count
    OBVIOUS
  <2>2. shown[0] = t /\ \A i \in 1 .. count : shown[i] = putchar(shown[i - 1], c)
    BY <1>5, <2>1
  <2> DEFINE T == {i \in 0 .. count : shown[i] # f[i]}
  <2>3. T = {}
    <3> SUFFICES ASSUME T # {} PROVE FALSE
      OBVIOUS
    <3>1. PICK n \in T : \A m \in T : n <= m
      <4>1. T \in SUBSET Nat
        OBVIOUS
      <4> HIDE DEF T
      <4>2. QED
        BY <4>1, LeastNat
    <3>2. n \in 1 .. count /\ ~ (n - 1 \in T) /\ n - 1 \in 0 .. count
      BY <1>2, <2>2, <3>1
    <3>3. QED
      BY <1>3, <2>2, <3>1, <3>2
  <2>4. QED
    BY <1>2, <1>5, <2>3
<1>7. puts(t, c, count) = shown[count]
  BY DEF puts
<1>8. QED
  BY <1>2, <1>3, <1>6, <1>7 DEF Printed

(* Printing keeps the cursor on the screen.                                 *)
LEMMA PutsType ==
  ASSUME NEW t \in Terminals, NEW c \in Letters \cup {PromptChar}, NEW count \in Nat,
         t.row \in 0 .. ROWS - 1
  PROVE  puts(t, c, count) \in Terminals /\ puts(t, c, count).row \in 0 .. ROWS - 1
<1>1. PICK f \in [0 .. count -> Terminals] :
        /\ f[0] = t /\ f[count] = puts(t, c, count)
        /\ \A i \in 1 .. count : f[i] = putchar(f[i - 1], c)
  BY PutsSteps DEF Printed
<1> DEFINE T == {i \in 0 .. count : f[i].row \notin 0 .. ROWS - 1}
<1>2. T = {}
  <2> SUFFICES ASSUME T # {} PROVE FALSE
    OBVIOUS
  <2>1. PICK n \in T : \A m \in T : n <= m
    <3>1. T \in SUBSET Nat
      OBVIOUS
    <3> HIDE DEF T
    <3>2. QED
      BY <3>1, LeastNat
  <2>2. n \in 1 .. count /\ ~ (n - 1 \in T) /\ n - 1 \in 0 .. count
    BY <1>1, <2>1
  <2>3. f[n - 1] \in Terminals /\ f[n - 1].row \in 0 .. ROWS - 1 /\ f[n] = putchar(f[n - 1], c)
    BY <1>1, <2>2
  <2>4. putchar(f[n - 1], c).row \in 0 .. ROWS - 1
    <3> DEFINE x == f[n - 1]
    <3>1. x \in Terminals /\ x.row \in 0 .. ROWS - 1
      BY <2>3
    <3> HIDE DEF x
    <3>2. x.col \in 0 .. COLS /\ (x.col < COLS \/ x.col = COLS)
      BY <3>1, Sizes DEF Terminals
    <3>3. ((x.row + 1) % UINT8) % ROWS \in 0 .. ROWS - 1
      BY <3>1, NextRow
    <3>4. putchar(x, c).row \in 0 .. ROWS - 1
      BY <3>1, <3>2, <3>3, CharacterStep
    <3>5. QED
      BY <3>4 DEF x
  <2>5. QED
    BY <2>1, <2>3, <2>4
<1>3. count \in 0 .. count
  OBVIOUS
<1>4. QED
  BY <1>1, <1>2, <1>3

-----------------------------------------------------------------------------
(* The line                                                                 *)

AtPlace(t, b, k) == t.row = RowAt(b, k) /\ t.col = k % Width

(* The first n characters of the line that have a cell stand as before. *)
KeepsLine(t, w, b, n) ==
  \A j \in 0 .. n - 1 : j % Width # COLS => w.screen[CellAt(b, j)] = t.screen[CellAt(b, j)]

(* Writing at the end of a line leaves the line as it is.                   *)
LEMMA EndOfLine ==
  ASSUME NEW t, NEW w, NEW b \in Nat, NEW k \in Nat, NEW c,
         RowAt(b, k) < ROWS,
         \A i \in Cells : w.screen[i] = IF i = CellAt(b, k) THEN c ELSE t.screen[i]
  PROVE  KeepsLine(t, w, b, k)
<1> SUFFICES ASSUME NEW j \in 0 .. k - 1, j % Width # COLS
             PROVE  w.screen[CellAt(b, j)] = t.screen[CellAt(b, j)]
  BY DEF KeepsLine
<1>1. j \in Nat /\ j < k
  OBVIOUS
<1>2. CellAt(b, j) < CellAt(b, k)
  BY <1>1, CellsInOrder
<1>3. RowAt(b, j) < ROWS
  <2>1. j \div Width \in Nat /\ k \div Width \in Nat /\ j \div Width <= k \div Width
    <3>1. Width \in Nat \ {0}
      BY Sizes
    <3>2. j \div Width \in Nat /\ k \div Width \in Nat
      BY <1>1, <3>1, DivMod
    <3>3. j \div Width < k \div Width \/ j \div Width = k \div Width
      BY <1>1, <3>1, DivMonotone
    <3>4. QED
      BY <3>2, <3>3
  <2>2. QED
    BY <2>1, Sizes DEF RowAt
<1>4. CellAt(b, j) \in Cells
  BY <1>1, <1>3, CellOnScreen
<1>5. CellAt(b, j) # CellAt(b, k)
  <2>1. \A x : x \in Cells => x \in Int
    BY DEF Cells
  <2>2. QED
    BY <1>2, <1>4, <2>1
<1>6. QED
  BY <1>4, <1>5

(* A character is added to the line.                                        *)
LEMMA LineGrows ==
  ASSUME NEW t \in Terminals, NEW b \in Nat, NEW k \in Nat, NEW c \in Letters \cup {PromptChar},
         AtPlace(t, b, k), RowAt(b, k + 1) < ROWS
  PROVE  /\ AtPlace(putchar(t, c), b, k + 1) /\ KeepsLine(t, putchar(t, c), b, k)
         /\ k % Width # COLS => putchar(t, c).screen[CellAt(b, k)] = c
<1>1. Width \in Nat \ {0} /\ Width - 1 = COLS /\ COLS \in Nat /\ ROWS \in Nat
  BY Sizes
<1>2. /\ k \div Width \in Nat /\ k % Width \in 0 .. COLS
      /\ (k + 1) \div Width = IF k % Width = COLS THEN k \div Width + 1 ELSE k \div Width
      /\ (k + 1) % Width = IF k % Width = COLS THEN 0 ELSE (k % Width) + 1
  BY <1>1, DivMod, DivModUp
<1>3. /\ RowAt(b, k) \in Nat /\ RowAt(b, k) < ROWS
      /\ RowAt(b, k + 1) = IF k % Width = COLS THEN RowAt(b, k) + 1 ELSE RowAt(b, k)
  BY <1>1, <1>2 DEF RowAt
<1>4. t.row = RowAt(b, k) /\ t.col = k % Width /\ t.row * COLS + t.col = CellAt(b, k)
  BY DEF AtPlace, CellAt
<1>5. AtPlace(putchar(t, c), b, k + 1)
  <2>1. CASE k % Width = COLS
    <3>1. putchar(t, c).row = ((t.row + 1) % UINT8) % ROWS /\ putchar(t, c).col = 0
      BY <1>4, <2>1, CharacterStep
    <3>2. t.row \in 0 .. ROWS - 1 \cup {UINT8 - 1} /\ t.row + 1 < ROWS
      BY <1>1, <1>3, <1>4, <2>1
    <3>3. ((t.row + 1) % UINT8) % ROWS = t.row + 1
      BY <3>2, NextRow
    <3>4. QED
      BY <1>2, <1>3, <1>4, <2>1, <3>1, <3>3 DEF AtPlace
  <2>2. CASE k % Width # COLS
    <3>1. t.col < COLS
      BY <1>1, <1>2, <1>4, <2>2
    <3>2. putchar(t, c).row = t.row /\ putchar(t, c).col = t.col + 1
      BY <3>1, CharacterStep
    <3>3. QED
      BY <1>2, <1>3, <1>4, <2>2, <3>2 DEF AtPlace
  <2>3. QED
    BY <2>1, <2>2
<1>6. \A i \in Cells : putchar(t, c).screen[i] = IF i = CellAt(b, k) THEN c ELSE t.screen[i]
  BY <1>4, CharacterStep
<1>7. KeepsLine(t, putchar(t, c), b, k)
  BY <1>3, <1>6, EndOfLine
<1>8. k % Width # COLS => CellAt(b, k) \in Cells
  BY <1>3, CellOnScreen
<1>9. QED
  BY <1>5, <1>6, <1>7, <1>8

(* A character is taken from the line.                                      *)
LEMMA LineShrinks ==
  ASSUME NEW t \in Terminals, NEW b \in Nat, NEW k \in Nat,
         AtPlace(t, b, k + 1), RowAt(b, k + 1) < ROWS
  PROVE  AtPlace(putchar(t, Backspace), b, k) /\ KeepsLine(t, putchar(t, Backspace), b, k)
<1>1. Width \in Nat \ {0} /\ Width - 1 = COLS /\ COLS \in Nat /\ ROWS \in Nat
  BY Sizes
<1>2. /\ k \div Width \in Nat /\ k % Width \in 0 .. COLS
      /\ (k + 1) \div Width = IF k % Width = COLS THEN k \div Width + 1 ELSE k \div Width
      /\ (k + 1) % Width = IF k % Width = COLS THEN 0 ELSE (k % Width) + 1
  BY <1>1, DivMod, DivModUp
<1>3. /\ RowAt(b, k) \in Nat /\ RowAt(b, k) < ROWS
      /\ RowAt(b, k + 1) = IF k % Width = COLS THEN RowAt(b, k) + 1 ELSE RowAt(b, k)
  BY <1>1, <1>2 DEF RowAt
<1>4. t.row = RowAt(b, k + 1) /\ t.col = (k + 1) % Width
  BY DEF AtPlace
<1>5. t.row \in 0 .. ROWS - 1
  BY <1>1, <1>3, <1>4
<1>6. CASE k % Width = COLS
  <2>1. t.col = 0 /\ t.row > 0
    BY <1>2, <1>3, <1>4, <1>6
  <2>2. /\ putchar(t, Backspace).row = t.row - 1 /\ putchar(t, Backspace).col = COLS
        /\ putchar(t, Backspace).screen = t.screen
    BY <1>5, <2>1, BackspaceStep
  <2>3. QED
    BY <1>3, <1>4, <1>6, <2>2 DEF AtPlace, KeepsLine
<1>7. CASE k % Width # COLS
  <2>1. t.col > 0 /\ t.col - 1 = k % Width /\ t.row = RowAt(b, k)
    BY <1>2, <1>3, <1>4, <1>7
  <2>2. t.row * COLS + (t.col - 1) = CellAt(b, k)
    BY <2>1 DEF CellAt
  <2>3. /\ putchar(t, Backspace).row = t.row /\ putchar(t, Backspace).col = t.col - 1
        /\ \A i \in Cells : putchar(t, Backspace).screen[i] =
                              IF i = CellAt(b, k) THEN Blank ELSE t.screen[i]
    BY <1>5, <2>1, <2>2, BackspaceStep
  <2>4. KeepsLine(t, putchar(t, Backspace), b, k)
    BY <1>3, <2>3, EndOfLine
  <2>5. QED
    BY <2>1, <2>3, <2>4 DEF AtPlace
<1>8. QED
  BY <1>6, <1>7

LEMMA RowsInOrder ==
  ASSUME NEW b \in Nat, NEW j \in Nat, NEW k \in Nat, j <= k
  PROVE  RowAt(b, j) \in Nat /\ RowAt(b, k) \in Nat /\ RowAt(b, j) <= RowAt(b, k)
<1>1. Width \in Nat \ {0}
  BY Sizes
<1>2. j \div Width \in Nat /\ k \div Width \in Nat
  BY <1>1, DivMod
<1>3. CASE j = k
  BY <1>2, <1>3 DEF RowAt
<1>4. CASE j < k
  <2>1. j \div Width < k \div Width \/ j \div Width = k \div Width
    BY <1>1, <1>4, DivMonotone
  <2>2. QED
    BY <1>2, <2>1 DEF RowAt
<1>5. QED
  BY <1>3, <1>4

(* The prompt, printed from the beginning of a row.                         *)
LEMMA PromptPrinted ==
  ASSUME NEW length \in Nat, NEW t \in Terminals, t.row \in 0 .. ROWS - 1, t.col = 0,
         RowAt(t.row, length) < ROWS,
         NEW w, w = puts(t, PromptChar, length)
  PROVE  /\ AtPlace(w, t.row, length)
         /\ \A j \in 0 .. length - 1 : j % Width # COLS => w.screen[CellAt(t.row, j)] = PromptChar
<1> DEFINE b == t.row
           On(x, n) == /\ AtPlace(x, b, n)
                       /\ \A j \in 0 .. n - 1 : j % Width # COLS => x.screen[CellAt(b, j)] = PromptChar
<1>1. b \in Nat /\ length \in Nat /\ Width \in Nat \ {0} /\ PromptChar \in Letters \cup {PromptChar}
  BY Sizes
<1>2. PICK f \in [0 .. length -> Terminals] :
        /\ f[0] = t /\ f[length] = w
        /\ \A i \in 1 .. length : f[i] = putchar(f[i - 1], PromptChar)
  <2>1. \E f : Printed(f, t, PromptChar, length)
    BY <1>1, PutsSteps
  <2>2. QED
    BY <2>1 DEF Printed
<1> DEFINE T == {i \in 0 .. length : ~ On(f[i], i)}
<1>3. T = {}
  <2> SUFFICES ASSUME T # {} PROVE FALSE
    OBVIOUS
  <2>1. PICK n \in T : \A m \in T : n <= m
    <3>1. T \in SUBSET Nat
      OBVIOUS
    <3> HIDE DEF T
    <3>2. QED
      BY <3>1, LeastNat
  <2>2. n \in 0 .. length /\ ~ On(f[n], n)
    BY <2>1
  <2>3. n # 0
    <3>1. 0 \div Width = 0 /\ 0 % Width = 0
      BY <1>1
    <3>2. On(t, 0)
      BY <1>1, <3>1 DEF AtPlace, RowAt
    <3>3. QED
      BY <1>2, <2>2, <3>2
  <2>4. n - 1 \in 0 .. length /\ n \in 1 .. length /\ n - 1 \in Nat /\ ~ (n <= n - 1)
    BY <1>1, <2>2, <2>3
  <2>5. ~ (n - 1 \in T)
    <3> HIDE DEF T
    <3>1. QED
      BY <2>1, <2>4
  <2>6. On(f[n - 1], n - 1)
    BY <2>4, <2>5
  <2>7. f[n] = putchar(f[n - 1], PromptChar) /\ f[n - 1] \in Terminals
    BY <1>2, <2>4
  <2> DEFINE x == f[n - 1]
             k == n - 1
  <2>8. k \in Nat /\ k + 1 = n /\ x \in Terminals /\ AtPlace(x, b, k) /\ RowAt(b, k + 1) < ROWS
    <3>1. RowAt(b, n) <= RowAt(b, length) /\ RowAt(b, n) \in Nat /\ RowAt(b, length) \in Nat
      <4>1. n \in Nat /\ n <= length
        BY <1>1, <2>2
      <4> HIDE DEF b
      <4>2. QED
        BY <1>1, <4>1, RowsInOrder
    <3>2. RowAt(b, n) < ROWS
      BY <3>1, Sizes
    <3>3. QED
      BY <2>4, <2>6, <2>7, <3>2
  <2>9. /\ AtPlace(putchar(x, PromptChar), b, k + 1) /\ KeepsLine(x, putchar(x, PromptChar), b, k)
        /\ k % Width # COLS => putchar(x, PromptChar).screen[CellAt(b, k)] = PromptChar
    <3> HIDE DEF x, k, b
    <3>1. QED
      BY <1>1, <2>8, LineGrows
  <2>10. On(f[n], n)
    <3>1. ASSUME NEW j \in 0 .. n - 1, j % Width # COLS
          PROVE  f[n].screen[CellAt(b, j)] = PromptChar
      <4>1. CASE j = k
        BY <2>7, <2>9, <3>1, <4>1
      <4>2. CASE j # k
        <5>1. j \in 0 .. k - 1
          BY <2>4, <4>2
        <5>2. putchar(x, PromptChar).screen[CellAt(b, j)] = x.screen[CellAt(b, j)]
          BY <2>9, <3>1, <5>1 DEF KeepsLine
        <5>3. QED
          BY <2>6, <2>7, <3>1, <5>1, <5>2
      <4>3. QED
        BY <4>1, <4>2
    <3>2. AtPlace(f[n], b, n)
      BY <2>7, <2>8, <2>9
    <3>3. QED
      BY <3>1, <3>2
  <2>11. QED
    BY <2>2, <2>10
<1>4. length \in 0 .. length
  BY <1>1
<1>5. On(w, length)
  BY <1>2, <1>3, <1>4
<1>6. QED
  BY <1>5

-----------------------------------------------------------------------------
(* The inductive invariant                                                  *)

LEMMA TtyType == TypeOK => tty \in Terminals
BY DEF TypeOK, Terminals, Characters

(* A prompt has a length, and not 0 once one is printed.                    *)
LEMMA PromptType ==
  ASSUME TypeOK
  PROVE  /\ prompt_length \in Nat /\ template_length \in Nat
         /\ DeviceInv /\ pc \notin {"start", "prompt"} => prompt_length \in Nat \ {0}
BY Sizes DEF TypeOK, DeviceInv

LineStands(n) ==
  /\ AtPlace(tty, start_row, n)
  /\ \A k \in 0 .. n - 1 :
       k % Width # COLS /\ CellAt(start_row, k) \notin ClockCells \cup BannerCells =>
         tty.screen[CellAt(start_row, k)] = LineCharacter(k)

LEMMA InPlaceIs == \A n : InPlace(n) <=> LineStands(n)
BY DEF InPlace, LineStands, AtPlace, LineRow, LineColumn, LineCell, RowAt, CellAt, Width

LEMMA FitsIs == LineFits <=> RowAt(start_row, prompt_length + MAX_CMD_LENGTH) < ROWS
BY DEF LineFits, LineRow, RowAt, Width

(* The line stays while the screen and the command do.                      *)
LEMMA SameLine ==
  ASSUME UNCHANGED <<tty, prompt_length, start_row, cmd_buffer>>
  PROVE  /\ \A n : InPlace(n)' <=> InPlace(n)
         /\ LineFits' <=> LineFits
<1>1. tty' = tty /\ prompt_length' = prompt_length /\ start_row' = start_row /\ cmd_buffer' = cmd_buffer
  OBVIOUS
<1>2. QED
  BY <1>1 DEF InPlace, LineFits, LineRow, LineColumn, LineCell, LineCharacter

LEMMA PressKeyInv == ASSUME TerminalInv, NEW key \in Keys, PressKey(key) PROVE TerminalInv'
<1> USE DEF TerminalInv
<1>1. /\ kbd' = Append(kbd, key) /\ Len(kbd) < MaxQueue /\ raised' = (raised \/ kbd = <<>>)
      /\ UNCHANGED <<in_service, input_on, keyboard_buffer, template_length, tty, pc, buf, cmd_buffer,
                     cur_cmd_length, prompt_length,
                     start_row>>
  BY DEF PressKey, promptVars, driverVars, shellVars
<1>2. TypeOK'
  <2>1. kbd' \in Seq(Keys) /\ Len(kbd') <= MaxQueue /\ raised' \in BOOLEAN
    BY <1>1, TerminalAssumption DEF TypeOK
  <2>2. QED
    BY <1>1, <2>1 DEF TypeOK
<1>3. DeviceInv'
  <2>1. kbd' # <<>>
    BY <1>1 DEF TypeOK
  <2>2. QED
    BY <1>1, <2>1 DEF DeviceInv
<1>4. CursorInv' /\ CommandInv' /\ BackspaceInv' /\ OverrunInv'
  BY <1>1 DEF CursorInv, CommandInv, BackspaceInv, OverrunInv, Erasable, Overrun, EmptyCommand
<1>5. LineInv'
  BY <1>1, SameLine DEF LineInv, LineShown, Overrun
<1>6. QED
  BY <1>2, <1>3, <1>4, <1>5

LEMMA KeyboardInv == ASSUME TerminalInv, keyboard_isr PROVE TerminalInv'
<1> USE DEF TerminalInv
<1>1. /\ raised /\ ~in_service
      /\ UNCHANGED <<input_on, template_length, tty, pc, buf, cmd_buffer, cur_cmd_length, prompt_length,
                     start_row>>
  BY DEF keyboard_isr, promptVars, shellVars
<1>2. /\ kbd' \in Seq(Keys) /\ Len(kbd') <= MaxQueue
      /\ raised' \in BOOLEAN /\ in_service' \in BOOLEAN /\ keyboard_buffer' \in Keys
      /\ raised' => kbd' # <<>>
      /\ keyboard_buffer' = Backspace => keyboard_buffer = Backspace \/ tty.col > template_length
  <2>1. kbd # <<>> /\ kbd \in Seq(Keys) /\ Len(kbd) <= MaxQueue /\ keyboard_buffer \in Keys
    BY <1>1 DEF TypeOK, DeviceInv
  <2>2. CASE input_on
    <3>1. /\ kbd' = Tail(kbd) /\ in_service' = FALSE /\ raised' = (kbd' # <<>>)
          /\ keyboard_buffer' = IF Head(kbd) = NUL \/ (Head(kbd) = Backspace /\ tty.col <= template_length)
                                THEN keyboard_buffer ELSE Head(kbd)
      BY <2>2 DEF keyboard_isr, pic_ack
    <3>2. Head(kbd) \in Keys /\ Tail(kbd) \in Seq(Keys) /\ Len(Tail(kbd)) <= MaxQueue
      BY <2>1, TerminalAssumption
    <3>3. tty.col \in 0 .. COLS /\ template_length \in Nat
      BY PromptType DEF TypeOK
    <3>4. ~ (tty.col <= template_length) => tty.col > template_length
      BY <3>3, Sizes
    <3>5. QED
      BY <2>1, <3>1, <3>2, <3>4
  <2>3. CASE ~input_on
    BY <2>1, <2>3 DEF keyboard_isr
  <2>4. QED
    BY <2>2, <2>3
<1>3. TypeOK'
  BY <1>1, <1>2 DEF TypeOK
<1>4. DeviceInv' /\ CursorInv' /\ CommandInv' /\ OverrunInv'
  BY <1>1, <1>2 DEF DeviceInv, CursorInv, CommandInv, OverrunInv, Overrun, EmptyCommand
<1>5. BackspaceInv'
  <2>1. pc \in {"read", "handle"} /\ keyboard_buffer' = Backspace =>
          keyboard_buffer = Backspace \/ (tty.col > prompt_length /\ tty.col >= prompt_length)
    <3>1. tty.col \in 0 .. COLS /\ prompt_length \in Nat
      BY PromptType DEF TypeOK
    <3>2. tty.col > prompt_length => tty.col >= prompt_length
      BY <3>1, Sizes
    <3>3. QED
      BY <1>2, <3>2 DEF DeviceInv
  <2>2. QED
    BY <1>1, <2>1 DEF BackspaceInv, Erasable, Overrun
<1>6. LineInv'
  BY <1>1, SameLine DEF LineInv, LineShown, Overrun
<1>7. QED
  BY <1>3, <1>4, <1>5, <1>6

LEMMA ActivateInv == ASSUME TerminalInv, Activate PROVE TerminalInv'
<1> USE DEF TerminalInv
<1>1. /\ pc = "start" /\ pc' = "prompt" /\ tty' = [tty EXCEPT !.row = 0, !.col = 0]
      /\ input_on' = TRUE /\ keyboard_buffer' = NUL /\ template_length' = 0
      /\ UNCHANGED <<kbd, raised, in_service, buf, cmd_buffer, cur_cmd_length, prompt_length,
                     start_row>>
  BY DEF Activate, promptVars, deviceVars
<1>2. tty' \in Terminals /\ tty'.row = 0 /\ tty'.col = 0
  <2>1. tty \in Terminals /\ 0 \in 0 .. COLS /\ 0 \in 0 .. ROWS - 1
    BY TtyType, Sizes
  <2>2. QED
    BY <1>1, <2>1 DEF Terminals
<1>3. TypeOK'
  <2>1. NUL \in Keys
    BY DEF Keys
  <2>2. QED
    BY <1>1, <1>2, <2>1 DEF TypeOK, Terminals, Characters
<1>4. DeviceInv' /\ CursorInv' /\ CommandInv' /\ BackspaceInv' /\ OverrunInv'
  BY <1>1, <1>2, Sizes DEF DeviceInv, CursorInv, CommandInv, BackspaceInv, OverrunInv, EmptyCommand
<1>5. LineInv'
  BY <1>1 DEF LineInv, LineShown
<1>6. QED
  BY <1>3, <1>4, <1>5

LEMMA PromptInv == ASSUME TerminalInv, PrintPrompt PROVE TerminalInv'
<1> USE DEF TerminalInv
<1> DEFINE length == prompt_length'
<1>1. /\ pc = "prompt" /\ pc' = "template" /\ tty' = puts(tty, PromptChar, length) /\ start_row' = tty.row
      /\ length \in PromptLengths
      /\ UNCHANGED <<kbd, raised, in_service, input_on, keyboard_buffer, template_length, buf, cmd_buffer,
                     cur_cmd_length>>
  BY DEF PrintPrompt, deviceVars, driverVars
<1>2. /\ tty \in Terminals /\ tty.row \in 0 .. ROWS - 1 /\ tty.col = 0
      /\ length \in Nat \ {0}
  BY <1>1, TtyType, Sizes DEF CursorInv
<1>3. tty' \in Terminals /\ tty'.row \in 0 .. ROWS - 1
  <2> HIDE DEF length
  <2>1. length \in Nat /\ PromptChar \in Letters \cup {PromptChar}
    BY <1>2
  <2>2. QED
    BY <1>1, <1>2, <2>1, PutsType
<1>4. TypeOK'
  BY <1>1, <1>2, <1>3 DEF TypeOK, Terminals, Characters
<1>5. DeviceInv' /\ CursorInv' /\ CommandInv' /\ BackspaceInv' /\ OverrunInv'
  BY <1>1, <1>2, <1>3 DEF DeviceInv, CursorInv, CommandInv, BackspaceInv, OverrunInv, EmptyCommand
<1>6. LineInv'
  <2> SUFFICES ASSUME LineFits' PROVE InPlace(prompt_length)'
    BY <1>1 DEF LineInv, LineShown
  <2>1. RowAt(tty.row, length + MAX_CMD_LENGTH) < ROWS
    BY <1>1 DEF LineFits, LineRow, RowAt, Width
  <2>2. RowAt(tty.row, length) < ROWS
    <3> HIDE DEF length
    <3>1. /\ length \in Nat /\ length + MAX_CMD_LENGTH \in Nat /\ ROWS \in Nat
          /\ length <= length + MAX_CMD_LENGTH /\ tty.row \in Nat
      BY <1>2, Sizes
    <3>2. /\ RowAt(tty.row, length) <= RowAt(tty.row, length + MAX_CMD_LENGTH)
          /\ RowAt(tty.row, length) \in Nat /\ RowAt(tty.row, length + MAX_CMD_LENGTH) \in Nat
      BY <3>1, RowsInOrder
    <3>3. QED
      BY <2>1, <3>1, <3>2
  <2>3. /\ AtPlace(tty', start_row', length)
        /\ \A j \in 0 .. length - 1 :
             j % Width # COLS => tty'.screen[CellAt(start_row', j)] = PromptChar
    <3> HIDE DEF length
    <3>1. QED
      BY <1>1, <1>2, <2>2, PromptPrinted
  <2>4. \A k \in 0 .. length - 1 : k < length
    <3> HIDE DEF length
    <3>1. QED
      BY <1>2
  <2>5. QED
    BY <2>3, <2>4 DEF InPlace, AtPlace, LineRow, LineColumn, LineCell, RowAt, CellAt, Width, LineCharacter
<1>7. QED
  BY <1>4, <1>5, <1>6

LEMMA SetTemplateInv == ASSUME TerminalInv, SetTemplate PROVE TerminalInv'
<1> USE DEF TerminalInv
<1>1. /\ pc = "template" /\ pc' = "read" /\ template_length' = prompt_length
      /\ UNCHANGED <<kbd, raised, in_service, input_on, keyboard_buffer, tty, buf, cmd_buffer,
                     cur_cmd_length, prompt_length,
                     start_row>>
  BY DEF SetTemplate, promptVars, deviceVars
<1>2. cur_cmd_length = 0 /\ cmd_buffer = EmptyCommand /\ ~ (0 > MAX_CMD_LENGTH)
  BY <1>1, Sizes DEF CommandInv
<1>3. TypeOK'
  <2>1. template_length' \in {0} \cup PromptLengths
    BY <1>1 DEF TypeOK
  <2>2. QED
    BY <1>1, <2>1 DEF TypeOK
<1>4. DeviceInv' /\ CursorInv' /\ BackspaceInv' /\ OverrunInv'
  BY <1>1, <1>2, Sizes DEF DeviceInv, CursorInv, BackspaceInv, OverrunInv, Overrun
<1>5. CommandInv'
  <2>1. \A i \in 0 .. MAX_CMD_LENGTH - 1 : cmd_buffer[i] = NUL /\ ~ (i < 0)
    BY <1>2, Sizes DEF EmptyCommand
  <2>2. QED
    BY <1>1, <1>2, <2>1 DEF CommandInv
<1>6. LineInv'
  <2>1. prompt_length + 0 = prompt_length
    BY PromptType
  <2>2. LineFits => InPlace(prompt_length + cur_cmd_length)
    BY <1>1, <1>2, <2>1 DEF LineInv
  <2>3. LineFits' => InPlace(prompt_length + cur_cmd_length)'
    BY <1>1, <2>2, SameLine
  <2>4. QED
    BY <1>1, <2>3 DEF LineInv, LineShown
<1>7. QED
  BY <1>3, <1>4, <1>5, <1>6

LEMMA ReadKeyInv == ASSUME TerminalInv, ReadKey PROVE TerminalInv'
<1> USE DEF TerminalInv
<1>1. /\ pc = "read" /\ buf' = keyboard_buffer /\ keyboard_buffer' = NUL
      /\ pc' = IF buf' = NUL THEN "read" ELSE "handle"
      /\ UNCHANGED <<kbd, raised, in_service, input_on, template_length, tty, cmd_buffer,
                     cur_cmd_length, prompt_length,
                     start_row>>
  BY DEF ReadKey, promptVars, deviceVars
<1>2. TypeOK'
  <2>1. NUL \in Keys
    BY DEF Keys
  <2>2. QED
    BY <1>1, <2>1 DEF TypeOK
<1>3. DeviceInv' /\ CursorInv' /\ CommandInv' /\ OverrunInv'
  BY <1>1 DEF DeviceInv, CursorInv, CommandInv, OverrunInv, Overrun
<1>4. BackspaceInv'
  <2>1. NUL # Backspace
    BY DEF NUL, Backspace
  <2>2. QED
    BY <1>1, <2>1 DEF BackspaceInv, Erasable, Overrun
<1>5. LineInv'
  <2>1. ~Overrun /\ LineFits => InPlace(prompt_length + cur_cmd_length)
    BY <1>1 DEF LineInv, LineShown
  <2>2. ~Overrun' /\ LineFits' => InPlace(prompt_length + cur_cmd_length)'
    BY <1>1, <2>1, SameLine DEF Overrun
  <2>3. QED
    BY <1>1, <2>2 DEF LineInv, LineShown
<1>6. QED
  BY <1>2, <1>3, <1>4, <1>5

LEMMA NewlineInv == ASSUME TerminalInv, HandleNewline PROVE TerminalInv'
<1> USE DEF TerminalInv
<1>1. /\ pc = "handle" /\ pc' = "execute" /\ tty' = putchar(tty, Newline)
      /\ UNCHANGED <<kbd, raised, in_service, input_on, keyboard_buffer, template_length, buf, cmd_buffer,
                     cur_cmd_length, prompt_length,
                     start_row>>
  BY DEF HandleNewline, promptVars, deviceVars, driverVars
<1>2. tty' \in Terminals /\ tty'.row \in 0 .. ROWS - 1
  BY <1>1, TtyType, NewlineStep
<1>3. TypeOK'
  BY <1>1, <1>2 DEF TypeOK, Terminals, Characters
<1>4. DeviceInv' /\ CursorInv' /\ CommandInv' /\ BackspaceInv' /\ OverrunInv' /\ LineInv'
  BY <1>1, <1>2 DEF DeviceInv, CursorInv, CommandInv, BackspaceInv, OverrunInv, LineInv, LineShown
<1>5. QED
  BY <1>3, <1>4

(* The rows of a line that fits are on the screen.                          *)
LEMMA RowsFit ==
  ASSUME TypeOK, LineFits
  PROVE  start_row \in Nat /\ \A n \in 0 .. prompt_length + MAX_CMD_LENGTH : RowAt(start_row, n) < ROWS
<1>1. start_row \in Nat /\ prompt_length + MAX_CMD_LENGTH \in Nat /\ ROWS \in Nat
  BY Sizes, PromptType DEF TypeOK
<1>2. ASSUME NEW n \in 0 .. prompt_length + MAX_CMD_LENGTH PROVE RowAt(start_row, n) < ROWS
  <2>1. n \in Nat /\ n <= prompt_length + MAX_CMD_LENGTH
    BY <1>1
  <2>2. /\ RowAt(start_row, n) \in Nat /\ RowAt(start_row, prompt_length + MAX_CMD_LENGTH) \in Nat
        /\ RowAt(start_row, n) <= RowAt(start_row, prompt_length + MAX_CMD_LENGTH)
    BY <1>1, <2>1, RowsInOrder
  <2>3. QED
    BY <1>1, <2>2, FitsIs
<1>3. QED
  BY <1>1, <1>2

(* What the shell knows of the line while it handles a character.           *)
LEMMA LineBefore ==
  ASSUME TerminalInv, pc = "handle", ~Overrun, LineFits
  PROVE  /\ LineStands(prompt_length + cur_cmd_length)
         /\ start_row \in Nat /\ prompt_length + cur_cmd_length \in Nat
         /\ \A n \in 0 .. prompt_length + MAX_CMD_LENGTH : RowAt(start_row, n) < ROWS
<1>1. prompt_length + cur_cmd_length \in Nat
  BY Sizes, PromptType DEF TerminalInv, TypeOK
<1>2. InPlace(prompt_length + cur_cmd_length)
  BY DEF TerminalInv, LineInv, LineShown
<1>3. QED
  BY <1>1, <1>2, InPlaceIs, RowsFit DEF TerminalInv

LEMMA CharacterInv == ASSUME TerminalInv, HandleCharacter PROVE TerminalInv'
<1> USE DEF TerminalInv
<1>1. /\ pc = "handle" /\ pc' = "read" /\ buf \in Letters
      /\ UNCHANGED <<kbd, raised, in_service, input_on, keyboard_buffer, template_length, buf,
                     prompt_length, start_row>>
  BY DEF HandleCharacter, promptVars, deviceVars, driverVars
<1>2. /\ tty \in Terminals /\ tty.row \in 0 .. ROWS - 1 /\ tty.col \in 0 .. COLS
      /\ cur_cmd_length \in Nat /\ COLS \in Nat /\ MAX_CMD_LENGTH \in Nat \ {0}
      /\ prompt_length \in Nat \ {0}
  BY <1>1, TtyType, Sizes, PromptType DEF CursorInv, TypeOK
<1>3. keyboard_buffer = Backspace => tty.col > prompt_length
  BY <1>1 DEF BackspaceInv
<1>4. DeviceInv'
  BY <1>1 DEF DeviceInv
<1>5. CASE cur_cmd_length >= MAX_CMD_LENGTH
  <2>1. UNCHANGED <<tty, cmd_buffer, cur_cmd_length>>
    BY <1>5 DEF HandleCharacter
  <2>2. TypeOK' /\ CursorInv' /\ CommandInv' /\ OverrunInv'
    BY <1>1, <2>1 DEF TypeOK, CursorInv, CommandInv, OverrunInv, Overrun
  <2>3. BackspaceInv'
    <3>1. tty.col > prompt_length => tty.col >= prompt_length
      BY <1>2
    <3>2. QED
      BY <1>1, <1>3, <2>1, <3>1 DEF BackspaceInv, Erasable
  <2>4. LineInv'
    <3>1. ~Overrun' /\ LineFits' => InPlace(prompt_length + cur_cmd_length)'
      BY <1>1, <2>1, SameLine DEF LineInv, LineShown, Overrun
    <3>2. QED
      BY <1>1, <3>1 DEF LineInv, LineShown
  <2>5. QED
    BY <1>4, <2>2, <2>3, <2>4
<1>6. CASE ~ (cur_cmd_length >= MAX_CMD_LENGTH)
  <2>1. /\ tty' = putchar(tty, buf) /\ cmd_buffer' = [cmd_buffer EXCEPT ![cur_cmd_length] = buf]
        /\ cur_cmd_length' = cur_cmd_length + 1
    BY <1>6 DEF HandleCharacter
  <2>2. cur_cmd_length \in 0 .. MAX_CMD_LENGTH - 1 /\ ~Overrun /\ ~Overrun' /\ buf # NUL
    <3>1. cur_cmd_length \in 0 .. MAX_CMD_LENGTH - 1 /\ ~ (cur_cmd_length + 1 > MAX_CMD_LENGTH)
          /\ ~ (cur_cmd_length > MAX_CMD_LENGTH)
      BY <1>2, <1>6
    <3>2. QED
      BY <1>1, <2>1, <3>1 DEF Overrun, CommandInv
  <2>3. /\ tty' \in Terminals
        /\ tty.col < COLS => tty'.row = tty.row /\ tty'.col = tty.col + 1
        /\ tty.col = COLS => tty'.row = ((tty.row + 1) % UINT8) % ROWS /\ tty'.col = 0
    BY <1>1, <1>2, <2>1, CharacterStep
  <2>4. tty'.row \in 0 .. ROWS - 1
    BY <1>2, <2>3, NextRow
  <2>5. TypeOK'
    <3>1. cmd_buffer' \in [0 .. MAX_CMD_LENGTH - 1 -> Letters \cup {NUL}]
      BY <1>1, <2>1 DEF TypeOK
    <3>2. cur_cmd_length' \in 0 .. UINT8 - 1
      BY <1>2, <2>1, <2>2, Sizes
    <3>3. QED
      BY <1>1, <2>3, <3>1, <3>2 DEF TypeOK, Terminals, Characters
  <2>6. CursorInv'
    BY <1>1, <2>4 DEF CursorInv
  <2>7. CommandInv'
    <3>1. ASSUME NEW i \in 0 .. MAX_CMD_LENGTH - 1
          PROVE  /\ i < cur_cmd_length' => cmd_buffer'[i] # NUL
                 /\ i > cur_cmd_length' => cmd_buffer'[i] = NUL
      <4>1. /\ i < cur_cmd_length => cmd_buffer[i] # NUL
            /\ i > cur_cmd_length => cmd_buffer[i] = NUL
        BY <1>1 DEF CommandInv
      <4>2. cmd_buffer'[i] = IF i = cur_cmd_length THEN buf ELSE cmd_buffer[i]
        BY <2>1 DEF TypeOK
      <4>3. /\ i < cur_cmd_length + 1 => i < cur_cmd_length \/ i = cur_cmd_length
            /\ i > cur_cmd_length + 1 => i > cur_cmd_length /\ i # cur_cmd_length
        BY <1>2
      <4>4. QED
        BY <2>1, <2>2, <4>1, <4>2, <4>3
    <3>2. QED
      BY <1>1, <3>1 DEF CommandInv
  <2>8. BackspaceInv'
    <3>1. keyboard_buffer = Backspace => tty'.col >= prompt_length \/ tty'.col = 0
      <4>1. CASE tty.col < COLS
        BY <1>2, <1>3, <2>3, <4>1
      <4>2. CASE tty.col = COLS
        BY <2>3, <4>2
      <4>3. QED
        BY <1>2, <4>1, <4>2
    <3>2. QED
      BY <1>1, <2>2, <3>1 DEF BackspaceInv, Erasable
  <2>9. OverrunInv'
    BY <2>2 DEF OverrunInv
  <2>10. LineInv'
    <3> DEFINE n == prompt_length + cur_cmd_length
    <3> SUFFICES ASSUME LineFits PROVE InPlace(prompt_length + cur_cmd_length)'
      <4>1. LineFits' <=> LineFits
        BY <1>1 DEF LineFits, LineRow
      <4>2. QED
        BY <1>1, <4>1 DEF LineInv, LineShown
    <3>1. /\ AtPlace(tty, start_row, n) /\ start_row \in Nat /\ n \in Nat
          /\ \A k \in 0 .. n - 1 :
               k % Width # COLS /\ CellAt(start_row, k) \notin ClockCells \cup BannerCells =>
                 tty.screen[CellAt(start_row, k)] = LineCharacter(k)
          /\ \A k \in 0 .. prompt_length + MAX_CMD_LENGTH : RowAt(start_row, k) < ROWS
      BY <1>1, <2>2, LineBefore DEF LineStands
    <3>2. RowAt(start_row, n + 1) < ROWS /\ prompt_length + cur_cmd_length' = n + 1
      BY <1>2, <2>1, <2>2, <3>1
    <3>3. /\ AtPlace(tty', start_row, n + 1) /\ KeepsLine(tty, tty', start_row, n)
          /\ n % Width # COLS => tty'.screen[CellAt(start_row, n)] = buf
      <4> HIDE DEF n
      <4>1. QED
        BY <1>1, <1>2, <2>1, <3>1, <3>2, LineGrows
    <3>4. ASSUME NEW k \in 0 .. n, k % Width # COLS, CellAt(start_row, k) \notin ClockCells \cup BannerCells
          PROVE  tty'.screen[CellAt(start_row, k)] = LineCharacter(k)'
      <4>1. CASE k = n
        <5>1. ~ (k < prompt_length) /\ k - prompt_length = cur_cmd_length
          BY <1>2, <4>1
        <5>2. cmd_buffer'[cur_cmd_length] = buf
          BY <2>1, <2>2 DEF TypeOK
        <5>3. QED
          BY <1>1, <3>3, <3>4, <4>1, <5>1, <5>2 DEF LineCharacter
      <4>2. CASE k # n
        <5>1. k \in 0 .. n - 1
          BY <3>1, <4>2
        <5>2. tty'.screen[CellAt(start_row, k)] = tty.screen[CellAt(start_row, k)]
          BY <3>3, <3>4, <5>1 DEF KeepsLine
        <5>3. tty.screen[CellAt(start_row, k)] = LineCharacter(k)
          BY <3>1, <3>4, <5>1
        <5>4. LineCharacter(k)' = LineCharacter(k)
          <6>1. k < prompt_length \/ (k - prompt_length \in 0 .. MAX_CMD_LENGTH - 1 /\ k - prompt_length # cur_cmd_length)
            BY <1>2, <2>2, <4>2, <5>1
          <6>2. QED
            BY <1>1, <2>1, <6>1 DEF LineCharacter, TypeOK
        <5>5. QED
          BY <5>2, <5>3, <5>4
      <4>3. QED
        BY <4>1, <4>2
    <3>5. (n + 1) - 1 = n /\ n + 1 \in Nat
      BY <3>1
    <3>6. QED
      <4> HIDE DEF n
      <4>1. QED
        BY <1>1, <3>2, <3>3, <3>4, <3>5 DEF InPlace, AtPlace, LineRow, LineColumn, LineCell, RowAt, CellAt, Width
  <2>11. QED
    BY <1>4, <2>5, <2>6, <2>7, <2>8, <2>9, <2>10
<1>7. QED
  BY <1>5, <1>6

LEMMA BackspaceHandledInv == ASSUME TerminalInv, HandleBackspace PROVE TerminalInv'
<1> USE DEF TerminalInv
<1>1. /\ pc = "handle" /\ pc' = "read" /\ buf = Backspace
      /\ UNCHANGED <<kbd, raised, in_service, input_on, keyboard_buffer, template_length, buf,
                     prompt_length, start_row>>
  BY DEF HandleBackspace, promptVars, deviceVars, driverVars
<1>2. /\ tty \in Terminals /\ tty.row \in 0 .. ROWS - 1 /\ tty.col \in 0 .. COLS
      /\ cur_cmd_length \in 0 .. UINT8 - 1 /\ COLS \in Nat /\ MAX_CMD_LENGTH \in Nat \ {0}
      /\ prompt_length \in Nat \ {0} /\ UINT8 \in Nat /\ UINT8 > MAX_CMD_LENGTH + COLS + 1
  BY <1>1, TtyType, Sizes, PromptType DEF CursorInv, TypeOK
<1>3. keyboard_buffer = Backspace => tty.col > prompt_length
  BY <1>1 DEF BackspaceInv
<1>4. DeviceInv'
  BY <1>1 DEF DeviceInv
<1>5. CASE cur_cmd_length = 0
  <2>1. UNCHANGED <<tty, cmd_buffer, cur_cmd_length>>
    BY <1>5 DEF HandleBackspace
  <2>2. TypeOK' /\ CursorInv' /\ CommandInv' /\ OverrunInv'
    BY <1>1, <2>1 DEF TypeOK, CursorInv, CommandInv, OverrunInv, Overrun
  <2>3. BackspaceInv'
    BY <1>1, <1>5, <2>1 DEF BackspaceInv
  <2>4. LineInv'
    <3>1. ~Overrun' /\ LineFits' => InPlace(prompt_length + cur_cmd_length)'
      BY <1>1, <2>1, SameLine DEF LineInv, LineShown, Overrun
    <3>2. QED
      BY <1>1, <3>1 DEF LineInv, LineShown
  <2>5. QED
    BY <1>4, <2>2, <2>3, <2>4
<1>6. CASE cur_cmd_length # 0
  <2>1. /\ tty' = putchar(tty, Backspace)
        /\ \/ /\ cur_cmd_length < MAX_CMD_LENGTH
              /\ cmd_buffer' = [cmd_buffer EXCEPT ![cur_cmd_length] = NUL]
              /\ cur_cmd_length' = cur_cmd_length - 1
           \/ /\ ~ (cur_cmd_length < MAX_CMD_LENGTH) /\ cmd_buffer' = cmd_buffer
              /\ cur_cmd_length' = cur_cmd_length - 1
           \/ /\ cur_cmd_length = MAX_CMD_LENGTH /\ cmd_buffer' = cmd_buffer
              /\ cur_cmd_length' = UINT8 - 1
    BY <1>1, <1>6 DEF HandleBackspace
  <2>2. /\ tty' \in Terminals /\ tty'.row \in 0 .. ROWS - 1 /\ tty'.col \in 0 .. COLS
        /\ tty.col > 0 => tty'.col = tty.col - 1
    <3>1. /\ putchar(tty, Backspace) \in Terminals /\ putchar(tty, Backspace).row \in 0 .. ROWS - 1
          /\ tty.col > 0 => putchar(tty, Backspace).col = tty.col - 1
      BY <1>2, BackspaceStep
    <3>2. QED
      BY <2>1, <3>1 DEF Terminals
  <2>3. tty.col >= prompt_length \/ (tty.col = 0 /\ ~Overrun)
    BY <1>1, <1>2, <1>6 DEF BackspaceInv, Erasable
  <2>4. keyboard_buffer = Backspace => tty'.col >= prompt_length
    <3>1. ASSUME tty.col > prompt_length PROVE tty'.col >= prompt_length
      BY <1>2, <2>2, <3>1
    <3>2. QED
      BY <1>3, <3>1
  <2>5. cur_cmd_length' \in 0 .. UINT8 - 1
    BY <1>2, <1>6, <2>1
  <2>6. TypeOK'
    <3>1. cmd_buffer' \in [0 .. MAX_CMD_LENGTH - 1 -> Letters \cup {NUL}]
      BY <2>1 DEF TypeOK
    <3>2. QED
      BY <1>1, <2>2, <2>5, <3>1 DEF TypeOK, Terminals, Characters
  <2>7. CursorInv'
    BY <1>1, <2>2 DEF CursorInv
  <2>8. CommandInv'
    <3>1. ASSUME NEW i \in 0 .. MAX_CMD_LENGTH - 1
          PROVE  /\ i < cur_cmd_length' => cmd_buffer'[i] # NUL
                 /\ i > cur_cmd_length' => cmd_buffer'[i] = NUL
      <4>1. /\ i < cur_cmd_length => cmd_buffer[i] # NUL
            /\ i > cur_cmd_length => cmd_buffer[i] = NUL
        BY <1>1 DEF CommandInv
      <4>2. CASE /\ cur_cmd_length < MAX_CMD_LENGTH
                 /\ cmd_buffer' = [cmd_buffer EXCEPT ![cur_cmd_length] = NUL]
                 /\ cur_cmd_length' = cur_cmd_length - 1
        <5>1. cmd_buffer'[i] = IF i = cur_cmd_length THEN NUL ELSE cmd_buffer[i]
          BY <4>2 DEF TypeOK
        <5>2. /\ i < cur_cmd_length - 1 => i < cur_cmd_length /\ i # cur_cmd_length
              /\ i > cur_cmd_length - 1 => i > cur_cmd_length \/ i = cur_cmd_length
          BY <1>2
        <5>3. QED
          BY <4>1, <4>2, <5>1, <5>2
      <4>3. CASE cmd_buffer' = cmd_buffer /\ ~ (cur_cmd_length < MAX_CMD_LENGTH)
        <5>1. i < cur_cmd_length /\ ~ (i > cur_cmd_length')
          BY <1>2, <2>1, <4>3
        <5>2. QED
          BY <4>1, <4>3, <5>1
      <4>4. ~ (MAX_CMD_LENGTH < MAX_CMD_LENGTH)
        BY <1>2
      <4>5. QED
        BY <2>1, <4>2, <4>3, <4>4
    <3>2. QED
      BY <1>1, <3>1 DEF CommandInv
  <2>9. BackspaceInv'
    BY <1>1, <2>4 DEF BackspaceInv, Erasable
  <2>10. Overrun => /\ cur_cmd_length + COLS >= UINT8 - 1 + tty.col
                    /\ cur_cmd_length' = cur_cmd_length - 1 /\ tty'.col = tty.col - 1 /\ tty.col >= 1
    <3> SUFFICES ASSUME Overrun
                 PROVE  /\ cur_cmd_length + COLS >= UINT8 - 1 + tty.col
                        /\ cur_cmd_length' = cur_cmd_length - 1 /\ tty'.col = tty.col - 1 /\ tty.col >= 1
      OBVIOUS
    <3>1. tty.col >= 1 /\ tty.col > 0
      BY <1>2, <2>3
    <3>2. cur_cmd_length # MAX_CMD_LENGTH
      BY <1>2 DEF Overrun
    <3>3. QED
      BY <1>1, <2>1, <2>2, <3>1, <3>2 DEF OverrunInv
  <2>11. ~Overrun => \/ cur_cmd_length' = cur_cmd_length - 1 /\ cur_cmd_length <= MAX_CMD_LENGTH
                     \/ cur_cmd_length' = UINT8 - 1
    BY <1>2, <2>1 DEF Overrun
  <2>12. OverrunInv'
    <3>1. CASE Overrun
      <4>1. cur_cmd_length' + COLS >= UINT8 - 1 + tty'.col
        BY <1>2, <2>10, <3>1
      <4>2. QED
        BY <4>1 DEF OverrunInv
    <3>2. CASE ~Overrun /\ cur_cmd_length' = UINT8 - 1
      <4>1. cur_cmd_length' + COLS >= UINT8 - 1 + tty'.col
        BY <1>2, <2>2, <3>2
      <4>2. QED
        BY <4>1 DEF OverrunInv
    <3>3. CASE cur_cmd_length' = cur_cmd_length - 1 /\ cur_cmd_length <= MAX_CMD_LENGTH
      <4>1. ~ (cur_cmd_length' > MAX_CMD_LENGTH)
        BY <1>2, <3>3
      <4>2. QED
        BY <4>1 DEF OverrunInv, Overrun
    <3>4. QED
      BY <2>11, <3>1, <3>2, <3>3
  <2>13. LineInv'
    <3> SUFFICES ASSUME ~Overrun', LineFits PROVE InPlace(prompt_length + cur_cmd_length)'
      <4>1. LineFits' <=> LineFits
        BY <1>1 DEF LineFits, LineRow
      <4>2. QED
        BY <1>1, <4>1 DEF LineInv, LineShown
    <3>1. ~Overrun
      <4>1. Overrun => cur_cmd_length' > MAX_CMD_LENGTH
        BY <1>2, <2>10
      <4>2. QED
        BY <4>1 DEF Overrun
    <3>2. cur_cmd_length' = cur_cmd_length - 1 /\ cur_cmd_length \in 1 .. MAX_CMD_LENGTH
      <4>1. ~ (UINT8 - 1 <= MAX_CMD_LENGTH) /\ cur_cmd_length' # UINT8 - 1
        BY <1>2 DEF Overrun
      <4>2. QED
        BY <1>2, <1>6, <2>11, <3>1, <4>1
    <3> DEFINE n == prompt_length + cur_cmd_length'
    <3>3. n \in Nat /\ n + 1 = prompt_length + cur_cmd_length /\ n + 1 \in 0 .. prompt_length + MAX_CMD_LENGTH
      BY <1>2, <3>2
    <3>4. /\ LineStands(n + 1) /\ start_row \in Nat
          /\ \A k \in 0 .. prompt_length + MAX_CMD_LENGTH : RowAt(start_row, k) < ROWS
      BY <1>1, <3>1, <3>3, LineBefore
    <3> HIDE DEF n
    <3>5. AtPlace(tty', start_row, n) /\ KeepsLine(tty, tty', start_row, n)
      <4>1. AtPlace(tty, start_row, n + 1) /\ RowAt(start_row, n + 1) < ROWS
        BY <3>3, <3>4 DEF LineStands
      <4>2. QED
        BY <1>2, <2>1, <3>3, <3>4, <4>1, LineShrinks
    <3>6. ASSUME NEW k \in 0 .. n - 1, k % Width # COLS, CellAt(start_row, k) \notin ClockCells \cup BannerCells
          PROVE  tty'.screen[CellAt(start_row, k)] = LineCharacter(k)'
      <4>1. k \in 0 .. (n + 1) - 1
        BY <3>3
      <4>2. tty.screen[CellAt(start_row, k)] = LineCharacter(k)
        BY <3>4, <3>6, <4>1 DEF LineStands
      <4>3. tty'.screen[CellAt(start_row, k)] = tty.screen[CellAt(start_row, k)]
        BY <3>5, <3>6 DEF KeepsLine
      <4>4. LineCharacter(k)' = LineCharacter(k)
        <5>1. k < prompt_length \/ (k - prompt_length \in 0 .. MAX_CMD_LENGTH - 1 /\ k - prompt_length # cur_cmd_length)
          BY <1>2, <3>2, <3>3
        <5>2. QED
          BY <1>1, <2>1, <5>1 DEF LineCharacter, TypeOK
      <4>5. QED
        BY <4>2, <4>3, <4>4
    <3>7. prompt_length + cur_cmd_length' = n
      BY DEF n
    <3>8. QED
      BY <1>1, <3>5, <3>6, <3>7 DEF InPlace, AtPlace, LineRow, LineColumn, LineCell, RowAt, CellAt, Width
  <2>14. QED
    BY <1>4, <2>6, <2>7, <2>8, <2>9, <2>12, <2>13
<1>7. QED
  BY <1>5, <1>6

LEMMA ExecuteInv == ASSUME TerminalInv, Execute PROVE TerminalInv'
<1> USE DEF TerminalInv
<1>1. /\ pc = "execute" /\ pc' \in {"finish", "wild"}
      /\ UNCHANGED <<kbd, raised, in_service, input_on, keyboard_buffer, template_length, buf, cmd_buffer,
                     cur_cmd_length, prompt_length,
                     start_row>>
      /\ \/ \E count \in {0, MaxOutput} : tty' = puts(tty, OutputChar, count)
         \/ tty' = clear_screen(tty)
  BY DEF Execute, promptVars, deviceVars, driverVars
<1>2. tty \in Terminals /\ tty.row \in 0 .. ROWS - 1
  BY <1>1, TtyType DEF CursorInv
<1>3. tty' \in Terminals
  <2>1. CASE \E count \in {0, MaxOutput} : tty' = puts(tty, OutputChar, count)
    <3>1. OutputChar \in Letters \cup {PromptChar} /\ \A count \in {0, MaxOutput} : count \in Nat
      BY TerminalAssumption, Sizes DEF OutputChar
    <3>2. QED
      BY <1>2, <2>1, <3>1, PutsType
  <2>2. CASE tty' = clear_screen(tty)
    <3>1. 0 \in 0 .. COLS /\ [i \in Cells |-> Blank] \in [Cells -> Characters]
      BY Sizes DEF Characters
    <3>2. QED
      BY <1>2, <2>2, <3>1 DEF clear_screen, Terminals
  <2>3. QED
    BY <1>1, <2>1, <2>2
<1>4. TypeOK'
  BY <1>1, <1>3 DEF TypeOK, Terminals, Characters
<1>5. DeviceInv' /\ CursorInv' /\ CommandInv' /\ BackspaceInv' /\ OverrunInv' /\ LineInv'
  BY <1>1 DEF DeviceInv, CursorInv, CommandInv, BackspaceInv, OverrunInv, LineInv, LineShown
<1>6. QED
  BY <1>4, <1>5

LEMMA FinishInv == ASSUME TerminalInv, Finish PROVE TerminalInv'
<1> USE DEF TerminalInv
<1>1. /\ pc = "finish" /\ pc' = "prompt" /\ tty' = putchar(tty, Newline)
      /\ cmd_buffer' = EmptyCommand /\ cur_cmd_length' = 0
      /\ UNCHANGED <<kbd, raised, in_service, input_on, keyboard_buffer, template_length, buf,
                     prompt_length, start_row>>
  BY DEF Finish, promptVars, deviceVars, driverVars
<1>2. tty' \in Terminals /\ tty'.row \in 0 .. ROWS - 1 /\ tty'.col = 0
  BY <1>1, TtyType, NewlineStep
<1>3. TypeOK'
  <2>1. EmptyCommand \in [0 .. MAX_CMD_LENGTH - 1 -> Letters \cup {NUL}] /\ 0 \in 0 .. UINT8 - 1
    BY Sizes DEF EmptyCommand
  <2>2. QED
    BY <1>1, <1>2, <2>1 DEF TypeOK, Terminals, Characters
<1>4. DeviceInv' /\ CursorInv' /\ CommandInv' /\ BackspaceInv' /\ OverrunInv' /\ LineInv'
  BY <1>1, <1>2 DEF DeviceInv, CursorInv, CommandInv, BackspaceInv, OverrunInv, LineInv, LineShown, EmptyCommand
<1>5. QED
  BY <1>3, <1>4

LEMMA OverwriteInv ==
  ASSUME TerminalInv, NEW cells \in SUBSET (ClockCells \cup BannerCells), NEW char \in {ClockChar, BannerChar},
         Overwrite(cells, char)
  PROVE  TerminalInv'
<1> USE DEF TerminalInv
<1>1. /\ tty' = [tty EXCEPT !.screen = [c \in Cells |-> IF c \in cells THEN char ELSE tty.screen[c]]]
      /\ UNCHANGED <<kbd, raised, in_service, input_on, keyboard_buffer, template_length, pc, buf, cmd_buffer,
                     cur_cmd_length, prompt_length,
                     start_row>>
  BY DEF Overwrite, promptVars, deviceVars, driverVars, shellVars
<1>2. /\ tty' \in Terminals /\ tty'.row = tty.row /\ tty'.col = tty.col
      /\ \A c \in Cells : c \notin cells => tty'.screen[c] = tty.screen[c]
  <2>1. tty \in Terminals /\ char \in Characters
    BY TtyType DEF Characters
  <2>2. [c \in Cells |-> IF c \in cells THEN char ELSE tty.screen[c]] \in [Cells -> Characters]
    BY <2>1 DEF Terminals
  <2>3. QED
    BY <1>1, <2>1, <2>2 DEF Terminals
<1>3. TypeOK'
  BY <1>1, <1>2 DEF TypeOK, Terminals, Characters
<1>4. DeviceInv' /\ CursorInv' /\ CommandInv' /\ BackspaceInv' /\ OverrunInv'
  BY <1>1, <1>2 DEF DeviceInv, CursorInv, CommandInv, BackspaceInv, OverrunInv, EmptyCommand, Erasable, Overrun
<1>5. ASSUME NEW n \in 0 .. prompt_length + MAX_CMD_LENGTH, LineFits, InPlace(n) PROVE InPlace(n)'
  <2>1. LineStands(n) /\ start_row \in Nat /\ \A k \in 0 .. prompt_length + MAX_CMD_LENGTH : RowAt(start_row, k) < ROWS
    BY <1>5, InPlaceIs, RowsFit
  <2>2. AtPlace(tty', start_row, n)
    BY <1>2, <2>1 DEF LineStands, AtPlace
  <2>3. ASSUME NEW k \in 0 .. n - 1, k % Width # COLS, CellAt(start_row, k) \notin ClockCells \cup BannerCells
        PROVE  tty'.screen[CellAt(start_row, k)] = LineCharacter(k)'
    <3>1. k \in Nat /\ k \in 0 .. prompt_length + MAX_CMD_LENGTH
      BY Sizes, PromptType
    <3>2. CellAt(start_row, k) \in Cells
      BY <2>1, <2>3, <3>1, CellOnScreen
    <3>3. CellAt(start_row, k) \notin cells
      BY <2>3
    <3>4. tty.screen[CellAt(start_row, k)] = LineCharacter(k)
      BY <2>1, <2>3 DEF LineStands
    <3>5. LineCharacter(k)' = LineCharacter(k)
      BY <1>1 DEF LineCharacter
    <3>6. QED
      BY <1>2, <3>2, <3>3, <3>4, <3>5
  <2>4. QED
    BY <1>1, <2>2, <2>3 DEF InPlace, AtPlace, LineRow, LineColumn, LineCell, RowAt, CellAt, Width
<1>6. LineInv'
  <2>1. LineFits' <=> LineFits
    BY <1>1 DEF LineFits, LineRow
  <2>2. pc = "template" /\ LineFits => InPlace(prompt_length)'
    <3>1. prompt_length \in 0 .. prompt_length + MAX_CMD_LENGTH
      BY Sizes, PromptType
    <3>2. QED
      <4> DEFINE n == prompt_length
      <4>1. n' = n /\ n \in 0 .. prompt_length + MAX_CMD_LENGTH
        BY <1>1, <3>1
      <4> HIDE DEF n
      <4>2. pc = "template" /\ LineFits => InPlace(n)'
        <5>1. pc = "template" /\ LineFits => InPlace(n)
          BY DEF LineInv, n
        <5>2. QED
          BY <1>5, <4>1, <5>1 DEF InPlace
      <4>3. QED
        BY <4>2 DEF n
  <2>3. pc \in {"read", "handle"} /\ ~Overrun /\ LineFits => InPlace(prompt_length + cur_cmd_length)'
    <3> SUFFICES ASSUME pc \in {"read", "handle"}, ~Overrun, LineFits
                 PROVE  InPlace(prompt_length + cur_cmd_length)'
      OBVIOUS
    <3> DEFINE n == prompt_length + cur_cmd_length
    <3>1. n \in 0 .. prompt_length + MAX_CMD_LENGTH
      BY Sizes, PromptType DEF Overrun, TypeOK
    <3>2. InPlace(n)
      BY DEF LineInv, LineShown
    <3>3. n' = n
      BY <1>1
    <3> HIDE DEF n
    <3>4. InPlace(n)'
      BY <1>5, <3>1, <3>2, <3>3 DEF InPlace
    <3>5. QED
      BY <3>4 DEF n
  <2>4. QED
    BY <1>1, <2>1, <2>2, <2>3 DEF LineInv, LineShown, Overrun
<1>7. QED
  BY <1>3, <1>4, <1>6

LEMMA TerminalInitInv == Init => TerminalInv
<1> SUFFICES ASSUME Init PROVE TerminalInv
  OBVIOUS
<1>1. TypeOK
  <2>1. /\ <<>> \in Seq(Keys) /\ Len(<<>>) = 0 /\ NUL \in Keys /\ 0 <= MaxQueue
        /\ [c \in Cells |-> Blank] \in [Cells -> Characters]
        /\ EmptyCommand \in [0 .. MAX_CMD_LENGTH - 1 -> Letters \cup {NUL}]
    BY TerminalAssumption DEF Keys, Characters, EmptyCommand
  <2>2. 0 \in 0 .. COLS /\ 0 \in 0 .. ROWS - 1 /\ 0 \in 0 .. UINT8 - 1
    BY Sizes
  <2>3. QED
    BY <2>1, <2>2 DEF Init, TypeOK, Characters
<1>2. DeviceInv /\ CursorInv /\ CommandInv /\ BackspaceInv /\ OverrunInv /\ LineInv
  BY Sizes DEF Init, DeviceInv, CursorInv, CommandInv, BackspaceInv, OverrunInv, LineInv, LineShown
<1>3. QED
  BY <1>1, <1>2 DEF TerminalInv

LEMMA TerminalStutterInv == TerminalInv /\ UNCHANGED vars => TerminalInv'
<1> SUFFICES ASSUME TerminalInv, UNCHANGED vars PROVE TerminalInv'
  OBVIOUS
<1>1. UNCHANGED <<kbd, raised, in_service, input_on, keyboard_buffer, template_length, tty, pc, buf, cmd_buffer,
                  cur_cmd_length, prompt_length,
                     start_row>>
  BY DEF vars, promptVars, deviceVars, driverVars, shellVars
<1>2. TypeOK' /\ DeviceInv' /\ CursorInv' /\ CommandInv' /\ BackspaceInv' /\ OverrunInv'
  BY <1>1 DEF TerminalInv, TypeOK, DeviceInv, CursorInv, CommandInv, BackspaceInv, OverrunInv, Overrun, Erasable,
    EmptyCommand
<1>3. LineInv'
  BY <1>1, SameLine DEF TerminalInv, LineInv, LineShown, Overrun
<1>4. QED
  BY <1>2, <1>3 DEF TerminalInv

(* TerminalInv holds in every state.                                        *)
THEOREM TerminalInvHolds == Spec => []TerminalInv
<1>1. ASSUME TerminalInv, [Next]_vars PROVE TerminalInv'
  <2>1. CASE \E key \in Keys : PressKey(key)
    BY <1>1, <2>1, PressKeyInv
  <2>2. CASE keyboard_isr
    BY <1>1, <2>2, KeyboardInv
  <2>3. CASE Shell
    BY <1>1, <2>3, ActivateInv, PromptInv, SetTemplateInv, ReadKeyInv, NewlineInv, BackspaceHandledInv,
      CharacterInv, ExecuteInv, FinishInv DEF Shell
  <2>4. CASE ClockWrites \/ BannerWrites
    <3>1. ClockCells \in SUBSET (ClockCells \cup BannerCells) /\ BannerCells \in SUBSET (ClockCells \cup BannerCells)
      OBVIOUS
    <3>2. QED
      BY <1>1, <2>4, <3>1, OverwriteInv DEF ClockWrites, BannerWrites
  <2>5. CASE UNCHANGED vars
    BY <1>1, <2>5, TerminalStutterInv
  <2>6. QED
    BY <1>1, <2>1, <2>2, <2>3, <2>4, <2>5 DEF Next
<1>2. QED
  BY <1>1, TerminalInitInv, PTL DEF Spec

(* The cursor, the length and the buffers keep their ranges, whatever is    *)
(* typed and printed; the cursor leaves the screen only for the time        *)
(* between clear_screen and the newline that follows it.                    *)
THEOREM TerminalTypeCorrect == Spec => []TypeOK
<1>1. TerminalInv => TypeOK
  BY DEF TerminalInv
<1>2. QED
  BY <1>1, TerminalInvHolds, PTL

(* While a command is typed, the screen shows the prompt and the command,   *)
(* and the cursor is behind them.                                           *)
THEOREM LineIsShown == Spec => []LineShown
<1>1. TerminalInv => LineShown
  BY DEF TerminalInv, LineInv
<1>2. QED
  BY <1>1, TerminalInvHolds, PTL

(* The two lengths of a command differ by the character that a backspace    *)
(* has left behind, at most.                                                *)
THEOREM OnlyOneIsStale == Spec => []OneStaleCharacter
<1>1. TerminalInv => OneStaleCharacter
  BY DEF TerminalInv, CommandInv, OneStaleCharacter
<1>2. QED
  BY <1>1, TerminalInvHolds, PTL
=============================================================================
