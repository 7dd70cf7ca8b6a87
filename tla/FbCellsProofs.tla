--------------------------- MODULE FbCellsProofs ---------------------------
(***************************************************************************)
(* Lemmas about the cells of FbCells, for a screen of any size: where a    *)
(* position lies in the grid, and what scrolling does to a cell.  The      *)
(* proofs about the back end and about the terminal both rest on them.     *)
(***************************************************************************)
EXTENDS FbCells, TLAPS

LEMMA Monotone ==
  ASSUME NEW n \in Nat, NEW j \in Int, NEW k \in Int, j <= k
  PROVE  j * n <= k * n
OBVIOUS

LEMMA AtIsCell ==
  ASSUME NEW x \in Int, NEW y \in Int, OnScreen(x, y)
  PROVE  At(x, y) \in Cells
<1>1. x \in 0..(Cols - 1) /\ y \in 0..(Rows - 1) /\ Cols \in Nat /\ Rows \in Nat
  BY FbCellsAssumption DEF OnScreen
<1>2. 0 * Cols <= y * Cols /\ (y + 1) * Cols <= Rows * Cols
  BY <1>1, Monotone
<1>3. (y + 1) * Cols = y * Cols + Cols /\ Rows * Cols = Cols * Rows /\ 0 * Cols = 0
  BY <1>1
<1>4. y * Cols \in Int /\ Cols * Rows \in Int
  BY <1>1
<1> QED BY <1>1, <1>2, <1>3, <1>4 DEF At, Cells

LEMMA RowBound ==
  ASSUME NEW b \in 0..Rows
  PROVE  /\ b * Cols \in Nat /\ Cols * Rows \in Nat
         /\ b * Cols <= Cols * Rows
<1>1. Cols \in Nat /\ Rows \in Nat /\ b \in Nat /\ b <= Rows
  BY FbCellsAssumption
<1>2. b * Cols <= Rows * Cols
  BY <1>1, Monotone
<1>3. Rows * Cols = Cols * Rows /\ Cols * Rows \in Nat /\ b * Cols \in Nat
  BY <1>1
<1> QED BY <1>2, <1>3

LEMMA CellSplit ==
  ASSUME NEW c \in Cells
  PROVE  /\ c % Cols \in 0..(Cols - 1) /\ c \div Cols \in 0..(Rows - 1)
         /\ OnScreen(c % Cols, c \div Cols) /\ At(c % Cols, c \div Cols) = c
         /\ c \in Nat /\ Row(c) \in Nat
         /\ Row(c) * Cols <= c /\ c < (Row(c) + 1) * Cols
<1>1. Cols \in Nat /\ Cols > 0 /\ Rows \in Nat /\ Cols * Rows \in Int
  BY FbCellsAssumption
<1>2. c \in Nat /\ c < Cols * Rows
  BY <1>1 DEF Cells
<1> DEFINE q == c \div Cols
           m == c % Cols
<1>3. q \in Nat /\ m \in 0..(Cols - 1) /\ c = Cols * q + m
  BY <1>1, <1>2
<1> HIDE DEF q, m
<1>4. q * Cols = Cols * q /\ (q + 1) * Cols = q * Cols + Cols /\ q * Cols \in Nat
  BY <1>1, <1>3
<1>5. q < Rows
  <2>1. ASSUME q >= Rows PROVE FALSE
    <3>1. Rows * Cols <= q * Cols
      BY <1>1, <1>3, <2>1, Monotone
    <3> QED BY <1>1, <1>2, <1>3, <1>4, <3>1
  <2> QED BY <1>1, <1>3, <2>1
<1>6. OnScreen(m, q) /\ At(m, q) = c
  BY <1>1, <1>3, <1>4, <1>5 DEF OnScreen, At
<1>7. q * Cols <= c /\ c < (q + 1) * Cols
  BY <1>1, <1>3, <1>4
<1> QED BY <1>1, <1>2, <1>3, <1>5, <1>6, <1>7 DEF q, m, Row

\* A cell lies in row y or below it when it is not before the first of y.
LEMMA RowAtLeast ==
  ASSUME NEW c \in Cells, NEW y \in Int
  PROVE  y <= Row(c) <=> y * Cols <= c
<1>1. /\ Row(c) \in Nat /\ c \in Nat /\ Cols \in Nat
      /\ Row(c) * Cols <= c /\ c < (Row(c) + 1) * Cols
  BY CellSplit, FbCellsAssumption
<1> DEFINE r == Row(c)
<1> HIDE DEF r
<1>2. r \in Nat /\ r * Cols <= c /\ c < (r + 1) * Cols /\ r * Cols \in Int /\ (r + 1) * Cols \in Int
      /\ y * Cols \in Int
  BY <1>1 DEF r
<1>3. ASSUME y <= r PROVE y * Cols <= c
  <2>1. y * Cols <= r * Cols
    BY <1>1, <1>2, <1>3, Monotone
  <2> QED BY <1>1, <1>2, <2>1
<1>4. ASSUME ~(y <= r) PROVE ~(y * Cols <= c)
  <2>1. (r + 1) * Cols <= y * Cols
    BY <1>1, <1>2, <1>4, Monotone
  <2> QED BY <1>1, <1>2, <2>1
<1> QED BY <1>3, <1>4 DEF r

LEMMA NextRow ==
  ASSUME NEW y \in Int
  PROVE  (y + 1) * Cols = y * Cols + Cols /\ (y - 1) * Cols = y * Cols - Cols
         /\ y * Cols \in Int /\ Cols \in Nat /\ Cols > 0
BY FbCellsAssumption

\* Scrolling by the cells' numbers.
LEMMA ScrolledCell ==
  ASSUME NEW s, NEW t \in Int, NEW b \in Int, NEW g, NEW c \in Cells
  PROVE  Scrolled(s, t, b, g)[c] =
           IF t * Cols <= c /\ c < (b - 1) * Cols THEN s[c + Cols]
           ELSE IF (b - 1) * Cols <= c /\ c < b * Cols THEN g ELSE s[c]
<1>1. /\ t <= Row(c) <=> t * Cols <= c
      /\ b - 1 <= Row(c) <=> (b - 1) * Cols <= c
      /\ b <= Row(c) <=> b * Cols <= c
      /\ Row(c) \in Nat /\ c \in Nat
  BY RowAtLeast, CellSplit
<1>2. /\ (b - 1) * Cols \in Int /\ b * Cols \in Int /\ (b - 1) * Cols = b * Cols - Cols
      /\ Cols \in Nat
  BY NextRow
<1>3. Row(c) \in t..(b - 2) <=> t * Cols <= c /\ c < (b - 1) * Cols
  BY <1>1, <1>2
<1>4. Row(c) = b - 1 <=> (b - 1) * Cols <= c /\ c < b * Cols
  BY <1>1, <1>2
<1> QED BY <1>3, <1>4 DEF Scrolled

LEMMA RevScrolledCell ==
  ASSUME NEW s, NEW t \in Int, NEW b \in Int, NEW g, NEW c \in Cells
  PROVE  RevScrolled(s, t, b, g)[c] =
           IF t * Cols <= c /\ c < (t + 1) * Cols THEN g
           ELSE IF (t + 1) * Cols <= c /\ c < b * Cols THEN s[c - Cols] ELSE s[c]
<1>1. /\ t <= Row(c) <=> t * Cols <= c
      /\ t + 1 <= Row(c) <=> (t + 1) * Cols <= c
      /\ b <= Row(c) <=> b * Cols <= c
      /\ Row(c) \in Nat /\ c \in Nat
  BY RowAtLeast, CellSplit
<1>2. (t + 1) * Cols \in Int /\ b * Cols \in Int /\ t * Cols \in Int
  BY NextRow
<1>3. Row(c) = t <=> t * Cols <= c /\ c < (t + 1) * Cols
  BY <1>1, <1>2
<1>4. Row(c) \in (t + 1)..(b - 1) <=> (t + 1) * Cols <= c /\ c < b * Cols
  BY <1>1, <1>2
<1> QED BY <1>3, <1>4 DEF RevScrolled
=============================================================================
