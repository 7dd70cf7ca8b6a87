--------------------------- MODULE TerminalProofs ---------------------------
(***************************************************************************)
(* Proofs about Terminal, for a screen of any size, any characters and any *)
(* parameters: types, where the cursor and text may go, and what the loops *)
(* of the editing sequences leave on the screen.                           *)
(***************************************************************************)
EXTENDS Terminal, FbCellsProofs, WellFoundedInduction

-----------------------------------------------------------------------------
(* Loops.                                                                  *)

LEMMA LeastNatural ==
  ASSUME NEW T, T \subseteq Nat, T # {}
  PROVE  \E m \in T : \A k \in T : m <= k
<1>1. OpToRel(<, Nat) = {ss \in Nat \X Nat : ss[1] < ss[2]}
  BY DEF OpToRel
<1>2. PICK m \in T : \A k \in T : ~(<<k, m>> \in OpToRel(<, Nat))
  BY NatLessThanWellFounded, WFMin
<1>3. ASSUME NEW k \in T, k < m PROVE FALSE
  <2>1. <<k, m>> \in OpToRel(<, Nat)
    BY <1>1, <1>3
  <2> QED BY <1>2, <2>1
<1>4. \A k \in T : k \in Nat /\ m \in Nat
  OBVIOUS
<1> QED BY <1>3, <1>4

\* What holds at first, and after a round when it held before it, holds of every round.
LEMMA Rounds ==
  ASSUME NEW n \in Nat, NEW Good,
         0 \in Good, \A k \in 1..n : k - 1 \in Good => k \in Good
  PROVE  \A k \in 0..n : k \in Good
<1> DEFINE Bad == {k \in 0..n : k \notin Good}
<1>1. SUFFICES ASSUME Bad # {} PROVE FALSE
  OBVIOUS
<1>2. Bad \subseteq Nat
  OBVIOUS
<1>3. PICK m \in Bad : \A k \in Bad : m <= k
  BY <1>1, <1>2, LeastNatural
<1>4. m # 0 /\ m \in 0..n /\ m - 1 \in 0..n /\ m \in 1..n
  OBVIOUS
<1>5. m - 1 \notin Bad
  BY <1>3, <1>4
<1> QED BY <1>4, <1>5

\* A loop of n rounds, the k-th of which takes a to F[<<k, a>>], has a value after each.
Steps(S, b, n, F) ==
  \E g \in [0..n -> S] : g[0] = b /\ \A k \in 1..n : g[k] = F[<<k, g[k - 1]>>]

LEMMA Iterates ==
  ASSUME NEW S, NEW b \in S, NEW n \in Nat, NEW F \in [(1..n) \X S -> S]
  PROVE  Steps(S, b, n, F)
<1> DEFINE Runs(g, m) == g \in [0..m -> S] /\ g[0] = b /\ \A k \in 1..m : g[k] = F[<<k, g[k - 1]>>]
           Has(m) == \E g : Runs(g, m)
           Good == {m \in 0..n : Has(m)}
<1>1. 0 \in Good
  <2>1. Runs([k \in 0..0 |-> b], 0)
    OBVIOUS
  <2>2. Has(0)
    BY <2>1
  <2> HIDE DEF Has
  <2> QED BY <2>2
<1>2. ASSUME NEW m \in 1..n, m - 1 \in Good PROVE m \in Good
  <2>1. PICK g : Runs(g, m - 1)
    BY <1>2
  <2> DEFINE h == [k \in 0..m |-> IF k = m THEN F[<<m, g[m - 1]>>] ELSE g[k]]
  <2>2. g[m - 1] \in S /\ <<m, g[m - 1]>> \in (1..n) \X S
    BY <2>1
  <2>3. F[<<m, g[m - 1]>>] \in S
    BY <2>2
  <2>4. h \in [0..m -> S]
    BY <2>1, <2>3
  <2>5. h[0] = b
    BY <2>1
  <2>6. ASSUME NEW k \in 1..m PROVE h[k] = F[<<k, h[k - 1]>>]
    <3>1. CASE k = m
      BY <3>1
    <3>2. CASE k \in 1..(m - 1)
      <4>1. g[k] = F[<<k, g[k - 1]>>]
        BY <2>1, <3>2
      <4>2. h[k] = g[k] /\ h[k - 1] = g[k - 1]
        BY <3>2
      <4> QED BY <4>1, <4>2
    <3> QED BY <3>1, <3>2
  <2>7. Runs(h, m)
    BY <2>4, <2>5, <2>6
  <2>8. Has(m)
    BY <2>7
  <2> HIDE DEF Has
  <2> QED BY <2>8
<1>3. n \in Good
  <2> HIDE DEF Good
  <2> QED BY <1>1, <1>2, Rounds
<1> QED BY <1>3 DEF Steps

-----------------------------------------------------------------------------
(* The calls of the back end.                                              *)

LEMMA Sizes ==
  /\ Cols \in Nat /\ Cols > 0 /\ Rows \in Nat /\ Rows > 0
  /\ Space \in Glyphs /\ Params \subseteq Nat /\ TabSize \in Nat /\ TabSize > 0
  /\ MaxX \in Nat /\ MaxX > Cols
BY FbCellsAssumption, TerminalAssumption

LEMMA Region2 ==
  ASSUME TypeOK
  PROVE  /\ scroll_top_margin \in 0..(Rows - 1) /\ scroll_bottom_margin \in 1..Rows
         /\ scroll_top_margin < scroll_bottom_margin
BY Sizes DEF TypeOK, margins, Margins

Screens == [Cells -> Glyphs]
Boxes   == [s : Screens, x : Nat, y : 0..(Rows + Cols)]

LEMMA ClampRange ==
  ASSUME NEW v \in Int, NEW n \in Nat, n > 0
  PROVE  Clamp(v, n) \in 0..(n - 1) /\ (v \in 0..(n - 1) => Clamp(v, n) = v)
BY DEF Clamp

LEMMA NowTyped ==
  ASSUME TypeOK
  PROVE  /\ Now \in Boxes /\ Now.s = screen /\ Now.x = cursor_x /\ Now.y = cursor_y
         /\ X \in 0..(Cols - 1) /\ Y \in 0..(Rows - 1)
BY Sizes DEF TypeOK, Now, Boxes, Screens, X, Y

LEMMA PutTyped ==
  ASSUME NEW s \in Screens, NEW g \in Glyphs, NEW x \in Int, NEW y \in Int
  PROVE  Put(s, g, x, y) \in Screens
BY DEF Put, Screens

LEMMA ScrolledTyped ==
  ASSUME NEW s \in Screens, NEW t \in Nat, NEW b \in 1..Rows
  PROVE  Scrolled(s, t, b, Space) \in Screens
<1>1. ASSUME NEW c \in Cells PROVE Scrolled(s, t, b, Space)[c] \in Glyphs
  <2>1. ASSUME c < (b - 1) * Cols PROVE c + Cols \in Cells
    <3>1. (b - 1) * Cols = b * Cols - Cols /\ b * Cols \in Int /\ b * Cols <= Cols * Rows
          /\ Cols \in Nat /\ Cols * Rows \in Nat
      BY NextRow, RowBound, Sizes
    <3> QED BY <2>1, <3>1 DEF Cells
  <2>2. Scrolled(s, t, b, Space)[c] =
           IF t * Cols <= c /\ c < (b - 1) * Cols THEN s[c + Cols]
           ELSE IF (b - 1) * Cols <= c /\ c < b * Cols THEN Space ELSE s[c]
    BY ScrolledCell
  <2> QED BY <2>1, <2>2, Sizes DEF Screens
<1> QED BY <1>1 DEF Scrolled, Screens

LEMMA RevScrolledTyped ==
  ASSUME NEW s \in Screens, NEW t \in Nat, NEW b \in 1..Rows
  PROVE  RevScrolled(s, t, b, Space) \in Screens
<1>1. ASSUME NEW c \in Cells PROVE RevScrolled(s, t, b, Space)[c] \in Glyphs
  <2>1. ASSUME (t + 1) * Cols <= c PROVE c - Cols \in Cells
    <3>1. /\ (t + 1) * Cols = t * Cols + Cols /\ t * Cols \in Nat
          /\ Cols \in Nat /\ Cols * Rows \in Nat
      BY Sizes
    <3> QED BY <2>1, <3>1 DEF Cells
  <2>2. RevScrolled(s, t, b, Space)[c] =
           IF t * Cols <= c /\ c < (t + 1) * Cols THEN Space
           ELSE IF (t + 1) * Cols <= c /\ c < b * Cols THEN s[c - Cols] ELSE s[c]
    BY RevScrolledCell
  <2>3. \/ RevScrolled(s, t, b, Space)[c] = Space
        \/ RevScrolled(s, t, b, Space)[c] = s[c]
        \/ (t + 1) * Cols <= c /\ RevScrolled(s, t, b, Space)[c] = s[c - Cols]
    BY Zenon, <2>2
  <2>4. \A k \in Cells : s[k] \in Glyphs
    BY DEF Screens
  <2> QED BY <2>1, <2>3, <2>4, Sizes
<1> QED BY <1>1 DEF RevScrolled, Screens

\* raw_putchar, its parts named.
LEMMA PutcharIs ==
  ASSUME TypeOK, NEW b \in Boxes, NEW g \in Glyphs, NEW scrolls \in BOOLEAN
  PROVE  /\ raw_putchar(b, g, scrolls) \in Boxes
         /\ raw_putchar(b, g, scrolls).x = (IF Wraps(b.x, b.y, scroll_bottom_margin, scrolls) THEN 1 ELSE b.x + 1)
         /\ raw_putchar(b, g, scrolls).y = (IF Wraps(b.x, b.y, scroll_bottom_margin, scrolls)
                                            THEN WrappedRow(b.y, scroll_bottom_margin) ELSE b.y)
<1> DEFINE bottom == scroll_bottom_margin
           wraps  == Wraps(b.x, b.y, bottom, scrolls)
           x == IF wraps THEN 0 ELSE b.x
           y == IF wraps THEN WrappedRow(b.y, bottom) ELSE b.y
           s == IF WrapScrolls(b.x, b.y, bottom, scrolls)
                THEN Scrolled(b.s, scroll_top_margin, bottom, Space) ELSE b.s
<1>1. raw_putchar(b, g, scrolls) = [s |-> Put(s, g, x, y), x |-> x + 1, y |-> y]
  BY DEF raw_putchar
<1>2. b.s \in Screens /\ b.x \in Nat /\ b.y \in 0..(Rows + Cols)
  BY DEF Boxes
<1>3. s \in Screens
  BY <1>2, ScrolledTyped, Region2
<1>4. WrappedRow(b.y, bottom) \in 0..(Rows + Cols)
  BY <1>2, Sizes, Region2 DEF WrappedRow
<1>5. x \in Nat /\ y \in 0..(Rows + Cols) /\ x + 1 = IF wraps THEN 1 ELSE b.x + 1
  BY <1>2, <1>4
<1>6. Put(s, g, x, y) \in Screens
  BY <1>3, <1>5, PutTyped, Sizes
<1> HIDE DEF s, x, y, wraps
<1>7. raw_putchar(b, g, scrolls) \in Boxes
  BY <1>1, <1>5, <1>6 DEF Boxes
<1>8. raw_putchar(b, g, scrolls).x = x + 1 /\ raw_putchar(b, g, scrolls).y = y
  BY <1>1
<1> QED BY <1>5, <1>7, <1>8 DEF y, wraps

LEMMA CallsTyped ==
  ASSUME TypeOK, NEW b \in Boxes, NEW x \in Int, NEW y \in Int
  PROVE  /\ set_cursor_pos(b, x, y) \in Boxes
         /\ set_cursor_pos(b, x, y) = [s |-> b.s, x |-> Clamp(x, Cols), y |-> Clamp(y, Rows)]
         /\ scroll(b) \in Boxes
         /\ scroll(b) = [s |-> Scrolled(b.s, scroll_top_margin, scroll_bottom_margin, Space), x |-> b.x, y |-> b.y]
         /\ y >= 0 => revscroll(b, y) \in Boxes
         /\ revscroll(b, y) = [s |-> RevScrolled(b.s, y, scroll_bottom_margin, Space), x |-> b.x, y |-> b.y]
         /\ \A old \in Int : move_character(b, x, y, old) \in Boxes
<1>1. b.s \in Screens /\ b.x \in Nat /\ b.y \in 0..(Rows + Cols) /\ b = [s |-> b.s, x |-> b.x, y |-> b.y]
  BY DEF Boxes
<1>2. Clamp(x, Cols) \in Nat /\ Clamp(y, Rows) \in 0..(Rows + Cols)
  BY Sizes, ClampRange
<1>3. set_cursor_pos(b, x, y) = [s |-> b.s, x |-> Clamp(x, Cols), y |-> Clamp(y, Rows)]
  <2>1. PICK m, n : m = Clamp(x, Cols) /\ n = Clamp(y, Rows)
    OBVIOUS
  <2>2. [b EXCEPT !.x = m] = [s |-> b.s, x |-> m, y |-> b.y]
    BY <1>1 DEF Boxes
  <2>3. [[s |-> b.s, x |-> m, y |-> b.y] EXCEPT !.y = n] = [s |-> b.s, x |-> m, y |-> n]
    OBVIOUS
  <2> QED BY <2>1, <2>2, <2>3 DEF set_cursor_pos
<1>4. scroll(b) = [s |-> Scrolled(b.s, scroll_top_margin, scroll_bottom_margin, Space), x |-> b.x, y |-> b.y]
  BY <1>1 DEF scroll, Boxes
<1>5. revscroll(b, y) = [s |-> RevScrolled(b.s, y, scroll_bottom_margin, Space), x |-> b.x, y |-> b.y]
  BY <1>1 DEF revscroll, Boxes
<1>6. Scrolled(b.s, scroll_top_margin, scroll_bottom_margin, Space) \in Screens
  BY <1>1, Region2, ScrolledTyped
<1>7. y >= 0 => RevScrolled(b.s, y, scroll_bottom_margin, Space) \in Screens
  BY <1>1, Region2, RevScrolledTyped
<1>8. ASSUME NEW old \in Int PROVE move_character(b, x, y, old) \in Boxes
  <2>1. CASE OnScreen(x, y) /\ OnScreen(old, y)
    <3>1. At(old, y) \in Cells
      BY <2>1, AtIsCell
    <3>2. move_character(b, x, y, old) = [s |-> [b.s EXCEPT ![At(x, y)] = b.s[At(old, y)]], x |-> b.x, y |-> b.y]
      BY <1>1, <2>1 DEF move_character, Boxes
    <3>3. [b.s EXCEPT ![At(x, y)] = b.s[At(old, y)]] \in Screens
      BY <1>1, <3>1 DEF Screens
    <3> QED BY <1>1, <3>2, <3>3 DEF Boxes
  <2>2. CASE ~(OnScreen(x, y) /\ OnScreen(old, y))
    <3>1. move_character(b, x, y, old) = b
      BY <1>1, <2>2 DEF move_character, Boxes
    <3> QED BY <3>1
  <2> QED BY <2>1, <2>2
<1> QED BY <1>1, <1>2, <1>3, <1>4, <1>5, <1>6, <1>7, <1>8 DEF Boxes

-----------------------------------------------------------------------------
(* The loops, as the boxes after each of their rounds.                     *)

PutBlank(b) == raw_putchar(b, Space, FALSE)

InsertLine(b) == revscroll(b, Y)

LEMMA BlankedLoop ==
  ASSUME TypeOK, NEW b \in Boxes, NEW n \in Nat
  PROVE  \E f \in [0..n -> Boxes] :
           /\ f[0] = b /\ f[n] = Blanked(b, n)
           /\ \A k \in 1..n : f[k] = PutBlank(f[k - 1])
<1>1. ASSUME NEW a \in Boxes PROVE PutBlank(a) \in Boxes
  BY PutcharIs, Sizes DEF PutBlank
<1> DEFINE F == [p \in (1..n) \X Boxes |-> PutBlank(p[2])]
<1>2. F \in [(1..n) \X Boxes -> Boxes]
  BY <1>1
<1>3. PICK g \in [0..n -> Boxes] : g[0] = b /\ \A k \in 1..n : g[k] = F[<<k, g[k - 1]>>]
  <2> HIDE DEF F
  <2>1. Steps(Boxes, b, n, F)
    BY <1>2, Iterates
  <2> QED BY <2>1 DEF Steps
<1>4. ASSUME NEW k \in 1..n PROVE g[k] = PutBlank(g[k - 1])
  <2>1. k - 1 \in 0..n
    OBVIOUS
  <2>2. g[k] = F[<<k, g[k - 1]>>]
    <3> HIDE DEF F
    <3> QED BY <1>3
  <2>3. g[k - 1] \in Boxes
    BY <2>1
  <2> QED BY <2>2, <2>3
<1>5. g = [k \in 0..n |-> IF k = 0 THEN b ELSE PutBlank(g[k - 1])]
  BY <1>3, <1>4
<1>6. PICK f : f = [k \in 0..n |-> IF k = 0 THEN b ELSE PutBlank(f[k - 1])] /\ Blanked(b, n) = f[n]
  BY <1>5 DEF Times, Blanked, PutBlank
<1>7. f[0] = b /\ \A k \in 1..n : f[k] = PutBlank(f[k - 1])
  BY <1>6
<1> DEFINE Good == {m \in 0..n : f[m] \in Boxes}
<1>8. \A k \in 0..n : k \in Good
  <2>1. ASSUME NEW k \in 1..n, k - 1 \in Good PROVE k \in Good
    BY <1>1, <1>7, <2>1
  <2>2. 0 \in Good
    BY <1>7
  <2> HIDE DEF Good
  <2> QED BY <2>1, <2>2, Rounds
<1>9. f \in [0..n -> Boxes]
  BY <1>6, <1>8
<1> QED BY <1>6, <1>7, <1>9

LEMMA ScrollLoop ==
  ASSUME TypeOK, NEW b \in Boxes, NEW n \in Nat
  PROVE  \E f \in [0..n -> Boxes] :
           /\ f[0] = b /\ f[n] = Times(b, n, scroll)
           /\ \A k \in 1..n : f[k] = scroll(f[k - 1])
<1>1. ASSUME NEW a \in Boxes PROVE scroll(a) \in Boxes
  BY CallsTyped, Sizes
<1> DEFINE F == [p \in (1..n) \X Boxes |-> scroll(p[2])]
<1>2. F \in [(1..n) \X Boxes -> Boxes]
  BY <1>1
<1>3. PICK g \in [0..n -> Boxes] : g[0] = b /\ \A k \in 1..n : g[k] = F[<<k, g[k - 1]>>]
  <2> HIDE DEF F
  <2>1. Steps(Boxes, b, n, F)
    BY <1>2, Iterates
  <2> QED BY <2>1 DEF Steps
<1>4. ASSUME NEW k \in 1..n PROVE g[k] = scroll(g[k - 1])
  <2>1. k - 1 \in 0..n
    OBVIOUS
  <2>2. g[k] = F[<<k, g[k - 1]>>]
    <3> HIDE DEF F
    <3> QED BY <1>3
  <2>3. g[k - 1] \in Boxes
    BY <2>1
  <2> QED BY <2>2, <2>3
<1>5. g = [k \in 0..n |-> IF k = 0 THEN b ELSE scroll(g[k - 1])]
  BY <1>3, <1>4
<1>6. PICK f : f = [k \in 0..n |-> IF k = 0 THEN b ELSE scroll(f[k - 1])] /\ Times(b, n, scroll) = f[n]
  BY <1>5 DEF Times
<1>7. f[0] = b /\ \A k \in 1..n : f[k] = scroll(f[k - 1])
  BY <1>6
<1> DEFINE Good == {m \in 0..n : f[m] \in Boxes}
<1>8. \A k \in 0..n : k \in Good
  <2>1. ASSUME NEW k \in 1..n, k - 1 \in Good PROVE k \in Good
    BY <1>1, <1>7, <2>1
  <2>2. 0 \in Good
    BY <1>7
  <2> HIDE DEF Good
  <2> QED BY <2>1, <2>2, Rounds
<1>9. f \in [0..n -> Boxes]
  BY <1>6, <1>8
<1> QED BY <1>6, <1>7, <1>9

LEMMA InsertLoop ==
  ASSUME TypeOK, NEW b \in Boxes, NEW n \in Nat
  PROVE  \E f \in [0..n -> Boxes] :
           /\ f[0] = b /\ f[n] = Times(b, n, LAMBDA c : revscroll(c, Y))
           /\ \A k \in 1..n : f[k] = InsertLine(f[k - 1])
<1>1. ASSUME NEW a \in Boxes PROVE InsertLine(a) \in Boxes
  <2>1. Y \in Int /\ Y >= 0
    BY NowTyped
  <2> QED BY <2>1, CallsTyped DEF InsertLine
<1> DEFINE F == [p \in (1..n) \X Boxes |-> InsertLine(p[2])]
<1>2. F \in [(1..n) \X Boxes -> Boxes]
  BY <1>1
<1>3. PICK g \in [0..n -> Boxes] : g[0] = b /\ \A k \in 1..n : g[k] = F[<<k, g[k - 1]>>]
  <2> HIDE DEF F
  <2>1. Steps(Boxes, b, n, F)
    BY <1>2, Iterates
  <2> QED BY <2>1 DEF Steps
<1>4. ASSUME NEW k \in 1..n PROVE g[k] = InsertLine(g[k - 1])
  <2>1. k - 1 \in 0..n
    OBVIOUS
  <2>2. g[k] = F[<<k, g[k - 1]>>]
    <3> HIDE DEF F
    <3> QED BY <1>3
  <2>3. g[k - 1] \in Boxes
    BY <2>1
  <2> QED BY <2>2, <2>3
<1>5. g = [k \in 0..n |-> IF k = 0 THEN b ELSE InsertLine(g[k - 1])]
  BY <1>3, <1>4
<1>6. PICK f : f = [k \in 0..n |-> IF k = 0 THEN b ELSE InsertLine(f[k - 1])] /\ Times(b, n, LAMBDA c : revscroll(c, Y)) = f[n]
  BY <1>5 DEF Times, InsertLine
<1>7. f[0] = b /\ \A k \in 1..n : f[k] = InsertLine(f[k - 1])
  BY <1>6
<1> DEFINE Good == {m \in 0..n : f[m] \in Boxes}
<1>8. \A k \in 0..n : k \in Good
  <2>1. ASSUME NEW k \in 1..n, k - 1 \in Good PROVE k \in Good
    BY <1>1, <1>7, <2>1
  <2>2. 0 \in Good
    BY <1>7
  <2> HIDE DEF Good
  <2> QED BY <2>1, <2>2, Rounds
<1>9. f \in [0..n -> Boxes]
  BY <1>6, <1>8
<1> QED BY <1>6, <1>7, <1>9

\* The loops over the columns of a row: down from, and up to.

LEMMA Down ==
  ASSUME NEW lo \in Int, NEW hi \in Int, lo <= hi, NEW Good,
         hi \in Good, \A c \in lo..(hi - 1) : c + 1 \in Good => c \in Good
  PROVE  \A c \in lo..hi : c \in Good
<1> DEFINE G == {k \in 0..(hi - lo) : hi - k \in Good}
<1>1. 0 \in G
  OBVIOUS
<1>2. ASSUME NEW k \in 1..(hi - lo), k - 1 \in G PROVE k \in G
  <2>1. hi - k \in lo..(hi - 1) /\ hi - (k - 1) = hi - k + 1 /\ hi - (k - 1) \in Good
    BY <1>2
  <2> QED BY <2>1
<1>3. \A k \in 0..(hi - lo) : k \in G
  <2> HIDE DEF G
  <2> QED BY <1>1, <1>2, Rounds
<1>4. ASSUME NEW c \in lo..hi PROVE c \in Good
  <2>1. hi - c \in 0..(hi - lo) /\ hi - (hi - c) = c
    OBVIOUS
  <2> QED BY <1>3, <2>1
<1> QED BY <1>4

LEMMA Up ==
  ASSUME NEW lo \in Int, NEW hi \in Int, lo <= hi, NEW Good,
         lo \in Good, \A c \in (lo + 1)..hi : c - 1 \in Good => c \in Good
  PROVE  \A c \in lo..hi : c \in Good
<1> DEFINE G == {k \in 0..(hi - lo) : lo + k \in Good}
<1>1. 0 \in G
  OBVIOUS
<1>2. ASSUME NEW k \in 1..(hi - lo), k - 1 \in G PROVE k \in G
  <2>1. lo + k \in (lo + 1)..hi /\ lo + (k - 1) = lo + k - 1 /\ lo + (k - 1) \in Good
    BY <1>2
  <2> QED BY <2>1
<1>3. \A k \in 0..(hi - lo) : k \in G
  <2> HIDE DEF G
  <2> QED BY <1>1, <1>2, Rounds
<1>4. ASSUME NEW c \in lo..hi PROVE c \in Good
  <2>1. c - lo \in 0..(hi - lo) /\ lo + (c - lo) = c
    OBVIOUS
  <2> QED BY <1>3, <2>1
<1> QED BY <1>4

StepsDown(S, b, lo, hi, F) ==
  \E h \in [lo..hi -> S] : h[hi] = b /\ \A c \in lo..(hi - 1) : h[c] = F[<<c, h[c + 1]>>]

LEMMA CountsDown ==
  ASSUME NEW S, NEW b \in S, NEW lo \in Int, NEW hi \in Int, lo <= hi,
         NEW F \in [(lo..(hi - 1)) \X S -> S]
  PROVE  StepsDown(S, b, lo, hi, F)
<1>1. PICK n \in Nat : n = hi - lo
  OBVIOUS
<1>2. PICK D \in [(1..n) \X S -> S] : \A k \in 1..n, a \in S : D[<<k, a>>] = F[<<hi - k, a>>]
  <2> DEFINE E == [p \in (1..n) \X S |-> F[<<hi - p[1], p[2]>>]]
  <2>1. \A k \in 1..n : hi - k \in lo..(hi - 1)
    BY <1>1
  <2>2. E \in [(1..n) \X S -> S] /\ \A k \in 1..n, a \in S : E[<<k, a>>] = F[<<hi - k, a>>]
    BY <2>1
  <2> HIDE DEF E
  <2> QED BY <2>2
<1>3. PICK g \in [0..n -> S] : g[0] = b /\ \A k \in 1..n : g[k] = D[<<k, g[k - 1]>>]
  <2>1. Steps(S, b, n, D)
    BY Iterates
  <2> QED BY <2>1 DEF Steps
<1>4. ASSUME NEW k \in 1..n PROVE g[k] = F[<<hi - k, g[k - 1]>>]
  <2>1. k - 1 \in 0..n
    OBVIOUS
  <2>2. g[k] = D[<<k, g[k - 1]>>] /\ g[k - 1] \in S
    BY <1>3, <2>1
  <2> QED BY <1>2, <2>2
<1> DEFINE h == [c \in lo..hi |-> g[hi - c]]
<1>5. h \in [lo..hi -> S]
  BY <1>1
<1>6. h[hi] = b
  <2>1. hi - hi = 0 /\ hi \in lo..hi
    OBVIOUS
  <2> QED BY <1>3, <2>1
<1>7. ASSUME NEW c \in lo..(hi - 1) PROVE h[c] = F[<<c, h[c + 1]>>]
  <2>1. /\ hi - c \in 1..n /\ hi - (hi - c) = c /\ hi - c - 1 = hi - (c + 1)
        /\ c \in lo..hi /\ c + 1 \in lo..hi
    BY <1>1
  <2>2. g[hi - c] = F[<<c, g[hi - (c + 1)]>>]
    BY <1>4, <2>1
  <2> QED BY <2>1, <2>2
<1> HIDE DEF h
<1> QED BY <1>5, <1>6, <1>7 DEF StepsDown

StepsUp(S, b, lo, hi, F) ==
  \E h \in [lo..hi -> S] : h[lo] = b /\ \A c \in (lo + 1)..hi : h[c] = F[<<c, h[c - 1]>>]

LEMMA CountsUp ==
  ASSUME NEW S, NEW b \in S, NEW lo \in Int, NEW hi \in Int, lo <= hi,
         NEW F \in [((lo + 1)..hi) \X S -> S]
  PROVE  StepsUp(S, b, lo, hi, F)
<1>1. PICK n \in Nat : n = hi - lo
  OBVIOUS
<1>2. PICK D \in [(1..n) \X S -> S] : \A k \in 1..n, a \in S : D[<<k, a>>] = F[<<lo + k, a>>]
  <2> DEFINE E == [p \in (1..n) \X S |-> F[<<lo + p[1], p[2]>>]]
  <2>1. \A k \in 1..n : lo + k \in (lo + 1)..hi
    BY <1>1
  <2>2. E \in [(1..n) \X S -> S] /\ \A k \in 1..n, a \in S : E[<<k, a>>] = F[<<lo + k, a>>]
    BY <2>1
  <2> HIDE DEF E
  <2> QED BY <2>2
<1>3. PICK g \in [0..n -> S] : g[0] = b /\ \A k \in 1..n : g[k] = D[<<k, g[k - 1]>>]
  <2>1. Steps(S, b, n, D)
    BY Iterates
  <2> QED BY <2>1 DEF Steps
<1>4. ASSUME NEW k \in 1..n PROVE g[k] = F[<<lo + k, g[k - 1]>>]
  <2>1. k - 1 \in 0..n
    OBVIOUS
  <2>2. g[k] = D[<<k, g[k - 1]>>] /\ g[k - 1] \in S
    BY <1>3, <2>1
  <2> QED BY <1>2, <2>2
<1> DEFINE h == [c \in lo..hi |-> g[c - lo]]
<1>5. h \in [lo..hi -> S]
  BY <1>1
<1>6. h[lo] = b
  <2>1. lo - lo = 0 /\ lo \in lo..hi
    OBVIOUS
  <2> QED BY <1>3, <2>1
<1>7. ASSUME NEW c \in (lo + 1)..hi PROVE h[c] = F[<<c, h[c - 1]>>]
  <2>1. /\ c - lo \in 1..n /\ lo + (c - lo) = c /\ c - lo - 1 = c - 1 - lo
        /\ c \in lo..hi /\ c - 1 \in lo..hi
    BY <1>1
  <2>2. g[c - lo] = F[<<c, g[c - 1 - lo]>>]
    BY <1>4, <2>1
  <2> QED BY <2>1, <2>2
<1> HIDE DEF h
<1> QED BY <1>5, <1>6, <1>7 DEF StepsUp

MoveRight(b, c)   == move_character(b, c + 1, Y, c)
MoveLeft(n, b, c) == move_character(b, c - n, Y, c)
InsertAt(n, b, c) ==
  raw_putchar(set_cursor_pos(move_character(b, c + n, Y, c), c, Y), Space, FALSE)

MovedRight == Downto(Now, Cols - 1, X, LAMBDA b, c : move_character(b, c + 1, Y, c))

InsertedChars(n) ==
  Downto(Now, Cols - 1, X,
         LAMBDA b, c : raw_putchar(set_cursor_pos(move_character(b, c + n, Y, c), c, Y), Space, FALSE))

DeletedChars(n) ==
  Upto(Now, X + n, Cols - 1, LAMBDA b, c : move_character(b, c - n, Y, c))

LEMMA RightLoop ==
  ASSUME TypeOK
  PROVE  \E f \in [X..Cols -> Boxes] :
           /\ f[Cols] = Now /\ f[X] = MovedRight
           /\ \A c \in X..(Cols - 1) : f[c] = MoveRight(f[c + 1], c)
<1>1. X \in 0..(Cols - 1) /\ Y \in Int /\ Cols \in Nat /\ Now \in Boxes
  BY NowTyped, Sizes
<1>2. ASSUME NEW a \in Boxes, NEW c \in Int PROVE MoveRight(a, c) \in Boxes
  <2>1. c + 1 \in Int /\ Y \in Int
    BY <1>1
  <2> QED BY <2>1, CallsTyped DEF MoveRight
<1>3. PICK b \in Boxes, lo \in Int, hi \in Int :
        b = Now /\ lo = X /\ hi = Cols /\ lo <= hi /\ hi - 1 = Cols - 1
  BY <1>1
<1>4. PICK F \in [(lo..(hi - 1)) \X Boxes -> Boxes] : \A c \in lo..(hi - 1), a \in Boxes : F[<<c, a>>] = MoveRight(a, c)
  <2> DEFINE E == [p \in (lo..(hi - 1)) \X Boxes |-> MoveRight(p[2], p[1])]
  <2>1. E \in [(lo..(hi - 1)) \X Boxes -> Boxes] /\ \A c \in lo..(hi - 1), a \in Boxes : E[<<c, a>>] = MoveRight(a, c)
    BY <1>2
  <2> HIDE DEF E
  <2> QED BY <2>1
<1>5. PICK h \in [lo..hi -> Boxes] : h[hi] = b /\ \A c \in lo..(hi - 1) : h[c] = F[<<c, h[c + 1]>>]
  <2>1. StepsDown(Boxes, b, lo, hi, F)
    BY <1>3, CountsDown
  <2> QED BY <2>1 DEF StepsDown
<1>6. ASSUME NEW c \in lo..(hi - 1) PROVE h[c] = MoveRight(h[c + 1], c)
  <2>1. c + 1 \in lo..hi
    OBVIOUS
  <2>2. h[c] = F[<<c, h[c + 1]>>] /\ h[c + 1] \in Boxes
    BY <1>5, <2>1
  <2> QED BY <1>4, <2>2
<1>7. lo..hi = X..(Cols - 1 + 1) /\ hi = Cols - 1 + 1 /\ hi \in lo..hi
  BY <1>1, <1>3
<1>8. ASSUME NEW c \in lo..hi, c # hi PROVE h[c] = MoveRight(h[c + 1], c)
  BY <1>6, <1>8
<1>9. h = [c \in lo..hi |-> IF c = hi THEN Now ELSE MoveRight(h[c + 1], c)]
  BY <1>3, <1>5, <1>7, <1>8
<1>10. h = [c \in X..(Cols - 1 + 1) |-> IF c = Cols - 1 + 1 THEN Now ELSE MoveRight(h[c + 1], c)]
  BY <1>7, <1>9
<1>11. PICK f : /\ f = [c \in X..(Cols - 1 + 1) |-> IF c = Cols - 1 + 1 THEN Now ELSE MoveRight(f[c + 1], c)]
                /\ MovedRight = f[X]
  BY <1>10 DEF Downto, MovedRight, MoveRight
<1>12. f = [c \in lo..hi |-> IF c = hi THEN Now ELSE MoveRight(f[c + 1], c)]
  BY <1>7, <1>11
<1>a. f[hi] = Now /\ \A c \in lo..hi : c # hi => f[c] = MoveRight(f[c + 1], c)
  BY <1>7, <1>12
<1>b. ASSUME NEW c \in lo..(hi - 1) PROVE f[c] = MoveRight(f[c + 1], c)
  BY <1>a
<1> DEFINE Good == {c \in lo..hi : f[c] \in Boxes}
<1>13. \A c \in lo..hi : c \in Good
  <2>1. ASSUME NEW c \in lo..(hi - 1), c + 1 \in Good PROVE c \in Good
    BY <1>2, <1>b, <2>1
  <2>2. hi \in Good
    BY <1>1, <1>7, <1>a
  <2> HIDE DEF Good
  <2> QED BY <1>3, <2>1, <2>2, Down
<1>14. f \in [lo..hi -> Boxes]
  BY <1>12, <1>13
<1> HIDE DEF Good
<1> QED BY <1>1, <1>3, <1>11, <1>a, <1>b, <1>14

LEMMA InsertCharsLoop ==
  ASSUME TypeOK, NEW n \in Nat
  PROVE  \E f \in [X..Cols -> Boxes] :
           /\ f[Cols] = Now /\ f[X] = InsertedChars(n)
           /\ \A c \in X..(Cols - 1) : f[c] = InsertAt(n, f[c + 1], c)
<1>1. X \in 0..(Cols - 1) /\ Y \in Int /\ Cols \in Nat /\ Now \in Boxes
  BY NowTyped, Sizes
<1>2. ASSUME NEW a \in Boxes, NEW c \in Int PROVE InsertAt(n, a, c) \in Boxes
  <2>1. c + n \in Int /\ Y \in Int
    BY <1>1
  <2> DEFINE e == move_character(a, c + n, Y, c)
  <2>2. e \in Boxes
    BY <2>1, CallsTyped
  <2> HIDE DEF e
  <2>3. set_cursor_pos(e, c, Y) \in Boxes
    BY <2>1, <2>2, CallsTyped
  <2> QED BY <2>3, PutcharIs, Sizes DEF InsertAt, e
<1>3. PICK b \in Boxes, lo \in Int, hi \in Int :
        b = Now /\ lo = X /\ hi = Cols /\ lo <= hi /\ hi - 1 = Cols - 1
  BY <1>1
<1>4. PICK F \in [(lo..(hi - 1)) \X Boxes -> Boxes] : \A c \in lo..(hi - 1), a \in Boxes : F[<<c, a>>] = InsertAt(n, a, c)
  <2> DEFINE E == [p \in (lo..(hi - 1)) \X Boxes |-> InsertAt(n, p[2], p[1])]
  <2>1. E \in [(lo..(hi - 1)) \X Boxes -> Boxes] /\ \A c \in lo..(hi - 1), a \in Boxes : E[<<c, a>>] = InsertAt(n, a, c)
    BY <1>2
  <2> HIDE DEF E
  <2> QED BY <2>1
<1>5. PICK h \in [lo..hi -> Boxes] : h[hi] = b /\ \A c \in lo..(hi - 1) : h[c] = F[<<c, h[c + 1]>>]
  <2>1. StepsDown(Boxes, b, lo, hi, F)
    BY <1>3, CountsDown
  <2> QED BY <2>1 DEF StepsDown
<1>6. ASSUME NEW c \in lo..(hi - 1) PROVE h[c] = InsertAt(n, h[c + 1], c)
  <2>1. c + 1 \in lo..hi
    OBVIOUS
  <2>2. h[c] = F[<<c, h[c + 1]>>] /\ h[c + 1] \in Boxes
    BY <1>5, <2>1
  <2> QED BY <1>4, <2>2
<1>7. lo..hi = X..(Cols - 1 + 1) /\ hi = Cols - 1 + 1 /\ hi \in lo..hi
  BY <1>1, <1>3
<1>8. ASSUME NEW c \in lo..hi, c # hi PROVE h[c] = InsertAt(n, h[c + 1], c)
  BY <1>6, <1>8
<1>9. h = [c \in lo..hi |-> IF c = hi THEN Now ELSE InsertAt(n, h[c + 1], c)]
  BY <1>3, <1>5, <1>7, <1>8
<1>10. h = [c \in X..(Cols - 1 + 1) |-> IF c = Cols - 1 + 1 THEN Now ELSE InsertAt(n, h[c + 1], c)]
  BY <1>7, <1>9
<1>11. PICK f : /\ f = [c \in X..(Cols - 1 + 1) |-> IF c = Cols - 1 + 1 THEN Now ELSE InsertAt(n, f[c + 1], c)]
                /\ InsertedChars(n) = f[X]
  BY <1>10 DEF Downto, InsertedChars, InsertAt
<1>12. f = [c \in lo..hi |-> IF c = hi THEN Now ELSE InsertAt(n, f[c + 1], c)]
  BY <1>7, <1>11
<1>a. f[hi] = Now /\ \A c \in lo..hi : c # hi => f[c] = InsertAt(n, f[c + 1], c)
  BY <1>7, <1>12
<1>b. ASSUME NEW c \in lo..(hi - 1) PROVE f[c] = InsertAt(n, f[c + 1], c)
  BY <1>a
<1> DEFINE Good == {c \in lo..hi : f[c] \in Boxes}
<1>13. \A c \in lo..hi : c \in Good
  <2>1. ASSUME NEW c \in lo..(hi - 1), c + 1 \in Good PROVE c \in Good
    BY <1>2, <1>b, <2>1
  <2>2. hi \in Good
    BY <1>1, <1>7, <1>a
  <2> HIDE DEF Good
  <2> QED BY <1>3, <2>1, <2>2, Down
<1>14. f \in [lo..hi -> Boxes]
  BY <1>12, <1>13
<1> HIDE DEF Good
<1> QED BY <1>1, <1>3, <1>11, <1>a, <1>b, <1>14

LEMMA LeftLoop ==
  ASSUME TypeOK, NEW n \in Nat, X + n < Cols
  PROVE  \E f \in [(X + n - 1)..(Cols - 1) -> Boxes] :
           /\ f[X + n - 1] = Now /\ f[Cols - 1] = DeletedChars(n)
           /\ \A c \in (X + n)..(Cols - 1) : f[c] = MoveLeft(n, f[c - 1], c)
<1>1. X \in 0..(Cols - 1) /\ Y \in Int /\ Cols \in Nat /\ Now \in Boxes
  BY NowTyped, Sizes
<1>2. ASSUME NEW a \in Boxes, NEW c \in Int PROVE MoveLeft(n, a, c) \in Boxes
  <2>1. c - n \in Int /\ Y \in Int
    BY <1>1
  <2> QED BY <2>1, CallsTyped DEF MoveLeft
<1>3. PICK b \in Boxes, lo \in Int, hi \in Int :
        b = Now /\ lo = (X + n - 1) /\ hi = (Cols - 1) /\ lo <= hi /\ hi - 1 = Cols - 2 /\ lo + 1 = X + n
  BY <1>1
<1>4. PICK F \in [((lo + 1)..hi) \X Boxes -> Boxes] : \A c \in (lo + 1)..hi, a \in Boxes : F[<<c, a>>] = MoveLeft(n, a, c)
  <2> DEFINE E == [p \in ((lo + 1)..hi) \X Boxes |-> MoveLeft(n, p[2], p[1])]
  <2>1. E \in [((lo + 1)..hi) \X Boxes -> Boxes] /\ \A c \in (lo + 1)..hi, a \in Boxes : E[<<c, a>>] = MoveLeft(n, a, c)
    BY <1>2
  <2> HIDE DEF E
  <2> QED BY <2>1
<1>5. PICK h \in [lo..hi -> Boxes] : h[lo] = b /\ \A c \in (lo + 1)..hi : h[c] = F[<<c, h[c - 1]>>]
  <2>1. StepsUp(Boxes, b, lo, hi, F)
    BY <1>3, CountsUp
  <2> QED BY <2>1 DEF StepsUp
<1>6. ASSUME NEW c \in (lo + 1)..hi PROVE h[c] = MoveLeft(n, h[c - 1], c)
  <2>1. c - 1 \in lo..hi
    OBVIOUS
  <2>2. h[c] = F[<<c, h[c - 1]>>] /\ h[c - 1] \in Boxes
    BY <1>5, <2>1
  <2> QED BY <1>4, <2>2
<1>m. PICK m : m = X + n
  OBVIOUS
<1>7. lo..hi = (m - 1)..(Cols - 1) /\ lo = m - 1 /\ lo \in lo..hi
  BY <1>1, <1>3, <1>m
<1>8. ASSUME NEW c \in lo..hi, c # lo PROVE h[c] = MoveLeft(n, h[c - 1], c)
  BY <1>6, <1>8
<1>9. h = [c \in lo..hi |-> IF c = lo THEN Now ELSE MoveLeft(n, h[c - 1], c)]
  BY <1>3, <1>5, <1>7, <1>8
<1>10. h = [c \in (m - 1)..(Cols - 1) |-> IF c = m - 1 THEN Now ELSE MoveLeft(n, h[c - 1], c)]
  BY <1>7, <1>9
<1>11. PICK f : /\ f = [c \in (m - 1)..(Cols - 1) |-> IF c = m - 1 THEN Now ELSE MoveLeft(n, f[c - 1], c)]
                /\ DeletedChars(n) = f[Cols - 1]
  BY <1>10, <1>m DEF Upto, DeletedChars, MoveLeft
<1>12. f = [c \in lo..hi |-> IF c = lo THEN Now ELSE MoveLeft(n, f[c - 1], c)]
  BY <1>7, <1>11
<1>a. f[lo] = Now /\ \A c \in lo..hi : c # lo => f[c] = MoveLeft(n, f[c - 1], c)
  BY <1>7, <1>12
<1>b. ASSUME NEW c \in (lo + 1)..hi PROVE f[c] = MoveLeft(n, f[c - 1], c)
  BY <1>a
<1> DEFINE Good == {c \in lo..hi : f[c] \in Boxes}
<1>13. \A c \in lo..hi : c \in Good
  <2>1. ASSUME NEW c \in (lo + 1)..hi, c - 1 \in Good PROVE c \in Good
    BY <1>2, <1>b, <2>1
  <2>2. lo \in Good
    BY <1>1, <1>7, <1>a
  <2> HIDE DEF Good
  <2> QED BY <1>3, <2>1, <2>2, Up
<1>14. f \in [lo..hi -> Boxes]
  BY <1>12, <1>13
<1> HIDE DEF Good
<1> QED BY <1>1, <1>3, <1>11, <1>a, <1>b, <1>14

-----------------------------------------------------------------------------
(* What a line of blanks leaves on the screen.                             *)

\* The n cells from a cell on, erased.
Wiped(s, from, n) == [c \in Cells |-> IF from <= c /\ c < from + n THEN Space ELSE s[c]]

LEMMA WipedMore ==
  ASSUME NEW s, NEW a \in Nat, NEW k \in Nat, k > 0, a + (k - 1) \in Cells
  PROVE  [Wiped(s, a, k - 1) EXCEPT ![a + (k - 1)] = Space] = Wiped(s, a, k)
<1> DEFINE e == a + (k - 1)
           L == [Wiped(s, a, k - 1) EXCEPT ![e] = Space]
<1>1. ASSUME NEW c \in Cells PROVE L[c] = Wiped(s, a, k)[c]
  <2>1. c \in Int
    BY Sizes DEF Cells
  <2>2. Wiped(s, a, k)[c] = IF a <= c /\ c < a + k THEN Space ELSE s[c]
    BY DEF Wiped
  <2>3. L[c] = IF c = e THEN Space ELSE IF a <= c /\ c < a + (k - 1) THEN Space ELSE s[c]
    BY DEF Wiped
  <2> HIDE DEF L
  <2> QED BY <2>1, <2>2, <2>3
<1>2. L = [c \in Cells |-> L[c]] /\ Wiped(s, a, k) = [c \in Cells |-> Wiped(s, a, k)[c]]
  BY DEF Wiped
<1> HIDE DEF L
<1>3. L = Wiped(s, a, k)
  BY <1>1, <1>2
<1> QED BY <1>3 DEF L

LEMMA CellNumber ==
  ASSUME NEW x \in 0..Cols, NEW y \in 0..(Rows - 1)
  PROVE  At(x, y) \in Nat /\ At(x, y) = At(0, y) + x /\ At(0, y) = y * Cols
         /\ At(0, y) \in Nat /\ At(0, y) + Cols <= Cols * Rows /\ Cols * Rows \in Nat
<1>1. (y + 1) * Cols = y * Cols + Cols /\ y * Cols \in Int /\ Cols \in Nat /\ Rows \in Nat
  BY NextRow, Sizes
<1>2. (y + 1) * Cols <= Cols * Rows /\ Cols * Rows \in Nat
  BY Sizes, RowBound
<1>3. y * Cols \in Nat
  BY Sizes
<1>4. At(x, y) = y * Cols + x /\ At(0, y) = y * Cols
  BY <1>1 DEF At
<1> QED BY <1>1, <1>2, <1>3, <1>4

LEMMA PutInLine ==
  ASSUME TypeOK, NEW b \in Boxes, b.x < Cols, b.y < Rows, NEW g \in Glyphs, NEW scrolls \in BOOLEAN
  PROVE  /\ At(b.x, b.y) \in Cells
         /\ raw_putchar(b, g, scrolls) =
              [s |-> [b.s EXCEPT ![At(b.x, b.y)] = g], x |-> b.x + 1, y |-> b.y]
<1>1. b.x \in 0..(Cols - 1) /\ b.y \in 0..(Rows - 1)
  BY Sizes DEF Boxes
<1>2. OnScreen(b.x, b.y)
  BY <1>1 DEF OnScreen
<1>3. ~Wraps(b.x, b.y, scroll_bottom_margin, scrolls) /\ ~WrapScrolls(b.x, b.y, scroll_bottom_margin, scrolls)
  BY <1>1, Sizes DEF Wraps, WrapScrolls
<1>4. At(b.x, b.y) \in Cells
  BY <1>1, <1>2, AtIsCell
<1> QED BY <1>2, <1>3, <1>4 DEF raw_putchar, Put

\* n blanks that fit in the line.
LEMMA BlankedInLine ==
  ASSUME TypeOK, NEW b \in Boxes, b.y < Rows, NEW n \in Nat, b.x + n <= Cols
  PROVE  Blanked(b, n) = [s |-> Wiped(b.s, At(b.x, b.y), n), x |-> b.x + n, y |-> b.y]
<1>1. PICK f \in [0..n -> Boxes] :
        /\ f[0] = b /\ f[n] = Blanked(b, n)
        /\ \A k \in 1..n : f[k] = PutBlank(f[k - 1])
  BY BlankedLoop
<1>2. PICK x0 \in Nat, y0 \in 0..(Rows - 1), s0 \in Screens, a \in Nat :
        b = [s |-> s0, x |-> x0, y |-> y0] /\ a = At(x0, y0) /\ x0 + n <= Cols
  <2>1. b.x \in 0..Cols /\ b.y \in 0..(Rows - 1) /\ b.s \in Screens /\ b = [s |-> b.s, x |-> b.x, y |-> b.y]
    BY Sizes DEF Boxes
  <2>2. At(b.x, b.y) \in Nat /\ b.x \in Nat
    BY <2>1, CellNumber
  <2> QED BY <2>1, <2>2
<1> DEFINE B(k) == [s |-> Wiped(s0, a, k), x |-> x0 + k, y |-> y0]
           Good == {k \in 0..n : f[k] = B(k)}
<1>3. 0 \in Good
  <2>1. s0 = [c \in Cells |-> s0[c]]
    BY DEF Screens
  <2>2. Wiped(s0, a, 0) = s0
    BY <2>1 DEF Wiped, Cells
  <2> QED BY <1>1, <1>2, <2>2
<1>4. ASSUME NEW k \in 1..n, k - 1 \in Good PROVE k \in Good
  <2>1. f[k - 1] \in Boxes /\ f[k - 1] = B(k - 1)
    BY <1>1, <1>4
  <2>2. x0 + (k - 1) \in 0..(Cols - 1) /\ x0 \in 0..Cols /\ x0 + (k - 1) \in 0..Cols
    BY <1>2, Sizes
  <2>3. At(x0 + (k - 1), y0) = a + (k - 1)
    BY <1>2, <2>2, CellNumber
  <2>4. /\ a + (k - 1) \in Cells
        /\ PutBlank(B(k - 1)) = [s |-> [Wiped(s0, a, k - 1) EXCEPT ![a + (k - 1)] = Space], x |-> x0 + (k - 1) + 1, y |-> y0]
    <3>1. B(k - 1) \in Boxes /\ B(k - 1).x = x0 + (k - 1) /\ B(k - 1).y = y0 /\ B(k - 1).s = Wiped(s0, a, k - 1)
      BY <2>1
    <3>2. B(k - 1).x < Cols /\ B(k - 1).y < Rows
      BY <2>2, <3>1, Sizes
    <3> HIDE DEF B
    <3> QED BY <2>3, <3>1, <3>2, PutInLine, Sizes DEF PutBlank
  <2>5. [Wiped(s0, a, k - 1) EXCEPT ![a + (k - 1)] = Space] = Wiped(s0, a, k)
    BY <2>4, WipedMore
  <2>6. x0 + (k - 1) + 1 = x0 + k
    OBVIOUS
  <2> QED BY <1>1, <2>1, <2>4, <2>5, <2>6
<1>5. \A k \in 0..n : k \in Good
  <2> HIDE DEF Good
  <2> QED BY <1>3, <1>4, Rounds
<1>6. f[n] = B(n)
  BY <1>5
<1> QED BY <1>1, <1>2, <1>6

-----------------------------------------------------------------------------
(* What scrolling several lines leaves on the screen.                      *)

\* The rows from t to b - 1 moved up, or down, by k rows.
UpBy(s, t, b, k) ==
  [c \in Cells |-> IF t * Cols <= c /\ c < b * Cols
                   THEN IF c + k * Cols < b * Cols THEN s[c + k * Cols] ELSE Space
                   ELSE s[c]]
DownBy(s, t, b, k) ==
  [c \in Cells |-> IF t * Cols <= c /\ c < b * Cols
                   THEN IF t * Cols <= c - k * Cols THEN s[c - k * Cols] ELSE Space
                   ELSE s[c]]

LEMMA ByNone ==
  ASSUME NEW s \in Screens, NEW t \in Nat, NEW b \in Nat
  PROVE  UpBy(s, t, b, 0) = s /\ DownBy(s, t, b, 0) = s
<1>1. 0 * Cols = 0 /\ \A c \in Cells : c + 0 = c /\ c - 0 = c
  BY Sizes DEF Cells
<1>2. s = [c \in Cells |-> s[c]]
  BY DEF Screens
<1> QED BY <1>1, <1>2 DEF UpBy, DownBy

LEMMA UpOne ==
  ASSUME NEW s, NEW t \in Nat, NEW b \in 1..Rows, t < b, NEW k \in Nat, k > 0
  PROVE  Scrolled(UpBy(s, t, b, k - 1), t, b, Space) = UpBy(s, t, b, k)
<1>1. PICK lo \in Nat, hi \in Nat, m \in Nat :
        /\ lo = t * Cols /\ hi = b * Cols /\ m = (k - 1) * Cols
        /\ (b - 1) * Cols = hi - Cols /\ k * Cols = m + Cols
        /\ hi <= Cols * Rows /\ lo <= hi - Cols
  <2>1. /\ t * Cols \in Nat /\ b * Cols \in Nat /\ (k - 1) * Cols \in Nat
        /\ (b - 1) * Cols = b * Cols - Cols /\ k * Cols = (k - 1) * Cols + Cols
    BY Sizes
  <2>2. b * Cols <= Cols * Rows
    BY RowBound
  <2>3. t * Cols <= (b - 1) * Cols
    BY Sizes, Monotone
  <2> QED BY <2>1, <2>2, <2>3
<1> DEFINE U == UpBy(s, t, b, k - 1)
           L == Scrolled(U, t, b, Space)
<1>2. ASSUME NEW c \in Cells PROVE L[c] = UpBy(s, t, b, k)[c]
  <2>1. c \in Nat /\ Cols \in Nat /\ Cols > 0 /\ Cols * Rows \in Nat /\ c < Cols * Rows
    BY Sizes DEF Cells
  <2>2. L[c] = IF lo <= c /\ c < hi - Cols THEN U[c + Cols]
               ELSE IF hi - Cols <= c /\ c < hi THEN Space ELSE U[c]
    <3> HIDE DEF U
    <3> QED BY <1>1, ScrolledCell
  <2>3. U[c] = IF lo <= c /\ c < hi THEN IF c + m < hi THEN s[c + m] ELSE Space ELSE s[c]
    BY <1>1 DEF UpBy
  <2>4. ASSUME lo <= c, c < hi - Cols
        PROVE  U[c + Cols] = IF c + (m + Cols) < hi THEN s[c + (m + Cols)] ELSE Space
    <3>1. c + Cols \in Cells /\ lo <= c + Cols /\ c + Cols < hi /\ c + Cols + m = c + (m + Cols)
      BY <1>1, <2>1, <2>4 DEF Cells
    <3> QED BY <1>1, <3>1 DEF UpBy
  <2>5. UpBy(s, t, b, k)[c] =
          IF lo <= c /\ c < hi THEN IF c + (m + Cols) < hi THEN s[c + (m + Cols)] ELSE Space ELSE s[c]
    BY <1>1 DEF UpBy
  <2> HIDE DEF U, L
  <2>6. CASE lo <= c /\ c < hi - Cols
    BY <1>1, <2>1, <2>2, <2>4, <2>5, <2>6
  <2>7. CASE hi - Cols <= c /\ c < hi
    BY <1>1, <2>1, <2>2, <2>5, <2>7
  <2>8. CASE c < lo \/ hi <= c
    BY <1>1, <2>1, <2>2, <2>3, <2>5, <2>8
  <2> QED BY <1>1, <2>1, <2>6, <2>7, <2>8
<1>3. L = [c \in Cells |-> L[c]] /\ UpBy(s, t, b, k) = [c \in Cells |-> UpBy(s, t, b, k)[c]]
  BY DEF Scrolled, UpBy
<1> HIDE DEF L
<1>4. L = UpBy(s, t, b, k)
  BY <1>2, <1>3
<1> QED BY <1>4 DEF L

LEMMA DownOne ==
  ASSUME NEW s, NEW t \in Nat, NEW b \in 1..Rows, t < b, NEW k \in Nat, k > 0
  PROVE  RevScrolled(DownBy(s, t, b, k - 1), t, b, Space) = DownBy(s, t, b, k)
<1>1. PICK lo \in Nat, hi \in Nat, m \in Nat :
        /\ lo = t * Cols /\ hi = b * Cols /\ m = (k - 1) * Cols
        /\ (t + 1) * Cols = lo + Cols /\ k * Cols = m + Cols
        /\ hi <= Cols * Rows /\ lo + Cols <= hi
  <2>1. /\ t * Cols \in Nat /\ b * Cols \in Nat /\ (k - 1) * Cols \in Nat
        /\ (t + 1) * Cols = t * Cols + Cols /\ k * Cols = (k - 1) * Cols + Cols
    BY Sizes
  <2>2. b * Cols <= Cols * Rows
    BY RowBound
  <2>3. (t + 1) * Cols <= b * Cols
    BY Sizes, Monotone
  <2> QED BY <2>1, <2>2, <2>3
<1> DEFINE U == DownBy(s, t, b, k - 1)
           L == RevScrolled(U, t, b, Space)
<1>2. ASSUME NEW c \in Cells PROVE L[c] = DownBy(s, t, b, k)[c]
  <2>1. c \in Nat /\ Cols \in Nat /\ Cols > 0 /\ Cols * Rows \in Nat /\ c < Cols * Rows
    BY Sizes DEF Cells
  <2>2. L[c] = IF lo <= c /\ c < lo + Cols THEN Space
               ELSE IF lo + Cols <= c /\ c < hi THEN U[c - Cols] ELSE U[c]
    <3> HIDE DEF U
    <3> QED BY <1>1, RevScrolledCell
  <2>3. U[c] = IF lo <= c /\ c < hi THEN IF lo <= c - m THEN s[c - m] ELSE Space ELSE s[c]
    BY <1>1 DEF DownBy
  <2>4. ASSUME lo + Cols <= c, c < hi
        PROVE  U[c - Cols] = IF lo <= c - (m + Cols) THEN s[c - (m + Cols)] ELSE Space
    <3>1. c - Cols \in Cells /\ lo <= c - Cols /\ c - Cols < hi /\ c - Cols - m = c - (m + Cols)
      BY <1>1, <2>1, <2>4 DEF Cells
    <3> QED BY <1>1, <3>1 DEF DownBy
  <2>5. DownBy(s, t, b, k)[c] =
          IF lo <= c /\ c < hi THEN IF lo <= c - (m + Cols) THEN s[c - (m + Cols)] ELSE Space ELSE s[c]
    BY <1>1 DEF DownBy
  <2> HIDE DEF U, L
  <2>6. CASE lo + Cols <= c /\ c < hi
    BY <1>1, <2>1, <2>2, <2>4, <2>5, <2>6
  <2>7. CASE lo <= c /\ c < lo + Cols
    BY <1>1, <2>1, <2>2, <2>5, <2>7
  <2>8. CASE c < lo \/ hi <= c
    BY <1>1, <2>1, <2>2, <2>3, <2>5, <2>8
  <2> QED BY <1>1, <2>1, <2>6, <2>7, <2>8
<1>3. L = [c \in Cells |-> L[c]] /\ DownBy(s, t, b, k) = [c \in Cells |-> DownBy(s, t, b, k)[c]]
  BY DEF RevScrolled, DownBy
<1> HIDE DEF L
<1>4. L = DownBy(s, t, b, k)
  BY <1>2, <1>3
<1> QED BY <1>4 DEF L

LEMMA ScrolledLines ==
  ASSUME TypeOK, NEW n \in Nat
  PROVE  Times(Now, n, scroll) =
           [s |-> UpBy(screen, scroll_top_margin, scroll_bottom_margin, n), x |-> cursor_x, y |-> cursor_y]
<1>1. PICK f \in [0..n -> Boxes] :
        /\ f[0] = Now /\ f[n] = Times(Now, n, scroll)
        /\ \A k \in 1..n : f[k] = scroll(f[k - 1])
  BY NowTyped, ScrollLoop
<1>2. PICK t \in Nat, b \in 1..Rows : t = scroll_top_margin /\ b = scroll_bottom_margin /\ t < b
  BY Region2
<1> DEFINE B(k) == [s |-> UpBy(screen, t, b, k), x |-> cursor_x, y |-> cursor_y]
           Good == {k \in 0..n : f[k] = B(k)}
<1>3. 0 \in Good
  <2>1. UpBy(screen, t, b, 0) = screen
    BY ByNone DEF TypeOK, Screens
  <2> QED BY <1>1, <2>1 DEF Now
<1>4. ASSUME NEW k \in 1..n, k - 1 \in Good PROVE k \in Good
  <2>1. f[k - 1] \in Boxes /\ f[k - 1] = B(k - 1)
    BY <1>1, <1>4
  <2>2. scroll(f[k - 1]) = [s |-> Scrolled(f[k - 1].s, t, b, Space), x |-> f[k - 1].x, y |-> f[k - 1].y]
    BY <1>2, <2>1 DEF scroll, Boxes
  <2>3. Scrolled(UpBy(screen, t, b, k - 1), t, b, Space) = UpBy(screen, t, b, k)
    BY <1>2, UpOne
  <2> QED BY <1>1, <2>1, <2>2, <2>3
<1>5. \A k \in 0..n : k \in Good
  <2> HIDE DEF Good
  <2> QED BY <1>3, <1>4, Rounds
<1>6. f[n] = B(n)
  BY <1>5
<1> QED BY <1>1, <1>2, <1>6

LEMMA InsertedLines ==
  ASSUME TypeOK, NEW n \in Nat
  PROVE  \E s \in Screens :
           /\ Times(Now, n, LAMBDA c : revscroll(c, Y)) = [s |-> s, x |-> cursor_x, y |-> cursor_y]
           /\ Y < scroll_bottom_margin => s = DownBy(screen, Y, scroll_bottom_margin, n)
<1>1. PICK f \in [0..n -> Boxes] :
        /\ f[0] = Now /\ f[n] = Times(Now, n, LAMBDA c : revscroll(c, Y))
        /\ \A k \in 1..n : f[k] = InsertLine(f[k - 1])
  BY NowTyped, InsertLoop
<1>2. PICK t \in Nat, b \in 1..Rows : t = Y /\ b = scroll_bottom_margin
  BY Region2, NowTyped
<1> DEFINE B(k) == [s |-> DownBy(screen, t, b, k), x |-> cursor_x, y |-> cursor_y]
           Good == {k \in 0..n : /\ f[k] = [s |-> f[k].s, x |-> cursor_x, y |-> cursor_y]
                                 /\ t < b => f[k].s = DownBy(screen, t, b, k)}
<1>3. 0 \in Good
  <2>1. DownBy(screen, t, b, 0) = screen
    BY ByNone DEF TypeOK, Screens
  <2> QED BY <1>1, <2>1 DEF Now
<1>4. ASSUME NEW k \in 1..n, k - 1 \in Good PROVE k \in Good
  <2>1. /\ f[k - 1] \in Boxes /\ f[k - 1] = [s |-> f[k - 1].s, x |-> cursor_x, y |-> cursor_y]
        /\ t < b => f[k - 1].s = DownBy(screen, t, b, k - 1)
    BY <1>1, <1>4
  <2>2. InsertLine(f[k - 1]) = [s |-> RevScrolled(f[k - 1].s, t, b, Space), x |-> cursor_x, y |-> cursor_y]
    BY <1>2, <2>1 DEF InsertLine, revscroll, Boxes
  <2>3. t < b => RevScrolled(DownBy(screen, t, b, k - 1), t, b, Space) = DownBy(screen, t, b, k)
    BY DownOne
  <2> QED BY <1>1, <2>1, <2>2, <2>3
<1>5. \A k \in 0..n : k \in Good
  <2> HIDE DEF Good
  <2> QED BY <1>3, <1>4, Rounds
<1>6. f[n] = [s |-> f[n].s, x |-> cursor_x, y |-> cursor_y] /\ (t < b => f[n].s = DownBy(screen, t, b, n))
  BY <1>5
<1>7. f[n].s \in Screens
  BY <1>1 DEF Boxes
<1> QED BY <1>1, <1>2, <1>6, <1>7

-----------------------------------------------------------------------------
(* What moving the rest of a line leaves on the screen.                    *)

\* The cells from from to to moved n to the right; the ones from from on that are
\* at most end moved n to the left.
ShiftedRight(s, from, to, n) ==
  [z \in Cells |-> IF from <= z /\ z <= to
                   THEN IF from <= z - n THEN s[z - n] ELSE Space ELSE s[z]]
ShiftedLeft(s, from, end, n) ==
  [z \in Cells |-> IF from <= z /\ z + n <= end THEN s[z + n] ELSE s[z]]

LEMMA MoveIs ==
  ASSUME TypeOK, NEW b \in Boxes, NEW x \in Int, NEW old \in 0..(Cols - 1)
  PROVE  move_character(b, x, Y, old).s =
           [z \in Cells |-> IF x \in 0..(Cols - 1) /\ z = At(0, Y) + x
                            THEN b.s[At(0, Y) + old] ELSE b.s[z]]
<1>1. /\ b.s \in Screens /\ b.s = [z \in Cells |-> b.s[z]] /\ OnScreen(old, Y)
      /\ OnScreen(x, Y) <=> x \in 0..(Cols - 1)
  BY NowTyped DEF OnScreen, Boxes, Screens
<1>2. At(old, Y) = At(0, Y) + old /\ At(0, Y) \in Nat
  BY NowTyped, CellNumber, Sizes
<1>3. CASE x \in 0..(Cols - 1)
  <2>1. At(x, Y) = At(0, Y) + x
    BY <1>3, NowTyped, CellNumber, Sizes
  <2>2. move_character(b, x, Y, old).s = [b.s EXCEPT ![At(x, Y)] = b.s[At(old, Y)]]
    BY <1>1, <1>3 DEF move_character, Boxes
  <2> QED BY <1>1, <1>2, <1>3, <2>1, <2>2
<1>4. CASE x \notin 0..(Cols - 1)
  <2>1. move_character(b, x, Y, old).s = b.s
    BY <1>1, <1>4 DEF move_character, Boxes
  <2> QED BY <1>1, <1>4, <2>1
<1> QED BY <1>3, <1>4

LEMMA InsertAtIs ==
  ASSUME TypeOK, NEW b \in Boxes, NEW n \in Nat, NEW c \in 0..(Cols - 1)
  PROVE  InsertAt(n, b, c).s =
           [z \in Cells |-> IF z = At(0, Y) + c THEN Space
                            ELSE IF c + n < Cols /\ z = At(0, Y) + (c + n)
                                 THEN b.s[At(0, Y) + c] ELSE b.s[z]]
<1>1. c + n \in Int /\ (c + n \in 0..(Cols - 1) <=> c + n < Cols) /\ c \in Int /\ Y \in 0..(Rows - 1) /\ Y \in Int
  BY NowTyped, Sizes
<1> DEFINE e == move_character(b, c + n, Y, c)
           d == set_cursor_pos(e, c, Y)
<1>2. e \in Boxes
  BY <1>1, CallsTyped
<1>3. e.s = [z \in Cells |-> IF c + n \in 0..(Cols - 1) /\ z = At(0, Y) + (c + n)
                             THEN b.s[At(0, Y) + c] ELSE b.s[z]]
  BY <1>1, MoveIs
<1> HIDE DEF e
<1>4. d \in Boxes /\ d = [s |-> e.s, x |-> c, y |-> Y]
  <2>1. Clamp(c, Cols) = c /\ Clamp(Y, Rows) = Y
    BY <1>1, ClampRange, Sizes
  <2> QED BY <1>1, <1>2, <2>1, CallsTyped
<1>5. At(c, Y) = At(0, Y) + c
  BY <1>1, CellNumber, Sizes
<1>6. /\ At(0, Y) + c \in Cells
      /\ InsertAt(n, b, c) = [s |-> [e.s EXCEPT ![At(0, Y) + c] = Space], x |-> c + 1, y |-> Y]
  <2>1. d.x = c /\ d.y = Y /\ d.s = e.s /\ d.x < Cols /\ d.y < Rows
    BY <1>1, <1>4, Sizes
  <2>2. InsertAt(n, b, c) = raw_putchar(d, Space, FALSE)
    BY DEF InsertAt, e
  <2> HIDE DEF d
  <2> QED BY <1>4, <1>5, <2>1, <2>2, PutInLine, Sizes
<1>7. PICK k \in Cells, old \in Screens : k = At(0, Y) + c /\ old = e.s
  BY <1>2, <1>6 DEF Boxes
<1>8. InsertAt(n, b, c).s = [old EXCEPT ![k] = Space]
  BY <1>6, <1>7
<1>9. [old EXCEPT ![k] = Space] = [z \in Cells |-> IF z = k THEN Space ELSE old[z]]
  BY DEF Screens
<1>10. \A z \in Cells : old[z] = IF c + n < Cols /\ z = At(0, Y) + (c + n) THEN b.s[k] ELSE b.s[z]
  BY <1>1, <1>3, <1>7
<1> QED BY <1>7, <1>8, <1>9, <1>10

LEMMA LineIs ==
  ASSUME TypeOK
  PROVE  \E r \in Nat, x \in Nat :
           /\ r = At(0, Y) /\ x = X /\ x < Cols /\ At(X, Y) = r + x /\ At(Cols - 1, Y) = r + Cols - 1
           /\ r + Cols <= Cols * Rows /\ Cols * Rows \in Nat
<1>1. X \in 0..Cols /\ X \in Nat /\ X < Cols /\ Cols - 1 \in 0..Cols /\ Y \in 0..(Rows - 1) /\ Cols \in Nat
  BY NowTyped, Sizes
<1>2. /\ At(X, Y) = At(0, Y) + X /\ At(Cols - 1, Y) = At(0, Y) + (Cols - 1)
      /\ At(0, Y) \in Nat /\ At(0, Y) + Cols <= Cols * Rows /\ Cols * Rows \in Nat
  BY <1>1, CellNumber
<1>3. At(0, Y) + (Cols - 1) = At(0, Y) + Cols - 1
  BY <1>1, <1>2
<1> QED BY <1>1, <1>2, <1>3

LEMMA InsertedCharsIs ==
  ASSUME TypeOK, NEW n \in Nat, n > 0
  PROVE  /\ InsertedChars(n) \in Boxes
         /\ InsertedChars(n).s = ShiftedRight(screen, At(X, Y), At(Cols - 1, Y), n)
<1>1. PICK f \in [X..Cols -> Boxes] :
        /\ f[Cols] = Now /\ f[X] = InsertedChars(n)
        /\ \A c \in X..(Cols - 1) : f[c] = InsertAt(n, f[c + 1], c)
  BY InsertCharsLoop
<1>2. PICK r \in Nat, x \in Nat :
        /\ r = At(0, Y) /\ x = X /\ x < Cols /\ At(X, Y) = r + x /\ At(Cols - 1, Y) = r + Cols - 1
        /\ r + Cols <= Cols * Rows /\ Cols * Rows \in Nat
  BY LineIs
<1>3. Cols \in Nat /\ screen \in Screens /\ screen = [z \in Cells |-> screen[z]] /\ Now.s = screen
  BY Sizes DEF TypeOK, Screens, Now
<1> DEFINE G(c) == ShiftedRight(screen, r + c, r + Cols - 1, n)
           Good == {c \in x..Cols : f[c].s = G(c)}
<1>4. Cols \in Good
  <2>1. ASSUME NEW z \in Cells PROVE G(Cols)[z] = screen[z]
    <3>1. z \in Int /\ ~(r + Cols <= z /\ z <= r + Cols - 1)
      BY <1>2, <1>3 DEF Cells
    <3> QED BY <3>1 DEF ShiftedRight
  <2>2. G(Cols) = [z \in Cells |-> G(Cols)[z]]
    BY DEF ShiftedRight
  <2> HIDE DEF G
  <2>3. G(Cols) = screen
    BY <1>3, <2>1, <2>2
  <2> QED BY <1>1, <1>2, <1>3, <2>3
<1>5. ASSUME NEW c \in x..(Cols - 1), c + 1 \in Good PROVE c \in Good
  <2>1. f[c + 1] \in Boxes /\ f[c + 1].s = G(c + 1) /\ c \in 0..(Cols - 1) /\ c \in Nat
    BY <1>1, <1>2, <1>3, <1>5
  <2> DEFINE L == InsertAt(n, f[c + 1], c).s
  <2>2. L = [z \in Cells |-> IF z = r + c THEN Space
                             ELSE IF c + n < Cols /\ z = r + (c + n) THEN G(c + 1)[r + c] ELSE G(c + 1)[z]]
    <3> HIDE DEF G
    <3>1. InsertAt(n, f[c + 1], c).s =
           [z \in Cells |-> IF z = At(0, Y) + c THEN Space
                            ELSE IF c + n < Cols /\ z = At(0, Y) + (c + n)
                                 THEN f[c + 1].s[At(0, Y) + c] ELSE f[c + 1].s[z]]
      BY <2>1, InsertAtIs
    <3> QED BY <1>2, <2>1, <3>1
  <2> HIDE DEF L
  <2>3. ASSUME NEW z \in Cells PROVE L[z] = G(c)[z]
    <3>1. z \in Nat /\ r + c \in Cells /\ r + c \in Nat
      BY <1>2, <1>3, <2>1 DEF Cells
    <3>2. G(c + 1)[r + c] = screen[r + c]
      BY <1>2, <1>3, <2>1, <3>1 DEF ShiftedRight
    <3>3. G(c + 1)[z] = IF r + (c + 1) <= z /\ z <= r + Cols - 1
                        THEN IF r + (c + 1) <= z - n THEN screen[z - n] ELSE Space ELSE screen[z]
      BY DEF ShiftedRight
    <3>4. G(c)[z] = IF r + c <= z /\ z <= r + Cols - 1
                    THEN IF r + c <= z - n THEN screen[z - n] ELSE Space ELSE screen[z]
      BY DEF ShiftedRight
    <3> HIDE DEF G
    <3>5. CASE z = r + c
      BY <1>2, <1>3, <2>1, <2>2, <3>1, <3>4, <3>5
    <3>6. CASE c + n < Cols /\ z = r + (c + n)
      <4>1. z - n = r + c
        BY <1>2, <2>1, <3>6
      <4> QED BY <1>2, <1>3, <2>1, <2>2, <3>1, <3>2, <3>4, <3>6, <4>1
    <3>7. CASE z # r + c /\ ~(c + n < Cols /\ z = r + (c + n))
      <4>1. L[z] = G(c + 1)[z]
        BY <2>2, <3>7
      <4>2. r + (c + 1) <= z <=> r + c <= z
        BY <1>2, <2>1, <3>1, <3>7
      <4>3. z <= r + Cols - 1 => (r + (c + 1) <= z - n <=> r + c <= z - n)
        <5>1. ASSUME z <= r + Cols - 1, z - n = r + c PROVE FALSE
          <6>1. z = r + (c + n) /\ c + n < Cols
            <7>1. r \in Int /\ c \in Int /\ n \in Int /\ z \in Int /\ Cols \in Int
              BY <1>2, <1>3, <2>1, <3>1
            <7> QED BY <5>1, <7>1
          <6> QED BY <3>7, <6>1
        <5> QED BY <1>2, <1>3, <2>1, <3>1, <5>1
      <4> QED BY <3>3, <3>4, <4>1, <4>2, <4>3
    <3> QED BY <3>5, <3>6, <3>7
  <2>4. G(c) = [z \in Cells |-> G(c)[z]]
    BY DEF ShiftedRight
  <2> HIDE DEF G
  <2>7. L = [z \in Cells |-> L[z]]
    BY <2>2
  <2>5. L = G(c)
    BY <2>3, <2>4, <2>7
  <2>6. f[c] = InsertAt(n, f[c + 1], c) /\ c \in x..Cols
    BY <1>1, <1>2, <1>3
  <2> QED BY <2>5, <2>6 DEF L
<1>6. \A c \in x..Cols : c \in Good
  <2> HIDE DEF Good
  <2>1. x \in Int /\ Cols \in Int /\ x <= Cols
    BY <1>2, <1>3
  <2>2. \A c \in x..(Cols - 1) : c + 1 \in Good => c \in Good
    BY <1>5
  <2> QED BY <1>4, <2>1, <2>2, Down
<1>7. f[x].s = G(x) /\ f[x] \in Boxes
  BY <1>1, <1>2, <1>3, <1>6
<1> QED BY <1>1, <1>2, <1>7

LEMMA DeletedCharsIs ==
  ASSUME TypeOK, NEW n \in Nat, n > 0, X + n < Cols
  PROVE  /\ DeletedChars(n) \in Boxes
         /\ DeletedChars(n).s = ShiftedLeft(screen, At(X, Y), At(Cols - 1, Y), n)
<1>1. PICK f \in [(X + n - 1)..(Cols - 1) -> Boxes] :
        /\ f[X + n - 1] = Now /\ f[Cols - 1] = DeletedChars(n)
        /\ \A c \in (X + n)..(Cols - 1) : f[c] = MoveLeft(n, f[c - 1], c)
  BY LeftLoop
<1>2. PICK r \in Nat, x \in Nat :
        /\ r = At(0, Y) /\ x = X /\ x < Cols /\ At(X, Y) = r + x /\ At(Cols - 1, Y) = r + Cols - 1
        /\ r + Cols <= Cols * Rows /\ Cols * Rows \in Nat
  BY LineIs
<1>3. Cols \in Nat /\ screen \in Screens /\ screen = [z \in Cells |-> screen[z]] /\ Now.s = screen
  BY Sizes DEF TypeOK, Screens, Now
<1>4. PICK lo \in Int, hi \in Int :
        lo = X + n - 1 /\ lo = x + n - 1 /\ hi = Cols - 1 /\ lo <= hi /\ lo + 1 = x + n /\ lo + 1 = X + n
  BY <1>2, <1>3
<1> DEFINE G(c) == ShiftedLeft(screen, r + x, r + c, n)
           Good == {c \in lo..hi : f[c].s = G(c)}
<1>5. lo \in Good
  <2>1. ASSUME NEW z \in Cells PROVE G(lo)[z] = screen[z]
    <3>1. z \in Int /\ r \in Int /\ x \in Int /\ n \in Int /\ lo = x + n - 1
      BY <1>3, <1>4, Sizes DEF Cells
    <3>2. ~(r + x <= z /\ z + n <= r + lo)
      BY <3>1
    <3> QED BY <3>2 DEF ShiftedLeft
  <2>2. G(lo) = [z \in Cells |-> G(lo)[z]]
    BY DEF ShiftedLeft
  <2> HIDE DEF G
  <2>3. G(lo) = screen
    BY <1>3, <2>1, <2>2
  <2> QED BY <1>1, <1>3, <1>4, <2>3
<1>6. ASSUME NEW c \in (lo + 1)..hi, c - 1 \in Good PROVE c \in Good
  <2>1. f[c - 1] \in Boxes /\ f[c - 1].s = G(c - 1)
    BY <1>1, <1>4, <1>6
  <2>2. /\ c \in 0..(Cols - 1) /\ c - n \in 0..(Cols - 1) /\ x <= c - n
        /\ r \in Int /\ x \in Int /\ n \in Int /\ c \in Int /\ Cols \in Int
    BY <1>2, <1>3, <1>4
  <2> DEFINE L == MoveLeft(n, f[c - 1], c).s
  <2>3. L = [z \in Cells |-> IF z = r + (c - n) THEN G(c - 1)[r + c] ELSE G(c - 1)[z]]
    <3> HIDE DEF G
    <3>1. move_character(f[c - 1], c - n, Y, c).s =
            [z \in Cells |-> IF c - n \in 0..(Cols - 1) /\ z = At(0, Y) + (c - n)
                             THEN f[c - 1].s[At(0, Y) + c] ELSE f[c - 1].s[z]]
      <4>1. c - n \in Int
        BY <2>2
      <4> QED BY <2>1, <2>2, <4>1, MoveIs
    <3> QED BY <1>2, <2>1, <2>2, <3>1 DEF MoveLeft
  <2> HIDE DEF L
  <2>4. ASSUME NEW z \in Cells PROVE L[z] = G(c)[z]
    <3>1. z \in Int /\ r + c \in Cells /\ r + c \in Int
      <4>1. r + c \in Nat /\ r + c < r + Cols /\ r + Cols \in Int
        BY <1>2, <2>2
      <4> QED BY <1>2, <4>1 DEF Cells
    <3>2. G(c - 1)[r + c] = screen[r + c]
      <4>1. ~(r + c + n <= r + (c - 1))
        BY <2>2
      <4> QED BY <3>1, <4>1 DEF ShiftedLeft
    <3>3. G(c - 1)[z] = IF r + x <= z /\ z + n <= r + (c - 1) THEN screen[z + n] ELSE screen[z]
      BY DEF ShiftedLeft
    <3>4. G(c)[z] = IF r + x <= z /\ z + n <= r + c THEN screen[z + n] ELSE screen[z]
      BY DEF ShiftedLeft
    <3> HIDE DEF G
    <3>5. CASE z = r + (c - n)
      <4>1. z + n = r + c /\ r + x <= z /\ z + n <= r + c
        BY <2>2, <3>5
      <4> QED BY <2>3, <3>2, <3>4, <3>5, <4>1
    <3>6. CASE z # r + (c - n)
      <4>1. z + n <= r + (c - 1) <=> z + n <= r + c
        BY <2>2, <3>1, <3>6
      <4>2. L[z] = G(c - 1)[z]
        BY <2>3, <3>6
      <4> QED BY <3>3, <3>4, <4>1, <4>2
    <3> QED BY <3>5, <3>6
  <2>5. G(c) = [z \in Cells |-> G(c)[z]]
    BY DEF ShiftedLeft
  <2> HIDE DEF G
  <2>6. L = [z \in Cells |-> L[z]]
    BY <2>3
  <2>7. L = G(c)
    BY <2>4, <2>5, <2>6
  <2>8. f[c] = MoveLeft(n, f[c - 1], c) /\ c \in lo..hi
    BY <1>1, <1>4
  <2> QED BY <2>7, <2>8 DEF L
<1>7. \A c \in lo..hi : c \in Good
  <2> HIDE DEF Good
  <2>1. \A c \in (lo + 1)..hi : c - 1 \in Good => c \in Good
    BY <1>6
  <2> QED BY <1>4, <1>5, <2>1, Up
<1>8. f[hi].s = G(hi) /\ f[hi] \in Boxes
  BY <1>1, <1>4, <1>7
<1>9. r + hi = r + Cols - 1
  BY <1>2, <1>3, <1>4
<1> QED BY <1>1, <1>2, <1>4, <1>8, <1>9

-----------------------------------------------------------------------------
(* What blanks over several lines leave on the screen.                     *)

\* n blanks that end before the bottom margin, from a cursor on the screen.
LEMMA BlankedAcross ==
  ASSUME TypeOK, Rows <= Cols,
         NEW b \in Boxes, b.x < Cols, b.y < Rows,
         NEW n \in Nat, At(b.x, b.y) + n <= scroll_bottom_margin * Cols
  PROVE  /\ Blanked(b, n) \in Boxes
         /\ Blanked(b, n).s = Wiped(b.s, At(b.x, b.y), n)
<1>1. PICK f \in [0..n -> Boxes] :
        /\ f[0] = b /\ f[n] = Blanked(b, n)
        /\ \A k \in 1..n : f[k] = PutBlank(f[k - 1])
  BY BlankedLoop
<1>2. PICK a \in Nat, bottom \in 1..Rows, s0 \in Screens :
        a = At(b.x, b.y) /\ bottom = scroll_bottom_margin /\ s0 = b.s
  <2>1. b.x \in 0..Cols /\ b.y \in 0..(Rows - 1) /\ b.s \in Screens
    BY Sizes DEF Boxes
  <2> QED BY <2>1, CellNumber, Region2
<1>3. bottom * Cols <= Cols * Rows /\ bottom * Cols \in Nat /\ Cols * Rows \in Nat /\ a + n <= bottom * Cols
  BY <1>2, RowBound
\* After k rounds the cursor is at the k-th cell, or behind the end of the line before it.
<1> DEFINE At2(k) == /\ f[k].x \in 0..Cols /\ f[k].y \in 0..(Rows - 1)
                     /\ At(f[k].x, f[k].y) = a + k
           Good == {k \in 0..n : At2(k) /\ f[k].s = Wiped(s0, a, k)}
<1>4. 0 \in Good
  <2>1. s0 = [c \in Cells |-> s0[c]]
    BY DEF Screens
  <2>2. Wiped(s0, a, 0) = s0
    BY <2>1 DEF Wiped, Cells
  <2>3. At2(0)
    BY <1>1, <1>2, Sizes DEF Boxes
  <2>4. f[0].s = Wiped(s0, a, 0)
    BY <1>1, <1>2, <2>2
  <2> HIDE DEF At2
  <2> QED BY <2>3, <2>4
<1>5. ASSUME NEW k \in 1..n, k - 1 \in Good PROVE k \in Good
  <2>1. PICK c \in Boxes : c = f[k - 1]
    BY <1>1
  <2>2. /\ c.x \in 0..Cols /\ c.x \in Int /\ c.y \in 0..(Rows - 1) /\ c.y \in Int
        /\ At(c.x, c.y) = a + (k - 1) /\ c.s = Wiped(s0, a, k - 1)
    BY <1>5, <2>1
  <2>3. f[k] = PutBlank(c)
    BY <1>1, <2>1
  <2>4. /\ At(c.x, c.y) = c.y * Cols + c.x /\ (c.y + 1) * Cols = c.y * Cols + Cols
        /\ c.y * Cols \in Int /\ Cols \in Nat /\ Cols > 0 /\ Rows \in Nat
    BY <2>2, NextRow, Sizes DEF At
  <2>5. a + (k - 1) < bottom * Cols /\ a + (k - 1) \in Cells
    BY <1>3 DEF Cells
  <2>6. CASE c.x < Cols
    <3>1. f[k] = [s |-> [c.s EXCEPT ![At(c.x, c.y)] = Space], x |-> c.x + 1, y |-> c.y]
      <4>1. c.y < Rows
        BY <2>2, <2>4
      <4> QED BY <2>3, <2>6, <4>1, PutInLine, Sizes DEF PutBlank
    <3>2. f[k].s = Wiped(s0, a, k)
      <4>1. f[k].s = [Wiped(s0, a, k - 1) EXCEPT ![a + (k - 1)] = Space]
        BY <2>2, <3>1
      <4> QED BY <2>5, <4>1, WipedMore
    <3>3. At(c.x + 1, c.y) = a + k
      <4>1. At(c.x + 1, c.y) = c.y * Cols + (c.x + 1)
        BY DEF At
      <4>2. PICK p \in Int, x \in Int, i \in Int : p = c.y * Cols /\ x = c.x /\ i = k
        BY <2>2, <2>4
      <4>3. p + x = a + (i - 1)
        BY <2>2, <2>4, <4>2
      <4>4. p + (x + 1) = a + i
        BY <4>3
      <4> QED BY <4>1, <4>2, <4>4
    <3>4. c.x + 1 \in 0..Cols
      <4>1. PICK x \in Int, m \in Nat : x = c.x /\ m = Cols
        BY <2>2, <2>4
      <4>2. x \in 0..m /\ x < m
        BY <2>2, <2>6, <4>1
      <4>3. x + 1 \in 0..m
        BY <4>2
      <4> QED BY <4>1, <4>3
    <3>5. f[k].x = c.x + 1 /\ f[k].y = c.y
      BY <3>1
    <3> QED BY <2>2, <3>2, <3>3, <3>4, <3>5
  <2>7. CASE c.x = Cols
    <3>1. c.y + 1 < bottom
      <4>1. (c.y + 1) * Cols = a + (k - 1)
        BY <2>2, <2>4, <2>7
      <4>2. ASSUME bottom <= c.y + 1 PROVE FALSE
        <5>1. bottom * Cols <= (c.y + 1) * Cols
          BY <2>2, <2>4, <4>2, Monotone
        <5> QED BY <1>3, <2>5, <4>1, <5>1
      <4> QED BY <2>2, <4>2
    <3>2. /\ Wraps(c.x, c.y, bottom, FALSE) /\ ~WrapScrolls(c.x, c.y, bottom, FALSE)
          /\ WrappedRow(c.y, bottom) = c.y + 1 /\ c.y + 1 \in 0..(Rows - 1)
      <4>1. PICK y \in Nat, m \in Nat, h \in Nat, e \in Nat :
              y = c.y /\ m = Cols /\ h = Rows /\ e = bottom /\ h <= m /\ e <= h /\ y + 1 < e
        BY <2>2, <2>4, <3>1
      <4>2. y + 1 # e /\ y < e - 1 /\ y + 1 < m /\ y + 1 \in 0..(h - 1)
        BY <4>1
      <4>3. WrappedRow(y, e) = y + 1
        BY <4>1, <4>2 DEF WrappedRow
      <4>4. c.x >= Cols
        BY <2>4, <2>7
      <4> QED BY <4>1, <4>2, <4>3, <4>4 DEF Wraps, WrapScrolls
    <3>3. f[k] = [s |-> Put(c.s, Space, 0, c.y + 1), x |-> 1, y |-> c.y + 1]
      <4>1. 0 + 1 = 1
        OBVIOUS
      <4> QED BY <1>2, <2>3, <3>2, <4>1 DEF PutBlank, raw_putchar
    <3>4. At(0, c.y + 1) = a + (k - 1) /\ OnScreen(0, c.y + 1)
      BY <2>2, <2>4, <2>7, <3>2 DEF At, OnScreen
    <3>5. f[k].s = Wiped(s0, a, k)
      <4>1. f[k].s = [Wiped(s0, a, k - 1) EXCEPT ![a + (k - 1)] = Space]
        BY <2>2, <3>3, <3>4 DEF Put
      <4> QED BY <2>5, <4>1, WipedMore
    <3>6. At(1, c.y + 1) = a + k /\ 1 \in 0..Cols
      BY <2>2, <2>4, <2>7 DEF At
    <3> QED BY <3>2, <3>3, <3>5, <3>6
  <2> QED BY <2>2, <2>4, <2>6, <2>7
<1>6. \A k \in 0..n : k \in Good
  <2> HIDE DEF Good
  <2> QED BY <1>4, <1>5, Rounds
<1>7. f[n].s = Wiped(s0, a, n) /\ f[n] \in Boxes
  BY <1>1, <1>6
<1> QED BY <1>1, <1>2, <1>7

-----------------------------------------------------------------------------
(* Types.                                                                  *)

\* A box the cursor may be in after an action: on the screen if it was there and
\* the region ends with it.
Lands(b) ==
  /\ b \in Boxes /\ b.x <= MaxX
  /\ cursor_y < Rows /\ scroll_bottom_margin = Rows => b.y < Rows

LEMMA BackIs ==
  ASSUME TypeOK, NEW b \in Boxes
  PROVE  Back(b) = [s |-> b.s, x |-> X, y |-> Y] /\ Back(b) \in Boxes /\ Lands(Back(b))
<1>1. X \in Int /\ Y \in Int /\ X \in 0..(Cols - 1) /\ Y \in 0..(Rows - 1)
  BY NowTyped, Sizes
<1>2. Clamp(X, Cols) = X /\ Clamp(Y, Rows) = Y
  BY <1>1, ClampRange, Sizes
<1>3. Back(b) = [s |-> b.s, x |-> X, y |-> Y] /\ Back(b) \in Boxes
  <2>1. X \in Int /\ Y \in Int
    BY <1>1
  <2>2. /\ set_cursor_pos(b, X, Y) = [s |-> b.s, x |-> Clamp(X, Cols), y |-> Clamp(Y, Rows)]
        /\ set_cursor_pos(b, X, Y) \in Boxes
    BY <2>1, CallsTyped
  <2> QED BY <1>2, <2>2 DEF Back
<1>4. X <= MaxX /\ Y < Rows
  BY <1>1, Sizes
<1>5. Back(b).x = X /\ Back(b).y = Y
  BY <1>3
<1> QED BY <1>3, <1>4, <1>5 DEF Lands

LEMMA SetCursorLands ==
  ASSUME TypeOK, NEW b \in Boxes, NEW x \in Int, NEW y \in Int
  PROVE  Lands(set_cursor_pos(b, x, y))
<1>1. Clamp(x, Cols) \in 0..(Cols - 1) /\ Clamp(y, Rows) \in 0..(Rows - 1)
  BY ClampRange, Sizes
<1>2. /\ set_cursor_pos(b, x, y) \in Boxes
      /\ set_cursor_pos(b, x, y).x = Clamp(x, Cols) /\ set_cursor_pos(b, x, y).y = Clamp(y, Rows)
  <2>1. /\ set_cursor_pos(b, x, y) \in Boxes
        /\ set_cursor_pos(b, x, y) = [s |-> b.s, x |-> Clamp(x, Cols), y |-> Clamp(y, Rows)]
    BY CallsTyped
  <2> QED BY <2>1
<1>3. Clamp(x, Cols) <= MaxX /\ Clamp(y, Rows) < Rows
  BY <1>1, Sizes
<1> QED BY <1>2, <1>3 DEF Lands

LEMMA PutLands ==
  ASSUME TypeOK, NEW b, Lands(b), b.x < MaxX, NEW g \in Glyphs, NEW scrolls \in BOOLEAN
  PROVE  Lands(raw_putchar(b, g, scrolls)) /\ raw_putchar(b, g, scrolls).x <= b.x + 1
<1> DEFINE r == raw_putchar(b, g, scrolls)
           wraps == Wraps(b.x, b.y, scroll_bottom_margin, scrolls)
<1>1. b \in Boxes /\ b.x \in Nat /\ b.y \in Nat
  BY Sizes DEF Lands, Boxes
<1>2. /\ r \in Boxes /\ r.x = (IF wraps THEN 1 ELSE b.x + 1)
      /\ r.y = (IF wraps THEN WrappedRow(b.y, scroll_bottom_margin) ELSE b.y)
  BY <1>1, PutcharIs
<1>3. r.x <= b.x + 1 /\ r.x <= MaxX
  BY <1>1, <1>2, Sizes
<1>4. ASSUME cursor_y < Rows, scroll_bottom_margin = Rows PROVE r.y < Rows
  <2>1. b.y < Rows
    BY <1>4 DEF Lands
  <2>2. WrappedRow(b.y, scroll_bottom_margin) < Rows
    BY <1>1, <1>4, <2>1, Sizes DEF WrappedRow
  <2> QED BY <1>2, <2>1, <2>2
<1> QED BY <1>2, <1>3, <1>4 DEF Lands

LEMMA NowLands ==
  ASSUME TypeOK
  PROVE  Lands(Now)
BY NowTyped DEF Lands, TypeOK

\* In insert mode only the cursor's row changes.
LEMMA InsertedIs ==
  ASSUME TypeOK
  PROVE  /\ Inserted(Now) \in Boxes /\ Inserted(Now).x = cursor_x /\ Inserted(Now).y = cursor_y
         /\ \A z \in Cells : (z < At(0, Y) \/ At(0, Y) + Cols <= z) => Inserted(Now).s[z] = screen[z]
<1>1. CASE ~insert_mode
  <2>1. Inserted(Now) = Now
    BY <1>1 DEF Inserted
  <2> QED BY <2>1, NowTyped
<1>2. CASE insert_mode
  <2>1. PICK f \in [X..Cols -> Boxes] :
          /\ f[Cols] = Now /\ f[X] = MovedRight
          /\ \A c \in X..(Cols - 1) : f[c] = MoveRight(f[c + 1], c)
    BY RightLoop
  <2>2. PICK r \in Nat, x \in Nat :
          /\ r = At(0, Y) /\ x = X /\ x < Cols /\ At(X, Y) = r + x /\ At(Cols - 1, Y) = r + Cols - 1
          /\ r + Cols <= Cols * Rows /\ Cols * Rows \in Nat
    BY LineIs
  <2>3. Cols \in Int /\ x \in Int /\ r \in Int
    BY <2>2, Sizes
  <2> DEFINE Kept(b) == /\ b.x = cursor_x /\ b.y = cursor_y
                        /\ \A z \in Cells : (z < r \/ r + Cols <= z) => b.s[z] = screen[z]
             Good == {c \in x..Cols : Kept(f[c])}
  <2>4. Cols \in Good
    BY <2>1, <2>2, <2>3, NowTyped
  <2>5. ASSUME NEW c \in x..(Cols - 1), c + 1 \in Good PROVE c \in Good
    <3>1. PICK a \in Boxes : a = f[c + 1] /\ Kept(a)
      BY <2>1, <2>2, <2>3, <2>5
    <3>2. f[c] = move_character(a, c + 1, Y, c) /\ c \in x..Cols
      BY <2>1, <2>2, <2>3, <3>1 DEF MoveRight
    <3>3. c \in 0..(Cols - 1) /\ c + 1 \in Int
      BY <2>3, <2>2
    <3>4. f[c].s = [z \in Cells |-> IF c + 1 \in 0..(Cols - 1) /\ z = r + (c + 1)
                                    THEN a.s[r + c] ELSE a.s[z]]
      <4>1. a \in Boxes
        BY <3>1
      <4>2. move_character(a, c + 1, Y, c).s =
              [z \in Cells |-> IF c + 1 \in 0..(Cols - 1) /\ z = At(0, Y) + (c + 1)
                               THEN a.s[At(0, Y) + c] ELSE a.s[z]]
        BY <3>3, <4>1, MoveIs
      <4> QED BY <2>2, <3>2, <4>2
    <3>5. ASSUME NEW z \in Cells, z < r \/ r + Cols <= z PROVE f[c].s[z] = screen[z]
      <4>1. ~(c + 1 \in 0..(Cols - 1) /\ z = r + (c + 1))
        BY <2>3, <3>3, <3>5
      <4> QED BY <3>1, <3>4, <3>5, <4>1
    <3>6. f[c].x = a.x /\ f[c].y = a.y
      BY <3>2 DEF move_character, Boxes
    <3>7. Kept(f[c])
      BY <3>1, <3>5, <3>6
    <3> HIDE DEF Kept
    <3> QED BY <3>2, <3>7
  <2>6. \A c \in x..Cols : c \in Good
    <3> HIDE DEF Good
    <3>1. \A c \in x..(Cols - 1) : c + 1 \in Good => c \in Good
      BY <2>5
    <3>2. x <= Cols
      BY <2>2, <2>3
    <3> QED BY <2>3, <2>4, <3>1, <3>2, Down
  <2>7. Kept(f[x]) /\ f[x] \in Boxes
    <3> HIDE DEF Kept
    <3> QED BY <2>1, <2>2, <2>3, <2>6
  <2>8. Inserted(Now) = MovedRight
    BY <1>2 DEF Inserted, MovedRight
  <2> QED BY <2>1, <2>2, <2>7, <2>8
<1> QED BY <1>1, <1>2

LEMMA LeastIs ==
  ASSUME NEW m \in Int, NEW n \in Int
  PROVE  Least(m, n) \in {m, n} /\ Least(m, n) <= m /\ Least(m, n) <= n
BY DEF Least

\* Blanks and the cursor back where it was.
LEMMA WipedBack ==
  ASSUME TypeOK, NEW b \in Boxes, NEW n \in Nat
  PROVE  /\ Blanked(b, n) \in Boxes
         /\ Lands(Back(Blanked(b, n)))
         /\ Back(Blanked(b, n)) = [s |-> Blanked(b, n).s, x |-> X, y |-> Y]
<1>1. Blanked(b, n) \in Boxes
  <2>1. PICK f \in [0..n -> Boxes] : f[n] = Blanked(b, n)
    BY BlankedLoop
  <2> QED BY <2>1
<1> QED BY <1>1, BackIs

\* A sequence that is done on the screen alone leaves a box the cursor may be in.
LEMMA StayLands ==
  ASSUME TypeOK, NEW s \in Screens
  PROVE  Lands([s |-> s, x |-> cursor_x, y |-> cursor_y])
<1> DEFINE b == [s |-> s, x |-> cursor_x, y |-> cursor_y]
<1>1. cursor_x \in Nat /\ cursor_x <= MaxX /\ cursor_y \in 0..(Rows + Cols)
  BY Sizes DEF TypeOK
<1>2. b \in Boxes /\ b.x = cursor_x /\ b.y = cursor_y
  BY <1>1 DEF Boxes
<1> QED BY <1>1, <1>2 DEF Lands

LEMMA EditsLand ==
  ASSUME TypeOK, NEW n \in Nat
  PROVE  /\ Lands(ScrollLines(n)) /\ Lands(InsertLines(n))
         /\ Lands(EraseDisplay(n)) /\ Lands(EraseLine(n)) /\ Lands(EraseChars(n))
         /\ Lands(InsertChars(n)) /\ Lands(DeleteChars(n))
<1>0. /\ X \in Int /\ Y \in Int /\ X \in 0..(Cols - 1) /\ Y \in 0..(Rows - 1)
      /\ Cols \in Nat /\ Rows \in Nat /\ X \in Nat /\ Cols - X \in Nat
  BY NowTyped, Sizes
<1>1. Now \in Boxes /\ Lands(Now)
  BY NowTyped, NowLands
<1>2. Least(n, Rows) \in Nat /\ Least(n, Cols) \in Nat
  BY <1>0, LeastIs
<1>3. At(X, Y) \in Nat /\ CellsFrom(X, Y) \in Nat
  <2>1. X \in 0..Cols
    BY <1>0
  <2>2. At(X, Y) \in Nat
    BY <1>0, <2>1, CellNumber
  <2>3. PICK r \in Nat : r = Rows - (Y + 1)
    BY <1>0
  <2>4. r * Cols \in Nat
    BY <1>0, <2>3
  <2>5. CellsFrom(X, Y) = r * Cols + (Cols - (X + 1)) + 1
    BY <2>3 DEF CellsFrom
  <2>6. r * Cols + (Cols - (X + 1)) + 1 \in Nat
    BY <1>0, <2>4
  <2> QED BY <2>2, <2>5, <2>6
<1>4. ASSUME NEW x \in Int, NEW y \in Int
      PROVE  set_cursor_pos(Now, x, y) \in Boxes /\ Lands(set_cursor_pos(Now, x, y))
  BY <1>1, CallsTyped, SetCursorLands
<1>5. Lands(ScrollLines(n))
  <2>1. PICK f \in [0..Least(n, Rows) -> Boxes] : f[Least(n, Rows)] = ScrollLines(n)
    BY <1>1, <1>2, ScrollLoop DEF ScrollLines
  <2>2. ScrollLines(n) \in Boxes
    BY <1>2, <2>1
  <2>3. ScrollLines(n) = [s |-> UpBy(screen, scroll_top_margin, scroll_bottom_margin, Least(n, Rows)),
                          x |-> cursor_x, y |-> cursor_y]
    BY <1>2, ScrolledLines DEF ScrollLines
  <2>4. UpBy(screen, scroll_top_margin, scroll_bottom_margin, Least(n, Rows)) \in Screens
    BY <2>2, <2>3 DEF Boxes
  <2> QED BY <2>3, <2>4, StayLands
<1>6. Lands(InsertLines(n))
  <2>1. PICK s \in Screens : InsertLines(n) = [s |-> s, x |-> cursor_x, y |-> cursor_y]
    BY <1>2, InsertedLines DEF InsertLines
  <2> QED BY <2>1, StayLands
<1>7. Lands(EraseDisplay(n))
  <2>1. CASE n = 0
    <3>1. EraseDisplay(n) = Back(Blanked(Now, CellsFrom(X, Y)))
      BY <2>1 DEF EraseDisplay
    <3> QED BY <1>1, <1>3, <3>1, WipedBack
  <2>2. CASE n = 1
    <3>1. EraseDisplay(n) = Back(Blanked(set_cursor_pos(Now, 0, 0), At(X, Y) + 1))
      BY <2>2 DEF EraseDisplay
    <3>2. At(X, Y) + 1 \in Nat
      BY <1>3
    <3> QED BY <1>4, <3>1, <3>2, WipedBack
  <2>3. CASE n \in {2, 3}
    <3>1. [c \in Cells |-> Space] \in Screens
      BY Sizes DEF Screens
    <3>2. EraseDisplay(n) = [s |-> [c \in Cells |-> Space], x |-> cursor_x, y |-> cursor_y]
      BY <2>3 DEF EraseDisplay, Now
    <3> QED BY <3>1, <3>2, StayLands
  <2>4. CASE n \notin {0, 1, 2, 3}
    <3>1. EraseDisplay(n) = Now
      BY <2>4 DEF EraseDisplay
    <3> QED BY <1>1, <3>1
  <2> QED BY <2>1, <2>2, <2>3, <2>4
<1>8. Lands(EraseLine(n))
  <2>1. CASE n = 0
    <3>1. EraseLine(n) = Back(Blanked(Now, Cols - X))
      BY <2>1 DEF EraseLine
    <3> QED BY <1>0, <1>1, <3>1, WipedBack
  <2>2. CASE n = 1
    <3> DEFINE b == set_cursor_pos(Now, 0, Y)
    <3>1. EraseLine(n) = Blanked(b, X)
      BY <2>2 DEF EraseLine
    <3>2. b \in Boxes /\ b = [s |-> Now.s, x |-> Clamp(0, Cols), y |-> Clamp(Y, Rows)]
      <4>1. 0 \in Int /\ Y \in Int
        BY <1>0
      <4> QED BY <1>1, <4>1, CallsTyped
    <3>3. b.x = 0 /\ b.y = Y /\ b.x + X <= Cols /\ b.y < Rows
      BY <1>0, <3>2, Sizes DEF Clamp
    <3>4. Blanked(b, X) = [s |-> Wiped(b.s, At(b.x, b.y), X), x |-> b.x + X, y |-> b.y]
      BY <1>0, <3>2, <3>3, BlankedInLine
    <3>5. Blanked(b, X) \in Boxes
      BY <1>0, <3>2, WipedBack
    <3>6. Blanked(b, X).x = X /\ Blanked(b, X).y = Y
      BY <1>0, <3>3, <3>4
    <3>7. X <= MaxX /\ Y < Rows
      BY <1>0, Sizes
    <3> QED BY <3>1, <3>5, <3>6, <3>7 DEF Lands
  <2>3. CASE n = 2
    <3>1. EraseLine(n) = Back(Blanked(set_cursor_pos(Now, 0, Y), Cols))
      BY <2>3 DEF EraseLine
    <3> QED BY <1>0, <1>4, <3>1, WipedBack
  <2>4. CASE n \notin {0, 1, 2}
    <3>1. EraseLine(n) = Now
      BY <2>4 DEF EraseLine
    <3> QED BY <1>1, <3>1
  <2> QED BY <2>1, <2>2, <2>3, <2>4
<1>9. Lands(EraseChars(n))
  BY <1>1, <1>2, WipedBack DEF EraseChars
<1>10. Lands(InsertChars(n))
  <2>1. PICK f \in [X..Cols -> Boxes] : f[X] = InsertedChars(n)
    BY InsertCharsLoop
  <2>2. InsertedChars(n) \in Boxes
    BY <1>0, <2>1
  <2>3. InsertChars(n) = Back(InsertedChars(n))
    BY DEF InsertChars, InsertedChars
  <2> QED BY <2>2, <2>3, BackIs
<1>11. Lands(DeleteChars(n))
  <2> DEFINE shifted == IF X + n < Cols THEN DeletedChars(n) ELSE Now
  <2>1. shifted \in Boxes
    <3>1. CASE X + n < Cols
      <4>1. PICK f \in [(X + n - 1)..(Cols - 1) -> Boxes] : f[Cols - 1] = DeletedChars(n)
        BY <3>1, LeftLoop
      <4>2. Cols - 1 \in (X + n - 1)..(Cols - 1)
        BY <1>0, <3>1
      <4> QED BY <3>1, <4>1, <4>2
    <3> QED BY <1>1, <3>1
  <2>2. DeleteChars(n) = Back(Blanked(set_cursor_pos(shifted, Cols - n, Y), Least(n, Cols)))
    BY DEF DeleteChars, DeletedChars
  <2>3. Cols - n \in Int /\ set_cursor_pos(shifted, Cols - n, Y) \in Boxes
    <3> HIDE DEF shifted
    <3> QED BY <1>0, <2>1, CallsTyped
  <2> HIDE DEF shifted
  <2> QED BY <1>2, <2>2, <2>3, WipedBack
<1> QED BY <1>5, <1>6, <1>7, <1>8, <1>9, <1>10, <1>11

\* What every step does to the screen and the cursor.
Landed ==
  /\ screen' \in Screens /\ cursor_x' \in 0..MaxX /\ cursor_y' \in 0..(Rows + Cols)
  /\ cursor_y < Rows /\ scroll_bottom_margin = Rows => cursor_y' < Rows

LEMMA BecomeLands ==
  ASSUME NEW b, Lands(b), Become(b)
  PROVE  Landed
<1>1. /\ b.s \in Screens /\ b.x \in Nat /\ b.x <= MaxX /\ b.y \in 0..(Rows + Cols)
      /\ cursor_y < Rows /\ scroll_bottom_margin = Rows => b.y < Rows
  BY DEF Lands, Boxes
<1>2. screen' = b.s /\ cursor_x' = b.x /\ cursor_y' = b.y
  BY DEF Become
<1>3. b.x \in 0..MaxX
  BY <1>1, Sizes
<1> QED BY <1>1, <1>2, <1>3 DEF Landed

LEMMA MoveLands ==
  ASSUME TypeOK, NEW x \in Int, NEW y \in Int, MoveTo(x, y)
  PROVE  Landed /\ UNCHANGED modes
<1>1. Become(set_cursor_pos(Now, x, y)) /\ UNCHANGED modes
  BY DEF MoveTo
<1>2. Lands(set_cursor_pos(Now, x, y))
  BY NowTyped, SetCursorLands
<1> QED BY <1>1, <1>2, BecomeLands

LEMMA NextLineLands ==
  ASSUME TypeOK, NEW x \in Int, NextLine(x)
  PROVE  Landed /\ UNCHANGED modes
<1>1. Now \in Boxes /\ Y \in Int /\ Y + 1 \in Int
  BY NowTyped, Sizes
<1>2. scroll(Now) \in Boxes
  BY <1>1, CallsTyped
<1>3. Lands(set_cursor_pos(scroll(Now), x, Y)) /\ Lands(set_cursor_pos(Now, x, Y + 1))
  BY <1>1, <1>2, SetCursorLands
<1>4. \/ Become(set_cursor_pos(scroll(Now), x, Y)) \/ Become(set_cursor_pos(Now, x, Y + 1))
  BY DEF NextLine
<1> QED BY <1>3, <1>4, BecomeLands DEF NextLine

LEMMA PrintableGlyph ==
  ASSUME NEW g \in Printable
  PROVE  g \in Glyphs
BY Sizes DEF Printable

\* A type-correct step.
Modes == scroll_enabled' \in BOOLEAN /\ insert_mode' \in BOOLEAN /\ margins' \in Margins

LEMMA ModesKept ==
  ASSUME TypeOK, UNCHANGED modes
  PROVE  Modes
BY DEF TypeOK, modes, margins, Modes

LEMMA CharactersLand ==
  ASSUME TypeOK, Characters
  PROVE  Landed /\ UNCHANGED modes
<1>0. X \in Int /\ Y \in Int /\ scroll_enabled \in BOOLEAN /\ cursor_x \in Int
  BY NowTyped, Sizes DEF TypeOK
<1>1. CASE PutChar
  <2>1. PICK g \in Printable : Become(raw_putchar(Inserted(Now), g, scroll_enabled))
    BY <1>1 DEF PutChar
  <2>2. UNCHANGED modes /\ cursor_x < MaxX
    BY <1>1 DEF PutChar
  <2>3. Lands(Inserted(Now)) /\ Inserted(Now).x < MaxX
    <3>1. Inserted(Now) \in Boxes /\ Inserted(Now).x = cursor_x /\ Inserted(Now).y = cursor_y
      BY InsertedIs
    <3> QED BY <1>0, <2>2, <3>1, Sizes DEF Lands
  <2>4. g \in Glyphs
    BY PrintableGlyph
  <2>5. Lands(raw_putchar(Inserted(Now), g, scroll_enabled))
    BY <1>0, <2>3, <2>4, PutLands
  <2> QED BY <2>1, <2>2, <2>5, BecomeLands
<1>2. CASE PrintUnicode
  <2>1. PICK g \in Printable :
          \/ Become(raw_putchar(Now, g, scroll_enabled))
          \/ Become(raw_putchar(raw_putchar(Now, g, scroll_enabled), Space, scroll_enabled))
    BY <1>2 DEF PrintUnicode
  <2>2. UNCHANGED modes /\ cursor_x + 1 < MaxX
    BY <1>2 DEF PrintUnicode
  <2>3. Lands(Now) /\ Now.x = cursor_x /\ Now.x < MaxX /\ g \in Glyphs
    BY <1>0, <2>2, NowLands, NowTyped, PrintableGlyph, Sizes
  <2> DEFINE one == raw_putchar(Now, g, scroll_enabled)
  <2>4. Lands(one) /\ one.x <= Now.x + 1
    BY <1>0, <2>3, PutLands
  <2>5. Lands(raw_putchar(one, Space, scroll_enabled))
    <3>1. one.x \in Nat
      BY <2>4 DEF Lands, Boxes
    <3>2. one.x < MaxX
      BY <1>0, <2>2, <2>3, <2>4, <3>1, Sizes
    <3> HIDE DEF one
    <3> QED BY <1>0, <2>4, <3>2, PutLands, Sizes
  <2> QED BY <2>1, <2>2, <2>4, <2>5, BecomeLands
<1>3. CASE LineFeed
  BY <1>3, NextLineLands DEF LineFeed
<1>4. CASE Index
  BY <1>0, <1>4, NextLineLands DEF Index
<1>5. CASE ReverseIndex
  <2>1. /\ UNCHANGED modes
        /\ \/ Become(set_cursor_pos(revscroll(Now, scroll_top_margin), 0, Y))
           \/ Become(set_cursor_pos(Now, 0, Y - 1))
    BY <1>5 DEF ReverseIndex
  <2>2. Now \in Boxes /\ Y - 1 \in Int /\ scroll_top_margin \in Int /\ scroll_top_margin >= 0
    BY <1>0, NowTyped, Region2, Sizes
  <2>3. revscroll(Now, scroll_top_margin) \in Boxes
    BY <2>2, CallsTyped
  <2>4. /\ Lands(set_cursor_pos(revscroll(Now, scroll_top_margin), 0, Y))
        /\ Lands(set_cursor_pos(Now, 0, Y - 1))
    BY <1>0, <2>2, <2>3, SetCursorLands
  <2> QED BY <2>1, <2>4, BecomeLands
<1> QED BY <1>1, <1>2, <1>3, <1>4, <1>5 DEF Characters

LEMMA ControlsLand ==
  ASSUME TypeOK, Controls
  PROVE  (Landed \/ RestoreCursor) /\ TypeOK'
<1>0. X \in Int /\ Y \in Int /\ X - 1 \in Int /\ 0 \in Int
  BY NowTyped, Sizes
<1>a. ASSUME Landed, Modes PROVE TypeOK'
  BY <1>a DEF Landed, Modes, TypeOK, Screens
<1>1. CASE Backspace
  BY <1>0, <1>1, <1>a, MoveLands, ModesKept DEF Backspace
<1>2. CASE CarriageReturn
  BY <1>0, <1>2, <1>a, MoveLands, ModesKept DEF CarriageReturn
<1>3. CASE Tab
  <2>1. PICK q \in Int : q = X \div TabSize + 1
    BY <1>0, Sizes
  <2>2. PICK x \in Int : MoveTo(x, Y)
    <3>1. MoveTo(IF q >= Cols THEN Cols - 1 ELSE q * TabSize, Y)
      BY <1>3, <2>1 DEF Tab
    <3>2. (IF q >= Cols THEN Cols - 1 ELSE q * TabSize) \in Int
      BY Sizes
    <3> QED BY <3>1, <3>2
  <2> QED BY <1>0, <2>2, <1>a, MoveLands, ModesKept
<1>4. CASE RestoreCursor
  <2>1. PICK x \in 0..Cols, y \in 0..(IF Cols > Rows THEN Cols - 1 ELSE Rows - 1) :
          Become([Now EXCEPT !.x = x, !.y = y])
    BY <1>4 DEF RestoreCursor
  <2>2. screen' = screen /\ cursor_x' = x /\ cursor_y' = y
    BY <2>1 DEF Become, Now
  <2>3. x \in 0..MaxX /\ y \in 0..(Rows + Cols)
    BY Sizes
  <2>4. Modes
    BY <1>4, ModesKept DEF RestoreCursor
  <2> QED BY <1>4, <2>2, <2>3, <2>4 DEF TypeOK, Modes
<1>5. CASE Reset
  <2>1. /\ screen' = [c \in Cells |-> Space] /\ cursor_x' = 0 /\ cursor_y' = 0
    BY <1>5 DEF Reset, Become
  <2>2. Landed
    BY <2>1, Sizes DEF Landed, Screens
  <2>3. Modes
    <3>1. margins' \in Margins
      BY <1>5, Sizes DEF Reset, margins, Margins
    <3> QED BY <1>5, <3>1 DEF Reset, Modes
  <2> QED BY <2>2, <2>3, <1>a
<1>6. CASE InsertMode \/ Unhandled
  <2>1. UNCHANGED <<screen, cursor_x, cursor_y, margins>>
    BY <1>6 DEF InsertMode, Unhandled, LeftOff
  <2>2. scroll_enabled' \in BOOLEAN /\ insert_mode' \in BOOLEAN
    BY <1>6 DEF InsertMode, Unhandled, LeftOff, TypeOK
  <2>3. Landed
    BY <2>1, Sizes DEF Landed, TypeOK, Screens
  <2>4. Modes
    <3>1. margins \in Margins /\ margins' = margins
      BY <2>1 DEF TypeOK
    <3> QED BY <2>2, <3>1, Zenon DEF Modes
  <2> QED BY <2>3, <2>4, <1>a
<1> QED BY <1>1, <1>2, <1>3, <1>4, <1>5, <1>6, <1>a, MoveLands DEF Controls

\* The row a relative motion ends in.
LEMMA RowMotion ==
  ASSUME TypeOK, NEW n \in Nat
  PROVE  /\ RowUp(n) \in Int /\ RowDown(n) \in Int
         /\ RowUp(n) <= Y /\ (Y \in Region => RowUp(n) \in Region)
         /\ Y # scroll_bottom_margin => RowDown(n) >= Y /\ (Y \in Region => RowDown(n) \in Region)
<1>1. PICK y \in Int, t \in Int, b \in Int, h \in Int :
        /\ y = Y /\ t = scroll_top_margin /\ b = scroll_bottom_margin /\ h = Rows - 1 - Y
        /\ 0 <= y /\ 0 <= t /\ t < b /\ 0 <= h
  BY NowTyped, Region2, Sizes
<1>2. RowUp(n) \in Int /\ RowUp(n) <= y /\ (y \in t..(b - 1) => RowUp(n) \in t..(b - 1))
  <2>1. PICK d \in Int : d = y - Least(n, y) /\ d <= y
    <3>1. y - Least(n, y) \in Int /\ y - Least(n, y) <= y
      BY <1>1 DEF Least
    <3> QED BY <3>1
  <2>2. RowUp(n) = IF d < t /\ (Between(t, d, y) \/ Between(b, d, y)) THEN t ELSE d
    BY <1>1, <2>1 DEF RowUp
  <2>3. CASE d < t /\ (Between(t, d, y) \/ Between(b, d, y))
    BY <1>1, <2>1, <2>2, <2>3 DEF Between
  <2>4. CASE ~(d < t /\ (Between(t, d, y) \/ Between(b, d, y)))
    BY <1>1, <2>1, <2>2, <2>4 DEF Between
  <2> QED BY <2>3, <2>4
<1>3. /\ RowDown(n) \in Int
      /\ y # b => RowDown(n) >= y /\ (y \in t..(b - 1) => RowDown(n) \in t..(b - 1))
  <2>1. PICK d \in Int : d = y + Least(n, h) /\ d >= y
    <3>1. y + Least(n, h) \in Int /\ y + Least(n, h) >= y
      BY <1>1 DEF Least
    <3> QED BY <3>1
  <2>2. RowDown(n) = IF d >= b /\ (Between(t, y, d) \/ Between(b, y, d)) THEN b - 1 ELSE d
    BY <1>1, <2>1 DEF RowDown
  <2>3. CASE d >= b /\ (Between(t, y, d) \/ Between(b, y, d))
    BY <1>1, <2>1, <2>2, <2>3 DEF Between
  <2>4. CASE ~(d >= b /\ (Between(t, y, d) \/ Between(b, y, d)))
    BY <1>1, <2>1, <2>2, <2>4 DEF Between
  <2> QED BY <2>3, <2>4
<1> QED BY <1>1, <1>2, <1>3 DEF Region

LEMMA SetMarginsTyped ==
  ASSUME TypeOK, NEW i \in 0..2, NEW m \in Nat, NEW n \in Nat, SetMargins(i, m, n)
  PROVE  Landed /\ Modes
<1>1. PICK t \in Nat : t = IF i > 0 THEN (IF m = 0 THEN 1 ELSE m) - 1 ELSE 0
  OBVIOUS
<1>2. PICK b \in Nat : b = IF i > 1 THEN (IF n = 0 THEN 1 ELSE n) ELSE Rows
  BY Sizes
<1>3. PICK ok \in BOOLEAN : ok <=> t < Rows /\ b <= Rows /\ t < b - 1
  OBVIOUS
<1>4. /\ scroll_top_margin' = IF ok THEN t ELSE 0
      /\ scroll_bottom_margin' = IF ok THEN b ELSE Rows
  <2>1. /\ scroll_top_margin' = IF t < Rows /\ b <= Rows /\ t < b - 1 THEN t ELSE 0
        /\ scroll_bottom_margin' = IF t < Rows /\ b <= Rows /\ t < b - 1 THEN b ELSE Rows
    BY <1>1, <1>2 DEF SetMargins
  <2> QED BY <1>3, <2>1
<1>5. <<scroll_top_margin', scroll_bottom_margin'>> \in Margins
  <2>1. CASE ok
    <3>1. /\ <<scroll_top_margin', scroll_bottom_margin'>> = <<t, b>>
          /\ t < Rows /\ b <= Rows /\ t < b - 1
      BY <1>3, <1>4, <2>1
    <3>2. t \in 0..(Rows - 1) /\ b \in 1..Rows
      BY <3>1, Sizes
    <3> QED BY <3>1, <3>2 DEF Margins
  <2>2. CASE ~ok
    BY <1>4, <2>2, Sizes DEF Margins
  <2> QED BY <2>1, <2>2
<1>6. Become(set_cursor_pos(Now, 0, 0)) /\ UNCHANGED <<scroll_enabled, insert_mode>>
  BY DEF SetMargins
<1>7. Landed
  BY <1>6, NowTyped, SetCursorLands, BecomeLands
<1>8. scroll_enabled' \in BOOLEAN /\ insert_mode' \in BOOLEAN
  BY <1>6 DEF TypeOK
<1> QED BY <1>5, <1>7, <1>8 DEF Modes, margins

LEMMA PositionIs ==
  ASSUME NEW n \in Nat, NEW size \in Nat, size > 0
  PROVE  Position(n, size) \in 0..(size - 1)
BY DEF Position, Least

LEMMA MovesLand ==
  ASSUME TypeOK, Moves
  PROVE  Landed /\ Modes
<1>0. X \in Int /\ Y \in Int /\ 0 \in Int /\ Cols \in Nat /\ Cols > 0 /\ Rows \in Nat /\ Rows > 0
  BY NowTyped, Sizes
<1>1. PICK n \in Params :
        \/ CursorUp(n) \/ CursorDown(n) \/ CursorForward(n) \/ CursorBack(n)
        \/ CursorRow(n) \/ CursorColumn(n)
        \/ \E m \in Params : CursorTo(m, n) \/ \E i \in 0..2 : SetMargins(i, m, n)
  BY DEF Moves
<1>2. n \in Nat
  BY Sizes
<1>m. ASSUME NEW x \in Int, NEW y \in Int, MoveTo(x, y) PROVE Landed /\ Modes
  BY <1>m, MoveLands, ModesKept
<1>3. CASE CursorUp(n)
  BY <1>0, <1>2, <1>3, <1>m, RowMotion DEF CursorUp
<1>4. CASE CursorDown(n)
  BY <1>0, <1>2, <1>4, <1>m, RowMotion DEF CursorDown
<1>5. CASE CursorForward(n)
  <2>1. X + Least(n, Cols - 1 - X) \in Int
    BY <1>0, <1>2 DEF Least
  <2> QED BY <1>0, <1>5, <1>m, <2>1 DEF CursorForward
<1>6. CASE CursorBack(n)
  <2>1. X - Least(n, X) \in Int
    BY <1>0, <1>2 DEF Least
  <2> QED BY <1>0, <1>6, <1>m, <2>1 DEF CursorBack
<1>7. CASE CursorRow(n)
  <2>1. Position(n, Rows) \in Int
    BY <1>0, <1>2, PositionIs
  <2> QED BY <1>0, <1>7, <1>m, <2>1 DEF CursorRow
<1>8. CASE CursorColumn(n)
  <2>1. Position(n, Cols) \in Int
    BY <1>0, <1>2, PositionIs
  <2> QED BY <1>0, <1>8, <1>m, <2>1 DEF CursorColumn
<1>9. ASSUME NEW m \in Params, CursorTo(m, n) PROVE Landed /\ Modes
  <2>1. m \in Nat
    BY Sizes
  <2>2. (IF n = 0 THEN 1 ELSE n) \in Nat /\ (IF m = 0 THEN 1 ELSE m) \in Nat
    BY <1>2, <2>1
  <2>3. /\ Position(IF n = 0 THEN 1 ELSE n, Cols) \in Int
        /\ Position(IF m = 0 THEN 1 ELSE m, Rows) \in Int
    BY <1>0, <2>2, PositionIs
  <2> QED BY <1>9, <1>m, <2>3 DEF CursorTo
<1>10. ASSUME NEW m \in Params, NEW i \in 0..2, SetMargins(i, m, n) PROVE Landed /\ Modes
  <2>1. m \in Nat
    BY Sizes
  <2> QED BY <1>2, <1>10, <2>1, SetMarginsTyped
<1> QED BY <1>1, <1>3, <1>4, <1>5, <1>6, <1>7, <1>8, <1>9, <1>10

LEMMA EditLands ==
  ASSUME TypeOK, Edit
  PROVE  Landed /\ Modes
<1>1. PICK n \in Params :
        \/ Become(ScrollLines(n)) \/ Become(InsertLines(n))
        \/ Become(EraseDisplay(n)) \/ Become(EraseLine(n))
        \/ Become(InsertChars(n)) \/ Become(DeleteChars(n)) \/ Become(EraseChars(n))
  BY DEF Edit
<1>2. n \in Nat
  BY Sizes
<1>3. Landed
  BY <1>1, <1>2, EditsLand, BecomeLands
<1> QED BY <1>3, ModesKept DEF Edit

\* Every step keeps the types; every one but RestoreCursor lands.
LEMMA StepLands ==
  ASSUME TypeOK, [Next]_vars
  PROVE  TypeOK' /\ (Landed \/ RestoreCursor)
<1>a. ASSUME Landed, Modes PROVE TypeOK'
  BY <1>a DEF Landed, Modes, TypeOK, Screens
<1>1. CASE Characters
  BY <1>1, <1>a, CharactersLand, ModesKept
<1>2. CASE Controls
  BY <1>2, ControlsLand
<1>3. CASE Moves
  BY <1>3, <1>a, MovesLand
<1>4. CASE Edit
  BY <1>4, <1>a, EditLands
<1>5. CASE UNCHANGED vars
  <2>1. UNCHANGED <<screen, cursor_x, cursor_y>> /\ UNCHANGED modes
    BY <1>5 DEF vars
  <2>2. Landed
    BY <2>1, Sizes DEF Landed, TypeOK, Screens
  <2> QED BY <2>1, <2>2, <1>a, ModesKept
<1> QED BY <1>1, <1>2, <1>3, <1>4, <1>5 DEF Next

LEMMA StartTyped ==
  ASSUME Init
  PROVE  TypeOK
<1>1. screen \in [Cells -> Glyphs]
  BY Sizes DEF Init
<1>2. margins \in Margins
  BY Sizes DEF Init, margins, Margins
<1>3. cursor_x \in 0..MaxX /\ cursor_y \in 0..(Rows + Cols)
  BY Sizes DEF Init
<1>4. scroll_enabled \in BOOLEAN /\ insert_mode \in BOOLEAN
  BY DEF Init
<1> QED BY <1>1, <1>2, <1>3, <1>4 DEF TypeOK

-----------------------------------------------------------------------------
(* The theorems.                                                           *)

\* The screen stays an array of glyphs, the cursor stays within what the back
\* end's arithmetic allows and the margins stay ones an escape sequence can set
\* (plus the whole screen), whatever characters and sequences arrive.
THEOREM TerminalTypeCorrect == Spec => []TypeOK
<1>1. TypeOK /\ [Next]_vars => TypeOK'
  BY StepLands
<1>2. Init => TypeOK
  BY StartTyped
<1> QED BY <1>1, <1>2, PTL DEF Spec

\* CUU and CUD never move the cursor the wrong way and never out of a scrolling
\* region it is in, except down from the row just below the region.
THEOREM TerminalMotionStaysInRegion == Spec => []MotionStaysInRegion
<1>1. TypeOK => MotionStaysInRegion
  <2> SUFFICES ASSUME TypeOK, NEW n \in Params
               PROVE  /\ RowUp(n) <= Y /\ (Y \in Region => RowUp(n) \in Region)
                      /\ Y # scroll_bottom_margin =>
                           RowDown(n) >= Y /\ (Y \in Region => RowDown(n) \in Region)
    BY DEF MotionStaysInRegion
  <2>1. n \in Nat
    BY Sizes
  <2> QED BY <2>1, RowMotion
<1> QED BY <1>1, TerminalTypeCorrect, PTL

\* A step takes the cursor off the screen only where the scrolling region ends
\* above the last row, or when it restores a position saved under other margins.
THEOREM TerminalCursorLeavesOnlySo == Spec => CursorLeavesOnlySo
<1>1. ASSUME TypeOK, [Next]_vars
      PROVE  [cursor_y < Rows /\ cursor_y' >= Rows => RestoreCursor \/ scroll_bottom_margin < Rows]_vars
  <2> SUFFICES ASSUME cursor_y < Rows, cursor_y' >= Rows, ~RestoreCursor
               PROVE  scroll_bottom_margin < Rows
    OBVIOUS
  <2>1. Landed
    BY <1>1, StepLands
  <2>2. scroll_bottom_margin \in 1..Rows
    BY <1>1, Region2
  <2>3. cursor_y' \in 0..(Rows + Cols)
    BY <2>1 DEF Landed
  <2> QED BY <2>1, <2>2, <2>3, Sizes DEF Landed
<1> QED BY <1>1, TerminalTypeCorrect, PTL DEF Spec, CursorLeavesOnlySo

-----------------------------------------------------------------------------
(* Which rows a character changes.                                         *)

LEMMA RowOfAt ==
  ASSUME NEW x \in Int, NEW y \in Int, OnScreen(x, y)
  PROVE  Row(At(x, y)) = y
<1>1. At(x, y) \in Cells
  BY AtIsCell
<1>2. PICK c \in Cells : c = At(x, y)
  BY <1>1
<1>3. /\ y <= Row(c) <=> y * Cols <= c
      /\ y + 1 <= Row(c) <=> (y + 1) * Cols <= c
  BY RowAtLeast
<1>4. (y + 1) * Cols = y * Cols + Cols /\ y * Cols \in Int
  BY NextRow
<1>5. c = y * Cols + x /\ x >= 0 /\ x < Cols
  BY <1>2, Sizes DEF At, OnScreen
<1>6. Row(c) \in Int
  BY CellSplit
<1>7. y <= Row(c)
  BY <1>3, <1>4, <1>5
<1>8. ~(y + 1 <= Row(c))
  BY <1>3, <1>4, <1>5, Sizes
<1> QED BY <1>2, <1>6, <1>7, <1>8

LEMMA PutcharKeeps ==
  ASSUME TypeOK, NEW b \in Boxes, NEW g \in Glyphs, NEW scrolls \in BOOLEAN,
         NEW z \in Cells, Row(z) \notin Region, Row(z) # raw_putchar(b, g, scrolls).y
  PROVE  raw_putchar(b, g, scrolls).s[z] = b.s[z]
<1> DEFINE bottom == scroll_bottom_margin
           wraps == Wraps(b.x, b.y, bottom, scrolls)
           x == IF wraps THEN 0 ELSE b.x
           y == IF wraps THEN WrappedRow(b.y, bottom) ELSE b.y
           s == IF WrapScrolls(b.x, b.y, bottom, scrolls)
                THEN Scrolled(b.s, scroll_top_margin, bottom, Space) ELSE b.s
<1>1. raw_putchar(b, g, scrolls) = [s |-> Put(s, g, x, y), x |-> x + 1, y |-> y]
  BY DEF raw_putchar
<1>2. Row(z) # y
  BY <1>1
<1>3. x \in Int /\ y \in Int
  BY Region2, Sizes DEF Boxes, WrappedRow
<1>4. s[z] = b.s[z]
  <2>1. PICK t \in Int, e \in Int : t = scroll_top_margin /\ e = scroll_bottom_margin /\ t < e
    BY Region2, Sizes
  <2>2. Row(z) \notin t..(e - 1)
    BY <2>1 DEF Region
  <2>3. Row(z) \notin t..(e - 2) /\ Row(z) # e - 1
    BY <2>1, <2>2
  <2>4. Scrolled(b.s, t, e, Space)[z] = b.s[z]
    BY <2>3 DEF Scrolled
  <2> QED BY <2>1, <2>4
<1> HIDE DEF s, x, y
<1>5. Put(s, g, x, y)[z] = s[z]
  <2>1. OnScreen(x, y) => At(x, y) # z
    BY <1>2, <1>3, RowOfAt
  <2> QED BY <2>1 DEF Put
<1> QED BY <1>1, <1>4, <1>5

\* A cell whose row is not Y is not in the cells of the cursor's line.
LEMMA OtherLine ==
  ASSUME TypeOK, NEW z \in Cells, Row(z) # Y
  PROVE  z < At(0, Y) \/ At(0, Y) + Cols <= z
<1>1. Y \in Int /\ Y \in 0..(Rows - 1) /\ Row(z) \in Int /\ z \in Int
  BY NowTyped, Sizes, CellSplit
<1>2. Y <= Row(z) <=> Y * Cols <= z
  BY <1>1, RowAtLeast
<1>3. Y + 1 <= Row(z) <=> (Y + 1) * Cols <= z
  BY <1>1, RowAtLeast
<1>4. (Y + 1) * Cols = Y * Cols + Cols /\ Y * Cols \in Int
  BY <1>1, NextRow
<1>5. At(0, Y) = Y * Cols
  BY <1>1, <1>4 DEF At
<1>6. Row(z) < Y \/ Y + 1 <= Row(z)
  BY <1>1
<1> QED BY <1>1, <1>2, <1>3, <1>4, <1>5, <1>6, Sizes

LEMMA CharactersKeep ==
  ASSUME TypeOK, Characters, NEW z \in Cells, Row(z) \notin Region, Row(z) # Y, Row(z) # cursor_y'
  PROVE  screen'[z] = screen[z]
<1>0. /\ Now \in Boxes /\ Now.s = screen /\ Now.x = cursor_x /\ Now.y = cursor_y
      /\ scroll_enabled \in BOOLEAN
  BY NowTyped DEF TypeOK
<1>1. CASE PutChar
  <2>1. PICK g \in Printable : Become(raw_putchar(Inserted(Now), g, scroll_enabled))
    BY <1>1 DEF PutChar
  <2>2. g \in Glyphs /\ Inserted(Now) \in Boxes
    BY PrintableGlyph, InsertedIs
  <2>3. Inserted(Now).s[z] = screen[z]
    BY OtherLine, InsertedIs
  <2>4. /\ screen' = raw_putchar(Inserted(Now), g, scroll_enabled).s
        /\ cursor_y' = raw_putchar(Inserted(Now), g, scroll_enabled).y
    BY <2>1 DEF Become
  <2>5. raw_putchar(Inserted(Now), g, scroll_enabled).s[z] = Inserted(Now).s[z]
    BY <1>0, <2>2, <2>4, PutcharKeeps
  <2> QED BY <2>3, <2>4, <2>5
<1>2. CASE PrintUnicode
  <2>1. PICK g \in Printable :
          \/ Become(raw_putchar(Now, g, scroll_enabled))
          \/ Become(raw_putchar(raw_putchar(Now, g, scroll_enabled), Space, scroll_enabled))
    BY <1>2 DEF PrintUnicode
  <2>2. g \in Glyphs
    BY PrintableGlyph
  <2> DEFINE one == raw_putchar(Now, g, scroll_enabled)
             two == raw_putchar(one, Space, scroll_enabled)
             bottom == scroll_bottom_margin
  <2>3. one \in Boxes /\ two \in Boxes
    BY <1>0, <2>2, Sizes, PutcharIs
  <2>4. CASE Become(one)
    <3>1. screen' = one.s /\ cursor_y' = one.y
      BY <2>4 DEF Become
    <3>2. one.s[z] = screen[z]
      BY <1>0, <2>2, <3>1, PutcharKeeps
    <3> QED BY <3>1, <3>2
  <2>5. CASE Become(two)
    <3>1. screen' = two.s /\ cursor_y' = two.y
      BY <2>5 DEF Become
    <3>2. /\ one.x = (IF Wraps(cursor_x, cursor_y, bottom, scroll_enabled) THEN 1 ELSE cursor_x + 1)
          /\ one.y = (IF Wraps(cursor_x, cursor_y, bottom, scroll_enabled)
                      THEN WrappedRow(cursor_y, bottom) ELSE cursor_y)
      BY <1>0, <2>2, PutcharIs
    <3>3. two.y = (IF Wraps(one.x, one.y, bottom, scroll_enabled)
                   THEN WrappedRow(one.y, bottom) ELSE one.y)
      BY <1>0, <2>3, Sizes, PutcharIs
    <3>4. two.s[z] = one.s[z]
      <4> HIDE DEF one
      <4> QED BY <1>0, <2>3, <3>1, Sizes, PutcharKeeps
    <3>5. one.y \in {Y, two.y} \/ one.y >= Rows
      <4>1. PICK x \in Int, y \in Int, h \in Int :
              x = one.x /\ y = one.y /\ h = cursor_y /\ y >= 0 /\ h >= 0
        BY <2>3, Sizes DEF Boxes, TypeOK
      <4>2. CASE ~Wraps(one.x, one.y, bottom, scroll_enabled)
        BY <3>3, <4>2
      <4>3. CASE ~Wraps(cursor_x, cursor_y, bottom, scroll_enabled)
        <5>1. y = h
          BY <3>2, <4>1, <4>3
        <5>2. h < Rows => h = Y
          BY <4>1, Sizes DEF Y
        <5> QED BY <4>1, <5>1, <5>2, Sizes
      <4>4. CASE /\ Wraps(one.x, one.y, bottom, scroll_enabled)
                 /\ Wraps(cursor_x, cursor_y, bottom, scroll_enabled)
        <5>1. x = 1 /\ x >= Cols
          BY <3>2, <4>1, <4>4 DEF Wraps
        <5>2. Cols = 1
          BY <5>1, Sizes
        <5>3. ASSUME NEW v \in Int, v >= 0 PROVE WrappedRow(v, bottom) = 0
          BY <5>2, <5>3 DEF WrappedRow
        <5>4. y = 0 /\ two.y = 0
          <6>1. y = WrappedRow(h, bottom) /\ two.y = WrappedRow(y, bottom)
            BY <3>2, <3>3, <4>1, <4>4
          <6> QED BY <4>1, <5>3, <6>1
        <5> QED BY <4>1, <5>4
      <4> QED BY <4>2, <4>3, <4>4
    <3>6. Row(z) # one.y
      <4>1. Row(z) \in 0..(Rows - 1)
        BY CellSplit DEF Row
      <4> QED BY <3>1, <3>5, <4>1, Sizes
    <3>7. one.s[z] = screen[z]
      BY <1>0, <2>2, <3>6, PutcharKeeps
    <3> QED BY <3>1, <3>4, <3>7
  <2> QED BY <2>1, <2>4, <2>5
<1>3. ASSUME NEW x \in Int, NextLine(x) PROVE screen'[z] = screen[z]
  <2>1. Y \in Int /\ Y + 1 \in Int /\ scroll(Now) \in Boxes
    <3>1. Y \in Int
      BY NowTyped, Sizes
    <3> QED BY <1>0, <3>1, CallsTyped
  <2>2. screen' = scroll(Now).s \/ screen' = screen
    <3>1. /\ set_cursor_pos(scroll(Now), x, Y).s = scroll(Now).s
          /\ set_cursor_pos(Now, x, Y + 1).s = screen
      BY <1>0, <2>1 DEF set_cursor_pos, Boxes
    <3> QED BY <1>3, <3>1 DEF NextLine, Become
  <2>3. scroll(Now).s[z] = screen[z]
    <3>1. PICK t \in Int, e \in Int : t = scroll_top_margin /\ e = scroll_bottom_margin /\ t < e
      BY Region2, Sizes
    <3>2. Row(z) \notin t..(e - 1)
      BY <3>1 DEF Region
    <3>3. Row(z) \notin t..(e - 2) /\ Row(z) # e - 1
      BY <3>1, <3>2
    <3>4. Scrolled(screen, t, e, Space)[z] = screen[z]
      BY <3>3 DEF Scrolled
    <3>5. scroll(Now).s = Scrolled(screen, t, e, Space)
      BY <1>0, <3>1 DEF scroll, Boxes
    <3> QED BY <3>4, <3>5
  <2> QED BY <2>2, <2>3
<1>4. CASE LineFeed
  BY <1>3, <1>4 DEF LineFeed
<1>5. CASE Index
  <2>1. X \in Int
    BY NowTyped, Sizes
  <2> QED BY <1>3, <1>5, <2>1 DEF Index
<1>6. CASE ReverseIndex
  <2>1. PICK t \in Int, e \in Int : t = scroll_top_margin /\ e = scroll_bottom_margin /\ t < e
    BY Region2, Sizes
  <2>2. screen' = revscroll(Now, t).s \/ screen' = screen
    <3>1. revscroll(Now, t) = [s |-> RevScrolled(Now.s, t, e, Space), x |-> Now.x, y |-> Now.y]
      BY <1>0, <2>1, CallsTyped
    <3>2. /\ set_cursor_pos(revscroll(Now, t), 0, Y).s = revscroll(Now, t).s
          /\ set_cursor_pos(Now, 0, Y - 1).s = screen
      BY <1>0, <3>1 DEF set_cursor_pos, Boxes
    <3> QED BY <1>6, <2>1, <3>2 DEF ReverseIndex, Become
  <2>3. revscroll(Now, t).s[z] = screen[z]
    <3>1. Row(z) \notin t..(e - 1)
      BY <2>1 DEF Region
    <3>2. Row(z) \notin (t + 1)..(e - 1) /\ Row(z) # t
      BY <2>1, <3>1
    <3>3. RevScrolled(screen, t, e, Space)[z] = screen[z]
      BY <3>2 DEF RevScrolled
    <3>4. revscroll(Now, t).s = RevScrolled(screen, t, e, Space)
      BY <1>0, <2>1 DEF revscroll, Boxes
    <3> QED BY <3>3, <3>4
  <2> QED BY <2>2, <2>3
<1> QED BY <1>1, <1>2, <1>4, <1>5, <1>6 DEF Characters

\* A character, or a line feed, changes no cell outside the scrolling region but
\* in the row the cursor was in and the row it is in afterwards: what scrolls is
\* the region, and a wrap writes at the start of the row it goes to.
THEOREM TerminalTextStaysInRegion == Spec => TextStaysInRegion
<1>1. ASSUME TypeOK, [Next]_vars
      PROVE  [(\E c \in Cells : screen'[c] # screen[c] /\ Row(c) \notin Region \cup {Y, cursor_y'})
                => ~Characters]_vars
  <2> SUFFICES ASSUME Characters, NEW c \in Cells, screen'[c] # screen[c],
                      Row(c) \notin Region \cup {Y, cursor_y'}
               PROVE  FALSE
    OBVIOUS
  <2> QED BY <1>1, CharactersKeep
<1> QED BY <1>1, TerminalTypeCorrect, PTL DEF Spec, TextStaysInRegion

-----------------------------------------------------------------------------
(* What editing leaves.                                                    *)

LEMMA WipedErased ==
  ASSUME NEW a \in Nat, NEW n \in Nat
  PROVE  Wiped(screen, a, n) = Erased(a, a + n - 1)
<1>1. ASSUME NEW c \in Cells PROVE (a <= c /\ c < a + n) <=> c \in a..(a + n - 1)
  BY CellSplit
<1> QED BY <1>1 DEF Wiped, Erased

\* The cursor is on the screen: what the calls see of it.
LEMMA OnIt ==
  ASSUME TypeOK, cursor_x < Cols, cursor_y < Rows
  PROVE  /\ cursor_x = X /\ cursor_y = Y
         /\ Now.s = screen /\ Now.x = X /\ Now.y = Y /\ Now \in Boxes
         /\ X \in 0..(Cols - 1) /\ Y \in 0..(Rows - 1)
         /\ Now = [s |-> screen, x |-> X, y |-> Y]
<1>1. cursor_x \in Nat /\ cursor_y \in Nat
  BY Sizes DEF TypeOK
<1>2. cursor_x = X /\ cursor_y = Y
  BY <1>1, Sizes DEF X, Y
<1> QED BY <1>2, NowTyped DEF Now

\* Moving the cursor to a cell of the screen.
LEMMA Placed ==
  ASSUME TypeOK, NEW b \in Boxes, NEW x \in 0..(Cols - 1), NEW y \in 0..(Rows - 1)
  PROVE  /\ set_cursor_pos(b, x, y) \in Boxes
         /\ set_cursor_pos(b, x, y).s = b.s
         /\ set_cursor_pos(b, x, y).x = x /\ set_cursor_pos(b, x, y).y = y
<1>1. x \in Int /\ y \in Int
  BY Sizes
<1>2. Clamp(x, Cols) = x /\ Clamp(y, Rows) = y
  BY <1>1, ClampRange, Sizes
<1>3. /\ set_cursor_pos(b, x, y) \in Boxes
      /\ set_cursor_pos(b, x, y) = [s |-> b.s, x |-> Clamp(x, Cols), y |-> Clamp(y, Rows)]
  BY <1>1, CallsTyped
<1> QED BY <1>2, <1>3

\* Blanks within the line of a box, and the cursor back where it was.
LEMMA ErasesInLine ==
  ASSUME TypeOK, NEW b \in Boxes, b.s = screen, b.y < Rows, NEW n \in Nat, b.x + n <= Cols
  PROVE  Leaves(Back(Blanked(b, n)), Erased(At(b.x, b.y), At(b.x, b.y) + n - 1))
<1>1. Blanked(b, n) = [s |-> Wiped(screen, At(b.x, b.y), n), x |-> b.x + n, y |-> b.y]
  BY BlankedInLine
<1>2. Back(Blanked(b, n)) = [s |-> Blanked(b, n).s, x |-> X, y |-> Y]
  BY WipedBack
<1>3. At(b.x, b.y) \in Nat
  <2>1. b.x \in 0..Cols /\ b.y \in 0..(Rows - 1)
    BY Sizes DEF Boxes
  <2> QED BY <2>1, CellNumber
<1> QED BY <1>1, <1>2, <1>3, WipedErased DEF Leaves

LEMMA LineErased ==
  ASSUME TypeOK, cursor_x < Cols, cursor_y < Rows
  PROVE  /\ Leaves(EraseLine(0), Erased(Here, LineEnd))
         /\ Leaves(EraseLine(1), Erased(At(0, Y), Here - 1))
         /\ Leaves(EraseLine(2), Erased(At(0, Y), LineEnd))
<1>0. /\ Now \in Boxes /\ Now.s = screen /\ Now.x = X /\ Now.y = Y
      /\ X \in 0..(Cols - 1) /\ Y \in 0..(Rows - 1)
  BY OnIt
<1>1. PICK r \in Nat, x \in Nat :
        /\ r = At(0, Y) /\ x = X /\ x < Cols /\ Here = r + x /\ LineEnd = r + Cols - 1
        /\ r + Cols <= Cols * Rows /\ Cols * Rows \in Nat
  BY LineIs DEF Here, LineEnd
<1> DEFINE b == set_cursor_pos(Now, 0, Y)
<1>2. b \in Boxes /\ b.s = screen /\ b.x = 0 /\ b.y = Y
  <2>1. 0 \in 0..(Cols - 1)
    BY Sizes
  <2> QED BY <1>0, <2>1, Placed
<1>3. Y < Rows /\ Cols \in Int /\ Cols > 0
  BY <1>0, Sizes
<1>4. Leaves(EraseLine(0), Erased(Here, LineEnd))
  <2>1. EraseLine(0) = Back(Blanked(Now, Cols - X))
    BY DEF EraseLine
  <2>2. Cols - X \in Nat /\ Now.x + (Cols - X) <= Cols /\ Now.y < Rows
    BY <1>0, <1>1, <1>3
  <2>3. Leaves(Back(Blanked(Now, Cols - X)), Erased(At(X, Y), At(X, Y) + (Cols - X) - 1))
    BY <1>0, <2>2, ErasesInLine
  <2>4. At(X, Y) = Here /\ At(X, Y) + (Cols - X) - 1 = LineEnd
    BY <1>1, <1>3 DEF Here
  <2> QED BY <2>1, <2>3, <2>4
<1>5. Leaves(EraseLine(1), Erased(At(0, Y), Here - 1))
  <2>1. EraseLine(1) = Blanked(b, X)
    BY DEF EraseLine
  <2>2. X \in Nat /\ b.x + X <= Cols /\ b.y < Rows
    BY <1>1, <1>2, <1>3
  <2>3. Blanked(b, X) = [s |-> Wiped(b.s, At(b.x, b.y), X), x |-> b.x + X, y |-> b.y]
    BY <1>2, <2>2, BlankedInLine
  <2>4. Wiped(screen, r, X) = Erased(r, r + X - 1)
    BY <1>1, <2>2, WipedErased
  <2>5. 0 + X = X /\ r + X - 1 = Here - 1
    BY <1>1
  <2> QED BY <1>1, <1>2, <2>1, <2>3, <2>4, <2>5 DEF Leaves
<1>6. Leaves(EraseLine(2), Erased(At(0, Y), LineEnd))
  <2>1. EraseLine(2) = Back(Blanked(b, Cols))
    BY DEF EraseLine
  <2>2. Cols \in Nat /\ b.x + Cols <= Cols /\ b.y < Rows
    BY <1>2, <1>3, Sizes
  <2>3. Leaves(Back(Blanked(b, Cols)), Erased(At(b.x, b.y), At(b.x, b.y) + Cols - 1))
    BY <1>2, <2>2, ErasesInLine
  <2> QED BY <1>1, <1>2, <2>1, <2>3
<1> QED BY <1>4, <1>5, <1>6

LEMMA DisplayErased ==
  ASSUME Rows <= Cols, TypeOK, cursor_x < Cols, cursor_y < Rows
  PROVE  /\ scroll_bottom_margin = Rows => Leaves(EraseDisplay(0), Erased(Here, Cols * Rows - 1))
         /\ Y < scroll_bottom_margin => Leaves(EraseDisplay(1), Erased(0, Here))
<1>0. /\ Now \in Boxes /\ Now.s = screen /\ Now.x = X /\ Now.y = Y
      /\ X \in 0..(Cols - 1) /\ Y \in 0..(Rows - 1)
  BY OnIt
<1>1. PICK r \in Nat, x \in Nat :
        /\ r = At(0, Y) /\ x = X /\ x < Cols /\ Here = r + x
        /\ r + Cols <= Cols * Rows /\ Cols * Rows \in Nat
  BY LineIs DEF Here
<1>2. Y \in Int /\ Cols \in Int /\ Cols > 0 /\ Rows \in Int /\ Y < Rows
  BY <1>0, Sizes
<1>3. r = Y * Cols
  BY <1>1, <1>2 DEF At
<1>4. ASSUME scroll_bottom_margin = Rows
      PROVE  Leaves(EraseDisplay(0), Erased(Here, Cols * Rows - 1))
  <2>1. EraseDisplay(0) = Back(Blanked(Now, CellsFrom(X, Y)))
    BY DEF EraseDisplay
  <2>2. CellsFrom(X, Y) = Cols * Rows - r - x
    <3>1. (Rows - (Y + 1)) * Cols = Cols * Rows - (Y * Cols) - Cols
      BY <1>2
    <3>2. CellsFrom(X, Y) = (Cols * Rows - r - Cols) + (Cols - (x + 1)) + 1
      BY <1>1, <1>3, <3>1 DEF CellsFrom
    <3>3. PICK w \in Int : w = Cols * Rows
      BY <1>1
    <3> QED BY <1>1, <1>2, <3>2, <3>3
  <2>3. CellsFrom(X, Y) \in Nat /\ Here + CellsFrom(X, Y) = Cols * Rows
    <3>1. PICK w \in Int : w = Cols * Rows
      BY <1>1
    <3> QED BY <1>1, <1>2, <2>2, <3>1
  <2>4. Now.x < Cols /\ Now.y < Rows /\ Here = At(Now.x, Now.y)
    BY <1>0, <1>2, Sizes DEF Here
  <2>5. At(Now.x, Now.y) + CellsFrom(X, Y) <= scroll_bottom_margin * Cols
    <3>1. scroll_bottom_margin * Cols = Cols * Rows
      BY <1>2, <1>4
    <3> QED BY <1>1, <2>3, <2>4, <3>1
  <2>6. Blanked(Now, CellsFrom(X, Y)).s = Wiped(screen, Here, CellsFrom(X, Y))
    BY <1>0, <2>3, <2>4, <2>5, BlankedAcross
  <2>7. Wiped(screen, Here, CellsFrom(X, Y)) = Erased(Here, Here + CellsFrom(X, Y) - 1)
    BY <1>1, <2>3, WipedErased
  <2>8. Back(Blanked(Now, CellsFrom(X, Y))) = [s |-> Blanked(Now, CellsFrom(X, Y)).s, x |-> X, y |-> Y]
    BY <1>0, <2>3, WipedBack
  <2>9. Here + CellsFrom(X, Y) - 1 = Cols * Rows - 1
    <3>1. PICK w \in Int, k \in Int, h \in Int : w = Cols * Rows /\ k = CellsFrom(X, Y) /\ h = Here /\ h + k = w
      BY <1>1, <2>3
    <3>2. h + k - 1 = w - 1
      BY <3>1
    <3> QED BY <3>1, <3>2
  <2>10. EraseDisplay(0) = [s |-> Erased(Here, Cols * Rows - 1), x |-> X, y |-> Y]
    BY <2>1, <2>6, <2>7, <2>8, <2>9
  <2> QED BY <2>10 DEF Leaves
<1>5. ASSUME Y < scroll_bottom_margin
      PROVE  Leaves(EraseDisplay(1), Erased(0, Here))
  <2> DEFINE b == set_cursor_pos(Now, 0, 0)
  <2>1. EraseDisplay(1) = Back(Blanked(b, Here + 1))
    BY DEF EraseDisplay, Here
  <2>2. b \in Boxes /\ b.s = screen /\ b.x = 0 /\ b.y = 0
    <3>1. 0 \in 0..(Cols - 1) /\ 0 \in 0..(Rows - 1)
      BY Sizes
    <3> QED BY <1>0, <3>1, Placed
  <2>3. At(0, 0) = 0
    BY <1>2 DEF At
  <2>4. Here + 1 \in Nat /\ Here + 1 <= r + Cols
    BY <1>1, <1>2
  <2>5. At(b.x, b.y) + (Here + 1) <= scroll_bottom_margin * Cols
    <3>1. scroll_bottom_margin \in Int
      BY Region2
    <3>2. (Y + 1) * Cols <= scroll_bottom_margin * Cols
      BY <1>2, <1>5, <3>1, Monotone, Sizes
    <3>3. (Y + 1) * Cols = r + Cols
      BY <1>2, <1>3, NextRow
    <3>4. PICK w \in Int : w = scroll_bottom_margin * Cols
      BY <1>2, <3>1
    <3> QED BY <1>1, <1>2, <2>2, <2>3, <2>4, <3>2, <3>3, <3>4
  <2>6. b.x < Cols /\ b.y < Rows
    BY <2>2, Sizes
  <2>7. Blanked(b, Here + 1).s = Wiped(screen, 0, Here + 1)
    BY <2>2, <2>3, <2>4, <2>5, <2>6, BlankedAcross
  <2>8. Wiped(screen, 0, Here + 1) = Erased(0, Here)
    <3>1. 0 + (Here + 1) - 1 = Here
      BY <1>1
    <3>2. Wiped(screen, 0, Here + 1) = Erased(0, 0 + (Here + 1) - 1)
      BY <2>4, WipedErased
    <3> QED BY <3>1, <3>2
  <2>9. Back(Blanked(b, Here + 1)) = [s |-> Blanked(b, Here + 1).s, x |-> X, y |-> Y]
    BY <2>2, <2>4, WipedBack
  <2> QED BY <2>1, <2>7, <2>8, <2>9 DEF Leaves
<1> QED BY <1>4, <1>5

LEMMA CharsErased ==
  ASSUME TypeOK, cursor_x < Cols, cursor_y < Rows, NEW n \in Nat, n > 0, X + n <= Cols
  PROVE  Leaves(EraseChars(n), Erased(Here, Here + n - 1))
<1>1. /\ Now \in Boxes /\ Now.s = screen /\ Now.x = X /\ Now.y = Y
      /\ X \in 0..(Cols - 1) /\ Y \in 0..(Rows - 1)
  BY OnIt
<1>2. Least(n, Cols) = n
  BY <1>1, Sizes DEF Least
<1>3. EraseChars(n) = Back(Blanked(Now, n))
  BY <1>2 DEF EraseChars
<1>4. Now.y < Rows /\ Now.x + n <= Cols /\ At(Now.x, Now.y) = Here
  BY <1>1, Sizes DEF Here
<1> QED BY <1>1, <1>3, <1>4, ErasesInLine

LEMMA CharsInserted ==
  ASSUME TypeOK, cursor_x < Cols, cursor_y < Rows, NEW n \in Nat, n > 0
  PROVE  Leaves(InsertChars(n), Shifted(Here..LineEnd, n))
<1>1. PICK h \in Int, e \in Int : h = Here /\ e = LineEnd
  BY LineIs, Sizes DEF Here, LineEnd
<1>2. InsertChars(n) = Back(InsertedChars(n))
  BY DEF InsertChars, InsertedChars
<1>3. InsertedChars(n) \in Boxes /\ InsertedChars(n).s = ShiftedRight(screen, h, e, n)
  BY <1>1, InsertedCharsIs DEF Here, LineEnd
<1>4. ShiftedRight(screen, h, e, n) = Shifted(h..e, n)
  <2>1. ASSUME NEW c \in Cells
        PROVE  /\ (h <= c /\ c <= e) <=> c \in h..e
               /\ (h <= c /\ c <= e) => (h <= c - n <=> c - n \in h..e)
    <3>1. c \in Int
      BY CellSplit
    <3> QED BY <1>1, <3>1
  <2> QED BY <2>1 DEF ShiftedRight, Shifted
<1>5. Back(InsertedChars(n)) = [s |-> InsertedChars(n).s, x |-> X, y |-> Y]
  BY <1>3, BackIs
<1> QED BY <1>1, <1>2, <1>3, <1>4, <1>5 DEF Leaves

LEMMA CharsDeleted ==
  ASSUME TypeOK, cursor_x < Cols, cursor_y < Rows, NEW n \in Nat, n > 0, X + n <= Cols
  PROVE  Leaves(DeleteChars(n), Shifted(Here..LineEnd, -n))
<1>0. /\ Now \in Boxes /\ Now.s = screen /\ X \in 0..(Cols - 1) /\ Y \in 0..(Rows - 1)
      /\ Cols \in Int /\ Rows \in Int
  BY OnIt, Sizes
<1>1. PICK r \in Nat, x \in Nat, h \in Int, e \in Int :
        /\ r = At(0, Y) /\ x = X /\ x < Cols /\ h = Here /\ e = LineEnd
        /\ h = r + x /\ e = r + Cols - 1
        /\ r + Cols <= Cols * Rows /\ Cols * Rows \in Nat
  <2>1. PICK r \in Nat, x \in Nat :
        /\ r = At(0, Y) /\ x = X /\ x < Cols /\ Here = r + x /\ LineEnd = r + Cols - 1
        /\ r + Cols <= Cols * Rows /\ Cols * Rows \in Nat
    BY LineIs DEF Here, LineEnd
  <2>2. Here \in Int /\ LineEnd \in Int
    BY <1>0, <2>1
  <2> QED BY <2>1, <2>2
<1> DEFINE shifted == IF X + n < Cols THEN DeletedChars(n) ELSE Now
           left == IF X + n < Cols THEN ShiftedLeft(screen, h, e, n) ELSE screen
           b == set_cursor_pos(shifted, Cols - n, Y)
           a == r + (Cols - n)
<1>2. shifted \in Boxes /\ shifted.s = left
  BY <1>0, <1>1, DeletedCharsIs DEF Here, LineEnd
<1>3. Cols - n \in 0..(Cols - 1) /\ Cols - n \in 0..Cols
  BY <1>0, <1>1
<1>4. b \in Boxes /\ b.s = left /\ b.x = Cols - n /\ b.y = Y
  <2> HIDE DEF shifted, left
  <2> QED BY <1>0, <1>2, <1>3, Placed
<1>5. At(Cols - n, Y) = a
  BY <1>0, <1>1, <1>3, CellNumber
<1>6. Blanked(b, n) = [s |-> Wiped(left, a, n), x |-> b.x + n, y |-> b.y]
  <2>1. b.y < Rows /\ b.x + n <= Cols
    BY <1>0, <1>4
  <2>2. Blanked(b, n) = [s |-> Wiped(b.s, At(b.x, b.y), n), x |-> b.x + n, y |-> b.y]
    <3> HIDE DEF b
    <3> QED BY <1>4, <2>1, BlankedInLine
  <2> HIDE DEF b, left, a
  <2> QED BY <1>4, <1>5, <2>2
<1>7. Back(Blanked(b, n)) = [s |-> Wiped(left, a, n), x |-> X, y |-> Y]
  <2>1. Back(Blanked(b, n)) = [s |-> Blanked(b, n).s, x |-> X, y |-> Y]
    <3> HIDE DEF b
    <3> QED BY <1>4, WipedBack
  <2> HIDE DEF b, left, a
  <2> QED BY <1>6, <2>1
<1>8. Wiped(left, a, n) = Shifted(h..e, -n)
  <2>1. ASSUME NEW c \in Cells
        PROVE  (IF a <= c /\ c < a + n THEN Space ELSE left[c])
                 = (IF c \notin h..e THEN screen[c]
                    ELSE IF c - (-n) \in h..e THEN screen[c - (-n)] ELSE Space)
    <3>1. c \in Int /\ c - (-n) = c + n
      BY CellSplit
    <3>2. left[c] = IF X + n < Cols /\ h <= c /\ c + n <= e THEN screen[c + n] ELSE screen[c]
      BY DEF ShiftedLeft
    <3>3. a + n = e + 1
      BY <1>0, <1>1
    <3>4. CASE c < h \/ c > e
      <4>1. ~(a <= c /\ c < a + n) /\ c \notin h..e
        BY <1>0, <1>1, <3>1, <3>3, <3>4
      <4>2. ~(h <= c /\ c + n <= e)
        BY <1>1, <3>1, <3>4
      <4> QED BY <3>2, <4>1, <4>2
    <3>5. CASE h <= c /\ c <= e /\ a <= c
      <4>1. c \in h..e /\ c + n \notin h..e /\ c < a + n
        BY <1>0, <1>1, <3>1, <3>3, <3>5
      <4> QED BY <3>1, <3>5, <4>1
    <3>6. CASE h <= c /\ c <= e /\ c < a
      <4>1. c \in h..e /\ c + n \in h..e /\ c + n <= e /\ X + n < Cols
        BY <1>0, <1>1, <3>1, <3>3, <3>6
      <4>2. ~(a <= c)
        BY <1>0, <1>1, <3>1, <3>6
      <4> QED BY <3>1, <3>2, <3>6, <4>1, <4>2
    <3>7. a \in Int
      BY <1>0, <1>1
    <3> HIDE DEF a, left
    <3> QED BY <1>1, <3>1, <3>4, <3>5, <3>6, <3>7
  <2> HIDE DEF a, left
  <2> QED BY <2>1 DEF Wiped, Shifted
<1>9. DeleteChars(n) = Back(Blanked(b, n))
  <2>1. Least(n, Cols) = n
    BY <1>0, <1>1 DEF Least
  <2> QED BY <2>1 DEF DeleteChars, DeletedChars
<1> HIDE DEF a, left, b
<1> QED BY <1>1, <1>7, <1>8, <1>9 DEF Leaves

\* The cells of rows t..b-1.
LEMMA RowsCells ==
  ASSUME NEW t \in Nat, NEW b \in 1..Rows, NEW z \in Int
  PROVE  z \in InRows(t..(b - 1)) <=> t * Cols <= z /\ z < b * Cols
<1>1. PICK T \in Int, B \in Int, N \in Int :
        T = t * Cols /\ B = b * Cols /\ N = Cols * Rows /\ 0 <= T /\ B <= N
  <2>1. b * Cols \in Nat /\ Cols * Rows \in Nat /\ b * Cols <= Cols * Rows
    <3>1. b \in 0..Rows
      BY Sizes
    <3> QED BY <3>1, RowBound
  <2>2. t * Cols \in Nat
    BY Sizes
  <2> QED BY <2>1, <2>2
<1>2. ASSUME z \in Cells
      PROVE  z \in InRows(t..(b - 1)) <=> T <= z /\ z < B
  <2>1. Row(z) \in Int /\ b \in Int /\ t \in Int
    BY <1>2, CellSplit
  <2>2. (t <= Row(z) <=> T <= z) /\ (b <= Row(z) <=> B <= z)
    BY <1>1, <1>2, <2>1, RowAtLeast
  <2> QED BY <1>1, <1>2, <2>1, <2>2 DEF InRows
<1>3. ASSUME z \notin Cells PROVE ~(T <= z /\ z < B)
  BY <1>1, <1>3 DEF Cells
<1>4. z \in InRows(t..(b - 1)) => z \in Cells
  BY DEF InRows
<1> QED BY <1>1, <1>2, <1>3, <1>4

\* Scrolling more than all of the screen leaves no more than scrolling all of it.
LEMMA AllGone ==
  ASSUME NEW n \in Nat, NEW c \in Cells
  PROVE  \/ Least(n, Rows) = n
         \/ n * Cols >= Cols * Rows /\ Least(n, Rows) * Cols = Cols * Rows
<1>1. CASE n < Rows
  BY <1>1 DEF Least
<1>2. CASE ~(n < Rows)
  <2>1. Least(n, Rows) = Rows
    BY <1>2 DEF Least
  <2>2. Rows * Cols <= n * Cols /\ Rows * Cols = Cols * Rows
    BY <1>2, Monotone, Sizes
  <2> QED BY <2>1, <2>2, Sizes
<1> QED BY <1>1, <1>2

LEMMA UpShifted ==
  ASSUME NEW t \in Nat, NEW b \in 1..Rows, NEW n \in Nat
  PROVE  UpBy(screen, t, b, Least(n, Rows)) = Shifted(InRows(t..(b - 1)), -n * Cols)
<1>1. PICK T \in Int, B \in Int, N \in Int, D \in Int :
        T = t * Cols /\ B = b * Cols /\ N = Cols * Rows /\ D = n * Cols /\ 0 <= T /\ B <= N /\ 0 <= D
  <2>1. b * Cols \in Nat /\ Cols * Rows \in Nat /\ b * Cols <= Cols * Rows
    <3>1. b \in 0..Rows
      BY Sizes
    <3> QED BY <3>1, RowBound
  <2>2. t * Cols \in Nat /\ n * Cols \in Nat
    BY Sizes
  <2> QED BY <2>1, <2>2
<1>2. -n * Cols = -D
  BY <1>1, Sizes
<1> DEFINE S == InRows(t..(b - 1))
           M == Least(n, Rows) * Cols
<1>3. ASSUME NEW c \in Cells
      PROVE  (IF T <= c /\ c < B THEN IF c + M < B THEN screen[c + M] ELSE Space ELSE screen[c])
               = (IF c \notin S THEN screen[c]
                  ELSE IF c - (-D) \in S THEN screen[c - (-D)] ELSE Space)
  <2>1. c \in Int /\ 0 <= c /\ c < N /\ c - (-D) = c + D /\ c + D \in Int
    BY <1>1 DEF Cells
  <2>2. (c \in S <=> T <= c /\ c < B) /\ (c + D \in S <=> T <= c + D /\ c + D < B)
    BY <1>1, <2>1, RowsCells
  <2>3. M = D \/ (D >= N /\ M = N)
    BY <1>1, AllGone
  <2>4. CASE ~(T <= c /\ c < B)
    BY <2>2, <2>4
  <2>5. CASE T <= c /\ c < B /\ M = D
    BY <1>1, <2>1, <2>2, <2>5
  <2>6. CASE T <= c /\ c < B /\ D >= N /\ M = N
    <3>1. ~(c + M < B) /\ ~(c + D < B)
      BY <1>1, <2>1, <2>6
    <3> QED BY <2>1, <2>2, <2>6, <3>1
  <2> HIDE DEF S, M
  <2> QED BY <2>3, <2>4, <2>5, <2>6
<1> HIDE DEF S, M
<1>4. UpBy(screen, t, b, Least(n, Rows))
        = [c \in Cells |-> IF T <= c /\ c < B THEN IF c + M < B THEN screen[c + M] ELSE Space ELSE screen[c]]
  BY <1>1 DEF UpBy, M
<1>5. Shifted(S, -D)
        = [c \in Cells |-> IF c \notin S THEN screen[c]
                           ELSE IF c - (-D) \in S THEN screen[c - (-D)] ELSE Space]
  BY DEF Shifted
<1>6. UpBy(screen, t, b, Least(n, Rows)) = Shifted(S, -D)
  BY <1>3, <1>4, <1>5
<1> QED BY <1>2, <1>6 DEF S

LEMMA DownShifted ==
  ASSUME NEW t \in Nat, NEW b \in 1..Rows, NEW n \in Nat
  PROVE  DownBy(screen, t, b, Least(n, Rows)) = Shifted(InRows(t..(b - 1)), n * Cols)
<1>1. PICK T \in Int, B \in Int, N \in Int, D \in Int :
        T = t * Cols /\ B = b * Cols /\ N = Cols * Rows /\ D = n * Cols /\ 0 <= T /\ B <= N /\ 0 <= D
  <2>1. b * Cols \in Nat /\ Cols * Rows \in Nat /\ b * Cols <= Cols * Rows
    <3>1. b \in 0..Rows
      BY Sizes
    <3> QED BY <3>1, RowBound
  <2>2. t * Cols \in Nat /\ n * Cols \in Nat
    BY Sizes
  <2> QED BY <2>1, <2>2
<1> DEFINE S == InRows(t..(b - 1))
           M == Least(n, Rows) * Cols
<1>3. ASSUME NEW c \in Cells
      PROVE  (IF T <= c /\ c < B THEN IF T <= c - M THEN screen[c - M] ELSE Space ELSE screen[c])
               = (IF c \notin S THEN screen[c]
                  ELSE IF c - D \in S THEN screen[c - D] ELSE Space)
  <2>1. c \in Int /\ 0 <= c /\ c < N /\ c - D \in Int
    BY <1>1 DEF Cells
  <2>2. (c \in S <=> T <= c /\ c < B) /\ (c - D \in S <=> T <= c - D /\ c - D < B)
    BY <1>1, <2>1, RowsCells
  <2>3. M = D \/ (D >= N /\ M = N)
    BY <1>1, AllGone
  <2>4. CASE ~(T <= c /\ c < B)
    BY <2>2, <2>4
  <2>5. CASE T <= c /\ c < B /\ M = D
    BY <1>1, <2>1, <2>2, <2>5
  <2>6. CASE T <= c /\ c < B /\ D >= N /\ M = N
    <3>1. ~(T <= c - M) /\ ~(T <= c - D)
      BY <1>1, <2>1, <2>6
    <3> QED BY <2>2, <2>6, <3>1
  <2> HIDE DEF S, M
  <2> QED BY <2>3, <2>4, <2>5, <2>6
<1> HIDE DEF S, M
<1>4. DownBy(screen, t, b, Least(n, Rows))
        = [c \in Cells |-> IF T <= c /\ c < B THEN IF T <= c - M THEN screen[c - M] ELSE Space ELSE screen[c]]
  BY <1>1 DEF DownBy, M
<1>5. Shifted(S, D)
        = [c \in Cells |-> IF c \notin S THEN screen[c]
                           ELSE IF c - D \in S THEN screen[c - D] ELSE Space]
  BY DEF Shifted
<1>6. DownBy(screen, t, b, Least(n, Rows)) = Shifted(S, D)
  BY <1>3, <1>4, <1>5
<1> QED BY <1>1, <1>6 DEF S

LEMMA LinesMoved ==
  ASSUME TypeOK, cursor_x < Cols, cursor_y < Rows, NEW n \in Nat
  PROVE  /\ Leaves(ScrollLines(n), Shifted(InRows(Region), -n * Cols))
         /\ Y < scroll_bottom_margin =>
              Leaves(InsertLines(n), Shifted(InRows(Y..(scroll_bottom_margin - 1)), n * Cols))
<1>1. cursor_x = X /\ cursor_y = Y /\ Y \in 0..(Rows - 1) /\ Y \in Nat
  BY OnIt, Sizes
<1>2. Least(n, Rows) \in Nat
  BY LeastIs, Sizes
<1>3. scroll_top_margin \in Nat /\ scroll_bottom_margin \in 1..Rows
  BY Region2, Sizes
<1>4. Leaves(ScrollLines(n), Shifted(InRows(Region), -n * Cols))
  <2>1. ScrollLines(n) = [s |-> UpBy(screen, scroll_top_margin, scroll_bottom_margin, Least(n, Rows)),
                          x |-> cursor_x, y |-> cursor_y]
    BY <1>2, ScrolledLines DEF ScrollLines
  <2>2. UpBy(screen, scroll_top_margin, scroll_bottom_margin, Least(n, Rows))
          = Shifted(InRows(Region), -n * Cols)
    BY <1>3, UpShifted DEF Region
  <2> QED BY <1>1, <2>1, <2>2 DEF Leaves
<1>5. ASSUME Y < scroll_bottom_margin
      PROVE  Leaves(InsertLines(n), Shifted(InRows(Y..(scroll_bottom_margin - 1)), n * Cols))
  <2>1. InsertLines(n) = [s |-> DownBy(screen, Y, scroll_bottom_margin, Least(n, Rows)),
                          x |-> cursor_x, y |-> cursor_y]
    BY <1>2, <1>5, InsertedLines DEF InsertLines
  <2>2. DownBy(screen, Y, scroll_bottom_margin, Least(n, Rows))
          = Shifted(InRows(Y..(scroll_bottom_margin - 1)), n * Cols)
    BY <1>1, <1>3, DownShifted
  <2> QED BY <1>1, <2>1, <2>2 DEF Leaves
<1> QED BY <1>4, <1>5

\* Every loop of the editing sequences erases and moves exactly the cells it
\* should and leaves the cursor where it was, for every screen that is at least
\* as wide as it is high.  On a higher one the back end's wrap, which keeps the
\* row below the number of columns, sends the blanks of J to the wrong rows.
THEOREM TerminalEditsExact ==
  ASSUME Rows <= Cols
  PROVE  Spec => []EditsExact
<1>1. TypeOK => EditsExact
  <2>1. ASSUME TypeOK, cursor_x < Cols, cursor_y < Rows
        PROVE  /\ Leaves(EraseLine(0), Erased(Here, LineEnd))
               /\ Leaves(EraseLine(1), Erased(At(0, Y), Here - 1))
               /\ Leaves(EraseLine(2), Erased(At(0, Y), LineEnd))
               /\ scroll_bottom_margin = Rows => Leaves(EraseDisplay(0), Erased(Here, Cols * Rows - 1))
               /\ Y < scroll_bottom_margin => Leaves(EraseDisplay(1), Erased(0, Here))
    BY <2>1, LineErased, DisplayErased
  <2>2. ASSUME TypeOK, cursor_x < Cols, cursor_y < Rows, NEW n \in Params \ {0}
        PROVE  /\ X + n <= Cols =>
                    /\ Leaves(EraseChars(n), Erased(Here, Here + n - 1))
                    /\ Leaves(InsertChars(n), Shifted(Here..LineEnd, n))
                    /\ Leaves(DeleteChars(n), Shifted(Here..LineEnd, -n))
               /\ Leaves(ScrollLines(n), Shifted(InRows(Region), -n * Cols))
               /\ Y < scroll_bottom_margin =>
                    Leaves(InsertLines(n), Shifted(InRows(Y..(scroll_bottom_margin - 1)), n * Cols))
    <3>1. n \in Nat /\ n > 0
      BY Sizes
    <3> QED BY <2>2, <3>1, CharsErased, CharsInserted, CharsDeleted, LinesMoved
  <2> QED BY <2>1, <2>2 DEF EditsExact
<1> QED BY <1>1, TerminalTypeCorrect, PTL

\* What EditsExact says of the sequences that stay in a line or move whole lines.
LinesExact ==
  cursor_x < Cols /\ cursor_y < Rows =>
    /\ Leaves(EraseLine(0), Erased(Here, LineEnd))
    /\ Leaves(EraseLine(1), Erased(At(0, Y), Here - 1))
    /\ Leaves(EraseLine(2), Erased(At(0, Y), LineEnd))
    /\ \A n \in Params \ {0} :
         /\ X + n <= Cols =>
              /\ Leaves(EraseChars(n), Erased(Here, Here + n - 1))
              /\ Leaves(InsertChars(n), Shifted(Here..LineEnd, n))
              /\ Leaves(DeleteChars(n), Shifted(Here..LineEnd, -n))
         /\ Leaves(ScrollLines(n), Shifted(InRows(Region), -n * Cols))
         /\ Y < scroll_bottom_margin =>
              Leaves(InsertLines(n), Shifted(InRows(Y..(scroll_bottom_margin - 1)), n * Cols))

\* All editing sequences but J are exact on every screen, also one that is higher
\* than wide: none of their loops wraps.
THEOREM TerminalLinesExact == Spec => []LinesExact
<1>1. TypeOK => LinesExact
  <2>1. ASSUME TypeOK, cursor_x < Cols, cursor_y < Rows, NEW n \in Params \ {0}
        PROVE  /\ X + n <= Cols =>
                    /\ Leaves(EraseChars(n), Erased(Here, Here + n - 1))
                    /\ Leaves(InsertChars(n), Shifted(Here..LineEnd, n))
                    /\ Leaves(DeleteChars(n), Shifted(Here..LineEnd, -n))
               /\ Leaves(ScrollLines(n), Shifted(InRows(Region), -n * Cols))
               /\ Y < scroll_bottom_margin =>
                    Leaves(InsertLines(n), Shifted(InRows(Y..(scroll_bottom_margin - 1)), n * Cols))
    <3>1. n \in Nat /\ n > 0
      BY Sizes
    <3> QED BY <2>1, <3>1, CharsErased, CharsInserted, CharsDeleted, LinesMoved
  <2> QED BY <2>1, LineErased DEF LinesExact
<1> QED BY <1>1, TerminalTypeCorrect, PTL
=============================================================================
