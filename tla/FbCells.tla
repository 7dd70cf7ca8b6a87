------------------------------ MODULE FbCells ------------------------------
(***************************************************************************)
(* The screen of the framebuffer back end of flanterm (kernel/src/ft/      *)
(* flanterm_backends/fb.c): cells, positions, and what putting, wrapping   *)
(* and scrolling do to them, for the modules about the back end and the    *)
(* terminal.                                                               *)
(*                                                                         *)
(* A glyph is a character with its two colours (struct flanterm_fb_char);  *)
(* a blank is a space in the text colours of the moment.                   *)
(***************************************************************************)
EXTENDS Integers

CONSTANTS
  Cols, Rows,
  Glyphs, Blanks,
  MaxX            \* bound on cursor_x, which grows in a line that cannot wrap

ASSUME FbCellsAssumption ==
  /\ Cols \in Nat /\ Cols > 0
  /\ Rows \in Nat /\ Rows > 0
  /\ Blanks \subseteq Glyphs
  /\ MaxX \in Nat /\ MaxX > Cols

Cells == 0..(Cols * Rows - 1)

OnScreen(x, y) == x \in 0..(Cols - 1) /\ y \in 0..(Rows - 1)
At(x, y) == y * Cols + x
Row(c)   == c \div Cols

Put(s, g, x, y) == IF OnScreen(x, y) THEN [s EXCEPT ![At(x, y)] = g] ELSE s

\* The rows from top to bottom - 1 move up by one, the last one is blank.
Scrolled(s, top, bottom, b) ==
  [c \in Cells |-> IF Row(c) \in top..(bottom - 2) THEN s[c + Cols]
                   ELSE IF Row(c) = bottom - 1 THEN b ELSE s[c]]

\* They move down by one, and row top is blank, wherever the bottom margin is.
RevScrolled(s, top, bottom, b) ==
  [c \in Cells |-> IF Row(c) = top THEN b
                   ELSE IF Row(c) \in (top + 1)..(bottom - 1) THEN s[c - Cols] ELSE s[c]]

\* A character that is put behind the end of a line goes to the next line, and
\* the region scrolls when there is none.
Wraps(x, y, bottom, scrolls) == x >= Cols /\ (y < bottom - 1 \/ scrolls)
WrapScrolls(x, y, bottom, scrolls) == Wraps(x, y, bottom, scrolls) /\ y + 1 = bottom

\* The row after a wrap; it is kept below Cols, not Rows.
WrappedRow(y, bottom) ==
  LET r == IF y + 1 = bottom THEN y ELSE y + 1 IN IF r >= Cols THEN Cols - 1 ELSE r

\* The margins escape sequences can set: two rows or more, or the whole screen.
Margins == {m \in (0..(Rows - 1)) \X (1..Rows) : m[1] < m[2] - 1 \/ m = <<0, Rows>>}

Clamp(v, n) == IF v < 0 THEN 0 ELSE IF v >= n THEN n - 1 ELSE v
=============================================================================
