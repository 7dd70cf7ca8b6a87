------------------------------ MODULE FbScreen ------------------------------
(***************************************************************************)
(* What the framebuffer back end of flanterm (kernel/src/ft/               *)
(* flanterm_backends/fb.c) promises: a screen of Cols x Rows cells and a   *)
(* cursor, on which every call of the terminal acts at once, and a display *)
(* that shows the screen, with the cursor, whenever it is flushed.  How    *)
(* FbQueue keeps this promise with a grid, a queue and a map is no part of *)
(* it.                                                                     *)
(***************************************************************************)
EXTENDS FbCells

VARIABLES
  screen,            \* the glyph of every cell
  glass,             \* what the display shows: <<glyph, with colours swapped?>>
  cursor_x, cursor_y,
  cursor_enabled, scroll_enabled,
  scroll_top_margin, scroll_bottom_margin

modes == <<cursor_enabled, scroll_enabled, scroll_top_margin, scroll_bottom_margin>>
screenVars == <<screen, glass, cursor_x, cursor_y, modes>>

\* The display after a flush.
Displayed(s, x, y, enabled) ==
  [c \in Cells |-> <<s[c], enabled /\ OnScreen(x, y) /\ c = At(x, y)>>]

-----------------------------------------------------------------------------
Init ==
  /\ \E b \in Blanks : screen = [c \in Cells |-> b]
  /\ cursor_x = 0 /\ cursor_y = 0
  /\ cursor_enabled = TRUE /\ scroll_enabled = TRUE
  /\ scroll_top_margin = 0 /\ scroll_bottom_margin = Rows
  /\ glass = Displayed(screen, 0, 0, TRUE)

RawPutchar ==
  \E g \in Glyphs, b \in Blanks :
    LET wraps   == Wraps(cursor_x, cursor_y, scroll_bottom_margin, scroll_enabled)
        scrolls == WrapScrolls(cursor_x, cursor_y, scroll_bottom_margin, scroll_enabled)
        x == IF wraps THEN 0 ELSE cursor_x
        y == IF wraps THEN WrappedRow(cursor_y, scroll_bottom_margin) ELSE cursor_y
        s == IF scrolls THEN Scrolled(screen, scroll_top_margin, scroll_bottom_margin, b)
             ELSE screen
    IN /\ screen' = Put(s, g, x, y)
       /\ cursor_x' = x + 1 /\ cursor_y' = y
       /\ UNCHANGED <<glass, modes>>

Scroll ==
  /\ \E b \in Blanks :
       screen' = Scrolled(screen, scroll_top_margin, scroll_bottom_margin, b)
  /\ UNCHANGED <<glass, cursor_x, cursor_y, modes>>

Revscroll ==
  /\ \E b \in Blanks, t \in 0..(Rows - 1) :
       screen' = RevScrolled(screen, t, scroll_bottom_margin, b)
  /\ UNCHANGED <<glass, cursor_x, cursor_y, modes>>

Clear ==
  /\ \E b \in Blanks : screen' = [c \in Cells |-> b]
  /\ <<cursor_x', cursor_y'>> \in {<<cursor_x, cursor_y>>, <<0, 0>>}
  /\ UNCHANGED <<glass, modes>>

SetCursorPos ==
  /\ cursor_x' \in 0..(Cols - 1) /\ cursor_y' \in 0..(Rows - 1)
  /\ UNCHANGED <<screen, glass, modes>>

MoveCharacter ==
  /\ \E from, to \in Cells : screen' = [screen EXCEPT ![to] = screen[from]]
  /\ UNCHANGED <<glass, cursor_x, cursor_y, modes>>

Configure ==
  /\ cursor_enabled' \in BOOLEAN /\ scroll_enabled' \in BOOLEAN
  /\ <<scroll_top_margin', scroll_bottom_margin'>> \in Margins
  /\ UNCHANGED <<screen, glass, cursor_x, cursor_y>>

Flush ==
  /\ glass' = Displayed(screen, cursor_x, cursor_y, cursor_enabled)
  /\ UNCHANGED <<screen, cursor_x, cursor_y, modes>>

Next ==
  RawPutchar \/ Scroll \/ Revscroll \/ Clear \/ SetCursorPos \/ MoveCharacter
    \/ Configure \/ Flush

Spec == Init /\ [][Next]_screenVars
=============================================================================
