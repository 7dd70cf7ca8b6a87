------------------------------ MODULE Terminal ------------------------------
(***************************************************************************)
(* What characters, escape sequences and control sequences do to the       *)
(* screen (kernel/src/ft/flanterm.c: the switches of flanterm_putchar,     *)
(* escape_parse and control_sequence_parse), on the back end that FbScreen *)
(* describes.  An action is a whole character or sequence; which bytes     *)
(* make one up is left out.                                                *)
(*                                                                         *)
(* Colours are left out: a glyph is a character, and sgr does nothing      *)
(* here.  A parameter is any of Params; an omitted one is 0 or 1 there.    *)
(***************************************************************************)
EXTENDS FbCells, FiniteSets

CONSTANTS
  Space,             \* what is erased shows
  TabSize,           \* 8
  Params,            \* the values of parameters
  MaxText            \* bound on the characters on the screen that are not blank

ASSUME TerminalAssumption ==
  /\ Blanks = {Space} /\ Params \subseteq Nat
  /\ TabSize \in Nat /\ TabSize > 0 /\ MaxText \in Nat

VARIABLES
  screen, cursor_x, cursor_y,
  scroll_enabled, scroll_top_margin, scroll_bottom_margin, insert_mode

margins == <<scroll_top_margin, scroll_bottom_margin>>
modes   == <<scroll_enabled, margins, insert_mode>>
vars    == <<screen, cursor_x, cursor_y, modes>>

-----------------------------------------------------------------------------
(* The calls of the back end, on a screen with a cursor.                   *)

Now == [s |-> screen, x |-> cursor_x, y |-> cursor_y]

Become(b) == screen' = b.s /\ cursor_x' = b.x /\ cursor_y' = b.y

\* Mutant: the wrap does not scroll at the bottom margin.
raw_putchar_Unscrolled(b, g, scrolls) ==
  LET wraps == Wraps(b.x, b.y, scroll_bottom_margin, scrolls)
      x == IF wraps THEN 0 ELSE b.x
      y == IF wraps THEN b.y + 1 ELSE b.y
  IN [s |-> Put(b.s, g, x, y), x |-> x + 1, y |-> y]

raw_putchar(b, g, scrolls) ==
  LET bottom == scroll_bottom_margin
      wraps  == Wraps(b.x, b.y, bottom, scrolls)
      x == IF wraps THEN 0 ELSE b.x
      y == IF wraps THEN WrappedRow(b.y, bottom) ELSE b.y
      s == IF WrapScrolls(b.x, b.y, bottom, scrolls)
           THEN Scrolled(b.s, scroll_top_margin, bottom, Space) ELSE b.s
  IN [s |-> Put(s, g, x, y), x |-> x + 1, y |-> y]

set_cursor_pos(b, x, y) == [b EXCEPT !.x = Clamp(x, Cols), !.y = Clamp(y, Rows)]

\* Mutant: the rows above the region scroll too.
scroll_Above(b) == [b EXCEPT !.s = Scrolled(@, 0, scroll_bottom_margin, Space)]

scroll(b) == [b EXCEPT !.s = Scrolled(@, scroll_top_margin, scroll_bottom_margin, Space)]

revscroll(b, top) == [b EXCEPT !.s = RevScrolled(@, top, scroll_bottom_margin, Space)]

move_character(b, x, y, old) ==
  [b EXCEPT !.s = IF OnScreen(x, y) /\ OnScreen(old, y)
                  THEN [@ EXCEPT ![At(x, y)] = b.s[At(old, y)]] ELSE @]

\* Op applied n times.
Times(b, n, Op(_)) == LET f[k \in 0..n] == IF k = 0 THEN b ELSE Op(f[k - 1]) IN f[n]

\* n blanks from the cursor on; a control sequence does not scroll the screen.
Blanked(b, n) == Times(b, n, LAMBDA c : raw_putchar(c, Space, FALSE))

\* Op applied for the columns from, from - 1, ..., to; or from, ..., to.
Downto(b, from, to, Op(_, _)) ==
  LET f[c \in to..(from + 1)] == IF c = from + 1 THEN b ELSE Op(f[c + 1], c) IN f[to]
Upto(b, from, to, Op(_, _)) ==
  LET f[c \in (from - 1)..to] == IF c = from - 1 THEN b ELSE Op(f[c - 1], c) IN f[to]

\* get_cursor_pos.
X == IF cursor_x >= Cols THEN Cols - 1 ELSE cursor_x
Y == IF cursor_y >= Rows THEN Rows - 1 ELSE cursor_y

Least(m, n) == IF m < n THEN m ELSE n

-----------------------------------------------------------------------------
Init ==
  /\ screen = [c \in Cells |-> Space]
  /\ cursor_x = 0 /\ cursor_y = 0
  /\ scroll_enabled = TRUE /\ insert_mode = FALSE
  /\ scroll_top_margin = 0 /\ scroll_bottom_margin = Rows

(* Characters.                                                             *)

\* In insert mode the rest of the line moves right first.
Inserted(b) ==
  IF insert_mode THEN Downto(b, Cols - 1, X, LAMBDA a, c : move_character(a, c + 1, Y, c))
  ELSE b

\* Any character while there is room for text, else a blank.
Printable ==
  IF Cardinality({c \in Cells : screen[c] # Space}) < MaxText THEN Glyphs ELSE {Space}

PutChar ==
  /\ cursor_x < MaxX
  /\ \E g \in Printable : Become(raw_putchar(Inserted(Now), g, scroll_enabled))
  /\ UNCHANGED modes

\* A character of several bytes takes one or two columns, and moves nothing.
PrintUnicode ==
  /\ cursor_x + 1 < MaxX
  /\ \E g \in Printable :
       LET one == raw_putchar(Now, g, scroll_enabled)
       IN  Become(one) \/ Become(raw_putchar(one, Space, scroll_enabled))
  /\ UNCHANGED modes

AtBottom == Y = scroll_bottom_margin - 1

\* To column x of the next line.
NextLine(x) ==
  /\ Become(IF AtBottom THEN set_cursor_pos(scroll(Now), x, Y)
            ELSE set_cursor_pos(Now, x, Y + 1))
  /\ UNCHANGED modes

LineFeed == NextLine(0)              \* '\n', ESC E
Index    == NextLine(X)              \* ESC D

ReverseIndex ==                      \* ESC M
  /\ Become(IF Y = scroll_top_margin THEN set_cursor_pos(revscroll(Now, scroll_top_margin), 0, Y)
            ELSE set_cursor_pos(Now, 0, Y - 1))
  /\ UNCHANGED modes

MoveTo(x, y) == Become(set_cursor_pos(Now, x, y)) /\ UNCHANGED modes

Backspace == MoveTo(X - 1, Y)
CarriageReturn == MoveTo(0, Y)
Tab ==
  LET t == X \div TabSize + 1
  IN  MoveTo(IF t >= Cols THEN Cols - 1 ELSE t * TabSize, Y)

\* ESC 8 and CSI u return to a position saved earlier, perhaps under other margins.
RestoreCursor ==
  /\ \E x \in 0..Cols, y \in 0..(IF Cols > Rows THEN Cols - 1 ELSE Rows - 1) :
       Become([Now EXCEPT !.x = x, !.y = y])
  /\ UNCHANGED modes

Reset ==                             \* ESC c
  /\ Become([s |-> [c \in Cells |-> Space], x |-> 0, y |-> 0])
  /\ scroll_enabled' = TRUE /\ insert_mode' = FALSE
  /\ scroll_top_margin' = 0 /\ scroll_bottom_margin' = Rows

-----------------------------------------------------------------------------
(* Control sequences: the cursor.                                          *)

Between(m, a, b) == a <= m /\ m <= b

\* Mutant: the way up does not stop at the margin.
RowUp_Free(n) == Y - Least(n, Y)

RowUp(n) ==
  LET dest == Y - Least(n, Y) IN
  IF /\ dest < scroll_top_margin
     /\ \/ Between(scroll_top_margin, dest, Y) \/ Between(scroll_bottom_margin, dest, Y)
  THEN scroll_top_margin ELSE dest

RowDown(n) ==
  LET dest == Y + Least(n, Rows - 1 - Y) IN
  IF /\ dest >= scroll_bottom_margin
     /\ \/ Between(scroll_top_margin, Y, dest) \/ Between(scroll_bottom_margin, Y, dest)
  THEN scroll_bottom_margin - 1 ELSE dest

CursorUp(n)      == \E x \in {0, X} : MoveTo(x, RowUp(n))    \* F, A
CursorDown(n)    == \E x \in {0, X} : MoveTo(x, RowDown(n))  \* E, B and e
CursorForward(n) == MoveTo(X + Least(n, Cols - 1 - X), Y)    \* C, a
CursorBack(n)    == MoveTo(X - Least(n, X), Y)               \* D

\* A position is counted from 1; d, G and ` take 0 - 1 for more than the last.
Position(n, size)  == IF n = 0 THEN size - 1 ELSE Least(n - 1, size - 1)
CursorRow(n)       == MoveTo(X, Position(n, Rows))           \* d
CursorColumn(n)    == MoveTo(Position(n, Cols), Y)           \* G, `
CursorTo(m, n)     ==                                        \* H, f
  MoveTo(Position(IF n = 0 THEN 1 ELSE n, Cols), Position(IF m = 0 THEN 1 ELSE m, Rows))

\* r with i parameters, m and n.
SetMargins(i, m, n) ==
  LET t == IF i > 0 THEN (IF m = 0 THEN 1 ELSE m) - 1 ELSE 0
      b == IF i > 1 THEN (IF n = 0 THEN 1 ELSE n) ELSE Rows
      ok == t < Rows /\ b <= Rows /\ t < b - 1
  IN /\ scroll_top_margin' = IF ok THEN t ELSE 0
     /\ scroll_bottom_margin' = IF ok THEN b ELSE Rows
     /\ Become(set_cursor_pos(Now, 0, 0))
     /\ UNCHANGED <<scroll_enabled, insert_mode>>

InsertMode == insert_mode' \in BOOLEAN /\ UNCHANGED <<screen, cursor_x, cursor_y, scroll_enabled, margins>>

\* A control sequence turns scroll_enabled off while it runs, and ESC in it returns
\* before it is restored.
LeftOff ==
  /\ scroll_enabled' = FALSE
  /\ UNCHANGED <<screen, cursor_x, cursor_y, margins, insert_mode>>

\* So does a byte that has no case.
Unhandled == LeftOff

-----------------------------------------------------------------------------
(* Control sequences: the screen.                                          *)

\* Each is the screen and the cursor after it.

ScrollLines(n) == Times(Now, Least(n, Rows), scroll)                       \* M
InsertLines(n) == Times(Now, Least(n, Rows), LAMBDA b : revscroll(b, Y))   \* L

\* Mutant: the line's last cell is not counted.
CellsFrom_Less(x, y) == (Rows - (y + 1)) * Cols + (Cols - (x + 1))

CellsFrom(x, y) == (Rows - (y + 1)) * Cols + (Cols - (x + 1)) + 1

Back(b) == set_cursor_pos(b, X, Y)

EraseDisplay(n) ==                                                         \* J
  CASE n = 0 -> Back(Blanked(Now, CellsFrom(X, Y)))
    [] n = 1 -> Back(Blanked(set_cursor_pos(Now, 0, 0), At(X, Y) + 1))
    [] n \in {2, 3} -> [Now EXCEPT !.s = [c \in Cells |-> Space]]
    [] OTHER -> Now

EraseLine(n) ==                                                            \* K
  CASE n = 0 -> Back(Blanked(Now, Cols - X))
    [] n = 1 -> Blanked(set_cursor_pos(Now, 0, Y), X)
    [] n = 2 -> Back(Blanked(set_cursor_pos(Now, 0, Y), Cols))
    [] OTHER -> Now

EraseChars(n) == Back(Blanked(Now, Least(n, Cols)))                        \* X

InsertChars(n) ==                                                          \* @
  LET Moved(b, c) ==
        raw_putchar(set_cursor_pos(move_character(b, c + n, Y, c), c, Y), Space, FALSE)
  IN Back(Downto(Now, Cols - 1, X, Moved))

DeleteChars(n) ==                                                          \* P
  LET Moved(b, c) == move_character(b, c - n, Y, c)
      shifted == IF X + n < Cols THEN Upto(Now, X + n, Cols - 1, Moved) ELSE Now
  IN Back(Blanked(set_cursor_pos(shifted, Cols - n, Y), Least(n, Cols)))

Edit ==
  /\ \E n \in Params :
       \/ Become(ScrollLines(n)) \/ Become(InsertLines(n))
       \/ Become(EraseDisplay(n)) \/ Become(EraseLine(n))
       \/ Become(InsertChars(n)) \/ Become(DeleteChars(n)) \/ Become(EraseChars(n))
  /\ UNCHANGED modes

Characters == PutChar \/ PrintUnicode \/ LineFeed \/ Index \/ ReverseIndex
Controls   == Backspace \/ CarriageReturn \/ Tab \/ RestoreCursor \/ Reset \/ InsertMode \/ Unhandled
Moves == \E n \in Params :
  \/ CursorUp(n) \/ CursorDown(n) \/ CursorForward(n) \/ CursorBack(n)
  \/ CursorRow(n) \/ CursorColumn(n)
  \/ \E m \in Params : CursorTo(m, n) \/ \E i \in 0..2 : SetMargins(i, m, n)

Next == Characters \/ Controls \/ Moves \/ Edit

Spec == Init /\ [][Next]_vars

-----------------------------------------------------------------------------
TypeOK ==
  /\ screen \in [Cells -> Glyphs]
  /\ cursor_x \in 0..MaxX /\ cursor_y \in 0..(Rows + Cols)
  /\ scroll_enabled \in BOOLEAN /\ insert_mode \in BOOLEAN
  /\ margins \in Margins

Region == scroll_top_margin..(scroll_bottom_margin - 1)

\* Text leaves the rows outside the scrolling region alone: when a cell changes
\* that is neither in it nor in the row the cursor was or is in, it was no text.
TextStaysInRegion ==
  [][(\E c \in Cells : screen'[c] # screen[c] /\ Row(c) \notin Region \cup {Y, cursor_y'})
       => ~Characters]_vars

\* Relative motion keeps a cursor in the scrolling region there, and never moves
\* it the other way; down from the row just below the region is the exception.
MotionStaysInRegion ==
  \A n \in Params :
    /\ RowUp(n) <= Y /\ (Y \in Region => RowUp(n) \in Region)
    /\ Y # scroll_bottom_margin => RowDown(n) >= Y /\ (Y \in Region => RowDown(n) \in Region)

\* What editing the line or the screen should leave on it.
Here    == At(X, Y)
LineEnd == At(Cols - 1, Y)

Erased(from, to)  == [c \in Cells |-> IF c \in from..to THEN Space ELSE screen[c]]
\* The cells of set move by d cells within it; the ones nothing moves to are blank.
Shifted(set, d) ==
  [c \in Cells |-> IF c \notin set THEN screen[c]
                   ELSE IF c - d \in set THEN screen[c - d] ELSE Space]
InRows(set) == {c \in Cells : Row(c) \in set}

Leaves(b, s) == b = [s |-> s, x |-> X, y |-> Y]

\* The loops of the editing sequences erase and move exactly the cells they
\* should and leave the cursor where it was.  They rely on a cursor in front of
\* the end of the line, on counts that stay in it and, for J, on no margin
\* between the cells they erase.
EditsExact ==
  cursor_x < Cols /\ cursor_y < Rows =>
    /\ Leaves(EraseLine(0), Erased(Here, LineEnd))
    /\ Leaves(EraseLine(1), Erased(At(0, Y), Here - 1))
    /\ Leaves(EraseLine(2), Erased(At(0, Y), LineEnd))
    /\ scroll_bottom_margin = Rows => Leaves(EraseDisplay(0), Erased(Here, Cols * Rows - 1))
    /\ Y < scroll_bottom_margin => Leaves(EraseDisplay(1), Erased(0, Here))
    /\ \A n \in Params \ {0} :
         /\ X + n <= Cols =>
              /\ Leaves(EraseChars(n), Erased(Here, Here + n - 1))
              /\ Leaves(InsertChars(n), Shifted(Here..LineEnd, n))
              /\ Leaves(DeleteChars(n), Shifted(Here..LineEnd, -n))
         /\ Leaves(ScrollLines(n), Shifted(InRows(Region), -n * Cols))
         /\ Y < scroll_bottom_margin =>
              Leaves(InsertLines(n), Shifted(InRows(Y..(scroll_bottom_margin - 1)), n * Cols))

\* The cursor leaves the screen only below a region that ends above the last
\* row, or when such a position is restored.
CursorLeavesOnlySo ==
  [][cursor_y < Rows /\ cursor_y' >= Rows => RestoreCursor \/ scroll_bottom_margin < Rows]_vars
=============================================================================
