------------------------------ MODULE FbQueue ------------------------------
(***************************************************************************)
(* The framebuffer back end of flanterm (kernel/src/ft/flanterm_backends/  *)
(* fb.c) with its double buffer.  grid is what the framebuffer shows, the  *)
(* cursor aside; a cell that has been written since the last flush has an  *)
(* item in queue, and map leads from the cell to the item.                 *)
(*                                                                         *)
(* A call is a sequence of actions, one for each round of its loop.  The   *)
(* terminal (flanterm.c) makes the calls; here they come in any order.     *)
(***************************************************************************)
EXTENDS FbCells, Sequences

CONSTANTS
  None,
  Modes,             \* what flanterm.c sets: <<cursor_enabled, scroll_enabled, margins>>
  MaxCalls           \* bound on the calls between two flushes

VARIABLES
  grid, queue, map,  \* map[c] = 0 is NULL, map[c] = k is &queue[k - 1]
  framebuffer,       \* what plot_char drew last in a cell: <<glyph, swapped?>>
  cursor_x, cursor_y, old_cursor_x, old_cursor_y,
  cursor_enabled, scroll_enabled, scroll_top_margin, scroll_bottom_margin,
  pc, i,             \* the loop that runs, and its index
  top,               \* the top margin of the running (rev)scroll
  empty,             \* the blank the running call fills with
  ch,                \* the character raw_putchar puts after its scroll, or None
  calls,             \* the calls since the last flush
  before             \* history: the screen and the cursor when the call began

modes   == <<cursor_enabled, scroll_enabled, scroll_top_margin, scroll_bottom_margin>>
cursors == <<cursor_x, cursor_y, old_cursor_x, old_cursor_y>>
locals  == <<top, empty, ch, before>>
vars == <<grid, queue, map, framebuffer, cursors, modes, pc, i, calls, locals>>

\* What a cell will show: the call finds it through map or in grid.
Glyph(c) == IF map[c] # 0 THEN queue[map[c]].c ELSE grid[c]

Promise == INSTANCE FbScreen WITH
  screen   <- IF pc = "idle" THEN [c \in Cells |-> Glyph(c)] ELSE before.screen,
  glass    <- IF pc = "idle" THEN framebuffer ELSE before.glass,
  cursor_x <- IF pc = "idle" THEN cursor_x ELSE before.x,
  cursor_y <- IF pc = "idle" THEN cursor_y ELSE before.y

ASSUME FbQueueAssumption ==
  /\ None \notin Glyphs /\ MaxCalls \in Nat
  /\ \A m \in Modes : m[1] \in BOOLEAN /\ m[2] \in BOOLEAN /\ <<m[3], m[4]>> \in Margins

Item   == [at : Cells, c : Glyphs]
Shown  == Glyphs \X BOOLEAN

-----------------------------------------------------------------------------
Init ==
  /\ \E b \in Blanks :
       /\ grid = [c \in Cells |-> b]
       /\ framebuffer = [c \in Cells |-> <<b, c = 0>>]
  /\ queue = << >> /\ map = [c \in Cells |-> 0]
  /\ cursor_x = 0 /\ cursor_y = 0 /\ old_cursor_x = 0 /\ old_cursor_y = 0
  /\ cursor_enabled = TRUE /\ scroll_enabled = TRUE
  /\ scroll_top_margin = 0 /\ scroll_bottom_margin = Rows
  /\ pc = "idle" /\ i = 0 /\ top = 0 /\ empty = None /\ ch = None /\ before = None /\ calls = 0

\* Mutant: an item that is in the queue already is queued once more.
push_to_queue_Again(g, x, y) ==
  \/ ~OnScreen(x, y) /\ UNCHANGED <<queue, map>>
  \/ /\ OnScreen(x, y)
     /\ queue' = Append(queue, [at |-> At(x, y), c |-> g])
     /\ map' = [map EXCEPT ![At(x, y)] = Len(queue) + 1]

push_to_queue(g, x, y) ==
  \/ ~OnScreen(x, y) /\ UNCHANGED <<queue, map>>
  \/ /\ OnScreen(x, y) /\ map[At(x, y)] # 0
     /\ queue' = [queue EXCEPT ![map[At(x, y)]].c = g]
     /\ UNCHANGED map
  \/ /\ OnScreen(x, y) /\ map[At(x, y)] = 0
     /\ grid[At(x, y)] = g /\ UNCHANGED <<queue, map>>
  \/ /\ OnScreen(x, y) /\ map[At(x, y)] = 0 /\ grid[At(x, y)] # g
     /\ queue' = Append(queue, [at |-> At(x, y), c |-> g])
     /\ map' = [map EXCEPT ![At(x, y)] = Len(queue) + 1]

\* The call that starts here has the loop l, from index n on.
Call(l, n) ==
  /\ pc = "idle" /\ pc' = l /\ i' = n
  /\ calls < MaxCalls /\ calls' = calls + 1
  /\ before' = [screen |-> [c \in Cells |-> Glyph(c)], glass |-> framebuffer,
                x |-> cursor_x, y |-> cursor_y]
  /\ UNCHANGED <<grid, queue, map, framebuffer, old_cursor_x, old_cursor_y, modes>>

Return ==
  /\ pc' = "idle" /\ i' = 0 /\ top' = 0 /\ empty' = None /\ ch' = None /\ before' = None

\* A round of a loop, which goes on with index n; the end of one, and l is next.
Round(n) ==
  /\ i' = n
  /\ UNCHANGED <<grid, framebuffer, cursors, modes, pc, calls, locals>>
Over(l) == pc' = l /\ i' = 0 /\ UNCHANGED <<grid, queue, map, framebuffer, cursors, modes, calls, locals>>

-----------------------------------------------------------------------------
(* scroll and revscroll.                                                   *)

Scroll ==
  /\ Call("scroll", (scroll_top_margin + 1) * Cols)
  /\ top' = scroll_top_margin /\ empty' \in Blanks /\ ch' = None
  /\ UNCHANGED <<cursor_x, cursor_y>>

\* raw_putchar in a line that is full: the character is put in the next one.
RawPutcharWrap ==
  /\ Wraps(cursor_x, cursor_y, scroll_bottom_margin, scroll_enabled)
  /\ IF cursor_y + 1 = scroll_bottom_margin
     THEN Call("scroll", (scroll_top_margin + 1) * Cols)
     ELSE Call("put", 0)
  /\ cursor_x' = 0
  /\ cursor_y' = WrappedRow(cursor_y, scroll_bottom_margin)
  /\ top' = scroll_top_margin /\ empty' \in Blanks /\ ch' \in Glyphs

\* The insert line sequence scrolls from the cursor's row on.
Revscroll ==
  /\ Call("revscroll", (scroll_bottom_margin - 1) * Cols - 1)
  /\ top' \in {scroll_top_margin, Clamp(cursor_y, Rows)}
  /\ empty' \in Blanks /\ ch' = None
  /\ UNCHANGED <<cursor_x, cursor_y>>

ScrollCopy ==
  /\ pc = "scroll" /\ i < scroll_bottom_margin * Cols
  /\ push_to_queue(Glyph(i), (i - Cols) % Cols, (i - Cols) \div Cols)
  /\ Round(i + 1)

\* Mutant: the rows are copied from the top down.
Copied_Down == scroll_top_margin * Cols + (scroll_bottom_margin - 1) * Cols - 1 - i

Copied == i

RevscrollCopy ==
  /\ pc = "revscroll" /\ i >= top * Cols
  /\ push_to_queue(Glyph(Copied), (Copied + Cols) % Cols, (Copied + Cols) \div Cols)
  /\ Round(i - 1)

CopyOver ==
  \/ pc = "scroll" /\ ~(i < scroll_bottom_margin * Cols) /\ Over("scroll_blank")
  \/ pc = "revscroll" /\ ~(i >= top * Cols) /\ Over("revscroll_blank")

ScrollBlank ==
  /\ pc = "scroll_blank" /\ i < Cols
  /\ push_to_queue(empty, i, scroll_bottom_margin - 1)
  /\ Round(i + 1)

RevscrollBlank ==
  /\ pc = "revscroll_blank" /\ i < Cols
  /\ push_to_queue(empty, i, top)
  /\ Round(i + 1)

\* The last line is blank: the call is over, or raw_putchar puts its character.
ScrollOver ==
  /\ pc \in {"scroll_blank", "revscroll_blank"} /\ i = Cols
  /\ \/ ch # None /\ Over("put")
     \/ /\ ch = None /\ Return
        /\ UNCHANGED <<grid, queue, map, framebuffer, cursors, modes, calls>>

-----------------------------------------------------------------------------
(* raw_putchar, and the calls without a loop or with a simple one.         *)

RawPutchar ==
  /\ ~Wraps(cursor_x, cursor_y, scroll_bottom_margin, scroll_enabled)
  /\ cursor_x < MaxX
  /\ Call("put", 0)
  /\ top' = 0 /\ empty' = None /\ ch' \in Glyphs
  /\ UNCHANGED <<cursor_x, cursor_y>>

RawPutcharPut ==
  /\ pc = "put"
  /\ push_to_queue(ch, cursor_x, cursor_y)
  /\ cursor_x' = cursor_x + 1
  /\ Return
  /\ UNCHANGED <<grid, framebuffer, cursor_y, old_cursor_x, old_cursor_y, modes, calls>>

Clear ==
  /\ Call("clear", 0)
  /\ top' = 0 /\ empty' \in Blanks /\ ch' = None
  /\ UNCHANGED <<cursor_x, cursor_y>>

ClearCell ==
  /\ pc = "clear" /\ i < Rows * Cols
  /\ push_to_queue(empty, i % Cols, i \div Cols)
  /\ Round(i + 1)

ClearOver ==
  /\ pc = "clear" /\ i = Rows * Cols
  /\ \/ cursor_x' = 0 /\ cursor_y' = 0
     \/ UNCHANGED <<cursor_x, cursor_y>>
  /\ Return
  /\ UNCHANGED <<grid, queue, map, framebuffer, old_cursor_x, old_cursor_y, modes, calls>>

\* A column or a row that was decremented below 0 counts as 0.
SetCursorPos ==
  /\ pc = "idle" /\ calls < MaxCalls /\ calls' = calls + 1
  /\ \E x \in (0 - 1)..Cols, y \in (0 - 1)..Rows :
       cursor_x' = Clamp(x, Cols) /\ cursor_y' = Clamp(y, Rows)
  /\ UNCHANGED <<grid, queue, map, framebuffer, old_cursor_x, old_cursor_y, modes, pc, i, locals>>

\* The terminal moves characters within a row.
MoveCharacter ==
  /\ pc = "idle" /\ calls < MaxCalls /\ calls' = calls + 1
  /\ \E x, z \in 0..(Cols - 1), y \in 0..(Rows - 1) : push_to_queue(Glyph(At(x, y)), z, y)
  /\ UNCHANGED <<grid, framebuffer, cursors, modes, pc, i, locals>>

\* flanterm.c shows or hides the cursor, stops scrolling or sets the margins.
Configure ==
  /\ pc = "idle" /\ calls < MaxCalls /\ calls' = calls + 1
  /\ \E m \in Modes :
       /\ cursor_enabled' = m[1] /\ scroll_enabled' = m[2]
       /\ scroll_top_margin' = m[3] /\ scroll_bottom_margin' = m[4]
  /\ UNCHANGED <<grid, queue, map, framebuffer, cursors, pc, i, locals>>

-----------------------------------------------------------------------------
(* double_buffer_flush.                                                    *)

\* The cursor's cell is drawn with its colours swapped, and its item is done.
draw_cursor(c) ==
  /\ framebuffer' = [framebuffer EXCEPT ![c] = <<Glyph(c), TRUE>>]
  /\ grid' = [grid EXCEPT ![c] = Glyph(c)]
  /\ map' = [map EXCEPT ![c] = 0]

Flush ==
  /\ pc = "idle" /\ pc' = "flush" /\ i' = 1
  /\ before' = [screen |-> [c \in Cells |-> Glyph(c)], glass |-> framebuffer,
                x |-> cursor_x, y |-> cursor_y]
  /\ IF cursor_enabled /\ OnScreen(cursor_x, cursor_y)
     THEN draw_cursor(At(cursor_x, cursor_y))
     ELSE UNCHANGED <<framebuffer, grid, map>>
  /\ UNCHANGED <<queue, cursors, modes, top, empty, ch, calls>>

draw_item(q) ==
  /\ framebuffer' = [framebuffer EXCEPT ![q.at] = <<q.c, FALSE>>]
  /\ grid' = [grid EXCEPT ![q.at] = q.c]
  /\ map' = [map EXCEPT ![q.at] = 0]

\* Items whose cell draw_cursor has drawn are skipped.
FlushItem ==
  /\ pc = "flush" /\ i <= Len(queue)
  /\ \/ map[queue[i].at] = 0 /\ UNCHANGED <<framebuffer, grid, map>>
     \/ map[queue[i].at] # 0 /\ draw_item(queue[i])
  /\ i' = i + 1
  /\ UNCHANGED <<queue, cursors, modes, pc, calls, locals>>

\* The cell the cursor has left is drawn without it.
CursorLeft ==
  /\ old_cursor_x # cursor_x \/ old_cursor_y # cursor_y \/ ~cursor_enabled
  /\ OnScreen(old_cursor_x, old_cursor_y)

Emptied == << >>

FlushOver ==
  /\ pc = "flush" /\ i > Len(queue)
  /\ framebuffer' =
       LET c == At(old_cursor_x, old_cursor_y) IN
       IF CursorLeft THEN [framebuffer EXCEPT ![c] = <<grid[c], FALSE>>] ELSE framebuffer
  /\ old_cursor_x' = cursor_x /\ old_cursor_y' = cursor_y
  /\ queue' = Emptied /\ calls' = 0
  /\ Return
  /\ UNCHANGED <<grid, map, cursor_x, cursor_y, modes>>

Next ==
  \/ Scroll \/ RawPutcharWrap \/ Revscroll \/ ScrollCopy \/ RevscrollCopy \/ CopyOver
  \/ ScrollBlank \/ RevscrollBlank \/ ScrollOver
  \/ RawPutchar \/ RawPutcharPut \/ Clear \/ ClearCell \/ ClearOver
  \/ SetCursorPos \/ MoveCharacter \/ Configure
  \/ Flush \/ FlushItem \/ FlushOver

Spec == Init /\ [][Next]_vars

-----------------------------------------------------------------------------
TypeOK ==
  /\ grid \in [Cells -> Glyphs] /\ framebuffer \in [Cells -> Shown]
  /\ queue \in Seq(Item) /\ map \in [Cells -> 0..Len(queue)]
  /\ cursor_x \in 0..MaxX /\ cursor_y \in 0..(Rows + Cols)
  /\ old_cursor_x \in 0..MaxX /\ old_cursor_y \in 0..(Rows + Cols)
  /\ cursor_enabled \in BOOLEAN /\ scroll_enabled \in BOOLEAN
  /\ <<scroll_top_margin, scroll_bottom_margin>> \in Margins
  /\ pc \in {"idle", "scroll", "revscroll", "scroll_blank", "revscroll_blank", "put",
             "clear", "flush"}
  /\ calls \in 0..MaxCalls
  /\ top \in 0..(Rows - 1) /\ empty \in Blanks \cup {None} /\ ch \in Glyphs \cup {None}

\* Every cell has at most one item, and map leads to it: an update never goes
\* to the item of another cell, and no update waits in an item that the flush
\* does not come to.
OneItemPerCell ==
  /\ \A c \in Cells : map[c] # 0 => queue[map[c]].at = c
  /\ \A k, m \in DOMAIN queue : queue[k].at = queue[m].at => k = m
  /\ pc = "flush" => \A c \in Cells : map[c] # 0 => map[c] >= i

\* fb_init allocates one item per cell (fb.c:1291): however often the terminal
\* writes between two flushes, the queue does not outgrow them.
QueueInBounds == Len(queue) <= Cols * Rows

\* Every call does to the screen what FbScreen promises, in one step, and a
\* flush shows the whole screen with the cursor in its place and nowhere else.
KeepsPromise == Promise!Spec
=============================================================================
