--------------------------- MODULE FbQueueProofs ---------------------------
(* Proofs about FbQueue: for every size of the screen and every alphabet,    *)
(* the queue has at most one item per cell and never outgrows its memory,    *)
(* and the back end implements FbScreen.                                     *)
EXTENDS FbQueue, FbCellsProofs, FiniteSetTheorems

-----------------------------------------------------------------------------
(* The invariant.                                                            *)

\* Outside a flush every item of the queue is the one its cell's map leads to.
Linked == pc # "flush" => \A k \in DOMAIN queue : map[queue[k].at] = k

\* Where the loops are, and what they fill and put.
LoopOK ==
  /\ i \in Int
  /\ pc \in {"scroll", "scroll_blank", "revscroll_blank", "clear"} => i >= 0
  /\ pc = "revscroll" => i < Cols * Rows
  /\ pc = "flush" => i >= 1
  /\ pc \in {"scroll", "revscroll", "scroll_blank", "revscroll_blank", "clear"} => empty \in Blanks
  /\ pc = "put" => ch # None
  /\ ch # None => cursor_x < MaxX

Inv == TypeOK /\ LoopOK /\ OneItemPerCell /\ Linked

\* The queue's part of TypeOK, and what a call relies on.
QueueOK ==
  /\ grid \in [Cells -> Glyphs]
  /\ queue \in Seq(Item) /\ map \in [Cells -> 0..Len(queue)]

LinkedOK ==
  /\ \A c \in Cells : map[c] # 0 => queue[map[c]].at = c
  /\ \A k \in DOMAIN queue : map[queue[k].at] = k

LEMMA GlyphType == ASSUME QueueOK, NEW c \in Cells PROVE Glyph(c) \in Glyphs
<1>1. CASE map[c] = 0
  BY <1>1 DEF Glyph, QueueOK
<1>2. CASE map[c] # 0
  <2>1. map[c] \in 1..Len(queue)
    BY <1>2 DEF QueueOK
  <2>2. queue[map[c]] \in Item
    BY <2>1 DEF QueueOK
  <2> QED BY <1>2, <2>2 DEF Glyph, Item
<1> QED BY <1>1, <1>2

\* push_to_queue keeps one item per cell and the links between them.
LEMMA PushKeeps ==
  ASSUME QueueOK, LinkedOK, grid' = grid,
         NEW g \in Glyphs, NEW x \in Int, NEW y \in Int, push_to_queue(g, x, y)
  PROVE  QueueOK' /\ LinkedOK'
<1>1. CASE UNCHANGED <<queue, map>>
  BY <1>1 DEF QueueOK, LinkedOK
<1>2. ASSUME OnScreen(x, y), map[At(x, y)] # 0,
             queue' = [queue EXCEPT ![map[At(x, y)]].c = g], UNCHANGED map
      PROVE  QueueOK' /\ LinkedOK'
  <2> DEFINE k == map[At(x, y)]
  <2>1. k \in 1..Len(queue) /\ queue[k] \in Item
    BY <1>2, AtIsCell DEF QueueOK
  <2>2. [queue[k] EXCEPT !.c = g] \in Item /\ [queue[k] EXCEPT !.c = g].at = queue[k].at
    BY <2>1 DEF Item
  <2>3. queue' = [queue EXCEPT ![k] = [queue[k] EXCEPT !.c = g]]
    BY <1>2
  <2> HIDE DEF k
  <2>4. queue' \in Seq(Item) /\ Len(queue') = Len(queue) /\ DOMAIN queue' = DOMAIN queue
    BY <2>1, <2>2, <2>3 DEF QueueOK
  <2>5. \A m \in DOMAIN queue : queue'[m].at = queue[m].at
    BY <2>1, <2>2, <2>3 DEF QueueOK
  <2>6. QueueOK'
    BY <1>2, <2>4 DEF QueueOK
  <2>7. \A c \in Cells : map[c] # 0 => map[c] \in DOMAIN queue
    BY DEF QueueOK
  <2> QED BY <1>2, <2>4, <2>5, <2>6, <2>7 DEF LinkedOK
<1>3. ASSUME OnScreen(x, y), map[At(x, y)] = 0,
             queue' = Append(queue, [at |-> At(x, y), c |-> g]),
             map' = [map EXCEPT ![At(x, y)] = Len(queue) + 1]
      PROVE  QueueOK' /\ LinkedOK'
  <2> DEFINE a == At(x, y)
             q == [at |-> a, c |-> g]
             n == Len(queue)
  <2>1. a \in Cells /\ q \in Item /\ q.at = a /\ n \in Nat /\ queue \in Seq(Item)
    BY <1>3, AtIsCell DEF Item, QueueOK
  <2>2. queue' = Append(queue, q) /\ map' = [map EXCEPT ![a] = n + 1] /\ map[a] = 0
    BY <1>3
  <2> HIDE DEF a, q, n
  <2>3. /\ queue' \in Seq(Item) /\ Len(queue') = n + 1
        /\ DOMAIN queue' = 1..(n + 1) /\ queue'[n + 1] = q
        /\ \A m \in 1..n : queue'[m] = queue[m]
    BY <2>1, <2>2 DEF n
  <2>4. map \in [Cells -> 0..n] /\ DOMAIN queue = 1..n
    BY <2>1 DEF QueueOK, n
  <2>5. map' \in [Cells -> 0..(n + 1)]
    BY <2>1, <2>2, <2>4
  <2>6. QueueOK'
    BY <2>3, <2>5 DEF QueueOK
  <2>7. ASSUME NEW c \in Cells, map'[c] # 0 PROVE queue'[map'[c]].at = c
    <3>1. CASE c = a
      BY <2>1, <2>2, <2>3, <2>4, <3>1
    <3>2. CASE c # a
      <4>1. map'[c] = map[c] /\ map[c] \in 1..n
        BY <2>2, <2>4, <2>7, <3>2
      <4>2. queue[map[c]].at = c
        BY <2>7, <4>1 DEF LinkedOK
      <4> QED BY <2>3, <4>1, <4>2
    <3> QED BY <3>1, <3>2
  <2>8. ASSUME NEW m \in DOMAIN queue' PROVE map'[queue'[m].at] = m
    <3>1. CASE m = n + 1
      BY <2>1, <2>2, <2>3, <2>4, <3>1
    <3>2. CASE m # n + 1
      <4>1. m \in 1..n /\ queue'[m] = queue[m]
        BY <2>1, <2>3, <2>8, <3>2
      <4>2. map[queue[m].at] = m /\ queue[m] \in Item
        BY <2>1, <2>4, <4>1 DEF LinkedOK, QueueOK
      <4>3. queue[m].at \in Cells /\ queue[m].at # a
        BY <2>1, <2>2, <4>1, <4>2 DEF Item
      <4> QED BY <2>2, <2>4, <4>1, <4>2, <4>3
    <3> QED BY <3>1, <3>2
  <2> QED BY <2>6, <2>7, <2>8 DEF LinkedOK
<1> QED BY <1>1, <1>2, <1>3 DEF push_to_queue

\* Outside a flush the two parts of the invariant say the same as LinkedOK.
LEMMA LinksGiven == ASSUME Inv, pc # "flush" PROVE QueueOK /\ LinkedOK
BY DEF Inv, TypeOK, OneItemPerCell, Linked, QueueOK, LinkedOK

LEMMA LinksGive == ASSUME QueueOK, LinkedOK, pc # "flush" PROVE OneItemPerCell /\ Linked
BY DEF OneItemPerCell, Linked, QueueOK, LinkedOK

LEMMA LinksGiveNext ==
  ASSUME QueueOK', LinkedOK', pc' # "flush" PROVE OneItemPerCell' /\ Linked'
BY DEF OneItemPerCell, Linked, QueueOK, LinkedOK

LEMMA QueueTyped == ASSUME Inv PROVE QueueOK
BY DEF Inv, TypeOK, QueueOK

LEMMA MarginTypes ==
  ASSUME TypeOK
  PROVE  /\ scroll_top_margin \in 0..(Rows - 1) /\ scroll_bottom_margin \in 1..Rows
         /\ Cols \in Nat /\ Rows \in Nat /\ Cols > 0 /\ Rows > 0 /\ MaxX \in Nat /\ MaxX > Cols
         /\ Blanks \subseteq Glyphs /\ None \notin Glyphs
BY FbCellsAssumption, FbQueueAssumption DEF TypeOK, Margins

\* The rest of the state.
OthersOK ==
  /\ framebuffer \in [Cells -> Shown]
  /\ cursor_x \in 0..MaxX /\ cursor_y \in 0..(Rows + Cols)
  /\ old_cursor_x \in 0..MaxX /\ old_cursor_y \in 0..(Rows + Cols)
  /\ cursor_enabled \in BOOLEAN /\ scroll_enabled \in BOOLEAN
  /\ <<scroll_top_margin, scroll_bottom_margin>> \in Margins
  /\ pc \in {"idle", "scroll", "revscroll", "scroll_blank", "revscroll_blank", "put",
             "clear", "flush"}
  /\ calls \in 0..MaxCalls
  /\ top \in 0..(Rows - 1) /\ empty \in Blanks \cup {None} /\ ch \in Glyphs \cup {None}

LEMMA TypeParts == TypeOK <=> QueueOK /\ OthersOK
BY DEF TypeOK, QueueOK, OthersOK

\* What a step that does not flush has to show.
LEMMA StepKeeps ==
  ASSUME QueueOK', LinkedOK', OthersOK', LoopOK', pc' # "flush"
  PROVE  Inv'
<1>1. TypeOK'
  BY DEF TypeOK, QueueOK, OthersOK
<1> QED BY <1>1, LinksGiveNext DEF Inv

-----------------------------------------------------------------------------
(* The actions.                                                              *)

LEMMA InitInv == ASSUME Init PROVE Inv
<1>1. /\ Cols \in Nat /\ Rows \in Nat /\ Cols > 0 /\ Rows > 0 /\ MaxX \in Nat /\ MaxX > Cols
      /\ Blanks \subseteq Glyphs /\ MaxCalls \in Nat
  BY FbCellsAssumption, FbQueueAssumption
<1>2. QueueOK /\ LinkedOK
  BY <1>1 DEF Init, QueueOK, LinkedOK
<1>3. OthersOK
  <2>1. <<0, Rows>> \in Margins
    BY <1>1 DEF Margins
  <2>2. framebuffer \in [Cells -> Shown]
    <3>1. PICK b \in Blanks : framebuffer = [c \in Cells |-> <<b, c = 0>>]
      BY DEF Init
    <3>2. \A c \in Cells : (c = 0) \in BOOLEAN
      OBVIOUS
    <3>3. b \in Glyphs
      BY <1>1
    <3>4. \A c \in Cells : <<b, c = 0>> \in Glyphs \X BOOLEAN
      BY <3>2, <3>3, Zenon
    <3> QED BY <3>1, <3>4, Zenon DEF Shown
  <2>3. 0 \in 0..(Rows - 1) /\ 0 \in 0..MaxX /\ 0 \in 0..(Rows + Cols) /\ 0 \in 0..MaxCalls
    BY <1>1
  <2>4. <<scroll_top_margin, scroll_bottom_margin>> \in Margins
    BY <2>1 DEF Init
  <2>5. cursor_enabled \in BOOLEAN /\ scroll_enabled \in BOOLEAN
    BY DEF Init
  <2> QED BY <2>2, <2>3, <2>4, <2>5 DEF Init, OthersOK
<1>4. LoopOK
  BY DEF Init, LoopOK
<1> QED BY <1>2, <1>3, <1>4, LinksGive, TypeParts DEF Init, Inv

\* A step that leaves the queue alone keeps its links.
LEMMA QueueUntouched ==
  ASSUME QueueOK, LinkedOK, UNCHANGED <<grid, queue, map>>
  PROVE  QueueOK' /\ LinkedOK'
BY DEF QueueOK, LinkedOK

LEMMA CallKeeps ==
  ASSUME Inv, Scroll \/ RawPutcharWrap \/ Revscroll \/ RawPutchar \/ Clear
  PROVE  Inv'
<1> USE MarginTypes, LinksGiven, TypeParts, StepKeeps, QueueUntouched
<1> DEFINE t == scroll_top_margin
           b == scroll_bottom_margin
<1>1. /\ TypeOK /\ LoopOK /\ OthersOK /\ MaxCalls \in Nat
      /\ pc = "idle" /\ UNCHANGED <<grid, queue, map, framebuffer, old_cursor_x, old_cursor_y, modes>>
      /\ calls < MaxCalls /\ calls' = calls + 1
  BY FbQueueAssumption DEF Inv, Call, Scroll, RawPutcharWrap, Revscroll, RawPutchar, Clear
<1>2. QueueOK' /\ LinkedOK'
  BY <1>1
<1>3. (t + 1) * Cols \in Nat /\ (b - 1) * Cols \in Nat /\ (b - 1) * Cols <= Cols * Rows
  <2>1. t + 1 \in 0..Rows /\ b - 1 \in 0..Rows
    BY <1>1
  <2> QED BY <2>1, RowBound
<1>4. WrappedRow(cursor_y, b) \in 0..(Rows + Cols)
  BY <1>1 DEF WrappedRow, OthersOK
<1>5. Clamp(cursor_y, Rows) \in 0..(Rows - 1)
  BY <1>1 DEF Clamp, OthersOK
<1>6. OthersOK'
  <2>1. CASE Scroll
    BY <1>1, <2>1 DEF Scroll, Call, OthersOK, modes
  <2>2. CASE RawPutcharWrap
    BY <1>1, <1>4, <2>2 DEF RawPutcharWrap, Call, OthersOK, modes
  <2>3. CASE Revscroll
    BY <1>1, <1>5, <2>3 DEF Revscroll, Call, OthersOK, modes
  <2>4. CASE RawPutchar
    BY <1>1, <2>4 DEF RawPutchar, Call, OthersOK, modes
  <2>5. CASE Clear
    BY <1>1, <2>5 DEF Clear, Call, OthersOK, modes
  <2> QED BY <2>1, <2>2, <2>3, <2>4, <2>5
<1>7. LoopOK' /\ pc' # "flush"
  <2> HIDE DEF t, b
  <2>0. (b - 1) * Cols - 1 \in Int /\ (b - 1) * Cols - 1 < Cols * Rows /\ Cols * Rows \in Int
    BY <1>1, <1>3
  <2>1. CASE Scroll
    BY <1>1, <1>3, <2>1 DEF Scroll, Call, LoopOK, t
  <2>2. CASE RawPutcharWrap
    BY <1>1, <1>3, <2>2 DEF RawPutcharWrap, Call, LoopOK, t
  <2>3. CASE Revscroll
    BY <1>1, <2>0, <2>3 DEF Revscroll, Call, LoopOK, b
  <2>4. CASE RawPutchar
    BY <1>1, <2>4 DEF RawPutchar, Call, LoopOK
  <2>5. CASE Clear
    BY <1>1, <2>5 DEF Clear, Call, LoopOK
  <2> QED BY <2>1, <2>2, <2>3, <2>4, <2>5
<1> QED BY <1>2, <1>6, <1>7

\* A round of a loop that pushes a glyph.
LEMMA RoundKeeps ==
  ASSUME Inv, ScrollCopy \/ RevscrollCopy \/ ScrollBlank \/ RevscrollBlank \/ ClearCell
  PROVE  Inv'
<1> USE MarginTypes, LinksGiven, TypeParts, StepKeeps
<1>1. /\ TypeOK /\ LoopOK /\ OthersOK /\ i \in Int
      /\ pc \in {"scroll", "revscroll", "scroll_blank", "revscroll_blank", "clear"}
      /\ UNCHANGED <<grid, framebuffer, cursors, modes, pc, calls, locals>>
  BY DEF Inv, LoopOK, Round, ScrollCopy, RevscrollCopy, ScrollBlank, RevscrollBlank, ClearCell
<1>2. empty \in Glyphs
  BY <1>1 DEF LoopOK
<1>3. QueueOK /\ LinkedOK
  BY <1>1
<1>4. OthersOK'
  BY <1>1 DEF OthersOK, cursors, modes, locals
<1>5. scroll_bottom_margin * Cols <= Cols * Rows /\ scroll_bottom_margin * Cols \in Nat
      /\ top * Cols \in Nat /\ Cols * Rows \in Nat
  <2>1. scroll_bottom_margin \in 0..Rows /\ top \in 0..Rows
    BY <1>1 DEF OthersOK
  <2> QED BY <2>1, RowBound
<1>6. QueueOK' /\ LinkedOK' /\ LoopOK'
  <2>1. CASE ScrollCopy
    <3>1. i \in Cells
      BY <1>1, <1>5, <2>1 DEF ScrollCopy, LoopOK, Cells
    <3>2. Glyph(i) \in Glyphs /\ (i - Cols) % Cols \in Int /\ (i - Cols) \div Cols \in Int
      BY <1>1, <1>3, <3>1, GlyphType
    <3>3. LoopOK'
      BY <1>1, <2>1 DEF ScrollCopy, Round, LoopOK, cursors, locals
    <3> QED BY <1>1, <1>3, <2>1, <3>2, <3>3, PushKeeps DEF ScrollCopy
  <2>2. CASE RevscrollCopy
    <3>1. i \in Cells
      BY <1>1, <1>5, <2>2 DEF RevscrollCopy, LoopOK, Cells
    <3>2. Glyph(i) \in Glyphs /\ (i + Cols) % Cols \in Int /\ (i + Cols) \div Cols \in Int
      BY <1>1, <1>3, <3>1, GlyphType
    <3>3. LoopOK'
      BY <1>1, <1>5, <2>2 DEF RevscrollCopy, Round, LoopOK, cursors, locals
    <3> QED BY <1>1, <1>3, <2>2, <3>2, <3>3, PushKeeps DEF RevscrollCopy, Copied
  <2>3. CASE ScrollBlank
    <3>1. LoopOK'
      BY <1>1, <2>3 DEF ScrollBlank, Round, LoopOK, cursors, locals
    <3> QED BY <1>1, <1>2, <1>3, <2>3, <3>1, PushKeeps DEF ScrollBlank
  <2>4. CASE RevscrollBlank
    <3>1. LoopOK'
      BY <1>1, <2>4 DEF RevscrollBlank, Round, LoopOK, cursors, locals
    <3>2. top \in Int
      BY <1>1 DEF OthersOK
    <3> QED BY <1>1, <1>2, <1>3, <2>4, <3>1, <3>2, PushKeeps DEF RevscrollBlank
  <2>5. CASE ClearCell
    <3>1. LoopOK'
      BY <1>1, <2>5 DEF ClearCell, Round, LoopOK, cursors, locals
    <3>2. i % Cols \in Int /\ i \div Cols \in Int
      BY <1>1
    <3> QED BY <1>1, <1>2, <1>3, <2>5, <3>1, <3>2, PushKeeps DEF ClearCell
  <2> QED BY <2>1, <2>2, <2>3, <2>4, <2>5
<1> QED BY <1>1, <1>4, <1>6

\* Steps between the loops, and calls of one step.
LEMMA PlainKeeps ==
  ASSUME Inv, CopyOver \/ ScrollOver \/ RawPutcharPut \/ ClearOver \/ SetCursorPos
              \/ MoveCharacter \/ Configure
  PROVE  Inv'
<1> USE MarginTypes, LinksGiven, TypeParts, StepKeeps, QueueUntouched
<1>0. TypeOK /\ LoopOK /\ OthersOK /\ MaxCalls \in Nat
  BY FbQueueAssumption DEF Inv
<1>1. CASE CopyOver
  <2>1. UNCHANGED <<grid, queue, map>> /\ pc # "flush" /\ pc' # "flush"
    BY <1>1 DEF CopyOver, Over
  <2>2. OthersOK' /\ LoopOK'
    BY <1>0, <1>1 DEF CopyOver, Over, OthersOK, LoopOK, cursors, modes, locals
  <2> QED BY <2>1, <2>2
<1>2. CASE ScrollOver
  <2>1. UNCHANGED <<grid, queue, map>> /\ pc # "flush" /\ pc' # "flush"
    BY <1>2 DEF ScrollOver, Over, Return
  <2>2. OthersOK' /\ LoopOK'
    BY <1>0, <1>2 DEF ScrollOver, Over, Return, OthersOK, LoopOK, cursors, modes, locals
  <2> QED BY <2>1, <2>2
<1>3. CASE RawPutcharPut
  <2>1. grid' = grid /\ pc # "flush" /\ pc' # "flush" /\ ch \in Glyphs
        /\ cursor_x \in Int /\ cursor_y \in Int /\ cursor_x < MaxX
    BY <1>0, <1>3 DEF RawPutcharPut, Return, LoopOK, OthersOK
  <2>2. OthersOK' /\ LoopOK'
    BY <1>0, <1>3, <2>1 DEF RawPutcharPut, Return, OthersOK, LoopOK, modes
  <2> QED BY <1>3, <2>1, <2>2, PushKeeps DEF RawPutcharPut
<1>4. CASE ClearOver
  <2>1. UNCHANGED <<grid, queue, map>> /\ pc # "flush" /\ pc' # "flush"
    BY <1>4 DEF ClearOver, Return
  <2>2. OthersOK' /\ LoopOK'
    BY <1>0, <1>4 DEF ClearOver, Return, OthersOK, LoopOK, modes
  <2> QED BY <2>1, <2>2
<1>5. CASE SetCursorPos
  <2>1. UNCHANGED <<grid, queue, map>> /\ pc # "flush" /\ pc' # "flush"
    BY <1>5 DEF SetCursorPos
  <2>2. cursor_x' \in 0..(Cols - 1) /\ cursor_y' \in 0..(Rows - 1)
    BY <1>0, <1>5 DEF SetCursorPos, Clamp
  <2>3. OthersOK' /\ LoopOK'
    BY <1>0, <1>5, <2>2 DEF SetCursorPos, OthersOK, LoopOK, modes, locals
  <2> QED BY <2>1, <2>3
<1>6. CASE MoveCharacter
  <2>1. grid' = grid /\ pc # "flush" /\ pc' # "flush" /\ QueueOK /\ LinkedOK
    BY <1>6 DEF MoveCharacter
  <2>2. PICK x \in 0..(Cols - 1), z \in 0..(Cols - 1), y \in 0..(Rows - 1) :
          push_to_queue(Glyph(At(x, y)), z, y)
    BY <1>6 DEF MoveCharacter
  <2>3. Glyph(At(x, y)) \in Glyphs
    BY <2>1, AtIsCell, GlyphType DEF OnScreen
  <2>4. OthersOK' /\ LoopOK'
    BY <1>0, <1>6 DEF MoveCharacter, OthersOK, LoopOK, modes, cursors, locals
  <2> QED BY <2>1, <2>2, <2>3, <2>4, PushKeeps
<1>7. CASE Configure
  <2>1. UNCHANGED <<grid, queue, map>> /\ pc # "flush" /\ pc' # "flush"
    BY <1>7 DEF Configure
  <2>2. PICK m \in Modes : /\ cursor_enabled' = m[1] /\ scroll_enabled' = m[2]
                           /\ scroll_top_margin' = m[3] /\ scroll_bottom_margin' = m[4]
    BY <1>7 DEF Configure
  <2>3. cursor_enabled' \in BOOLEAN /\ scroll_enabled' \in BOOLEAN
        /\ <<scroll_top_margin', scroll_bottom_margin'>> \in Margins
    BY <2>2, FbQueueAssumption
  <2>4. OthersOK' /\ LoopOK'
    BY <1>0, <1>7, <2>3 DEF Configure, OthersOK, LoopOK, cursors, locals
  <2> QED BY <2>1, <2>4
<1> QED BY <1>1, <1>2, <1>3, <1>4, <1>5, <1>6, <1>7

-----------------------------------------------------------------------------
(* The flush.                                                                *)

\* A cell that has been drawn is in grid, and no item of it is pending.
LEMMA DrawnKeeps ==
  ASSUME QueueOK, UNCHANGED queue, NEW c \in Cells, NEW g \in Glyphs,
         grid' = [grid EXCEPT ![c] = g], map' = [map EXCEPT ![c] = 0]
  PROVE  /\ QueueOK'
         /\ \A d \in Cells : map'[d] = IF d = c THEN 0 ELSE map[d]
BY DEF QueueOK

LEMMA FlushKeeps == ASSUME Inv, Flush PROVE Inv'
<1> USE MarginTypes, LinksGiven, QueueTyped
<1> DEFINE c == At(cursor_x, cursor_y)
<1>0. /\ TypeOK /\ LoopOK /\ OthersOK /\ OneItemPerCell /\ QueueOK
      /\ UNCHANGED <<queue, cursors, modes, top, empty, ch, calls>>
      /\ pc = "idle" /\ pc' = "flush" /\ i' = 1
  BY TypeParts DEF Inv, Flush
<1>1. CASE cursor_enabled /\ OnScreen(cursor_x, cursor_y)
  <2>1. draw_cursor(c) /\ c \in Cells
    <3>1. cursor_x \in Int /\ cursor_y \in Int
      BY <1>0 DEF OthersOK
    <3> QED BY <1>1, <3>1, AtIsCell DEF Flush
  <2> HIDE DEF c
  <2>2. Glyph(c) \in Glyphs
    BY <1>0, <2>1, GlyphType
  <2>3. QueueOK' /\ \A d \in Cells : map'[d] = IF d = c THEN 0 ELSE map[d]
    BY <1>0, <2>1, <2>2, DrawnKeeps DEF draw_cursor
  <2>4. framebuffer' \in [Cells -> Shown]
    BY <1>0, <2>1, <2>2 DEF draw_cursor, Shown, OthersOK
  <2>5. OneItemPerCell'
    BY <1>0, <2>3 DEF OneItemPerCell, QueueOK
  <2>6. OthersOK' /\ LoopOK' /\ Linked'
    BY <1>0, <2>4 DEF OthersOK, LoopOK, Linked, cursors, modes
  <2>7. TypeOK'
    BY <2>3, <2>6 DEF TypeOK, QueueOK, OthersOK
  <2> QED BY <2>5, <2>6, <2>7 DEF Inv
<1>2. CASE ~(cursor_enabled /\ OnScreen(cursor_x, cursor_y))
  <2>1. UNCHANGED <<framebuffer, grid, map>>
    BY <1>2 DEF Flush
  <2>2. OthersOK' /\ LoopOK' /\ Linked'
    BY <1>0, <2>1 DEF OthersOK, LoopOK, Linked, cursors, modes
  <2>3. OneItemPerCell'
    BY <1>0, <2>1 DEF OneItemPerCell, QueueOK
  <2>4. TypeOK'
    BY <1>0, <2>1, <2>2 DEF TypeOK, QueueOK, OthersOK
  <2> QED BY <2>2, <2>3, <2>4 DEF Inv
<1> QED BY <1>1, <1>2

LEMMA FlushItemKeeps == ASSUME Inv, FlushItem PROVE Inv'
<1> USE MarginTypes, QueueTyped
<1> DEFINE q == queue[i]
<1>0. /\ TypeOK /\ LoopOK /\ OthersOK /\ OneItemPerCell /\ QueueOK
      /\ UNCHANGED <<queue, cursors, modes, pc, calls, locals>>
      /\ pc = "flush" /\ i' = i + 1 /\ i \in 1..Len(queue)
  BY TypeParts DEF Inv, FlushItem, LoopOK, QueueOK
<1>1. q \in Item /\ q.at \in Cells /\ q.c \in Glyphs
  <2>1. q \in Item
    BY <1>0 DEF QueueOK
  <2> QED BY <2>1 DEF Item
<1>2. \A d \in Cells : map[d] = i => d = q.at
  BY <1>0 DEF OneItemPerCell
<1>3. \/ map[q.at] = 0 /\ UNCHANGED <<framebuffer, grid, map>>
      \/ draw_item(q)
  BY DEF FlushItem
<1> HIDE DEF q
<1>4. /\ QueueOK' /\ framebuffer' \in [Cells -> Shown]
      /\ \A d \in Cells : map'[d] = IF d = q.at THEN 0 ELSE map[d]
  <2>1. CASE map[q.at] = 0 /\ UNCHANGED <<framebuffer, grid, map>>
    BY <1>0, <1>1, <2>1 DEF QueueOK, OthersOK
  <2>2. CASE draw_item(q)
    <3>1. QueueOK' /\ \A d \in Cells : map'[d] = IF d = q.at THEN 0 ELSE map[d]
      BY <1>0, <1>1, <2>2, DrawnKeeps DEF draw_item
    <3>2. framebuffer' \in [Cells -> Shown]
      BY <1>0, <1>1, <2>2 DEF draw_item, Shown, OthersOK
    <3> QED BY <3>1, <3>2
  <2> QED BY <1>3, <2>1, <2>2
<1>5. OneItemPerCell'
  <2>1. \A d \in Cells : map'[d] # 0 => map'[d] = map[d] /\ map[d] # i
    BY <1>2, <1>4
  <2>2. \A d \in Cells : map'[d] # 0 => map'[d] >= i + 1
    <3>1. \A d \in Cells : map[d] \in Nat
      BY <1>0 DEF QueueOK
    <3> QED BY <1>0, <2>1, <3>1 DEF OneItemPerCell
  <2> QED BY <1>0, <2>1, <2>2 DEF OneItemPerCell
<1>6. OthersOK' /\ LoopOK' /\ Linked'
  BY <1>0, <1>4 DEF OthersOK, LoopOK, Linked, cursors, modes, locals
<1>7. TypeOK'
  BY <1>4, <1>6 DEF TypeOK, QueueOK, OthersOK
<1> QED BY <1>5, <1>6, <1>7 DEF Inv

LEMMA FlushOverKeeps == ASSUME Inv, FlushOver PROVE Inv'
<1> USE MarginTypes, QueueTyped
<1> DEFINE c == At(old_cursor_x, old_cursor_y)
<1>0. /\ TypeOK /\ LoopOK /\ OthersOK /\ OneItemPerCell /\ QueueOK
      /\ UNCHANGED <<grid, map, cursor_x, cursor_y, modes>> /\ Return
      /\ pc = "flush" /\ i > Len(queue) /\ queue' = << >> /\ calls' = 0
      /\ old_cursor_x' = cursor_x /\ old_cursor_y' = cursor_y
  BY TypeParts DEF Inv, FlushOver, Emptied
<1>1. \A d \in Cells : map[d] = 0
  BY <1>0 DEF OneItemPerCell, QueueOK, LoopOK
<1>2. QueueOK' /\ LinkedOK'
  BY <1>0, <1>1 DEF QueueOK, LinkedOK
<1>3. framebuffer' \in [Cells -> Shown]
  <2>1. CASE CursorLeft
    <3>1. old_cursor_x \in Int /\ old_cursor_y \in Int
      BY <1>0 DEF OthersOK
    <3>2. c \in Cells
      BY <2>1, <3>1, AtIsCell DEF CursorLeft
    <3>3. framebuffer' = [framebuffer EXCEPT ![c] = <<grid[c], FALSE>>]
      BY <2>1 DEF FlushOver
    <3> HIDE DEF c
    <3> QED BY <1>0, <3>2, <3>3 DEF OthersOK, QueueOK, Shown
  <2>2. CASE ~CursorLeft
    BY <1>0, <2>2 DEF FlushOver, OthersOK
  <2> QED BY <2>1, <2>2
<1>4. OthersOK' /\ LoopOK' /\ pc' # "flush"
  BY <1>0, <1>3, FbQueueAssumption DEF OthersOK, LoopOK, Return, modes
<1> QED BY <1>2, <1>4, StepKeeps

LEMMA NextInv == ASSUME Inv, [Next]_vars PROVE Inv'
<1>1. CASE UNCHANGED vars
  <2>1. UNCHANGED <<grid, queue, map, framebuffer, cursors, modes, pc, i, calls, locals>>
    BY <1>1 DEF vars
  <2>2. TypeOK' /\ LoopOK' /\ OneItemPerCell' /\ Linked'
    BY <2>1 DEF Inv, TypeOK, LoopOK, OneItemPerCell, Linked, cursors, modes, locals
  <2> QED BY <2>2 DEF Inv
<1>2. CASE Next
  BY <1>2, CallKeeps, RoundKeeps, PlainKeeps, FlushKeeps, FlushItemKeeps, FlushOverKeeps DEF Next
<1> QED BY <1>1, <1>2


-----------------------------------------------------------------------------
(* Calls.                                                                    *)

\* What push_to_queue does to the screen.
LEMMA PushShows ==
  ASSUME QueueOK, LinkedOK, grid' = grid,
         NEW g \in Glyphs, NEW x \in Int, NEW y \in Int, push_to_queue(g, x, y)
  PROVE  \A c \in Cells :
           Glyph(c)' = IF OnScreen(x, y) /\ c = At(x, y) THEN g ELSE Glyph(c)
<1> SUFFICES ASSUME NEW c \in Cells
             PROVE  Glyph(c)' = IF OnScreen(x, y) /\ c = At(x, y) THEN g ELSE Glyph(c)
  OBVIOUS
<1>1. CASE ~OnScreen(x, y) /\ UNCHANGED <<queue, map>>
  BY <1>1 DEF Glyph
<1>2. ASSUME OnScreen(x, y), map[At(x, y)] # 0,
             queue' = [queue EXCEPT ![map[At(x, y)]].c = g], UNCHANGED map
      PROVE  Glyph(c)' = IF OnScreen(x, y) /\ c = At(x, y) THEN g ELSE Glyph(c)
  <2> DEFINE a == At(x, y)
             k == map[a]
  <2>1. a \in Cells /\ k \in 1..Len(queue) /\ queue[k] \in Item
    BY <1>2, AtIsCell DEF QueueOK
  <2>2. queue' = [queue EXCEPT ![k] = [queue[k] EXCEPT !.c = g]]
    BY <1>2
  <2>3. [queue[k] EXCEPT !.c = g].c = g
    BY <2>1 DEF Item
  <2>4. map[c] # 0 => map[c] \in 1..Len(queue)
    BY DEF QueueOK
  <2>5. map[c] = k => c = a
    BY <1>2, <2>1 DEF LinkedOK
  <2> HIDE DEF a
  <2>6. queue \in Seq(Item)
    BY DEF QueueOK
  <2>7. CASE c = a
    BY <1>2, <2>1, <2>2, <2>3, <2>6, <2>7 DEF Glyph, a
  <2>8. CASE c # a
    BY <1>2, <2>1, <2>2, <2>4, <2>5, <2>6, <2>8 DEF Glyph, a
  <2> QED BY <2>7, <2>8
<1>3. CASE OnScreen(x, y) /\ map[At(x, y)] = 0 /\ grid[At(x, y)] = g /\ UNCHANGED <<queue, map>>
  BY <1>3 DEF Glyph
<1>4. ASSUME OnScreen(x, y), map[At(x, y)] = 0,
             queue' = Append(queue, [at |-> At(x, y), c |-> g]),
             map' = [map EXCEPT ![At(x, y)] = Len(queue) + 1]
      PROVE  Glyph(c)' = IF OnScreen(x, y) /\ c = At(x, y) THEN g ELSE Glyph(c)
  <2> DEFINE a == At(x, y)
             q == [at |-> a, c |-> g]
             n == Len(queue)
  <2>1. a \in Cells /\ q \in Item /\ q.c = g /\ n \in Nat /\ queue \in Seq(Item)
    BY <1>4, AtIsCell DEF Item, QueueOK
  <2>2. queue' = Append(queue, q) /\ map' = [map EXCEPT ![a] = n + 1] /\ map[a] = 0
    BY <1>4
  <2> HIDE DEF a, q, n
  <2>3. queue'[n + 1] = q /\ \A m \in 1..n : queue'[m] = queue[m]
    BY <2>1, <2>2 DEF n
  <2>4. map \in [Cells -> 0..n]
    BY DEF QueueOK, n
  <2>5. CASE c = a
    BY <1>4, <2>1, <2>2, <2>3, <2>4, <2>5 DEF Glyph, a
  <2>6. CASE c # a
    <3>1. map'[c] = map[c] /\ (map[c] # 0 => map[c] \in 1..n)
      BY <2>1, <2>2, <2>4, <2>6
    <3>2. map[c] # 0 => queue'[map[c]] = queue[map[c]]
      BY <2>3, <3>1
    <3>3. Glyph(c)' = Glyph(c)
      BY <3>1, <3>2 DEF Glyph
    <3> QED BY <2>6, <3>3 DEF a
  <2> QED BY <2>5, <2>6
<1> QED BY <1>1, <1>2, <1>3, <1>4 DEF push_to_queue

-----------------------------------------------------------------------------
(* What the screen shows while a call runs.                                  *)

\* Each loop has done its work on the cells it has passed, and the others are
\* as they were when the call began.
LoopShows ==
  /\ pc = "scroll" =>
       /\ top = scroll_top_margin
       /\ (top + 1) * Cols <= i /\ i <= scroll_bottom_margin * Cols
       /\ \A c \in Cells :
            Glyph(c) = IF top * Cols <= c /\ c < i - Cols THEN before.screen[c + Cols]
                       ELSE before.screen[c]
  /\ pc = "scroll_blank" =>
       /\ top = scroll_top_margin /\ i \in 0..Cols
       /\ \A c \in Cells :
            Glyph(c) = IF top * Cols <= c /\ c < (scroll_bottom_margin - 1) * Cols
                       THEN before.screen[c + Cols]
                       ELSE IF /\ (scroll_bottom_margin - 1) * Cols <= c
                               /\ c < (scroll_bottom_margin - 1) * Cols + i
                       THEN empty ELSE before.screen[c]
  /\ pc = "revscroll" =>
       /\ i <= (scroll_bottom_margin - 1) * Cols - 1
       /\ i >= top * Cols - 1 \/ i = (scroll_bottom_margin - 1) * Cols - 1
       /\ \A c \in Cells :
            Glyph(c) = IF i + Cols < c /\ c < scroll_bottom_margin * Cols
                       THEN before.screen[c - Cols] ELSE before.screen[c]
  /\ pc = "revscroll_blank" =>
       /\ i \in 0..Cols
       /\ \A c \in Cells :
            Glyph(c) = IF top * Cols <= c /\ c < top * Cols + i THEN empty
                       ELSE IF (top + 1) * Cols <= c /\ c < scroll_bottom_margin * Cols
                       THEN before.screen[c - Cols] ELSE before.screen[c]
  /\ pc = "clear" =>
       /\ i \in 0..(Rows * Cols)
       /\ \A c \in Cells : Glyph(c) = IF c < i THEN empty ELSE before.screen[c]
  /\ pc = "flush" => \A c \in Cells : Glyph(c) = before.screen[c]

\* Where a character that began at the cursor x, y of the call is to be put, and
\* the screen it finds there.
wraps   == Wraps(before.x, before.y, scroll_bottom_margin, scroll_enabled)
scrolls == WrapScrolls(before.x, before.y, scroll_bottom_margin, scroll_enabled)

PutShows ==
  /\ ch # None =>
       /\ cursor_x = IF wraps THEN 0 ELSE before.x
       /\ cursor_y = IF wraps THEN WrappedRow(before.y, scroll_bottom_margin) ELSE before.y
  /\ ch # None /\ pc \in {"scroll", "scroll_blank"} => scrolls
  /\ pc = "put" =>
       /\ scrolls => empty \in Blanks
       /\ \A c \in Cells :
            Glyph(c) = IF scrolls
                       THEN Scrolled(before.screen, scroll_top_margin, scroll_bottom_margin, empty)[c]
                       ELSE before.screen[c]

\* What the call remembers.
Remembered ==
  /\ pc # "idle" => before.screen \in [Cells -> Glyphs]
  /\ pc \notin {"idle", "flush"} => before.glass = framebuffer
  /\ pc # "idle" /\ ch = None => cursor_x = before.x /\ cursor_y = before.y
  /\ pc \in {"idle", "revscroll", "revscroll_blank", "clear", "flush"} => ch = None

\* The cell the cursor is shown in, and the one it was shown in last.
CursorCell(c) == cursor_enabled /\ OnScreen(cursor_x, cursor_y) /\ c = At(cursor_x, cursor_y)
OldCell(c)    == OnScreen(old_cursor_x, old_cursor_y) /\ c = At(old_cursor_x, old_cursor_y)

\* The framebuffer shows grid, and no cursor but the last one and, in a flush,
\* the new one.
Framed ==
  /\ Blanks # {}
  /\ \A c \in Cells : framebuffer[c][1] = grid[c]
  /\ pc # "flush" => \A c \in Cells : framebuffer[c][2] = TRUE => OldCell(c)
  /\ pc = "flush" =>
       \A c \in Cells :
         /\ framebuffer[c][2] = TRUE => OldCell(c) \/ CursorCell(c)
         /\ CursorCell(c) => framebuffer[c][2] = TRUE /\ map[c] = 0

Shows == LoopShows /\ PutShows /\ Remembered /\ Framed

LEMMA SameGlyphs == ASSUME UNCHANGED <<grid, queue, map>> PROVE \A c : Glyph(c)' = Glyph(c)
BY DEF Glyph

LEMMA SameFrame ==
  ASSUME Framed, UNCHANGED <<grid, framebuffer, old_cursor_x, old_cursor_y>>,
         pc # "flush", pc' # "flush"
  PROVE  Framed'
BY DEF Framed, OldCell

LEMMA ShowsInit == ASSUME Init PROVE Shows
<1>1. PICK b \in Blanks : /\ grid = [c \in Cells |-> b]
                          /\ framebuffer = [c \in Cells |-> <<b, c = 0>>]
  BY DEF Init
<1>2. \A c \in Cells : framebuffer[c][1] = grid[c]
  BY <1>1
<1>3. 0 * Cols = 0 /\ OnScreen(0, 0) /\ At(0, 0) = 0
  BY FbCellsAssumption DEF OnScreen, At
<1>4. \A c \in Cells : framebuffer[c][2] = TRUE => OldCell(c)
  <2> SUFFICES ASSUME NEW c \in Cells, framebuffer[c][2] = TRUE PROVE c = 0
    BY <1>3 DEF OldCell, Init
  <2>1. framebuffer[c][2] = (c = 0)
    BY <1>1, Zenon
  <2> QED BY <2>1
<1>5. Framed
  BY <1>1, <1>2, <1>4 DEF Framed, Init
<1> QED BY <1>5 DEF Init, Shows, LoopShows, PutShows, Remembered

LEMMA ShowsCall ==
  ASSUME Inv, Shows, Scroll \/ RawPutcharWrap \/ Revscroll \/ RawPutchar \/ Clear
  PROVE  Shows'
<1> DEFINE t == scroll_top_margin
           b == scroll_bottom_margin
<1>0. /\ TypeOK /\ QueueOK
      /\ pc = "idle" /\ UNCHANGED <<grid, queue, map, framebuffer, old_cursor_x, old_cursor_y, modes>>
      /\ pc' \in {"scroll", "revscroll", "put", "clear"}
      /\ before' = [screen |-> [c \in Cells |-> Glyph(c)], glass |-> framebuffer,
                    x |-> cursor_x, y |-> cursor_y]
  BY QueueTyped DEF Inv, Call, Scroll, RawPutcharWrap, Revscroll, RawPutchar, Clear
<1>1. \A c \in Cells : Glyph(c)' = before'.screen[c] /\ Glyph(c) \in Glyphs
  BY <1>0, SameGlyphs, GlyphType
<1>2. /\ before'.screen \in [Cells -> Glyphs] /\ before'.glass = framebuffer'
      /\ before'.x = cursor_x /\ before'.y = cursor_y
      /\ scroll_top_margin' = t /\ scroll_bottom_margin' = b /\ scroll_enabled' = scroll_enabled
  BY <1>0, <1>1 DEF modes
<1>3. Framed'
  BY <1>0, SameFrame DEF Shows
<1>4. /\ t \in Int /\ b \in Int /\ t + 1 <= b /\ b \in 1..Rows
      /\ None \notin Glyphs /\ Rows \in Nat
  BY <1>0, FbCellsAssumption, FbQueueAssumption DEF TypeOK, Margins
<1>5. /\ (t + 1) * Cols <= b * Cols /\ t * Cols = (t + 1) * Cols - Cols
      /\ (b - 1) * Cols = b * Cols - Cols
      /\ b * Cols \in Int /\ (t + 1) * Cols \in Int /\ Cols \in Nat /\ Cols > 0
      /\ Rows * Cols \in Nat
  <2>1. /\ (t + 1) * Cols = t * Cols + Cols /\ t * Cols \in Int
        /\ (b - 1) * Cols = b * Cols - Cols /\ b * Cols \in Int
        /\ Cols \in Nat /\ Cols > 0
    BY <1>4, NextRow
  <2>2. (t + 1) * Cols <= b * Cols
    BY <1>4, <2>1, Monotone
  <2>3. Rows * Cols \in Nat
    BY <1>4, <2>1
  <2> QED BY <2>1, <2>2, <2>3
<1>6. ASSUME pc' = "scroll", i' = (t + 1) * Cols, top' = t PROVE LoopShows'
  <2>1. /\ (top' + 1) * Cols = (t + 1) * Cols /\ top' * Cols = i' - Cols
        /\ i' <= b * Cols
    BY <1>5, <1>6
  <2>2. \A c \in Cells : ~(top' * Cols <= c /\ c < i' - Cols)
    <3> DEFINE n == i' - Cols
    <3>1. n \in Int /\ top' * Cols = n
      BY <1>5, <1>6, <2>1
    <3>2. \A c \in Cells : c \in Int
      BY DEF Cells
    <3> HIDE DEF n
    <3>3. \A c \in Cells : ~(n <= c /\ c < n)
      BY <3>1, <3>2
    <3> QED BY <3>1, <3>3, Zenon DEF n
  <2>3. \A c \in Cells :
          Glyph(c)' = IF top' * Cols <= c /\ c < i' - Cols THEN before'.screen[c + Cols]
                      ELSE before'.screen[c]
    BY <1>1, <2>2, Zenon
  <2>4. /\ top' = scroll_top_margin' /\ (top' + 1) * Cols <= i'
        /\ i' <= scroll_bottom_margin' * Cols
    <3>1. top' = scroll_top_margin' /\ scroll_bottom_margin' * Cols = b * Cols
      BY <1>2, <1>6
    <3>2. (t + 1) * Cols <= i'
      BY <1>5, <1>6
    <3> QED BY <2>1, <3>1, <3>2, Zenon
  <2> QED BY <1>6, <2>3, <2>4, Zenon DEF LoopShows
<1>7. ASSUME pc' = "revscroll", i' = (b - 1) * Cols - 1 PROVE LoopShows'
  BY <1>1, <1>2, <1>5, <1>7 DEF LoopShows, Cells
<1>8. ASSUME pc' = "clear", i' = 0 PROVE LoopShows'
  BY <1>1, <1>2, <1>5, <1>8 DEF LoopShows, Cells
<1>9. ASSUME pc' = "put" PROVE LoopShows'
  BY <1>9 DEF LoopShows
<1> HIDE DEF t, b
<1>10. CASE Scroll
  <2>1. LoopShows'
    BY <1>6, <1>10 DEF Scroll, Call, t
  <2>2. PutShows' /\ Remembered'
    BY <1>0, <1>2, <1>10 DEF Scroll, Call, PutShows, Remembered
  <2> QED BY <1>3, <2>1, <2>2 DEF Shows
<1>11. CASE RawPutcharWrap
  <2>0. /\ Wraps(cursor_x, cursor_y, b, scroll_enabled)
        /\ cursor_x' = 0 /\ cursor_y' = WrappedRow(cursor_y, b) /\ top' = t
        /\ empty' \in Blanks /\ ch' \in Glyphs
    BY <1>11 DEF RawPutcharWrap, t, b
  <2>1. wraps' /\ (scrolls' <=> cursor_y + 1 = b)
    BY <1>2, <2>0 DEF wraps, scrolls, WrapScrolls
  <2>2. CASE cursor_y + 1 = scroll_bottom_margin
    <3>1. pc' = "scroll" /\ i' = (t + 1) * Cols
      BY <1>11, <2>2 DEF RawPutcharWrap, Call, t
    <3>2. LoopShows'
      BY <1>6, <2>0, <3>1
    <3>3. PutShows' /\ Remembered'
      BY <1>2, <1>4, <2>0, <2>1, <2>2, <3>1 DEF PutShows, Remembered, b
    <3> QED BY <1>3, <3>2, <3>3 DEF Shows
  <2>3. CASE cursor_y + 1 # scroll_bottom_margin
    <3>1. pc' = "put"
      BY <1>11, <2>3 DEF RawPutcharWrap, Call
    <3>2. LoopShows'
      BY <1>9, <3>1
    <3>3. PutShows' /\ Remembered'
      BY <1>1, <1>2, <1>4, <2>0, <2>1, <2>3, <3>1 DEF PutShows, Remembered, b
    <3> QED BY <1>3, <3>2, <3>3 DEF Shows
  <2> QED BY <2>2, <2>3
<1>12. CASE Revscroll
  <2>1. LoopShows'
    BY <1>7, <1>12 DEF Revscroll, Call, b
  <2>2. PutShows' /\ Remembered'
    BY <1>0, <1>2, <1>12 DEF Revscroll, Call, PutShows, Remembered
  <2> QED BY <1>3, <2>1, <2>2 DEF Shows
<1>13. CASE RawPutchar
  <2>0. /\ ~Wraps(cursor_x, cursor_y, b, scroll_enabled) /\ pc' = "put"
        /\ cursor_x' = cursor_x /\ cursor_y' = cursor_y /\ ch' \in Glyphs
    BY <1>13 DEF RawPutchar, Call, b
  <2>1. ~wraps' /\ ~scrolls'
    BY <1>2, <2>0 DEF wraps, scrolls, WrapScrolls
  <2>2. LoopShows'
    BY <1>9, <2>0
  <2>3. PutShows' /\ Remembered'
    BY <1>1, <1>2, <1>4, <2>0, <2>1 DEF PutShows, Remembered
  <2> QED BY <1>3, <2>2, <2>3 DEF Shows
<1>14. CASE Clear
  <2>1. LoopShows'
    BY <1>8, <1>14 DEF Clear, Call
  <2>2. PutShows' /\ Remembered'
    BY <1>0, <1>2, <1>14 DEF Clear, Call, PutShows, Remembered
  <2> QED BY <1>3, <2>1, <2>2 DEF Shows
<1> QED BY <1>10, <1>11, <1>12, <1>13, <1>14

\* One round of a loop does its work on one more cell.
LEMMA ShowsRound ==
  ASSUME Inv, Shows, ScrollCopy \/ RevscrollCopy \/ ScrollBlank \/ RevscrollBlank \/ ClearCell
  PROVE  Shows'
<1> DEFINE t == top * Cols
           e == (scroll_bottom_margin - 1) * Cols
           old == before.screen
<1>0. /\ TypeOK /\ LoopOK /\ QueueOK /\ LinkedOK
      /\ pc \in {"scroll", "revscroll", "scroll_blank", "revscroll_blank", "clear"}
      /\ UNCHANGED <<grid, framebuffer, cursors, modes, pc, calls, locals>>
      /\ i \in Int
  BY LinksGiven DEF Inv, LoopOK, Round, ScrollCopy, RevscrollCopy, ScrollBlank, RevscrollBlank, ClearCell
<1>1. /\ UNCHANGED <<cursor_x, cursor_y, old_cursor_x, old_cursor_y, cursor_enabled, scroll_enabled>>
      /\ UNCHANGED <<scroll_top_margin, scroll_bottom_margin, top, empty, ch, before>>
  BY <1>0 DEF cursors, modes, locals
<1>2. Framed' /\ PutShows' /\ Remembered'
  <2>1. Framed'
    BY <1>0, <1>1, SameFrame DEF Shows
  <2> QED BY <1>0, <1>1, <2>1 DEF Shows, PutShows, Remembered, wraps, scrolls
<1>3. empty \in Glyphs
  BY <1>0, FbCellsAssumption DEF LoopOK
<1>4. /\ top \in 0..(Rows - 1) /\ scroll_bottom_margin \in 1..Rows /\ Rows \in Nat
      /\ top \in Int /\ scroll_bottom_margin \in Int
  BY <1>0, FbCellsAssumption DEF TypeOK, Margins
<1>5. /\ t \in Nat /\ t + Cols <= Cols * Rows /\ (top + 1) * Cols = t + Cols
      /\ e \in Nat /\ e + Cols <= Cols * Rows /\ scroll_bottom_margin * Cols = e + Cols
      /\ Cols \in Nat /\ Cols > 0 /\ Rows * Cols = Cols * Rows /\ Cols * Rows \in Nat
  <2> HIDE DEF t, e
  <2>1. /\ (top + 1) * Cols = t + Cols /\ t \in Int /\ Cols \in Nat /\ Cols > 0
        /\ scroll_bottom_margin * Cols = e + Cols /\ e \in Int
    <3>1. /\ (top + 1) * Cols = top * Cols + Cols /\ top * Cols \in Int /\ Cols \in Nat /\ Cols > 0
          /\ (scroll_bottom_margin - 1) * Cols = scroll_bottom_margin * Cols - Cols
          /\ scroll_bottom_margin * Cols \in Int
      BY <1>4, NextRow
    <3> QED BY <3>1 DEF t, e
  <2>2. /\ t \in Nat /\ (top + 1) * Cols <= Cols * Rows /\ Cols * Rows \in Nat
        /\ scroll_bottom_margin * Cols <= Cols * Rows /\ e \in Nat
    <3>1. top \in 0..Rows /\ top + 1 \in 0..Rows /\ scroll_bottom_margin \in 0..Rows
          /\ scroll_bottom_margin - 1 \in 0..Rows
      BY <1>4
    <3> QED BY <3>1, RowBound DEF t, e
  <2>3. Rows * Cols = Cols * Rows
    BY <1>4, <2>1
  <2> QED BY <2>1, <2>2, <2>3
<1>6. \A c \in Cells : c \in Int
  BY DEF Cells
<1> HIDE DEF t, e
<1>7. CASE ScrollCopy
  <2>1. /\ pc = "scroll" /\ i' = i + 1 /\ top = scroll_top_margin
        /\ t + Cols <= i /\ i < e + Cols
        /\ \A c \in Cells : Glyph(c) = IF t <= c /\ c < i - Cols THEN old[c + Cols] ELSE old[c]
    BY <1>5, <1>7 DEF ScrollCopy, Round, Shows, LoopShows, t
  <2>2. i \in Cells /\ i - Cols \in Cells
    BY <1>0, <1>5, <2>1 DEF Cells
  <2>3. /\ (i - Cols) % Cols \in Int /\ (i - Cols) \div Cols \in Int
        /\ OnScreen((i - Cols) % Cols, (i - Cols) \div Cols)
        /\ At((i - Cols) % Cols, (i - Cols) \div Cols) = i - Cols
    BY <2>2, CellSplit
  <2>4. \A c \in Cells : Glyph(c)' = IF c = i - Cols THEN Glyph(i) ELSE Glyph(c)
    BY <1>0, <1>7, <2>2, <2>3, PushShows, GlyphType DEF ScrollCopy
  <2>5. Glyph(i) = old[(i - Cols) + Cols]
    BY <1>0, <1>5, <2>1, <2>2
  <2>6. \A c \in Cells : Glyph(c)' = IF t <= c /\ c < i' - Cols THEN old[c + Cols] ELSE old[c]
    BY <1>0, <1>5, <1>6, <2>1, <2>4, <2>5
  <2>7. t' = t /\ (top' + 1) * Cols = t + Cols /\ scroll_bottom_margin' * Cols = e + Cols /\ before' = before
    BY <1>1, <1>5 DEF t
  <2>8. LoopShows'
    BY <1>0, <1>1, <1>5, <2>1, <2>6, <2>7 DEF LoopShows, t
  <2> QED BY <1>2, <2>8 DEF Shows
<1>8. CASE RevscrollCopy
  <2>1. /\ pc = "revscroll" /\ i' = i - 1 /\ i >= t
        /\ i <= e - 1
        /\ \A c \in Cells : Glyph(c) = IF i + Cols < c /\ c < e + Cols THEN old[c - Cols] ELSE old[c]
    BY <1>5, <1>8 DEF RevscrollCopy, Round, Shows, LoopShows, t, e
  <2>2. i \in Cells /\ i + Cols \in Cells
    BY <1>0, <1>5, <2>1 DEF Cells
  <2>3. /\ (i + Cols) % Cols \in Int /\ (i + Cols) \div Cols \in Int
        /\ OnScreen((i + Cols) % Cols, (i + Cols) \div Cols)
        /\ At((i + Cols) % Cols, (i + Cols) \div Cols) = i + Cols
    BY <2>2, CellSplit
  <2>4. \A c \in Cells : Glyph(c)' = IF c = i + Cols THEN Glyph(i) ELSE Glyph(c)
    BY <1>0, <1>8, <2>2, <2>3, PushShows, GlyphType DEF RevscrollCopy, Copied
  <2>5. Glyph(i) = old[(i + Cols) - Cols]
    BY <1>0, <1>5, <2>1, <2>2
  <2>6. \A c \in Cells : Glyph(c)' = IF i' + Cols < c /\ c < e + Cols THEN old[c - Cols] ELSE old[c]
    BY <1>0, <1>5, <1>6, <2>1, <2>4, <2>5
  <2>7. t' = t /\ e' = e /\ scroll_bottom_margin' * Cols = e + Cols /\ before' = before
    BY <1>1, <1>5 DEF t, e
  <2>8. i' <= e - 1 /\ i' >= t - 1
    BY <1>0, <1>5, <2>1
  <2>9. LoopShows'
    BY <1>0, <2>1, <2>6, <2>7, <2>8 DEF LoopShows, t, e
  <2> QED BY <1>2, <2>9 DEF Shows
<1>9. CASE ScrollBlank
  <2>1. /\ pc = "scroll_blank" /\ i' = i + 1 /\ top = scroll_top_margin
        /\ i \in 0..(Cols - 1)
        /\ \A c \in Cells :
             Glyph(c) = IF t <= c /\ c < e THEN old[c + Cols]
                        ELSE IF e <= c /\ c < e + i THEN empty ELSE old[c]
    BY <1>0, <1>5, <1>9 DEF ScrollBlank, Round, Shows, LoopShows, t, e
  <2>2. OnScreen(i, scroll_bottom_margin - 1) /\ At(i, scroll_bottom_margin - 1) = e + i
    BY <1>4, <2>1 DEF OnScreen, At, e
  <2>3. \A c \in Cells : Glyph(c)' = IF c = e + i THEN empty ELSE Glyph(c)
    BY <1>0, <1>3, <1>4, <1>9, <2>1, <2>2, PushShows DEF ScrollBlank
  <2>4. \A c \in Cells :
          Glyph(c)' = IF t <= c /\ c < e THEN old[c + Cols]
                      ELSE IF e <= c /\ c < e + i' THEN empty ELSE old[c]
    BY <1>5, <1>6, <2>1, <2>3
  <2>5. t' = t /\ e' = e /\ before' = before /\ empty' = empty
    BY <1>1 DEF t, e
  <2>6. LoopShows'
    BY <1>0, <1>1, <1>5, <2>1, <2>4, <2>5 DEF LoopShows, t, e
  <2> QED BY <1>2, <2>6 DEF Shows
<1>10. CASE RevscrollBlank
  <2>1. /\ pc = "revscroll_blank" /\ i' = i + 1
        /\ i \in 0..(Cols - 1)
        /\ \A c \in Cells :
             Glyph(c) = IF t <= c /\ c < t + i THEN empty
                        ELSE IF t + Cols <= c /\ c < e + Cols THEN old[c - Cols] ELSE old[c]
    BY <1>0, <1>5, <1>10 DEF RevscrollBlank, Round, Shows, LoopShows, t
  <2>2. OnScreen(i, top) /\ At(i, top) = t + i
    BY <1>4, <2>1 DEF OnScreen, At, t
  <2>3. \A c \in Cells : Glyph(c)' = IF c = t + i THEN empty ELSE Glyph(c)
    BY <1>0, <1>3, <1>4, <1>10, <2>1, <2>2, PushShows DEF RevscrollBlank
  <2>4. \A c \in Cells :
          Glyph(c)' = IF t <= c /\ c < t + i' THEN empty
                      ELSE IF t + Cols <= c /\ c < e + Cols THEN old[c - Cols] ELSE old[c]
    BY <1>5, <1>6, <2>1, <2>3
  <2>5. /\ t' = t /\ (top' + 1) * Cols = t + Cols /\ scroll_bottom_margin' * Cols = e + Cols
        /\ before' = before /\ empty' = empty
    BY <1>1, <1>5 DEF t
  <2>6. LoopShows'
    BY <1>0, <1>1, <1>5, <2>1, <2>4, <2>5 DEF LoopShows, t
  <2> QED BY <1>2, <2>6 DEF Shows
<1>11. CASE ClearCell
  <2>1. /\ pc = "clear" /\ i' = i + 1
        /\ i \in 0..(Rows * Cols) /\ i < Rows * Cols
        /\ \A c \in Cells : Glyph(c) = IF c < i THEN empty ELSE old[c]
    BY <1>11 DEF ClearCell, Round, Shows, LoopShows
  <2>2. i \in Cells
    BY <1>5, <2>1 DEF Cells
  <2>3. /\ i % Cols \in Int /\ i \div Cols \in Int
        /\ OnScreen(i % Cols, i \div Cols) /\ At(i % Cols, i \div Cols) = i
    BY <2>2, CellSplit
  <2>4. \A c \in Cells : Glyph(c)' = IF c = i THEN empty ELSE Glyph(c)
    BY <1>0, <1>3, <1>11, <2>3, PushShows DEF ClearCell
  <2>5. \A c \in Cells : Glyph(c)' = IF c < i' THEN empty ELSE old[c]
    BY <1>0, <1>6, <2>1, <2>4
  <2>6. LoopShows'
    BY <1>0, <1>1, <1>5, <2>1, <2>5 DEF LoopShows
  <2> QED BY <1>2, <2>6 DEF Shows
<1> QED BY <1>7, <1>8, <1>9, <1>10, <1>11

\* Between the loops, and calls of one step.
LEMMA ShowsPlain ==
  ASSUME Inv, Shows, CopyOver \/ ScrollOver \/ RawPutcharPut \/ ClearOver \/ SetCursorPos
                     \/ MoveCharacter \/ Configure
  PROVE  Shows'
<1> DEFINE t == top * Cols
           e == (scroll_bottom_margin - 1) * Cols
           old == before.screen
<1>0. TypeOK /\ LoopOK /\ QueueOK
  BY QueueTyped DEF Inv
<1>1. Framed'
  <2>1. UNCHANGED <<grid, framebuffer, old_cursor_x, old_cursor_y>> /\ pc # "flush" /\ pc' # "flush"
    BY DEF CopyOver, ScrollOver, RawPutcharPut, ClearOver, SetCursorPos, MoveCharacter, Configure,
           Over, Return, cursors
  <2> QED BY <2>1, SameFrame DEF Shows
<1>2. ASSUME pc' = "idle", ch' = None PROVE Shows'
  BY <1>1, <1>2 DEF Shows, LoopShows, PutShows, Remembered
<1>3. /\ t \in Int /\ e \in Int /\ (top + 1) * Cols = t + Cols
      /\ scroll_bottom_margin * Cols = e + Cols /\ Cols \in Nat /\ Cols > 0
  <2>1. top \in Int /\ scroll_bottom_margin \in Int
    BY <1>0, FbCellsAssumption DEF TypeOK, Margins
  <2>2. /\ (top + 1) * Cols = top * Cols + Cols /\ top * Cols \in Int /\ Cols \in Nat /\ Cols > 0
        /\ (scroll_bottom_margin - 1) * Cols = scroll_bottom_margin * Cols - Cols
        /\ scroll_bottom_margin * Cols \in Int
    BY <2>1, NextRow
  <2> HIDE DEF t, e
  <2> QED BY <2>2 DEF t, e
<1>4. \A c \in Cells : c \in Int
  BY DEF Cells
<1> HIDE DEF t, e
<1>5. ASSUME UNCHANGED <<grid, queue, map, framebuffer, cursors, modes, calls, locals>>
      PROVE  /\ \A c \in Cells : Glyph(c)' = Glyph(c)
             /\ t' = t /\ e' = e /\ before' = before /\ empty' = empty /\ top' = top /\ ch' = ch
             /\ scroll_bottom_margin' = scroll_bottom_margin
             /\ scroll_top_margin' = scroll_top_margin
             /\ (top' + 1) * Cols = t + Cols /\ scroll_bottom_margin' * Cols = e + Cols
             /\ UNCHANGED <<cursor_x, cursor_y, scroll_enabled, framebuffer>>
  <2>1. /\ before' = before /\ empty' = empty /\ top' = top /\ ch' = ch
        /\ scroll_bottom_margin' = scroll_bottom_margin /\ scroll_top_margin' = scroll_top_margin
        /\ UNCHANGED <<cursor_x, cursor_y, scroll_enabled, framebuffer>>
    BY <1>5 DEF cursors, modes, locals
  <2>2. t' = t /\ e' = e
    BY <2>1 DEF t, e
  <2> QED BY <1>3, <1>5, <2>1, <2>2, SameGlyphs
<1>6. CASE pc = "scroll" /\ ~(i < scroll_bottom_margin * Cols) /\ Over("scroll_blank")
  <2>1. /\ pc' = "scroll_blank" /\ i' = 0 /\ top = scroll_top_margin /\ i = e + Cols
        /\ \A c \in Cells : Glyph(c) = IF t <= c /\ c < i - Cols THEN old[c + Cols] ELSE old[c]
        /\ UNCHANGED <<grid, queue, map, framebuffer, cursors, modes, calls, locals>>
    BY <1>0, <1>3, <1>6 DEF Over, Shows, LoopShows, LoopOK, t
  <2>2. \A c \in Cells :
          Glyph(c)' = IF t <= c /\ c < e THEN old[c + Cols]
                      ELSE IF e <= c /\ c < e + i' THEN empty ELSE old[c]
    BY <1>3, <1>4, <1>5, <2>1
  <2>3. LoopShows'
    BY <1>3, <1>5, <2>1, <2>2 DEF LoopShows, t, e
  <2>4. PutShows' /\ Remembered'
    BY <1>5, <1>6, <2>1 DEF Shows, PutShows, Remembered, wraps, scrolls
  <2> QED BY <1>1, <2>3, <2>4 DEF Shows
<1>7. CASE pc = "revscroll" /\ ~(i >= top * Cols) /\ Over("revscroll_blank")
  <2>1. /\ pc' = "revscroll_blank" /\ i' = 0 /\ i < t
        /\ i >= t - 1 \/ i = e - 1
        /\ \A c \in Cells : Glyph(c) = IF i + Cols < c /\ c < e + Cols THEN old[c - Cols] ELSE old[c]
        /\ UNCHANGED <<grid, queue, map, framebuffer, cursors, modes, calls, locals>>
        /\ i \in Int
    BY <1>0, <1>3, <1>7 DEF Over, Shows, LoopShows, LoopOK, t, e
  <2>2. \A c \in Cells :
          Glyph(c)' = IF t <= c /\ c < t + i' THEN empty
                      ELSE IF t + Cols <= c /\ c < e + Cols THEN old[c - Cols] ELSE old[c]
    BY <1>3, <1>4, <1>5, <2>1
  <2>3. LoopShows'
    BY <1>3, <1>5, <2>1, <2>2 DEF LoopShows, t, e
  <2>4. PutShows' /\ Remembered'
    BY <1>5, <1>7, <2>1 DEF Shows, PutShows, Remembered, wraps, scrolls
  <2> QED BY <1>1, <2>3, <2>4 DEF Shows
<1>8. CASE pc \in {"scroll_blank", "revscroll_blank"} /\ i = Cols /\ ch # None /\ Over("put")
  <2>1. /\ pc = "scroll_blank" /\ pc' = "put" /\ scrolls /\ empty \in Blanks
        /\ top = scroll_top_margin
        /\ \A c \in Cells :
             Glyph(c) = IF t <= c /\ c < e THEN old[c + Cols]
                        ELSE IF e <= c /\ c < e + Cols THEN empty ELSE old[c]
        /\ UNCHANGED <<grid, queue, map, framebuffer, cursors, modes, calls, locals>>
    BY <1>0, <1>8 DEF Over, Shows, LoopShows, PutShows, Remembered, LoopOK, t, e
  <2>2. ASSUME NEW c \in Cells
        PROVE  Glyph(c)' = Scrolled(old, scroll_top_margin, scroll_bottom_margin, empty)[c]
    <3>1. top \in Int /\ scroll_bottom_margin \in Int
      BY <1>0, FbCellsAssumption DEF TypeOK, Margins
    <3>2. Scrolled(old, top, scroll_bottom_margin, empty)[c] =
            IF t <= c /\ c < e THEN old[c + Cols]
            ELSE IF e <= c /\ c < e + Cols THEN empty ELSE old[c]
      BY <1>3, <3>1, ScrolledCell DEF t, e
    <3> QED BY <1>5, <2>1, <3>2
  <2>3. scrolls'
    BY <1>5, <2>1 DEF scrolls
  <2>4. LoopShows'
    BY <2>1 DEF LoopShows
  <2>5. PutShows' /\ Remembered'
    BY <1>5, <1>8, <2>1, <2>2, <2>3 DEF Shows, PutShows, Remembered, wraps
  <2> QED BY <1>1, <2>4, <2>5 DEF Shows
<1>9. CASE SetCursorPos \/ MoveCharacter \/ Configure
  <2>1. pc' = "idle" /\ ch' = None
    BY <1>9 DEF SetCursorPos, MoveCharacter, Configure, locals, Shows, Remembered
  <2> QED BY <1>2, <2>1
<1>10. CASE Return
  BY <1>2, <1>10 DEF Return
<1> QED
  BY <1>6, <1>7, <1>8, <1>9, <1>10 DEF CopyOver, ScrollOver, RawPutcharPut, ClearOver

-----------------------------------------------------------------------------
(* What the flush shows.                                                     *)

LEMMA AtDistinct ==
  ASSUME NEW x \in Int, NEW y \in Int, NEW u \in Int, NEW v \in Int,
         OnScreen(x, y), OnScreen(u, v), At(x, y) = At(u, v)
  PROVE  x = u /\ y = v
<1>1. /\ x \in 0..(Cols - 1) /\ u \in 0..(Cols - 1) /\ Cols \in Nat
      /\ y * Cols + x = v * Cols + u
  BY FbCellsAssumption DEF OnScreen, At
<1>2. /\ (y + 1) * Cols = y * Cols + Cols /\ (v + 1) * Cols = v * Cols + Cols
      /\ y * Cols \in Int /\ v * Cols \in Int
  BY NextRow
<1>3. ~(y < v)
  <2>1. y < v => (y + 1) * Cols <= v * Cols
    BY <1>1, Monotone
  <2> QED BY <1>1, <1>2, <2>1
<1>4. ~(v < y)
  <2>1. v < y => (v + 1) * Cols <= y * Cols
    BY <1>1, Monotone
  <2> QED BY <1>1, <1>2, <2>1
<1> QED BY <1>1, <1>3, <1>4

LEMMA PairSecond == ASSUME NEW g, NEW b PROVE <<g, b>>[2] = b
OBVIOUS

LEMMA CursorsOnGrid ==
  ASSUME TypeOK
  PROVE  /\ cursor_x \in Int /\ cursor_y \in Int
         /\ old_cursor_x \in Int /\ old_cursor_y \in Int
BY MarginTypes DEF TypeOK

LEMMA ShowsFlush == ASSUME Inv, Shows, Flush PROVE Shows'
<1> DEFINE a == At(cursor_x, cursor_y)
<1>0. /\ TypeOK /\ QueueOK /\ Framed
      /\ UNCHANGED <<queue, cursors, modes, top, empty, ch, calls>>
      /\ pc = "idle" /\ pc' = "flush" /\ ch = None /\ ch' = None
      /\ before' = [screen |-> [c \in Cells |-> Glyph(c)], glass |-> framebuffer,
                    x |-> cursor_x, y |-> cursor_y]
      /\ cursor_x \in Int /\ cursor_y \in Int
  BY QueueTyped, CursorsOnGrid DEF Inv, Flush, Shows, Remembered
<1>1. UNCHANGED <<cursor_x, cursor_y, old_cursor_x, old_cursor_y, cursor_enabled>>
  BY <1>0 DEF cursors, modes
<1>2. \A c \in Cells : (OldCell(c)' <=> OldCell(c)) /\ (CursorCell(c)' <=> CursorCell(c))
  BY <1>1 DEF OldCell, CursorCell
<1>3. /\ \A c \in Cells : Glyph(c)' = Glyph(c)
      /\ \A c \in Cells : framebuffer'[c][1] = grid'[c]
      /\ \A c \in Cells : framebuffer'[c][2] = TRUE => OldCell(c) \/ CursorCell(c)
      /\ \A c \in Cells : CursorCell(c) => framebuffer'[c][2] = TRUE /\ map'[c] = 0
  <2>1. CASE cursor_enabled /\ OnScreen(cursor_x, cursor_y)
    <3>1. draw_cursor(a) /\ a \in Cells /\ \A c : CursorCell(c) <=> c = a
      BY <1>0, <2>1, AtIsCell DEF Flush, CursorCell
    <3> HIDE DEF a
    <3>2. /\ map \in [Cells -> Nat] /\ grid \in [Cells -> Glyphs] /\ framebuffer \in [Cells -> Shown]
      BY <1>0 DEF QueueOK, TypeOK
    <3>3. /\ \A c \in Cells : grid'[c] = IF c = a THEN Glyph(a) ELSE grid[c]
          /\ \A c \in Cells : map'[c] = IF c = a THEN 0 ELSE map[c]
          /\ \A c \in Cells : framebuffer'[c] = IF c = a THEN <<Glyph(a), TRUE>> ELSE framebuffer[c]
      BY <3>1, <3>2 DEF draw_cursor
    <3>4. \A c \in Cells : Glyph(c)' = Glyph(c)
      BY <1>0, <3>3 DEF Glyph
    <3>5. \A c \in Cells : framebuffer'[c][1] = grid'[c]
      BY <1>0, <3>3 DEF Framed
    <3>6. \A c \in Cells : c # a => framebuffer'[c][2] = framebuffer[c][2]
      BY <3>3
    <3>7. \A c \in Cells : framebuffer'[c][2] = TRUE => OldCell(c) \/ CursorCell(c)
      BY <1>0, <3>1, <3>6 DEF Framed
    <3>8. framebuffer'[a][2] = TRUE
      <4>1. framebuffer'[a] = <<Glyph(a), TRUE>>
        BY <3>1, <3>3
      <4> QED BY <4>1, PairSecond, Zenon
    <3>9. map'[a] = 0
      BY <3>1, <3>3
    <3> QED BY <3>1, <3>4, <3>5, <3>7, <3>8, <3>9, Zenon
  <2>2. CASE ~(cursor_enabled /\ OnScreen(cursor_x, cursor_y))
    <3>1. UNCHANGED <<framebuffer, grid, map>> /\ \A c : ~CursorCell(c)
      BY <2>2 DEF Flush, CursorCell
    <3> QED BY <1>0, <3>1, SameGlyphs DEF Framed
  <2> QED BY <2>1, <2>2
<1>4. Framed'
  BY <1>0, <1>2, <1>3 DEF Framed
<1>5. before'.screen \in [Cells -> Glyphs] /\ \A c \in Cells : Glyph(c)' = before'.screen[c]
  BY <1>0, <1>3, GlyphType
<1>6. LoopShows' /\ PutShows' /\ Remembered'
  BY <1>0, <1>1, <1>5 DEF LoopShows, PutShows, Remembered
<1> QED BY <1>4, <1>6 DEF Shows

LEMMA ShowsFlushItem == ASSUME Inv, Shows, FlushItem PROVE Shows'
<1> DEFINE q == queue[i]
           a == q.at
<1>0. /\ TypeOK /\ QueueOK /\ OneItemPerCell /\ Framed
      /\ UNCHANGED <<queue, cursors, modes, pc, calls, locals>>
      /\ pc = "flush" /\ i \in 1..Len(queue)
  BY QueueTyped DEF Inv, FlushItem, LoopOK, QueueOK, Shows
<1>1. /\ UNCHANGED <<cursor_x, cursor_y, old_cursor_x, old_cursor_y, cursor_enabled>>
      /\ UNCHANGED <<ch, before>>
  BY <1>0 DEF cursors, modes, locals
<1>2. \A c \in Cells : (OldCell(c)' <=> OldCell(c)) /\ (CursorCell(c)' <=> CursorCell(c))
  BY <1>1 DEF OldCell, CursorCell
<1>3. a \in Cells
  <2>1. q \in Item
    BY <1>0 DEF QueueOK
  <2> QED BY <2>1 DEF Item
<1>4. map[a] # 0 => q.c = Glyph(a)
  <2>1. ASSUME map[a] # 0 PROVE map[a] = i
    <3>1. map[a] \in DOMAIN queue /\ i \in DOMAIN queue /\ queue[map[a]].at = queue[i].at
      BY <1>0, <1>3, <2>1 DEF QueueOK, OneItemPerCell
    <3> QED BY <1>0, <3>1 DEF OneItemPerCell
  <2> QED BY <2>1 DEF Glyph
<1>5. \/ map[a] = 0 /\ UNCHANGED <<framebuffer, grid, map>>
      \/ map[a] # 0 /\ draw_item(q)
  BY DEF FlushItem
<1>6. /\ \A c \in Cells : Glyph(c)' = Glyph(c)
      /\ \A c \in Cells : framebuffer'[c][1] = grid'[c]
      /\ \A c \in Cells : framebuffer'[c][2] = TRUE => OldCell(c) \/ CursorCell(c)
      /\ \A c \in Cells : CursorCell(c) => framebuffer'[c][2] = TRUE /\ map'[c] = 0
  <2>1. CASE UNCHANGED <<framebuffer, grid, map>>
    BY <1>0, <2>1, SameGlyphs DEF Framed
  <2>2. CASE map[a] # 0 /\ draw_item(q)
    <3>1. /\ framebuffer' = [framebuffer EXCEPT ![a] = <<Glyph(a), FALSE>>]
          /\ grid' = [grid EXCEPT ![a] = Glyph(a)]
          /\ map' = [map EXCEPT ![a] = 0]
      BY <1>4, <2>2 DEF draw_item
    <3>2. ~CursorCell(a)
      BY <1>0, <1>3, <2>2 DEF Framed
    <3> HIDE DEF a, q
    <3>3. /\ map \in [Cells -> Nat] /\ grid \in [Cells -> Glyphs] /\ framebuffer \in [Cells -> Shown]
      BY <1>0 DEF QueueOK, TypeOK
    <3>4. /\ \A c \in Cells : grid'[c] = IF c = a THEN Glyph(a) ELSE grid[c]
          /\ \A c \in Cells : map'[c] = IF c = a THEN 0 ELSE map[c]
          /\ \A c \in Cells : framebuffer'[c] = IF c = a THEN <<Glyph(a), FALSE>> ELSE framebuffer[c]
      BY <1>3, <3>1, <3>3
    <3>5. \A c \in Cells : Glyph(c)' = Glyph(c)
      BY <1>0, <3>4 DEF Glyph
    <3>6. \A c \in Cells : framebuffer'[c][1] = grid'[c]
      BY <1>0, <3>4 DEF Framed
    <3>7. /\ \A c \in Cells : c # a => framebuffer'[c][2] = framebuffer[c][2]
          /\ framebuffer'[a][2] = FALSE
      <4>1. framebuffer'[a] = <<Glyph(a), FALSE>>
        BY <1>3, <3>4
      <4>2. framebuffer'[a][2] = FALSE
        BY <4>1, PairSecond, Zenon
      <4>3. \A c \in Cells : c # a => framebuffer'[c] = framebuffer[c]
        BY <3>4
      <4> QED BY <4>2, <4>3, Zenon
    <3>8. \A c \in Cells : framebuffer'[c][2] = TRUE => OldCell(c) \/ CursorCell(c)
      BY <1>0, <3>7 DEF Framed
    <3>9. \A c \in Cells : CursorCell(c) => framebuffer'[c][2] = TRUE /\ map'[c] = 0
      BY <1>0, <3>2, <3>4, <3>7 DEF Framed
    <3> QED BY <3>5, <3>6, <3>8, <3>9
  <2> QED BY <1>5, <2>1, <2>2
<1>7. Framed'
  BY <1>0, <1>2, <1>6 DEF Framed
<1>8. LoopShows' /\ PutShows' /\ Remembered'
  BY <1>0, <1>1, <1>6 DEF Shows, LoopShows, PutShows, Remembered
<1> QED BY <1>7, <1>8 DEF Shows

\* The flush has drawn every cell, and swapped the colours of the cursor's.
LEMMA FlushDraws ==
  ASSUME Inv, Shows, FlushOver
  PROVE  /\ framebuffer' \in [Cells -> Shown]
         /\ \A c \in Cells : /\ Glyph(c)' = before.screen[c] /\ Glyph(c)' = grid[c]
                             /\ framebuffer'[c][1] = grid[c]
                             /\ framebuffer'[c][2] = TRUE <=> CursorCell(c)
<1> DEFINE a == At(old_cursor_x, old_cursor_y)
<1>0. /\ TypeOK /\ LoopOK /\ QueueOK /\ OneItemPerCell /\ Framed
      /\ UNCHANGED <<grid, map, cursor_x, cursor_y, modes>>
      /\ pc = "flush" /\ i > Len(queue)
      /\ cursor_x \in Int /\ cursor_y \in Int /\ old_cursor_x \in Int /\ old_cursor_y \in Int
  BY QueueTyped, CursorsOnGrid DEF Inv, FlushOver, Shows
<1>1. \A c \in Cells : map[c] = 0
  BY <1>0 DEF OneItemPerCell, QueueOK, LoopOK
<1>2. \A c \in Cells : Glyph(c)' = grid[c] /\ Glyph(c)' = before.screen[c]
  BY <1>0, <1>1 DEF Glyph, Shows, LoopShows
<1>3. framebuffer \in [Cells -> Shown] /\ grid \in [Cells -> Glyphs]
  BY <1>0 DEF TypeOK
<1>4. CASE CursorLeft
  <2>1. a \in Cells /\ OnScreen(old_cursor_x, old_cursor_y) /\ \A c : OldCell(c) <=> c = a
    BY <1>0, <1>4, AtIsCell DEF CursorLeft, OldCell
  <2>2. framebuffer' = [framebuffer EXCEPT ![a] = <<grid[a], FALSE>>]
    BY <1>4 DEF FlushOver
  <2>3. ~CursorCell(a)
    BY <1>0, <1>4, <2>1, AtDistinct DEF CursorLeft, CursorCell
  <2> HIDE DEF a
  <2>4. \A c \in Cells : framebuffer'[c] = IF c = a THEN <<grid[a], FALSE>> ELSE framebuffer[c]
    BY <1>3, <2>1, <2>2
  <2>5. framebuffer' \in [Cells -> Shown]
    BY <1>3, <2>1, <2>2 DEF Shown
  <2>6. \A c \in Cells : framebuffer'[c][1] = grid[c]
    BY <1>0, <2>4 DEF Framed
  <2>7. /\ \A c \in Cells : c # a => framebuffer'[c][2] = framebuffer[c][2]
        /\ framebuffer'[a][2] = FALSE
    <3>1. framebuffer'[a] = <<grid[a], FALSE>>
      BY <2>1, <2>4
    <3>2. framebuffer'[a][2] = FALSE
      BY <3>1, PairSecond, Zenon
    <3>3. \A c \in Cells : c # a => framebuffer'[c] = framebuffer[c]
      BY <2>4
    <3> QED BY <3>2, <3>3, Zenon
  <2>8. \A c \in Cells : framebuffer'[c][2] = TRUE <=> CursorCell(c)
    BY <1>0, <2>1, <2>3, <2>7 DEF Framed
  <2> QED BY <1>2, <2>5, <2>6, <2>8
<1>5. CASE ~CursorLeft
  <2>1. framebuffer' = framebuffer
    BY <1>5 DEF FlushOver
  <2>2. \A c : OldCell(c) => CursorCell(c)
    BY <1>0, <1>5 DEF CursorLeft, OldCell, CursorCell, TypeOK
  <2> QED BY <1>0, <1>2, <1>3, <2>1, <2>2 DEF Framed
<1> QED BY <1>4, <1>5

LEMMA ShowsFlushOver == ASSUME Inv, Shows, FlushOver PROVE Shows'
<1>1. /\ pc' = "idle" /\ ch' = None /\ old_cursor_x' = cursor_x /\ old_cursor_y' = cursor_y
      /\ grid' = grid /\ Blanks # {}
  BY DEF FlushOver, Return, Shows, Framed
<1>2. \A c \in Cells : CursorCell(c) => OldCell(c)'
  BY <1>1 DEF CursorCell, OldCell
<1>3. Framed'
  BY <1>1, <1>2, FlushDraws DEF Framed
<1> QED BY <1>1, <1>3 DEF Shows, LoopShows, PutShows, Remembered

LEMMA ShowsNext == ASSUME Inv, Shows, [Next]_vars PROVE Shows'
<1>1. CASE UNCHANGED vars
  <2>1. UNCHANGED <<grid, queue, map, framebuffer, cursor_x, cursor_y, old_cursor_x, old_cursor_y>>
        /\ UNCHANGED <<cursor_enabled, scroll_enabled, scroll_top_margin, scroll_bottom_margin>>
        /\ UNCHANGED <<pc, i, top, empty, ch, before>>
    BY <1>1 DEF vars, cursors, modes, locals
  <2>2. \A c \in Cells : /\ Glyph(c)' = Glyph(c)
                         /\ OldCell(c)' <=> OldCell(c)
                         /\ CursorCell(c)' <=> CursorCell(c)
    BY <2>1 DEF Glyph, OldCell, CursorCell
  <2>3. LoopShows' /\ Framed'
    BY <2>1, <2>2 DEF Shows, LoopShows, Framed
  <2>4. PutShows' /\ Remembered'
    BY <2>1, <2>2 DEF Shows, PutShows, Remembered, wraps, scrolls
  <2> QED BY <2>3, <2>4 DEF Shows
<1>2. CASE Next
  BY <1>2, ShowsCall, ShowsRound, ShowsPlain, ShowsFlush, ShowsFlushItem, ShowsFlushOver DEF Next
<1> QED BY <1>1, <1>2


-----------------------------------------------------------------------------
(* Steps of the promise.                                                     *)

\* FbScreen has the cells of FbQueue.
LEMMA SameCells ==
  /\ Promise!Cells = Cells /\ Promise!Margins = Margins
  /\ \A x, y : Promise!OnScreen(x, y) <=> OnScreen(x, y)
  /\ \A x, y : Promise!At(x, y) = At(x, y)
  /\ \A s, t, b, g : Promise!Scrolled(s, t, b, g) = Scrolled(s, t, b, g)
  /\ \A s, t, b, g : Promise!RevScrolled(s, t, b, g) = RevScrolled(s, t, b, g)
  /\ \A s, g, x, y : Promise!Put(s, g, x, y) = Put(s, g, x, y)
  /\ \A x, y, b, e : Promise!Wraps(x, y, b, e) <=> Wraps(x, y, b, e)
  /\ \A x, y, b, e : Promise!WrapScrolls(x, y, b, e) <=> WrapScrolls(x, y, b, e)
  /\ \A y, b : Promise!WrappedRow(y, b) = WrappedRow(y, b)
BY DEF Cells, Promise!Cells, Margins, Promise!Margins, OnScreen, Promise!OnScreen, At, Promise!At,
       Row, Promise!Row, Scrolled, Promise!Scrolled, RevScrolled, Promise!RevScrolled,
       Put, Promise!Put, Wraps, Promise!Wraps, WrapScrolls, Promise!WrapScrolls,
       WrappedRow, Promise!WrappedRow

\* What a call begins with is what the screen was, and its rounds are not seen.
LEMMA CallHidden ==
  ASSUME pc = "idle", pc' # "idle", UNCHANGED modes,
         before' = [screen |-> [c \in Cells |-> Glyph(c)], glass |-> framebuffer,
                    x |-> cursor_x, y |-> cursor_y]
  PROVE  UNCHANGED Promise!screenVars
BY DEF Promise!screenVars, Promise!modes, modes

LEMMA RoundHidden ==
  ASSUME pc # "idle", pc' # "idle", UNCHANGED <<modes, before>>
  PROVE  UNCHANGED Promise!screenVars
BY DEF Promise!screenVars, Promise!modes, modes

LEMMA StartsAsPromised == ASSUME Init PROVE Promise!Init
<1>1. PICK b \in Blanks : /\ grid = [c \in Cells |-> b]
                          /\ framebuffer = [c \in Cells |-> <<b, c = 0>>]
  BY DEF Init
<1>2. \A c \in Cells : Glyph(c) = b
  BY <1>1 DEF Glyph, Init
<1>3. [c \in Cells |-> Glyph(c)] = [c \in Promise!Cells |-> b]
  BY <1>2, SameCells
<1>4. OnScreen(0, 0) /\ At(0, 0) = 0
  BY FbCellsAssumption DEF OnScreen, At
<1>5. framebuffer = Promise!Displayed([c \in Cells |-> Glyph(c)], 0, 0, TRUE)
  <2>1. \A c \in Cells : <<b, c = 0>> = <<b, TRUE /\ Promise!OnScreen(0, 0) /\ c = Promise!At(0, 0)>>
    <3> SUFFICES ASSUME NEW c \in Cells
                 PROVE  (c = 0) = (TRUE /\ Promise!OnScreen(0, 0) /\ c = Promise!At(0, 0))
      OBVIOUS
    <3> QED BY <1>4, SameCells
  <2> QED BY <1>1, <1>2, <2>1, SameCells, Zenon DEF Promise!Displayed
<1> QED BY <1>3, <1>5 DEF Init, Promise!Init

\* When a call returns, the screen is the one it leaves.
LEMMA ScrollPromised ==
  ASSUME Inv, Shows, ScrollOver, pc' = "idle" PROVE Promise!Scroll \/ Promise!Revscroll
<1> DEFINE t == top * Cols
           e == (scroll_bottom_margin - 1) * Cols
           old == before.screen
<1>0. /\ pc \in {"scroll_blank", "revscroll_blank"} /\ i = Cols /\ ch = None /\ empty \in Blanks
      /\ UNCHANGED <<grid, queue, map, framebuffer, cursors, modes>>
      /\ before.glass = framebuffer /\ cursor_x = before.x /\ cursor_y = before.y
      /\ top \in 0..(Rows - 1) /\ top \in Int /\ scroll_bottom_margin \in Int
  BY FbCellsAssumption DEF Inv, LoopOK, TypeOK, Margins, ScrollOver, Over, Shows, Remembered
<1>1. /\ (top + 1) * Cols = t + Cols /\ scroll_bottom_margin * Cols = e + Cols
  <2>1. /\ (top + 1) * Cols = top * Cols + Cols
        /\ (scroll_bottom_margin - 1) * Cols = scroll_bottom_margin * Cols - Cols
        /\ scroll_bottom_margin * Cols \in Int /\ Cols \in Nat
    BY <1>0, NextRow
  <2> HIDE DEF t, e
  <2> QED BY <2>1 DEF t, e
<1>2. /\ framebuffer' = before.glass /\ cursor_x' = before.x /\ cursor_y' = before.y
      /\ UNCHANGED <<cursor_enabled, scroll_enabled, scroll_top_margin, scroll_bottom_margin>>
      /\ \A c \in Cells : Glyph(c)' = Glyph(c)
  BY <1>0, SameGlyphs DEF cursors, modes
<1> HIDE DEF t, e
<1>3. CASE pc = "scroll_blank"
  <2>1. ASSUME NEW c \in Cells
        PROVE  Glyph(c)' = Scrolled(old, scroll_top_margin, scroll_bottom_margin, empty)[c]
    <3>1. /\ top = scroll_top_margin
          /\ Glyph(c) = IF t <= c /\ c < e THEN old[c + Cols]
                        ELSE IF e <= c /\ c < e + i THEN empty ELSE old[c]
      BY <1>3 DEF Shows, LoopShows, t, e
    <3>2. Scrolled(old, top, scroll_bottom_margin, empty)[c] =
            IF t <= c /\ c < e THEN old[c + Cols]
            ELSE IF e <= c /\ c < e + Cols THEN empty ELSE old[c]
      <4>1. Scrolled(old, top, scroll_bottom_margin, empty)[c] =
              IF top * Cols <= c /\ c < (scroll_bottom_margin - 1) * Cols THEN old[c + Cols]
              ELSE IF (scroll_bottom_margin - 1) * Cols <= c /\ c < scroll_bottom_margin * Cols
              THEN empty ELSE old[c]
        BY <1>0, ScrolledCell
      <4> QED BY <1>1, <4>1 DEF t, e
    <3> QED BY <1>0, <1>2, <3>1, <3>2
  <2>2. [c \in Cells |-> Glyph(c)'] = Scrolled(old, scroll_top_margin, scroll_bottom_margin, empty)
    <3> DEFINE s == Scrolled(old, scroll_top_margin, scroll_bottom_margin, empty)
    <3>1. s = [c \in Cells |-> s[c]]
      BY DEF Scrolled
    <3> HIDE DEF s
    <3> QED BY <2>1, <3>1 DEF s
  <2>3. Promise!Scroll
    BY <1>0, <1>2, <1>3, <2>2, SameCells DEF Promise!Scroll, Promise!modes
  <2> QED BY <2>3
<1>4. CASE pc = "revscroll_blank"
  <2>1. ASSUME NEW c \in Cells
        PROVE  Glyph(c)' = RevScrolled(old, top, scroll_bottom_margin, empty)[c]
    <3>1. Glyph(c) = IF t <= c /\ c < t + Cols THEN empty
                     ELSE IF t + Cols <= c /\ c < e + Cols THEN old[c - Cols] ELSE old[c]
      BY <1>0, <1>1, <1>4 DEF Shows, LoopShows, t
    <3>2. RevScrolled(old, top, scroll_bottom_margin, empty)[c] =
            IF t <= c /\ c < t + Cols THEN empty
            ELSE IF t + Cols <= c /\ c < e + Cols THEN old[c - Cols] ELSE old[c]
      <4>1. RevScrolled(old, top, scroll_bottom_margin, empty)[c] =
              IF top * Cols <= c /\ c < (top + 1) * Cols THEN empty
              ELSE IF (top + 1) * Cols <= c /\ c < scroll_bottom_margin * Cols
              THEN old[c - Cols] ELSE old[c]
        BY <1>0, RevScrolledCell
      <4> QED BY <1>1, <4>1 DEF t
    <3> QED BY <1>2, <3>1, <3>2
  <2>2. [c \in Cells |-> Glyph(c)'] = RevScrolled(old, top, scroll_bottom_margin, empty)
    BY <2>1 DEF RevScrolled
  <2>3. Promise!Revscroll
    BY <1>0, <1>2, <1>4, <2>2, SameCells DEF Promise!Revscroll, Promise!modes
  <2> QED BY <2>3
<1> QED BY <1>0, <1>3, <1>4

LEMMA PutPromised == ASSUME Inv, Shows, RawPutcharPut PROVE Promise!RawPutchar
<1> DEFINE b == scroll_bottom_margin
           s == IF scrolls THEN Scrolled(before.screen, scroll_top_margin, b, empty)
                ELSE before.screen
<1>0. /\ TypeOK /\ QueueOK /\ LinkedOK /\ pc = "put" /\ pc' = "idle" /\ grid' = grid
      /\ ch \in Glyphs /\ ch # None /\ push_to_queue(ch, cursor_x, cursor_y)
      /\ cursor_x' = cursor_x + 1 /\ cursor_y' = cursor_y /\ framebuffer' = framebuffer
      /\ UNCHANGED <<cursor_enabled, scroll_enabled, scroll_top_margin, scroll_bottom_margin>>
      /\ before.glass = framebuffer /\ before.screen \in [Cells -> Glyphs]
      /\ Blanks # {}
  BY LinksGiven DEF Inv, LoopOK, TypeOK, RawPutcharPut, Return, modes, Shows, Remembered, Framed
<1>1. /\ cursor_x = IF wraps THEN 0 ELSE before.x
      /\ cursor_y = IF wraps THEN WrappedRow(before.y, b) ELSE before.y
      /\ scrolls => empty \in Blanks
      /\ \A c \in Cells : Glyph(c) = s[c]
  BY <1>0 DEF Shows, PutShows
<1>2. cursor_x \in Int /\ cursor_y \in Int
  BY <1>0, CursorsOnGrid
<1>3. \A c \in Cells : Glyph(c)' = IF OnScreen(cursor_x, cursor_y) /\ c = At(cursor_x, cursor_y)
                                   THEN ch ELSE Glyph(c)
  BY <1>0, <1>2, PushShows
<1>4. s = [c \in Cells |-> s[c]]
  BY <1>0 DEF Scrolled
<1> HIDE DEF s
<1>5. [c \in Cells |-> Glyph(c)'] = Put(s, ch, cursor_x, cursor_y)
  <2>1. CASE OnScreen(cursor_x, cursor_y)
    <3>1. At(cursor_x, cursor_y) \in Cells
      BY <1>2, <2>1, AtIsCell
    <3> QED BY <1>1, <1>3, <1>4, <2>1, <3>1 DEF Put
  <2>2. CASE ~OnScreen(cursor_x, cursor_y)
    BY <1>1, <1>3, <1>4, <2>2 DEF Put
  <2> QED BY <2>1, <2>2
<1>6. PICK g \in Blanks :
        s = IF scrolls THEN Scrolled(before.screen, scroll_top_margin, b, g) ELSE before.screen
  BY <1>0, <1>1 DEF s
<1>7. /\ wraps <=> Promise!Wraps(before.x, before.y, b, scroll_enabled)
      /\ scrolls <=> Promise!WrapScrolls(before.x, before.y, b, scroll_enabled)
  BY SameCells DEF wraps, scrolls
<1> QED
  BY <1>0, <1>1, <1>5, <1>6, <1>7, SameCells DEF Promise!RawPutchar, Promise!modes

LEMMA ClearPromised == ASSUME Inv, Shows, ClearOver PROVE Promise!Clear
<1>0. /\ pc = "clear" /\ pc' = "idle" /\ i = Rows * Cols /\ empty \in Blanks
      /\ UNCHANGED <<grid, queue, map, framebuffer>>
      /\ UNCHANGED <<cursor_enabled, scroll_enabled, scroll_top_margin, scroll_bottom_margin>>
      /\ before.glass = framebuffer /\ cursor_x = before.x /\ cursor_y = before.y
  BY DEF Inv, LoopOK, ClearOver, Return, modes, Shows, Remembered
<1>1. \A c \in Cells : c < Rows * Cols
  BY FbCellsAssumption DEF Cells
<1>2. \A c \in Cells : Glyph(c)' = empty
  BY <1>0, <1>1, SameGlyphs DEF Shows, LoopShows
<1>3. <<cursor_x', cursor_y'>> \in {<<before.x, before.y>>, <<0, 0>>}
  BY <1>0 DEF ClearOver
<1>4. [c \in Cells |-> Glyph(c)'] = [c \in Promise!Cells |-> empty]
  BY <1>2, SameCells
<1> QED BY <1>0, <1>3, <1>4 DEF Promise!Clear, Promise!modes

LEMMA PositionPromised == ASSUME Inv, SetCursorPos PROVE Promise!SetCursorPos
<1>1. cursor_x' \in 0..(Cols - 1) /\ cursor_y' \in 0..(Rows - 1)
  BY FbCellsAssumption DEF SetCursorPos, Clamp
<1>2. /\ pc = "idle" /\ pc' = "idle" /\ UNCHANGED <<grid, queue, map, framebuffer>>
      /\ UNCHANGED <<cursor_enabled, scroll_enabled, scroll_top_margin, scroll_bottom_margin>>
  BY DEF SetCursorPos, modes
<1> QED BY <1>1, <1>2, SameGlyphs DEF Promise!SetCursorPos, Promise!modes

LEMMA MovePromised == ASSUME Inv, MoveCharacter PROVE Promise!MoveCharacter
<1>0. /\ QueueOK /\ LinkedOK /\ pc = "idle" /\ pc' = "idle" /\ UNCHANGED <<grid, framebuffer>>
      /\ UNCHANGED <<cursor_enabled, scroll_enabled, scroll_top_margin, scroll_bottom_margin>>
      /\ UNCHANGED <<cursor_x, cursor_y>>
  BY LinksGiven DEF MoveCharacter, modes, cursors
<1>1. PICK x \in 0..(Cols - 1), z \in 0..(Cols - 1), y \in 0..(Rows - 1) :
        push_to_queue(Glyph(At(x, y)), z, y)
  BY DEF MoveCharacter
<1> DEFINE from == At(x, y)
           to == At(z, y)
<1>2. from \in Cells /\ to \in Cells /\ OnScreen(z, y)
  BY <1>1, AtIsCell DEF OnScreen
<1>3. Glyph(from) \in Glyphs
  BY <1>0, <1>2, GlyphType
<1>4. \A c \in Cells : Glyph(c)' = IF c = to THEN Glyph(from) ELSE Glyph(c)
  BY <1>0, <1>1, <1>2, <1>3, PushShows
<1> HIDE DEF from, to
<1>5. [c \in Cells |-> Glyph(c)'] =
        [[c \in Cells |-> Glyph(c)] EXCEPT ![to] = [c \in Cells |-> Glyph(c)][from]]
  BY <1>2, <1>4
<1> QED BY <1>0, <1>2, <1>5, SameCells DEF Promise!MoveCharacter, Promise!modes

LEMMA ConfigurePromised == ASSUME Inv, Configure PROVE Promise!Configure
<1>1. /\ cursor_enabled' \in BOOLEAN /\ scroll_enabled' \in BOOLEAN
      /\ <<scroll_top_margin', scroll_bottom_margin'>> \in Margins
  BY FbQueueAssumption DEF Configure
<1>2. /\ pc = "idle" /\ pc' = "idle" /\ UNCHANGED <<grid, queue, map, framebuffer>>
      /\ UNCHANGED <<cursor_x, cursor_y>>
  BY DEF Configure, cursors
<1> QED BY <1>1, <1>2, SameCells, SameGlyphs DEF Promise!Configure

LEMMA FlushPromised == ASSUME Inv, Shows, FlushOver PROVE Promise!Flush
<1>0. /\ pc = "flush" /\ pc' = "idle" /\ UNCHANGED <<cursor_x, cursor_y>>
      /\ UNCHANGED <<cursor_enabled, scroll_enabled, scroll_top_margin, scroll_bottom_margin>>
      /\ cursor_x = before.x /\ cursor_y = before.y
      /\ before.screen \in [Cells -> Glyphs] /\ cursor_enabled \in BOOLEAN
  BY DEF Inv, TypeOK, FlushOver, Return, modes, Shows, Remembered
<1>1. framebuffer' \in [Cells -> Shown] /\ \A c \in Cells : Glyph(c)' = before.screen[c]
  BY FlushDraws
<1>2. ASSUME NEW c \in Cells
      PROVE  framebuffer'[c] = <<before.screen[c], CursorCell(c)>>
  <2>1. /\ framebuffer'[c][1] = before.screen[c]
        /\ framebuffer'[c][2] = TRUE <=> CursorCell(c)
    BY FlushDraws
  <2>2. framebuffer'[c] = <<framebuffer'[c][1], framebuffer'[c][2]>> /\ framebuffer'[c][2] \in BOOLEAN
    BY <1>1 DEF Shown
  <2>3. framebuffer'[c][2] = CursorCell(c)
    BY <2>1, <2>2 DEF CursorCell
  <2> QED BY <2>1, <2>2, <2>3, Zenon
<1>3. framebuffer' = [c \in Cells |-> <<before.screen[c], CursorCell(c)>>]
  BY <1>1, <1>2, Zenon
<1>4. framebuffer' = Promise!Displayed(before.screen, before.x, before.y, cursor_enabled)
  <2>1. \A c \in Cells :
          CursorCell(c) = (cursor_enabled /\ Promise!OnScreen(before.x, before.y)
                             /\ c = Promise!At(before.x, before.y))
    BY <1>0, SameCells DEF CursorCell
  <2> QED BY <1>3, <2>1, SameCells, Zenon DEF Promise!Displayed
<1>5. [c \in Cells |-> Glyph(c)'] = before.screen
  BY <1>0, <1>1
<1> QED BY <1>0, <1>4, <1>5 DEF Promise!Flush, Promise!modes

LEMMA StepPromised ==
  ASSUME Inv, Shows, [Next]_vars PROVE [Promise!Next]_(Promise!screenVars)
<1> USE DEF Promise!Next
<1>1. CASE UNCHANGED vars
  <2>1. UNCHANGED <<grid, queue, map, framebuffer, cursor_x, cursor_y, modes, pc, before>>
    BY <1>1 DEF vars, cursors, locals
  <2>2. [c \in Cells |-> Glyph(c)'] = [c \in Cells |-> Glyph(c)]
    BY <2>1, SameGlyphs
  <2> QED BY <2>1, <2>2 DEF Promise!screenVars, Promise!modes, modes
<1>2. CASE Scroll \/ RawPutcharWrap \/ Revscroll \/ RawPutchar \/ Clear
  <2>1. /\ pc = "idle" /\ pc' # "idle" /\ UNCHANGED modes
        /\ before' = [screen |-> [c \in Cells |-> Glyph(c)], glass |-> framebuffer,
                      x |-> cursor_x, y |-> cursor_y]
    BY <1>2 DEF Call, Scroll, RawPutcharWrap, Revscroll, RawPutchar, Clear
  <2> QED BY <2>1, CallHidden
<1>3. CASE Flush
  BY <1>3, CallHidden DEF Flush
<1>4. CASE ScrollCopy \/ RevscrollCopy \/ ScrollBlank \/ RevscrollBlank \/ ClearCell
  <2>1. pc # "idle" /\ pc' = pc /\ UNCHANGED <<modes, before>>
    BY <1>4 DEF ScrollCopy, RevscrollCopy, ScrollBlank, RevscrollBlank, ClearCell, Round, locals
  <2> QED BY <2>1, RoundHidden
<1>5. CASE CopyOver \/ FlushItem
  <2>1. pc # "idle" /\ pc' # "idle" /\ UNCHANGED <<modes, before>>
    BY <1>5 DEF CopyOver, FlushItem, Over, locals
  <2> QED BY <2>1, RoundHidden
<1>6. CASE ScrollOver
  <2>1. CASE pc' = "idle"
    BY <1>6, <2>1, ScrollPromised
  <2>2. CASE pc' # "idle"
    <3>1. pc # "idle" /\ UNCHANGED <<modes, before>>
      BY <1>6, <2>2 DEF ScrollOver, Over, Return, locals
    <3> QED BY <2>2, <3>1, RoundHidden
  <2> QED BY <2>1, <2>2
<1>7. CASE RawPutcharPut
  BY <1>7, PutPromised
<1>8. CASE ClearOver
  BY <1>8, ClearPromised
<1>9. CASE SetCursorPos \/ MoveCharacter \/ Configure
  BY <1>9, PositionPromised, MovePromised, ConfigurePromised
<1>10. CASE FlushOver
  BY <1>10, FlushPromised
<1> QED BY <1>1, <1>2, <1>3, <1>4, <1>5, <1>6, <1>7, <1>8, <1>9, <1>10 DEF Next

-----------------------------------------------------------------------------
(* The theorems.                                                             *)

\* The queue is shorter than its memory: no two items are of the same cell, so
\* there are no more of them than there are cells.
LEMMA ItemsFitCells == ASSUME QueueOK, OneItemPerCell PROVE QueueInBounds
<1> DEFINE n == Len(queue)
           f == [k \in 1..n |-> queue[k].at]
<1>1. Cols \in Nat /\ Rows \in Nat /\ Cols > 0 /\ Rows > 0
  BY FbCellsAssumption
<1>2. n \in Nat /\ DOMAIN queue = 1..n /\ f \in [1..n -> Cells]
  <2>1. n \in Nat /\ DOMAIN queue = 1..n /\ \A k \in 1..n : queue[k] \in Item
    BY DEF QueueOK
  <2>2. \A k \in 1..n : queue[k].at \in Cells
    BY <2>1 DEF Item
  <2> QED BY <2>1, <2>2
<1>3. IsFiniteSet(1..n) /\ Cardinality(1..n) = n
  BY <1>2, FS_Interval
<1>4. Cols * Rows \in Nat /\ Cols * Rows > 0
  BY <1>1
<1>5. IsFiniteSet(Cells) /\ Cardinality(Cells) = Cols * Rows
  BY <1>4, FS_Interval DEF Cells
<1>6. ASSUME n > Cols * Rows PROVE FALSE
  <2>1. PICK k \in 1..n, m \in 1..n : k # m /\ f[k] = f[m]
    <3> HIDE DEF f
    <3> QED BY <1>2, <1>3, <1>5, <1>6, FS_PigeonHole
  <2> QED BY <1>2, <2>1 DEF OneItemPerCell
<1> QED BY <1>2, <1>4, <1>6 DEF QueueInBounds

\* Every call leaves grid, queue, map and the cursor in their ranges, for every
\* size of the screen and however many calls come between two flushes.
THEOREM TypeCorrect == Spec => []TypeOK
<1>1. Inv => TypeOK
  BY DEF Inv
<1> QED BY <1>1, InitInv, NextInv, PTL DEF Spec

\* No cell has two items, map never leads to the item of another cell, and the
\* flush comes to every item that is pending.
THEOREM ItemsSound == Spec => []OneItemPerCell
<1>1. Inv => OneItemPerCell
  BY DEF Inv
<1> QED BY <1>1, InitInv, NextInv, PTL DEF Spec

\* push_to_queue never writes behind the memory fb_init allocated.
THEOREM QueueFits == Spec => []QueueInBounds
<1>1. Inv => QueueInBounds
  BY ItemsFitCells, QueueTyped DEF Inv
<1> QED BY <1>1, InitInv, NextInv, PTL DEF Spec

\* Every call of the back end does to the screen what FbScreen promises, in one
\* step, and a flush shows the whole screen and the cursor in its place, for
\* every size of the screen, every alphabet and every number of calls.
THEOREM ImplementsScreen == Spec => KeepsPromise
<1>1. Init => Inv /\ Shows /\ Promise!Init
  BY InitInv, ShowsInit, StartsAsPromised
<1>2. Inv /\ Shows /\ [Next]_vars => Inv' /\ Shows' /\ [Promise!Next]_(Promise!screenVars)
  BY NextInv, ShowsNext, StepPromised
<1> QED BY <1>1, <1>2, PTL DEF Spec, KeepsPromise, Promise!Spec
=============================================================================
