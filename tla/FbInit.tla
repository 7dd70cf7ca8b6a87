------------------------------- MODULE FbInit -------------------------------
(***************************************************************************)
(* flanterm_fb_init as kmain calls it: no malloc of its own (so the blocks *)
(* come out of a static pool), no canvas, no rotation, no margin, the font *)
(* scaled to the screen, 8 dots wide and one apart.  Then the geometry of  *)
(* the cells on the screen, and the pixels plot_char writes for one.       *)
(*                                                                         *)
(* Lengths are in pixels of four bytes, the pitch too: kmain does not look *)
(* at bpp.  A block of the pool is one action, with what is computed from  *)
(* it up to the next; full_refresh, which draws all, is the last step.      *)
(***************************************************************************)
EXTENDS Integers, Sequences

CONSTANTS
  Framebuffers,  \* the framebuffers the boot loader can report
  PoolSkews      \* how far the pool can be behind a multiple of 16 bytes

Framebuffer == [width : Nat, height : Nat, stride : Nat, masks : [1..3 -> 0..255]]

ASSUME FramebuffersAssumption ==
  \A f \in Framebuffers : f \in Framebuffer /\ f.width <= f.stride
ASSUME PoolSkewsAssumption == PoolSkews \subseteq 0..15

POOL_SIZE    == 873000
WIDTH_LIMIT  == 1920
HEIGHT_LIMIT == 1200
FontWidth    == 9
FontHeight   == 16

VARIABLES
  fb,                  \* the framebuffer
  fb_at,               \* where flanterm_fb_init is
  font_scale,          \* of both directions
  area,                \* the part of the screen that is used
  bump_alloc_ptr,
  blocks,              \* lengths of the blocks, in the order they were taken
  cols, rows, offset_x, offset_y

geometry == <<cols, rows, offset_x, offset_y>>
fbVars   == <<fb, fb_at, font_scale, area, bump_alloc_ptr, blocks, geometry>>

Least(a, b) == IF a < b THEN a ELSE b

FbStart(f) ==
  /\ fb = f /\ fb_at = "scale" /\ font_scale = 1
  /\ area = [left |-> 0, top |-> 0, width |-> f.width, height |-> f.height]
  /\ bump_alloc_ptr = 0 /\ blocks = << >>
  /\ cols = 0 /\ rows = 0 /\ offset_x = 0 /\ offset_y = 0

-----------------------------------------------------------------------------
\* The scale is chosen before the screen is limited.
ScaleOf(f) ==
  IF f.width >= 5120 /\ f.height >= 2880 THEN 4
  ELSE IF f.width >= 2560 /\ f.height >= 1440 THEN 2 ELSE 1

GoodMasks(f) == f.masks[1] >= 8 /\ f.masks[2] = f.masks[1] /\ f.masks[3] = f.masks[1]

ChooseScale ==
  /\ fb_at = "scale"
  /\ font_scale' = ScaleOf(fb)
  /\ fb_at' = IF GoodMasks(fb) THEN "limit" ELSE "null"
  /\ UNCHANGED <<fb, area, bump_alloc_ptr, blocks, geometry>>

\* Mutant: the screen is not limited to what the pool was made for.
Limited_Never(f) == [left |-> 0, top |-> 0, width |-> f.width, height |-> f.height]

\* A screen above the limits is used in its middle.
Limited(f) ==
  LET w == Least(f.width, WIDTH_LIMIT)
      h == Least(f.height, HEIGHT_LIMIT)
  IN  [left |-> (f.width \div 2) - (w \div 2), top |-> (f.height \div 2) - (h \div 2),
       width |-> w, height |-> h]

Limit ==
  /\ fb_at = "limit"
  /\ area' = Limited(fb)
  /\ \E s \in PoolSkews : bump_alloc_ptr' = IF s = 0 THEN 0 ELSE 16 - s
  /\ fb_at' = "allocate"
  /\ UNCHANGED <<fb, font_scale, blocks, geometry>>

-----------------------------------------------------------------------------
glyph_width  == FontWidth * font_scale
glyph_height == FontHeight * font_scale

Cells == rows * cols

\* What flanterm_fb_init asks for: the context, the font's bits, a bool for each
\* dot, and for each cell a character of the grid, an item and a pointer to one.
Wanted == <<816, 4096, 256 * FontHeight * FontWidth, 12 * Cells, 32 * Cells, 8 * Cells>>

Rounded(s) == ((s + 15) \div 16) * 16

\* Mutant: a cell that only partly fits is counted.
Layout_RoundUp ==
  /\ cols' = (area.width + glyph_width - 1) \div glyph_width
  /\ rows' = area.height \div glyph_height
  /\ offset_x' = (area.width % glyph_width) \div 2
  /\ offset_y' = (area.height % glyph_height) \div 2

Layout ==
  /\ cols' = area.width \div glyph_width /\ rows' = area.height \div glyph_height
  /\ offset_x' = (area.width % glyph_width) \div 2
  /\ offset_y' = (area.height % glyph_height) \div 2

\* bump_alloc; the cells are counted after the third block.  When the pool is used
\* up it is given back, and kmain gets NULL.
Allocate ==
  LET k   == Len(blocks) + 1
      end == bump_alloc_ptr + Rounded(Wanted[k])
  IN  /\ fb_at = "allocate"
      /\ IF end <= POOL_SIZE
         THEN /\ bump_alloc_ptr' = end
              /\ blocks' = Append(blocks, Wanted[k])
              /\ IF k = 3 THEN Layout ELSE UNCHANGED geometry
              /\ fb_at' = IF k = 6 THEN "draw" ELSE "allocate"
         ELSE bump_alloc_ptr' = 0 /\ fb_at' = "null" /\ UNCHANGED <<blocks, geometry>>
      /\ UNCHANGED <<fb, font_scale, area>>

Refresh ==
  /\ fb_at = "draw" /\ fb_at' = "done"
  /\ UNCHANGED <<fb, font_scale, area, bump_alloc_ptr, blocks, geometry>>

FbNext == ChooseScale \/ Limit \/ Allocate \/ Refresh

FbSpec == (\E f \in Framebuffers : FbStart(f)) /\ [][FbNext]_fbVars

-----------------------------------------------------------------------------
(* plot_char_unscaled_uncanvas and plot_char_scaled_uncanvas: a pointer     *)
(* walks over the cell, outer_stride for a row and one for a pixel.  Each   *)
(* dot of the font becomes font_scale pixels in font_scale rows.            *)

framebuffer == area.top * fb.stride + area.left

Dest(x, y) ==
  framebuffer + offset_x + x * glyph_width + (offset_y + y * glyph_height) * fb.stride

\* Mutant: the dots of one row follow each other by the font's width.
Walk_Unscaled(x, y) ==
  {<<Dest(x, y) + gy * fb.stride + fx + n, <<fx, gy \div font_scale>>>> :
     gy \in 0..(glyph_height - 1), fx \in 0..(FontWidth - 1), n \in 0..(font_scale - 1)}

\* Pairs of an address and the dot that is drawn there.
Walk(x, y) ==
  {<<Dest(x, y) + gy * fb.stride + fx * font_scale + n, <<fx, gy \div font_scale>>>> :
     gy \in 0..(glyph_height - 1), fx \in 0..(FontWidth - 1), n \in 0..(font_scale - 1)}

-----------------------------------------------------------------------------
FbTypeOK ==
  /\ fb \in Framebuffers
  /\ fb_at \in {"scale", "limit", "allocate", "draw", "done", "null"}
  /\ font_scale \in {1, 2, 4}
  /\ area \in [left : Nat, top : Nat, width : Nat, height : Nat]
  /\ bump_alloc_ptr \in Nat /\ bump_alloc_ptr <= POOL_SIZE
  /\ blocks \in Seq(Nat) /\ Len(blocks) <= 6
  /\ cols \in Nat /\ rows \in Nat /\ offset_x \in Nat /\ offset_y \in Nat

\* The pool of 873000 bytes is enough for every screen: flanterm_fb_init returns
\* NULL, which kmain does not test for, only for masks it does not support.
PoolSuffices == fb_at = "null" => ~GoodMasks(fb)

\* The pixel of a dot in cell <<x, y>>, counted from the screen's corner.
PixelColumn(x, gx) == area.left + offset_x + x * glyph_width + gx
PixelRow(y, gy)    == area.top + offset_y + y * glyph_height + gy

\* Every pixel of every cell is on the screen, also on one that is larger than
\* the limits or not a multiple of the glyphs.
CellsInside ==
  fb_at = "draw" =>
    /\ \A x \in 0..(cols - 1), gx \in 0..(glyph_width - 1) :
         PixelColumn(x, gx) \in 0..(fb.width - 1)
    /\ \A y \in 0..(rows - 1), gy \in 0..(glyph_height - 1) :
         PixelRow(y, gy) \in 0..(fb.height - 1)

\* The pointer walk of plot_char writes each pixel of the cell once, and the dot
\* it draws there is the one that the cell, scaled, has at this place.
PlotExact ==
  fb_at = "draw" =>
    \A x \in {0, cols - 1} \cap Nat, y \in {0, rows - 1} \cap Nat :
      Walk(x, y) =
        {<<PixelRow(y, g[2]) * fb.stride + PixelColumn(x, g[1]),
           <<g[1] \div font_scale, g[2] \div font_scale>>>> :
           g \in (0..(glyph_width - 1)) \X (0..(glyph_height - 1))}
=============================================================================
