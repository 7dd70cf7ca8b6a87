----------------------------- MODULE PageAlloc -----------------------------
(***************************************************************************)
(* The physical page allocator of SealOS (bitmap_init, bitmap_set,         *)
(* bitmap_clear and malloc in kernel/src/main.c) and the three buffers     *)
(* kmain takes from it.                                                    *)
(*                                                                         *)
(* Addresses are counted in pages: the boot loader's usable regions begin  *)
(* and end on page boundaries.  The bitmap itself lies in usable memory,   *)
(* one byte for 8 pages, PageBytes bytes to a page, so that a page handed  *)
(* out may be one the bitmap lies in: its owner then writes on the bitmap. *)
(* bitmap_init is one action per iteration of its loops over the memory    *)
(* map.                                                                    *)
(***************************************************************************)
EXTENDS Integers, Sequences

CONSTANTS
  MemMaps,    \* the memory maps the boot loader can report
  PageBytes,  \* 4096
  IntPages    \* 2^19: page * 4096 leaves the range of an int from here on

Types   == {"usable", "kernel", "reclaimable", "reserved"}
Buffers == <<"command_buf", "doc_buf", "folder_name">>

ASSUME PageBytesAssumption == PageBytes \in Nat \ {0}
ASSUME IntPagesAssumption  == IntPages \in Nat

\* Regions are in the order the boot loader gives them; usable regions overlap
\* no other.
Region == [type : Types, base : Nat, len : Nat]

Pages(r) == r.base..(r.base + r.len - 1)

ASSUME MemMapsAssumption == \A m \in MemMaps : m \in Seq(Region)

VARIABLES
  memmap,        \* the memory map
  pc,            \* where bitmap_init and kmain are
  i,             \* index of the memory map entry a loop is at
  highest,       \* highest_address, in pages
  bmap_in_bytes,
  bmap_page,     \* page of bmap_phys_addr
  bits,          \* the bitmap: page -> 0 (free) or 1
  next,          \* index in Buffers of the buffer kmain asks for next
  handed,        \* pairs <<buffer, page>> malloc has returned
  wild           \* buffers for which malloc ran off its end

vars == <<memmap, pc, i, highest, bmap_in_bytes, bmap_page, bits, next, handed, wild>>

-----------------------------------------------------------------------------
Counted(r) == r.type \in {"usable", "kernel", "reclaimable"}
Usable(p)  == \E k \in DOMAIN memmap : memmap[k].type = "usable" /\ p \in Pages(memmap[k])

NumBits == bmap_in_bytes * 8

\* The pages bitmap_init reserves for the bitmap: the division drops a last,
\* partly used page.
bitmap_in_pages == bmap_in_bytes \div PageBytes
Reserved == bmap_page..(bmap_page + bitmap_in_pages - 1)

\* That last page, if there is one.
TailPages == IF bmap_in_bytes % PageBytes = 0 THEN {} ELSE {bmap_page + bitmap_in_pages}

SetBits(S, v) == bits' = [p \in DOMAIN bits |-> IF p \in S THEN v ELSE bits[p]]

Init ==
  /\ memmap \in MemMaps
  /\ pc = "top" /\ i = 1
  /\ highest = 0 /\ bmap_in_bytes = 0 /\ bmap_page = 0
  /\ bits = << >>
  /\ next = 1 /\ handed = {} /\ wild = {}

\* First loop: the end of the highest region that counts as memory.
FindTop ==
  /\ pc = "top" /\ i <= Len(memmap)
  /\ LET end == memmap[i].base + memmap[i].len
     IN  highest' = IF Counted(memmap[i]) /\ end > highest THEN end ELSE highest
  /\ i' = i + 1
  /\ UNCHANGED <<memmap, pc, bmap_in_bytes, bmap_page, bits, next, handed, wild>>

SizeBitmap ==
  /\ pc = "top" /\ i > Len(memmap)
  /\ bmap_in_bytes' = (highest + 7) \div 8
  /\ pc' = "place" /\ i' = 1
  /\ UNCHANGED <<memmap, highest, bmap_page, bits, next, handed, wild>>

\* Mutant: the region's length is not compared.
CanHold_Any(r) == r.type = "usable"

\* A region can hold the bitmap.
CanHold(r) == r.type = "usable" /\ r.len * PageBytes > bmap_in_bytes

\* Second loop: the first usable region that is longer than the bitmap; then
\* memset, on address 0 when there is none.
SkipRegion ==
  /\ pc = "place" /\ i <= Len(memmap) /\ ~CanHold(memmap[i])
  /\ i' = i + 1
  /\ UNCHANGED <<memmap, pc, highest, bmap_in_bytes, bmap_page, bits, next, handed, wild>>

Place ==
  /\ pc = "place"
  /\ \/ i <= Len(memmap) /\ CanHold(memmap[i]) /\ bmap_page' = memmap[i].base
     \/ i > Len(memmap) /\ bmap_page' = 0
  /\ bits' = [p \in 0..(NumBits - 1) |-> 1]
  /\ pc' = "clear" /\ i' = 1
  /\ UNCHANGED <<memmap, highest, bmap_in_bytes, next, handed, wild>>

\* Third loop: the pages of the usable regions are free.
ClearRegion ==
  /\ pc = "clear" /\ i <= Len(memmap)
  /\ IF memmap[i].type = "usable" THEN SetBits(Pages(memmap[i]), 0) ELSE bits' = bits
  /\ i' = i + 1
  /\ UNCHANGED <<memmap, pc, highest, bmap_in_bytes, bmap_page, next, handed, wild>>

\* Mutant: the bitmap's own pages stay free.
Reserve_None ==
  /\ pc = "clear" /\ i > Len(memmap)
  /\ pc' = "ready"
  /\ UNCHANGED <<memmap, i, highest, bmap_in_bytes, bmap_page, bits, next, handed, wild>>

Reserve ==
  /\ pc = "clear" /\ i > Len(memmap)
  /\ SetBits(Reserved, 1)
  /\ pc' = "ready"
  /\ UNCHANGED <<memmap, i, highest, bmap_in_bytes, bmap_page, next, handed, wild>>

-----------------------------------------------------------------------------
(* malloc.  It scans bytes and then bits, that is, pages in order.         *)

FirstFree(p) == bits[p] = 0 /\ \A q \in 0..(p - 1) : bits[q] = 1

\* page * 4096 is computed as an int: an overflow is undefined, and gives
\* either the product or what is left of it in 32 bits.
Address(p) == IF p < IntPages THEN {p} ELSE {p, p - 2 * IntPages}

Malloc ==
  /\ pc = "ready" /\ next <= Len(Buffers)
  /\ \E p \in DOMAIN bits :
       /\ FirstFree(p)
       /\ SetBits({p}, 1)
       /\ \E a \in Address(p) : handed' = handed \cup {<<Buffers[next], a>>}
  /\ next' = next + 1
  /\ UNCHANGED <<memmap, pc, i, highest, bmap_in_bytes, bmap_page, wild>>

\* The loops end without a free bit and malloc has no return statement.
MallocRunsOff ==
  /\ pc = "ready" /\ next <= Len(Buffers)
  /\ \A p \in DOMAIN bits : bits[p] = 1
  /\ wild' = wild \cup {Buffers[next]}
  /\ next' = next + 1
  /\ UNCHANGED <<memmap, pc, i, highest, bmap_in_bytes, bmap_page, bits, handed>>

\* The pages whose bits lie in page p.
BitsIn(p) == ((p - bmap_page) * PageBytes * 8)..((p - bmap_page + 1) * PageBytes * 8 - 1)

\* Keys, commands and cmd_cleanup write in a buffer, at any time after malloc
\* returned it.
WriteBuffer ==
  /\ pc = "ready"
  /\ \E h \in handed, v \in {0, 1} : SetBits(BitsIn(h[2]), v)
  /\ UNCHANGED <<memmap, pc, i, highest, bmap_in_bytes, bmap_page, next, handed, wild>>

Next ==
  \/ FindTop \/ SizeBitmap \/ SkipRegion \/ Place \/ ClearRegion \/ Reserve
  \/ Malloc \/ MallocRunsOff \/ WriteBuffer

Spec == Init /\ [][Next]_vars

-----------------------------------------------------------------------------
TypeOK ==
  /\ memmap \in Seq(Region)
  /\ pc \in {"top", "place", "clear", "ready"}
  /\ i \in 1..(Len(memmap) + 1)
  /\ highest \in Nat /\ bmap_in_bytes \in Nat /\ bmap_page \in Nat
  /\ bits \in [(IF pc \in {"top", "place"} THEN {} ELSE 0..(NumBits - 1)) -> {0, 1}]
  /\ next \in 1..(Len(Buffers) + 1)
  /\ handed \subseteq {Buffers[k] : k \in DOMAIN Buffers} \X Int
  /\ wild \subseteq {Buffers[k] : k \in DOMAIN Buffers}

\* Every bit bitmap_clear and bitmap_set touch is a bit of the bitmap: the top
\* of memory is above every usable page, and above the bitmap's own pages.
InBounds ==
  pc = "clear" =>
    /\ \A k \in DOMAIN memmap :
         memmap[k].type = "usable" => Pages(memmap[k]) \subseteq DOMAIN bits
    /\ Reserved \subseteq DOMAIN bits

\* The bitmap's last, partly used page, which bitmap_init does not reserve, has
\* been given to a buffer.
TailHanded == \E h \in handed : h[2] \in TailPages

\* page * 4096 never leaves the range of an int.
Narrow == highest <= IntPages

\* A buffer's page is usable memory, and none of the pages reserved for the
\* bitmap.
HandedUsable ==
  ~TailHanded /\ Narrow => \A h \in handed : Usable(h[2]) /\ h[2] \notin Reserved

\* No two buffers share a page, whatever has been written in the buffers.
HandedDistinct ==
  ~TailHanded /\ Narrow => \A g, h \in handed : g[2] = h[2] => g = h

\* Both: what kmain relies on.
HandedSound == HandedUsable /\ HandedDistinct

\* The bitmap changes only by malloc: no buffer is part of it.
BitmapIntact ==
  [][pc = "ready" /\ ~TailHanded /\ Narrow /\ bits' # bits => next' = next + 1]_vars
=============================================================================
