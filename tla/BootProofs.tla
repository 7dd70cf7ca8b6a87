----------------------------- MODULE BootProofs -----------------------------
(***************************************************************************)
(* Proofs about Boot and the parts kmain calls.  First each part for       *)
(* itself: the page allocator, for every memory map and every size of a    *)
(* page; the initialisation of the terminal, for every framebuffer the     *)
(* boot loader can report; and the disk driver, for every size of a        *)
(* sector, every set of sectors and contents, and every drive.             *)
(*                                                                         *)
(* Then the kernel.  Each part goes on as its own module says, whatever    *)
(* the others and the keyboard do in between, so that what is proved of    *)
(* the parts holds of the kernel; and an invariant follows kmain and the   *)
(* interrupt handler around each other.                                    *)
(***************************************************************************)
EXTENDS Boot, TLAPS

-----------------------------------------------------------------------------
(* PageAlloc.                                                              *)

-----------------------------------------------------------------------------
(* Arithmetic.                                                               *)

LEMMA Product ==
  ASSUME NEW n \in Nat, NEW j \in Int, NEW k \in Int, j <= k
  PROVE  j * n <= k * n
OBVIOUS

LEMMA Division ==
  ASSUME NEW a \in Nat, NEW n \in Nat, n > 0
  PROVE  /\ a \div n \in Nat /\ a % n \in 0..(n - 1)
         /\ a = (a \div n) * n + (a % n)
<1>1. a % n \in 0..(n - 1)
  OBVIOUS
<1>2. a = n * (a \div n) + (a % n)
  OBVIOUS
<1>3. a \div n \in Int
  OBVIOUS
<1>4. a \div n \in Nat
  OBVIOUS
<1> QED BY <1>1, <1>2, <1>3, <1>4

\* The pages a bitmap fills whole are at most its bytes, and fewer than those of
\* a region longer than it.
LEMMA WholePages ==
  ASSUME NEW a \in Nat, NEW n \in Nat, n > 0
  PROVE  /\ a \div n <= a
         /\ \A b \in Nat : b * n > a => a \div n < b
<1>1. a \div n \in Nat /\ a % n \in Nat /\ a = (a \div n) * n + (a % n)
  BY Division
<1>2. a \div n <= (a \div n) * n
  BY <1>1
<1>3. ASSUME NEW b \in Nat, b * n > a, b <= a \div n PROVE FALSE
  BY <1>1, <1>3, Product
<1> QED BY <1>1, <1>2, <1>3

\* A page that is none of the whole pages, nor the partly used one, is behind
\* the last byte.
LEMMA BehindTheBytes ==
  ASSUME NEW a \in Nat, NEW n \in Nat, n > 0, NEW k \in Nat, k >= a \div n,
         a % n # 0 => k # a \div n
  PROVE  k * n >= a
<1>1. a \div n \in Nat /\ a % n \in 0..(n - 1) /\ a = (a \div n) * n + (a % n)
  BY Division
<1>2. CASE a % n = 0
  BY <1>1, <1>2, Product
<1>3. CASE a % n # 0
  <2>1. k >= a \div n + 1
    BY <1>1, <1>3
  <2>2. k * n >= (a \div n + 1) * n
    BY <1>1, <2>1, Product
  <2>3. (a \div n + 1) * n = (a \div n) * n + n
    BY <1>1
  <2> QED BY <1>1, <2>2, <2>3
<1> QED BY <1>2, <1>3

LEMMA Rounding == ASSUME NEW h \in Nat PROVE (h + 7) \div 8 \in Nat /\ h <= ((h + 7) \div 8) * 8
OBVIOUS

-----------------------------------------------------------------------------
(* Types.                                                                    *)

BufferNames == {Buffers[k] : k \in DOMAIN Buffers}

LEMMA MapType ==
  ASSUME TypeOK
  PROVE  /\ Len(memmap) \in Nat /\ DOMAIN memmap = 1..Len(memmap)
         /\ \A k \in DOMAIN memmap : memmap[k] \in Region
BY DEF TypeOK

LEMMA NextBuffer == ASSUME TypeOK, next <= Len(Buffers) PROVE Buffers[next] \in BufferNames /\ next + 1 \in 1..(Len(Buffers) + 1)
BY DEF TypeOK, BufferNames, Buffers

LEMMA AddressType == ASSUME NEW p \in Int PROVE Address(p) \subseteq Int
BY IntPagesAssumption DEF Address

\* Setting bits gives a bitmap.
LEMMA SetBitsEffect ==
  ASSUME TypeOK, NEW S, NEW v \in {0, 1}, SetBits(S, v), UNCHANGED <<pc, bmap_in_bytes>>
  PROVE  /\ bits' \in [(IF pc' \in {"top", "place"} THEN {} ELSE 0..(NumBits' - 1)) -> {0, 1}]
         /\ DOMAIN bits' = DOMAIN bits
         /\ \A p \in DOMAIN bits : bits'[p] = IF p \in S THEN v ELSE bits[p]
BY DEF TypeOK, SetBits, NumBits

LEMMA TypeStep == TypeOK /\ [Next]_vars => TypeOK'
<1> SUFFICES ASSUME TypeOK, [Next]_vars PROVE TypeOK'
  OBVIOUS
<1>0. /\ Len(memmap) \in Nat /\ DOMAIN memmap = 1..Len(memmap)
      /\ \A k \in DOMAIN memmap : memmap[k] \in Region
  BY MapType
<1>1. CASE FindTop
  <2>1. i \in DOMAIN memmap /\ i + 1 \in 1..(Len(memmap) + 1)
    BY <1>0, <1>1 DEF FindTop, TypeOK
  <2>2. highest' \in Nat
    BY <1>0, <1>1, <2>1 DEF FindTop, TypeOK, Region
  <2> QED BY <1>1, <2>1, <2>2 DEF FindTop, TypeOK, NumBits
<1>2. CASE SizeBitmap
  BY <1>0, <1>2, Rounding DEF SizeBitmap, TypeOK
<1>3. CASE SkipRegion
  BY <1>0, <1>3 DEF SkipRegion, TypeOK, NumBits
<1>4. CASE Place
  <2>1. bmap_page' \in Nat
    <3>1. CASE i > Len(memmap) /\ bmap_page' = 0
      BY <3>1
    <3>2. CASE i <= Len(memmap) /\ bmap_page' = memmap[i].base
      <4>1. memmap[i] \in Region
        BY <1>0, <3>2 DEF TypeOK
      <4> QED BY <3>2, <4>1 DEF Region
    <3> QED BY <1>4, <3>1, <3>2 DEF Place
  <2> QED BY <1>0, <1>4, <2>1 DEF Place, TypeOK, NumBits
<1>5. CASE ClearRegion
  <2>1. bits' \in [(IF pc' \in {"top", "place"} THEN {} ELSE 0..(NumBits' - 1)) -> {0, 1}]
    <3>1. CASE memmap[i].type = "usable"
      BY <1>5, <3>1, SetBitsEffect DEF ClearRegion
    <3>2. CASE memmap[i].type # "usable"
      BY <1>5, <3>2 DEF ClearRegion, TypeOK, NumBits
    <3> QED BY <3>1, <3>2
  <2> QED BY <1>0, <1>5, <2>1 DEF ClearRegion, TypeOK
<1>6. CASE Reserve
  <2>1. bits' \in [0..(NumBits' - 1) -> {0, 1}]
    BY <1>6 DEF Reserve, SetBits, TypeOK, NumBits
  <2> QED BY <1>6, <2>1 DEF Reserve, TypeOK
<1>7. CASE Malloc
  <2>1. bits' \in [(IF pc' \in {"top", "place"} THEN {} ELSE 0..(NumBits' - 1)) -> {0, 1}]
    BY <1>7, SetBitsEffect DEF Malloc
  <2>2. DOMAIN bits \subseteq Int
    BY DEF TypeOK, NumBits
  <2>3. handed' \subseteq BufferNames \X Int
    BY <1>7, <2>2, NextBuffer, AddressType DEF Malloc, TypeOK, BufferNames
  <2>4. next' \in 1..(Len(Buffers) + 1)
    BY <1>7, NextBuffer DEF Malloc
  <2> QED BY <1>7, <2>1, <2>3, <2>4 DEF Malloc, TypeOK, BufferNames
<1>8. CASE MallocRunsOff
  <2>1. wild' \subseteq BufferNames /\ next' \in 1..(Len(Buffers) + 1)
    BY <1>8, NextBuffer DEF MallocRunsOff, TypeOK, BufferNames
  <2> QED BY <1>8, <2>1 DEF MallocRunsOff, TypeOK, BufferNames, NumBits
<1>9. CASE WriteBuffer
  <2>1. bits' \in [(IF pc' \in {"top", "place"} THEN {} ELSE 0..(NumBits' - 1)) -> {0, 1}]
    BY <1>9, SetBitsEffect DEF WriteBuffer
  <2> QED BY <1>9, <2>1 DEF WriteBuffer, TypeOK
<1>10. CASE UNCHANGED vars
  BY <1>10 DEF vars, TypeOK, NumBits
<1> QED BY <1>1, <1>2, <1>3, <1>4, <1>5, <1>6, <1>7, <1>8, <1>9, <1>10 DEF Next

-----------------------------------------------------------------------------
(* The bitmap covers usable memory and itself.                               *)

End(k) == memmap[k].base + memmap[k].len

\* highest is above the entries the first loop has seen.
TopInv ==
  \A k \in DOMAIN memmap :
    memmap[k].type = "usable" /\ (pc = "top" => k < i) => End(k) <= highest

SizeInv == pc # "top" => highest <= NumBits

ReservedInv == pc \in {"clear", "ready"} => bmap_page + bitmap_in_pages <= NumBits

BoundsInv == TypeOK /\ TopInv /\ SizeInv /\ ReservedInv

LEMMA WholePagesOfBitmap ==
  ASSUME TypeOK
  PROVE  /\ bitmap_in_pages \in Nat /\ bitmap_in_pages <= bmap_in_bytes
         /\ \A b \in Nat : b * PageBytes > bmap_in_bytes => bitmap_in_pages < b
BY PageBytesAssumption, WholePages, Division DEF TypeOK, bitmap_in_pages

LEMMA BoundsStep == BoundsInv /\ [Next]_vars => BoundsInv'
<1> SUFFICES ASSUME BoundsInv, [Next]_vars PROVE BoundsInv'
  OBVIOUS
<1> USE DEF BoundsInv
<1>0. TypeOK /\ TypeOK'
  BY TypeStep
<1>m. /\ Len(memmap) \in Nat /\ DOMAIN memmap = 1..Len(memmap)
      /\ \A k \in DOMAIN memmap : memmap[k] \in Region
  BY MapType
<1>1. CASE FindTop
  <2>1. TopInv'
    <3> SUFFICES ASSUME NEW k \in DOMAIN memmap, memmap[k].type = "usable", k < i + 1
                 PROVE  End(k) <= highest'
      BY <1>0, <1>1 DEF FindTop, TopInv, End
    <3>0. i \in DOMAIN memmap /\ highest \in Nat
      BY <1>0, <1>m, <1>1 DEF FindTop, TypeOK
    <3>1. i \in DOMAIN memmap /\ highest \in Nat /\ End(i) \in Nat
      BY <3>0, <1>m DEF End, Region
    <3>2. CASE k < i
      BY <1>0, <1>1, <1>m, <3>1, <3>2 DEF FindTop, TopInv, End, Region
    <3>3. CASE k = i
      BY <1>1, <3>1, <3>3 DEF FindTop, End, Counted
    <3>4. k \in Int /\ i \in Int
      BY <1>m, <3>0
    <3>5. k < i \/ k = i
      BY <3>4
    <3> QED BY <3>2, <3>3, <3>5
  <2> QED BY <1>0, <1>1, <2>1 DEF FindTop, SizeInv, ReservedInv
<1>2. CASE SizeBitmap
  <2>1. TopInv'
    BY <1>0, <1>m, <1>2 DEF SizeBitmap, TopInv, End, TypeOK
  <2>2. SizeInv'
    BY <1>0, <1>2, Rounding DEF SizeBitmap, SizeInv, TypeOK, NumBits
  <2> QED BY <1>0, <1>2, <2>1, <2>2 DEF SizeBitmap, ReservedInv
<1>3. CASE SkipRegion
  BY <1>0, <1>3 DEF SkipRegion, TopInv, SizeInv, ReservedInv, End, NumBits
<1>4. CASE Place
  <2>1. TopInv' /\ SizeInv'
    BY <1>0, <1>4 DEF Place, TopInv, SizeInv, End, NumBits
  <2>2. bitmap_in_pages \in Nat /\ bitmap_in_pages <= bmap_in_bytes /\ bmap_in_bytes \in Nat
    BY <1>0, WholePagesOfBitmap DEF TypeOK
  <2>3. bmap_page' + bitmap_in_pages <= NumBits
    <3>1. CASE bmap_page' = 0
      <4>1. bmap_page' + bitmap_in_pages = bitmap_in_pages
        BY <2>2, <3>1
      <4>2. bitmap_in_pages <= bmap_in_bytes * 8
        BY <2>2
      <4> QED BY <4>1, <4>2 DEF NumBits
    <3>2. CASE i <= Len(memmap) /\ CanHold(memmap[i]) /\ bmap_page' = memmap[i].base
      <4>1. i \in DOMAIN memmap /\ memmap[i].base \in Nat /\ memmap[i].len \in Nat
        <5>1. i \in Nat /\ i > 0
          BY <1>0, <1>m DEF TypeOK
        <5>2. i \in DOMAIN memmap
          BY <1>m, <3>2, <5>1
        <5> QED BY <1>m, <5>2 DEF Region
      <4>2. bitmap_in_pages < memmap[i].len
        <5>1. memmap[i].len * PageBytes > bmap_in_bytes
          BY <3>2 DEF CanHold
        <5>2. bmap_in_bytes \in Nat /\ PageBytes \in Nat /\ PageBytes > 0
          BY <1>0, PageBytesAssumption DEF TypeOK
        <5> QED BY <4>1, <5>1, <5>2, WholePages DEF bitmap_in_pages
      <4>3. memmap[i].base + memmap[i].len <= highest /\ highest <= NumBits
        BY <1>4, <3>2, <4>1 DEF Place, CanHold, TopInv, SizeInv, End
      <4>4. highest \in Nat /\ NumBits \in Nat
        BY <1>0 DEF NumBits, TypeOK
      <4> QED BY <2>2, <3>2, <4>1, <4>2, <4>3, <4>4
    <3> QED BY <1>4, <3>1, <3>2 DEF Place
  <2> QED BY <1>0, <1>4, <2>1, <2>3 DEF Place, ReservedInv, NumBits, bitmap_in_pages
<1>5. CASE ClearRegion \/ Reserve \/ Malloc \/ MallocRunsOff \/ WriteBuffer \/ UNCHANGED vars
  <2>1. UNCHANGED <<memmap, highest, bmap_in_bytes, bmap_page>> /\ (pc # "top" \/ UNCHANGED <<pc, i>>)
        /\ (pc' = pc \/ (pc = "clear" /\ pc' = "ready"))
    BY <1>5 DEF ClearRegion, Reserve, Malloc, MallocRunsOff, WriteBuffer, vars
  <2> QED BY <1>0, <2>1 DEF TopInv, SizeInv, ReservedInv, End, NumBits, bitmap_in_pages
<1> QED BY <1>1, <1>2, <1>3, <1>4, <1>5 DEF Next

LEMMA BoundsInit == Init => BoundsInv
<1> SUFFICES ASSUME Init PROVE BoundsInv
  OBVIOUS
<1>1. memmap \in Seq(Region)
  BY MemMapsAssumption DEF Init
<1> QED BY <1>1 DEF Init, BoundsInv, TypeOK, TopInv, SizeInv, ReservedInv, End, Buffers

LEMMA BoundsImply == BoundsInv => InBounds
<1> SUFFICES ASSUME BoundsInv, pc = "clear" PROVE InBounds
  BY DEF InBounds
<1>1. DOMAIN bits = 0..(NumBits - 1) /\ NumBits \in Nat
  BY DEF BoundsInv, TypeOK, NumBits
<1>2. ASSUME NEW k \in DOMAIN memmap, memmap[k].type = "usable"
      PROVE  Pages(memmap[k]) \subseteq 0..(NumBits - 1)
  <2>1. memmap[k] \in Region /\ End(k) <= highest /\ highest <= NumBits /\ highest \in Nat
    BY <1>2, MapType DEF BoundsInv, TopInv, SizeInv, TypeOK
  <2> QED BY <1>1, <2>1 DEF Pages, End, Region
<1>3. Reserved \subseteq 0..(NumBits - 1)
  BY <1>1, WholePagesOfBitmap DEF BoundsInv, ReservedInv, Reserved, TypeOK
<1> QED BY <1>1, <1>2, <1>3 DEF InBounds

\* For every memory map: bitmap_init never touches a bit outside the bitmap.
THEOREM BitmapInBounds == Spec => []InBounds
BY BoundsInit, BoundsStep, BoundsImply, PTL DEF Spec


-----------------------------------------------------------------------------
(* What malloc hands out.                                                    *)

Sound == ~TailHanded /\ Narrow

\* A free bit is that of a usable page, and none of the bitmap's whole pages.
FreeInv ==
  pc \in {"clear", "ready"} /\ Sound =>
    \A p \in DOMAIN bits : bits[p] = 0 => Usable(p) /\ (pc = "ready" => p \notin Reserved)

\* The bit of a page handed out stays set.
TakenInv ==
  /\ pc # "ready" => handed = {}
  /\ Sound => \A h \in handed : h[2] \in DOMAIN bits /\ bits[h[2]] = 1

AllocInv == BoundsInv /\ FreeInv /\ TakenInv /\ HandedUsable /\ HandedDistinct

LEMMA UsableBelow ==
  ASSUME BoundsInv, pc # "top", NEW p \in Int, Usable(p)
  PROVE  p \in Nat /\ p < highest
<1>1. PICK k \in DOMAIN memmap : memmap[k].type = "usable" /\ p \in Pages(memmap[k])
  BY DEF Usable
<1>2. memmap[k] \in Region /\ memmap[k].base + memmap[k].len <= highest /\ highest \in Nat
  BY <1>1, MapType DEF BoundsInv, TopInv, End, TypeOK
<1> QED BY <1>1, <1>2 DEF Pages, Region

\* A page that is none of the bitmap's holds no bit of it.
LEMMA NoBitsOutside ==
  ASSUME TypeOK, pc = "ready", NEW p \in Nat, p \notin Reserved, p \notin TailPages
  PROVE  BitsIn(p) \cap DOMAIN bits = {}
<1>1. /\ bmap_in_bytes \in Nat /\ bmap_page \in Nat /\ bitmap_in_pages \in Nat /\ PageBytes \in Nat
      /\ DOMAIN bits = 0..(bmap_in_bytes * 8 - 1)
  BY PageBytesAssumption, WholePagesOfBitmap DEF TypeOK, NumBits
<1> DEFINE k == p - bmap_page
<1>2. k \in Int
  BY <1>1
<1>3. BitsIn(p) = (k * PageBytes * 8)..((k + 1) * PageBytes * 8 - 1)
  BY DEF BitsIn
<1>4. CASE k < 0
  <2>1. (k + 1) * PageBytes <= 0 * PageBytes
    BY <1>1, <1>2, <1>4, Product
  <2>2. (k + 1) * PageBytes * 8 - 1 < 0
    BY <1>1, <1>2, <2>1
  <2> HIDE DEF k
  <2> QED BY <1>1, <1>2, <1>3, <2>2
<1>5. CASE k >= 0
  <2>1. k >= bitmap_in_pages
    BY <1>1, <1>5 DEF Reserved
  <2>2. bmap_in_bytes % PageBytes # 0 => k # bitmap_in_pages
    BY <1>1 DEF TailPages
  <2> HIDE DEF k
  <2>3. k * PageBytes >= bmap_in_bytes
    BY <1>1, <1>2, <1>5, <2>1, <2>2, PageBytesAssumption, BehindTheBytes DEF bitmap_in_pages
  <2>4. k * PageBytes * 8 >= bmap_in_bytes * 8
    BY <1>1, <1>2, <2>3
  <2> QED BY <1>1, <1>2, <1>3, <2>4
<1> QED BY <1>2, <1>4, <1>5

\* So the owner of a buffer writes on no bit.
LEMMA WriteKeepsBits ==
  ASSUME AllocInv, Sound, pc = "ready", NEW h \in handed, NEW v \in {0, 1}, SetBits(BitsIn(h[2]), v)
  PROVE  bits' = bits
<1>1. h[2] \in Nat /\ h[2] \notin Reserved /\ h[2] \notin TailPages
  <2>1. Usable(h[2]) /\ h[2] \notin Reserved /\ h[2] \in Int
    BY DEF AllocInv, BoundsInv, TypeOK, HandedUsable, Sound
  <2> QED BY <2>1, UsableBelow DEF AllocInv, TailHanded, Sound
<1>2. BitsIn(h[2]) \cap DOMAIN bits = {}
  BY <1>1, NoBitsOutside DEF AllocInv, BoundsInv
<1> QED BY <1>2 DEF SetBits, AllocInv, BoundsInv, TypeOK

LEMMA AllocStep == AllocInv /\ [Next]_vars => AllocInv'
<1> SUFFICES ASSUME AllocInv, [Next]_vars PROVE AllocInv'
  OBVIOUS
<1>0. BoundsInv /\ BoundsInv' /\ TypeOK /\ TypeOK'
  BY BoundsStep DEF AllocInv, BoundsInv
<1>1. ASSUME UNCHANGED <<memmap, pc, highest, bmap_in_bytes, bmap_page, bits, handed>>
      PROVE  AllocInv'
  BY <1>0, <1>1 DEF AllocInv, FreeInv, TakenInv, HandedUsable, HandedDistinct, Sound, TailHanded, TailPages,
                    Narrow, Usable, Reserved, bitmap_in_pages
<1>2. ASSUME handed' = {}, FreeInv' PROVE AllocInv'
  BY <1>0, <1>2 DEF AllocInv, TakenInv, HandedUsable, HandedDistinct
<1>3. CASE FindTop
  BY <1>0, <1>2, <1>3 DEF FindTop, FreeInv, AllocInv, TakenInv
<1>4. CASE SizeBitmap
  BY <1>0, <1>2, <1>4 DEF SizeBitmap, FreeInv, AllocInv, TakenInv
<1>5. CASE SkipRegion
  BY <1>0, <1>2, <1>5 DEF SkipRegion, FreeInv, AllocInv, TakenInv
<1>6. CASE Place
  BY <1>0, <1>2, <1>6 DEF Place, FreeInv, AllocInv, TakenInv
<1>7. CASE ClearRegion
  <2>1. handed' = {} /\ handed = {} /\ Sound' = Sound /\ DOMAIN bits' = DOMAIN bits
    BY <1>0, <1>7 DEF ClearRegion, AllocInv, TakenInv, SetBits, Sound, TailHanded, Narrow, TypeOK
  <2>2. i \in DOMAIN memmap
    BY <1>0, <1>7, MapType DEF ClearRegion, TypeOK
  <2>3. ASSUME Sound, NEW p \in DOMAIN bits, bits'[p] = 0 PROVE Usable(p)
    <3>1. CASE bits[p] = 0
      BY <1>7, <2>3, <3>1 DEF ClearRegion, AllocInv, FreeInv
    <3>2. CASE memmap[i].type = "usable" /\ p \in Pages(memmap[i])
      BY <2>2, <3>2 DEF Usable
    <3> QED BY <1>7, <2>3, <3>1, <3>2 DEF ClearRegion, SetBits
  <2>4. FreeInv'
    BY <1>7, <2>1, <2>3 DEF ClearRegion, FreeInv, Usable
  <2> QED BY <1>2, <2>1, <2>4
<1>8. CASE Reserve
  <2>1. handed' = {} /\ handed = {} /\ Sound' = Sound /\ DOMAIN bits' = DOMAIN bits
    BY <1>0, <1>8 DEF Reserve, AllocInv, TakenInv, SetBits, Sound, TailHanded, Narrow, TypeOK
  <2>2. ASSUME Sound, NEW p \in DOMAIN bits, bits'[p] = 0 PROVE Usable(p) /\ p \notin Reserved
    BY <1>8, <2>2 DEF Reserve, SetBits, AllocInv, FreeInv
  <2>3. FreeInv'
    BY <1>8, <2>1, <2>2 DEF Reserve, FreeInv, Usable, Reserved, bitmap_in_pages
  <2> QED BY <1>2, <2>1, <2>3
<1>9. CASE Malloc
  <2>a. PICK p \in DOMAIN bits :
          /\ FirstFree(p) /\ SetBits({p}, 1)
          /\ \E a \in Address(p) : handed' = handed \cup {<<Buffers[next], a>>}
    BY <1>9 DEF Malloc
  <2>b. PICK a \in Address(p) : handed' = handed \cup {<<Buffers[next], a>>}
    BY <2>a
  <2>1. FirstFree(p) /\ SetBits({p}, 1) /\ handed' = handed \cup {<<Buffers[next], a>>}
    BY <2>a, <2>b
  <2>2. pc = "ready" /\ UNCHANGED <<memmap, pc, highest, bmap_in_bytes, bmap_page>>
    BY <1>9 DEF Malloc
  <2>3. DOMAIN bits' = DOMAIN bits /\ \A q \in DOMAIN bits : bits'[q] = IF q = p THEN 1 ELSE bits[q]
    BY <1>0, <2>1 DEF SetBits, TypeOK
  <2>4. Sound' => Sound
    BY <2>1, <2>2 DEF Sound, TailHanded, TailPages, Narrow, bitmap_in_pages
  <2>5. ASSUME Sound'
        PROVE  a = p /\ Usable(p) /\ p \notin Reserved
    <3>1. Usable(p) /\ p \notin Reserved
      BY <2>1, <2>2, <2>4, <2>5 DEF AllocInv, FreeInv, FirstFree
    <3>2. p \in Int /\ highest \in Nat
      BY <1>0, <2>2 DEF TypeOK, NumBits
    <3>3. p < highest
      BY <1>0, <2>2, <3>1, <3>2, UsableBelow
    <3>4. p < IntPages
      BY <2>4, <2>5, <3>2, <3>3, IntPagesAssumption DEF Sound, Narrow
    <3> QED BY <2>1, <3>1, <3>4 DEF Address
  <2>6. FreeInv'
    BY <2>2, <2>3, <2>4 DEF FreeInv, AllocInv, Usable, Reserved, bitmap_in_pages
  <2>7. TakenInv'
    BY <2>1, <2>2, <2>3, <2>4, <2>5 DEF TakenInv, AllocInv
  <2>8. HandedUsable'
    BY <2>1, <2>2, <2>4, <2>5 DEF HandedUsable, AllocInv, Sound, Usable, Reserved, bitmap_in_pages
  <2>9. HandedDistinct'
    <3> SUFFICES ASSUME Sound', NEW g \in handed', NEW h \in handed', g[2] = h[2] PROVE g = h
      BY DEF HandedDistinct, Sound
    <3>1. \A x \in handed : x[2] # p
      BY <2>1, <2>4 DEF AllocInv, TakenInv, FirstFree
    <3> QED BY <2>1, <2>4, <2>5, <3>1 DEF AllocInv, HandedDistinct, Sound
  <2> QED BY <1>0, <2>6, <2>7, <2>8, <2>9 DEF AllocInv
<1>10. CASE MallocRunsOff
  BY <1>1, <1>10 DEF MallocRunsOff
<1>11. CASE WriteBuffer
  <2>1. PICK h \in handed, v \in {0, 1} : SetBits(BitsIn(h[2]), v)
    BY <1>11 DEF WriteBuffer
  <2>2. pc = "ready" /\ UNCHANGED <<memmap, pc, highest, bmap_in_bytes, bmap_page, handed>> /\ Sound' = Sound
    BY <1>11 DEF WriteBuffer, Sound, TailHanded, TailPages, Narrow, bitmap_in_pages
  <2>3. CASE Sound
    BY <1>1, <2>1, <2>2, <2>3, WriteKeepsBits
  <2>4. CASE ~Sound
    BY <1>0, <2>2, <2>4 DEF AllocInv, FreeInv, TakenInv, HandedUsable, HandedDistinct, Sound
  <2> QED BY <2>3, <2>4
<1>12. CASE UNCHANGED vars
  BY <1>1, <1>12 DEF vars
<1> QED BY <1>3, <1>4, <1>5, <1>6, <1>7, <1>8, <1>9, <1>10, <1>11, <1>12 DEF Next

LEMMA AllocInit == Init => AllocInv
BY BoundsInit DEF Init, AllocInv, FreeInv, TakenInv, HandedUsable, HandedDistinct

\* For every memory map and page size: unless the partly used page is given
\* away, buffers are distinct usable pages outside the bitmap, for ever.
THEOREM BuffersSound == Spec => []HandedSound
<1>1. AllocInv => HandedSound
  BY DEF AllocInv, HandedSound
<1> QED BY <1>1, AllocInit, AllocStep, PTL DEF Spec

\* And then nothing but malloc changes the bitmap.
THEOREM BitmapStaysIntact == Spec => BitmapIntact
<1>1. AllocInv /\ [Next]_vars =>
        [pc = "ready" /\ ~TailHanded /\ Narrow /\ bits' # bits => next' = next + 1]_vars
  <2> SUFFICES ASSUME AllocInv, Next, pc = "ready", Sound, bits' # bits PROVE next' = next + 1
    BY DEF Sound
  <2>1. CASE WriteBuffer
    BY <2>1, WriteKeepsBits DEF WriteBuffer
  <2> QED BY <2>1 DEF Next, FindTop, SizeBitmap, SkipRegion, Place, ClearRegion, Reserve, Malloc, MallocRunsOff
<1> QED BY <1>1, AllocInit, AllocStep, PTL DEF Spec, BitmapIntact

-----------------------------------------------------------------------------
(***************************************************************************)
(* FbInit.  The invariant follows the pool through the six blocks: how     *)
(* much of it is used up at most after each, in terms of the number of     *)
(* cells, which the limits on the screen keep below MaxCells.              *)
(***************************************************************************)

MaxCols  == 213     \* 1920 \div 9
MaxRows  == 75      \* 1200 \div 16
MaxCells == 15975

\* At most this much of the pool is used up after k blocks, for c cells.
Used(k, c) ==
  IF k = 0 THEN 15
  ELSE IF k = 1 THEN 831
  ELSE IF k = 2 THEN 4927
  ELSE IF k = 3 THEN 41791
  ELSE IF k = 4 THEN 41806 + 12 * c
  ELSE 41821 + 44 * c

\* The part of the screen that is used is on it and within the limits.
Within ==
  /\ area.left + area.width <= fb.width /\ area.top + area.height <= fb.height
  /\ area.width <= WIDTH_LIMIT /\ area.height <= HEIGHT_LIMIT

\* The cells are what fits into that part.
LaidOut ==
  /\ cols = area.width \div glyph_width /\ rows = area.height \div glyph_height
  /\ offset_x = (area.width % glyph_width) \div 2
  /\ offset_y = (area.height % glyph_height) \div 2

FbInv ==
  /\ FbTypeOK
  /\ PoolSuffices
  /\ fb_at \in {"scale", "limit"} => blocks = << >>
  /\ fb_at \in {"allocate", "draw"} => Within
  /\ fb_at = "allocate" => Len(blocks) <= 5 /\ bump_alloc_ptr <= Used(Len(blocks), Cells)
  /\ fb_at = "allocate" /\ Len(blocks) >= 3 => LaidOut
  /\ fb_at = "draw" => LaidOut

-----------------------------------------------------------------------------
(* Arithmetic.                                                             *)

\* bump_alloc takes what is asked for and at most 15 bytes more.
LEMMA RoundedBounds ==
  ASSUME NEW s \in Nat
  PROVE  Rounded(s) \in Nat /\ s <= Rounded(s) /\ Rounded(s) <= s + 15
BY DEF Rounded

\* What is a multiple of 16 is taken as it is.
LEMMA RoundedExact ==
  ASSUME NEW n \in Nat
  PROVE  Rounded(16 * n) = 16 * n
BY DEF Rounded

\* So many glyphs fit into a length, and the offset that centres them leaves the
\* last dot of the last one inside.
LEMMA Fits ==
  ASSUME NEW w \in Nat, NEW g \in {9, 18, 36, 16, 32, 64},
         NEW x \in 0..((w \div g) - 1), NEW d \in 0..(g - 1)
  PROVE  ((w % g) \div 2) + x * g + d \in 0..(w - 1)
<1>1. CASE g = 9  BY <1>1
<1>2. CASE g = 18 BY <1>2
<1>3. CASE g = 36 BY <1>3
<1>4. CASE g = 16 BY <1>4
<1>5. CASE g = 32 BY <1>5
<1>6. CASE g = 64 BY <1>6
<1> QED BY <1>1, <1>2, <1>3, <1>4, <1>5, <1>6

\* The cells of a screen within the limits.
LEMMA ProductBound ==
  ASSUME NEW r \in Nat, NEW c \in Nat, r <= MaxRows, c <= MaxCols
  PROVE  r * c \in Nat /\ r * c <= MaxCells
<1>1. (MaxRows - r) * c \in Nat /\ r * c \in Nat
  <2>1. MaxRows - r \in Nat /\ r \in Nat /\ c \in Nat
    BY DEF MaxRows, MaxCols
  <2>2. \A m, n \in Nat : m * n \in Nat
    OBVIOUS
  <2> QED BY <2>1, <2>2
<1>2. (MaxRows - r) * c = MaxRows * c - r * c
  BY DEF MaxRows, MaxCols
<1> QED BY <1>1, <1>2 DEF MaxRows, MaxCols, MaxCells

\* The geometry of a screen within the limits, whatever the scale.
LEMMA GeometryBounds ==
  ASSUME NEW w \in Nat, NEW h \in Nat, NEW s \in {1, 2, 4},
         w <= WIDTH_LIMIT, h <= HEIGHT_LIMIT
  PROVE  /\ w \div (FontWidth * s) \in Nat /\ w \div (FontWidth * s) <= MaxCols
         /\ h \div (FontHeight * s) \in Nat /\ h \div (FontHeight * s) <= MaxRows
         /\ (w % (FontWidth * s)) \div 2 \in Nat /\ (h % (FontHeight * s)) \div 2 \in Nat
<1>1. w <= 1920 /\ h <= 1200
  BY DEF WIDTH_LIMIT, HEIGHT_LIMIT
<1>2. CASE s = 1
  <2>1. FontWidth * s = 9 /\ FontHeight * s = 16
    BY <1>2 DEF FontWidth, FontHeight
  <2>2. /\ w \div 9 \in Nat /\ w \div 9 <= 213 /\ h \div 16 \in Nat /\ h \div 16 <= 75
        /\ (w % 9) \div 2 \in Nat /\ (h % 16) \div 2 \in Nat
    BY <1>1
  <2> QED BY <2>1, <2>2 DEF MaxCols, MaxRows
<1>3. CASE s = 2
  <2>1. FontWidth * s = 18 /\ FontHeight * s = 32
    BY <1>3 DEF FontWidth, FontHeight
  <2>2. /\ w \div 18 \in Nat /\ w \div 18 <= 213 /\ h \div 32 \in Nat /\ h \div 32 <= 75
        /\ (w % 18) \div 2 \in Nat /\ (h % 32) \div 2 \in Nat
    BY <1>1
  <2> QED BY <2>1, <2>2 DEF MaxCols, MaxRows
<1>4. CASE s = 4
  <2>1. FontWidth * s = 36 /\ FontHeight * s = 64
    BY <1>4 DEF FontWidth, FontHeight
  <2>2. /\ w \div 36 \in Nat /\ w \div 36 <= 213 /\ h \div 64 \in Nat /\ h \div 64 <= 75
        /\ (w % 36) \div 2 \in Nat /\ (h % 64) \div 2 \in Nat
    BY <1>1
  <2> QED BY <2>1, <2>2 DEF MaxCols, MaxRows
<1> QED BY <1>2, <1>3, <1>4

\* What is cut out of the middle of a length lies in it.
LEMMA Middle ==
  ASSUME NEW n \in Nat, NEW limit \in Nat, NEW m, m = Least(n, limit)
  PROVE  /\ m \in Nat /\ m <= limit
         /\ (n \div 2) - (m \div 2) \in Nat
         /\ (n \div 2) - (m \div 2) + m <= n
<1>1. CASE n < limit
  BY <1>1 DEF Least
<1>2. CASE ~(n < limit)
  BY <1>2 DEF Least
<1> QED BY <1>1, <1>2

\* The middle of a screen, cut to the limits, is on it.
LEMMA LimitedWithin ==
  ASSUME NEW f \in Framebuffers
  PROVE  /\ Limited(f) \in [left : Nat, top : Nat, width : Nat, height : Nat]
         /\ Limited(f).left + Limited(f).width <= f.width
         /\ Limited(f).top + Limited(f).height <= f.height
         /\ Limited(f).width <= WIDTH_LIMIT /\ Limited(f).height <= HEIGHT_LIMIT
<1>1. f.width \in Nat /\ f.height \in Nat
  BY FramebuffersAssumption DEF Framebuffer
<1>2. WIDTH_LIMIT \in Nat /\ HEIGHT_LIMIT \in Nat
  BY DEF WIDTH_LIMIT, HEIGHT_LIMIT
<1>3. PICK n \in Nat, m \in Nat : n = f.width /\ m = f.height
  BY <1>1
<1>4. PICK w, h : w = Least(n, WIDTH_LIMIT) /\ h = Least(m, HEIGHT_LIMIT)
  OBVIOUS
<1>5. /\ w \in Nat /\ w <= WIDTH_LIMIT /\ (n \div 2) - (w \div 2) \in Nat
      /\ (n \div 2) - (w \div 2) + w <= n
  BY <1>2, <1>4, Middle
<1>6. /\ h \in Nat /\ h <= HEIGHT_LIMIT /\ (m \div 2) - (h \div 2) \in Nat
      /\ (m \div 2) - (h \div 2) + h <= m
  BY <1>2, <1>4, Middle
<1>7. Limited(f) = [left |-> (n \div 2) - (w \div 2), top |-> (m \div 2) - (h \div 2),
                    width |-> w, height |-> h]
  BY <1>3, <1>4 DEF Limited
<1> QED BY <1>3, <1>5, <1>6, <1>7

\* What the proofs need of a framebuffer.
LEMMA FramebufferSize ==
  ASSUME NEW f \in Framebuffers
  PROVE  f.width \in Nat /\ f.height \in Nat
BY FramebuffersAssumption DEF Framebuffer

-----------------------------------------------------------------------------
(* The invariant.                                                          *)

LEMMA FbInitially ==
  ASSUME NEW f \in Framebuffers, FbStart(f)
  PROVE  FbInv
<1>1. fb_at = "scale" /\ blocks = << >> /\ fb = f
  BY DEF FbStart
<1>2. FbTypeOK
  <2>1. area \in [left : Nat, top : Nat, width : Nat, height : Nat]
    BY FramebufferSize DEF FbStart
  <2>2. font_scale \in {1, 2, 4} /\ bump_alloc_ptr \in Nat /\ bump_alloc_ptr <= POOL_SIZE
    BY DEF FbStart, POOL_SIZE
  <2>3. blocks \in Seq(Nat) /\ Len(blocks) <= 6
    BY <1>1
  <2>4. cols \in Nat /\ rows \in Nat /\ offset_x \in Nat /\ offset_y \in Nat
    BY DEF FbStart
  <2> QED BY <1>1, <2>1, <2>2, <2>3, <2>4 DEF FbTypeOK
<1> QED BY <1>1, <1>2 DEF FbInv, PoolSuffices

LEMMA ChooseScaleKeeps == FbInv /\ ChooseScale => FbInv'
BY DEF FbInv, FbTypeOK, PoolSuffices, ChooseScale, ScaleOf, GoodMasks, geometry

LEMMA LimitKeeps == FbInv /\ Limit => FbInv'
<1> SUFFICES ASSUME FbInv, Limit PROVE FbInv'
  OBVIOUS
<1>1. fb' = fb /\ fb \in Framebuffers /\ fb_at' = "allocate" /\ blocks' = << >>
  BY DEF FbInv, FbTypeOK, Limit
<1>2. Within' /\ area' \in [left : Nat, top : Nat, width : Nat, height : Nat]
  BY <1>1, LimitedWithin DEF Limit, Within
<1>3. bump_alloc_ptr' \in 0..15
  BY PoolSkewsAssumption DEF Limit
<1>4. Len(blocks') = 0
  BY <1>1
<1>5. FbTypeOK'
  <2>1. /\ font_scale' = font_scale /\ cols' = cols /\ rows' = rows
        /\ offset_x' = offset_x /\ offset_y' = offset_y
    BY DEF Limit, geometry
  <2>2. bump_alloc_ptr' \in Nat /\ bump_alloc_ptr' <= POOL_SIZE
    BY <1>3 DEF POOL_SIZE
  <2>3. blocks' \in Seq(Nat) /\ Len(blocks') <= 6
    BY <1>1, <1>4
  <2> QED BY <1>1, <1>2, <2>1, <2>2, <2>3 DEF FbInv, FbTypeOK
<1> QED BY <1>1, <1>2, <1>3, <1>4, <1>5 DEF FbInv, PoolSuffices, Used

\* The cells that are laid out are no more than the pool was made for.
LEMMA CellsBounded == FbInv /\ Within /\ LaidOut => Cells \in Nat /\ Cells <= MaxCells
<1> SUFFICES ASSUME FbInv, Within, LaidOut PROVE Cells \in Nat /\ Cells <= MaxCells
  OBVIOUS
<1>1. /\ area.width \in Nat /\ area.width <= WIDTH_LIMIT
      /\ area.height \in Nat /\ area.height <= HEIGHT_LIMIT /\ font_scale \in {1, 2, 4}
  BY DEF FbInv, FbTypeOK, Within
<1>2. cols \in Nat /\ cols <= MaxCols /\ rows \in Nat /\ rows <= MaxRows
  BY <1>1, GeometryBounds DEF LaidOut, glyph_width, glyph_height
<1> QED BY <1>2, ProductBound DEF Cells

\* Every block finds its place in the pool.
LEMMA AllocateFits ==
  ASSUME FbInv, fb_at = "allocate"
  PROVE  LET k == Len(blocks) + 1
             end == bump_alloc_ptr + Rounded(Wanted[k])
         IN  /\ k \in 1..6 /\ Wanted[k] \in Nat
             /\ end \in Nat /\ end <= POOL_SIZE
             /\ k <= 5 => end <= Used(k, Cells)
<1>1. Len(blocks) \in 0..5 /\ bump_alloc_ptr \in Nat /\ bump_alloc_ptr <= Used(Len(blocks), Cells)
  <2>1. blocks \in Seq(Nat) /\ bump_alloc_ptr \in Nat
    BY DEF FbInv, FbTypeOK
  <2>2. Len(blocks) <= 5
    BY Zenon DEF FbInv
  <2>3. bump_alloc_ptr <= Used(Len(blocks), Cells)
    BY Zenon DEF FbInv
  <2>4. Len(blocks) \in 0..5
    <3>1. PICK n : n = Len(blocks)
      OBVIOUS
    <3>2. n \in Nat
      BY <2>1, <3>1
    <3>3. n <= 5
      BY Zenon, <2>2, <3>1
    <3>4. n \in 0..5
      BY <3>2, <3>3
    <3> QED BY Zenon, <3>1, <3>4
  <2> QED BY Zenon, <2>1, <2>3, <2>4
<1>2. Len(blocks) >= 3 => Cells \in Nat /\ Cells <= MaxCells
  BY CellsBounded DEF FbInv
<1>3. CASE Len(blocks) = 0
  <2>1. Wanted[1] = 816
    BY DEF Wanted
  <2>2. Rounded(816) = 816
    BY DEF Rounded
  <2>3. bump_alloc_ptr <= 15
    BY <1>1, <1>3 DEF Used
  <2>4. Used(1, Cells) = 831
    BY DEF Used
  <2> QED BY <1>1, <1>3, <2>1, <2>2, <2>3, <2>4 DEF POOL_SIZE
<1>4. CASE Len(blocks) = 1
  <2>1. Wanted[2] = 4096
    BY DEF Wanted
  <2>2. Rounded(4096) = 4096
    BY DEF Rounded
  <2>3. bump_alloc_ptr <= 831
    BY <1>1, <1>4 DEF Used
  <2>4. Used(2, Cells) = 4927
    BY DEF Used
  <2> QED BY <1>1, <1>4, <2>1, <2>2, <2>3, <2>4 DEF POOL_SIZE
<1>5. CASE Len(blocks) = 2
  <2>1. Wanted[3] = 36864
    BY DEF Wanted, FontHeight, FontWidth
  <2>2. Rounded(36864) = 36864
    BY DEF Rounded
  <2>3. bump_alloc_ptr <= 4927
    BY <1>1, <1>5 DEF Used
  <2>4. Used(3, Cells) = 41791
    BY DEF Used
  <2> QED BY <1>1, <1>5, <2>1, <2>2, <2>3, <2>4 DEF POOL_SIZE
<1>6. CASE Len(blocks) = 3
  <2>1. Wanted[4] = 12 * Cells /\ 12 * Cells \in Nat
    BY <1>2, <1>6 DEF Wanted, MaxCells
  <2>2. Rounded(12 * Cells) \in Nat /\ Rounded(12 * Cells) <= 12 * Cells + 15
    BY <2>1, RoundedBounds
  <2> QED BY <1>1, <1>2, <1>6, <2>1, <2>2 DEF Used, POOL_SIZE, MaxCells
<1>7. CASE Len(blocks) = 4
  <2>1. Wanted[5] = 32 * Cells /\ 32 * Cells = 16 * (2 * Cells) /\ 2 * Cells \in Nat
    BY <1>2, <1>7 DEF Wanted, MaxCells
  <2>2. Rounded(32 * Cells) = 32 * Cells
    BY <2>1, RoundedExact
  <2> QED BY <1>1, <1>2, <1>7, <2>1, <2>2 DEF Used, POOL_SIZE, MaxCells
<1>8. CASE Len(blocks) = 5
  <2>1. Wanted[6] = 8 * Cells /\ 8 * Cells \in Nat
    BY <1>2, <1>8 DEF Wanted, MaxCells
  <2>2. Rounded(8 * Cells) \in Nat /\ Rounded(8 * Cells) <= 8 * Cells + 15
    BY <2>1, RoundedBounds
  <2> QED BY <1>1, <1>2, <1>8, <2>1, <2>2 DEF Used, POOL_SIZE, MaxCells
<1> QED BY <1>1, <1>3, <1>4, <1>5, <1>6, <1>7, <1>8

LEMMA AllocateKeeps == FbInv /\ Allocate => FbInv'
<1> SUFFICES ASSUME FbInv, Allocate PROVE FbInv'
  OBVIOUS
<1> DEFINE k == Len(blocks) + 1
           end == bump_alloc_ptr + Rounded(Wanted[k])
<1>1. fb_at = "allocate" /\ fb' = fb /\ font_scale' = font_scale /\ area' = area
  BY DEF Allocate
<1>2. k \in 1..6 /\ Wanted[k] \in Nat /\ end \in Nat /\ end <= POOL_SIZE /\ (k <= 5 => end <= Used(k, Cells))
  BY <1>1, AllocateFits
<1>3. /\ bump_alloc_ptr' = end /\ blocks' = Append(blocks, Wanted[k])
      /\ IF k = 3 THEN Layout ELSE UNCHANGED geometry
      /\ fb_at' = IF k = 6 THEN "draw" ELSE "allocate"
  BY <1>2 DEF Allocate, POOL_SIZE
<1>4. blocks \in Seq(Nat) /\ blocks' \in Seq(Nat) /\ Len(blocks') = k
  BY <1>2, <1>3 DEF FbInv, FbTypeOK
<1>5. Within /\ Within'
  BY <1>1 DEF FbInv, Within
<1>6. /\ area.width \in Nat /\ area.width <= WIDTH_LIMIT
      /\ area.height \in Nat /\ area.height <= HEIGHT_LIMIT /\ font_scale \in {1, 2, 4}
  BY <1>5 DEF FbInv, FbTypeOK, Within
<1>7. cols' \in Nat /\ rows' \in Nat /\ offset_x' \in Nat /\ offset_y' \in Nat
  <2>1. CASE k = 3
    <3>1. /\ cols' = area.width \div (FontWidth * font_scale)
          /\ rows' = area.height \div (FontHeight * font_scale)
          /\ offset_x' = (area.width % (FontWidth * font_scale)) \div 2
          /\ offset_y' = (area.height % (FontHeight * font_scale)) \div 2
      BY <1>3, <2>1 DEF Layout, glyph_width, glyph_height
    <3> QED BY <1>6, <3>1, GeometryBounds
  <2>2. CASE k # 3
    BY <1>3, <2>2 DEF FbInv, FbTypeOK, geometry
  <2> QED BY <2>1, <2>2
<1>8. k >= 3 => LaidOut'
  <2>1. CASE k = 3
    BY <1>1, <1>3, <2>1 DEF Layout, LaidOut, glyph_width, glyph_height
  <2>2. CASE k > 3
    <3>1. LaidOut
      BY <1>1, <1>2, <2>2 DEF FbInv
    <3> QED BY <1>1, <1>3, <2>2, <3>1 DEF LaidOut, geometry, glyph_width, glyph_height
  <2> QED BY <1>2, <2>1, <2>2
<1>9. FbTypeOK'
  BY <1>1, <1>2, <1>3, <1>4, <1>7 DEF FbInv, FbTypeOK
<1>10. k <= 5 => bump_alloc_ptr' <= Used(k, Cells')
  <2>1. CASE k = 3
    BY <1>2, <1>3, <2>1 DEF Used
  <2>2. CASE k # 3
    BY <1>2, <1>3, <2>2 DEF Cells, geometry
  <2> QED BY <2>1, <2>2
<1> QED
  BY <1>2, <1>3, <1>4, <1>5, <1>8, <1>9, <1>10 DEF FbInv, PoolSuffices

LEMMA RefreshKeeps == FbInv /\ Refresh => FbInv'
BY DEF FbInv, FbTypeOK, PoolSuffices, Refresh, geometry

LEMMA FbStutterKeeps == FbInv /\ UNCHANGED fbVars => FbInv'
BY DEF FbInv, FbTypeOK, PoolSuffices, GoodMasks, Within, LaidOut, Cells,
       glyph_width, glyph_height, fbVars, geometry

THEOREM FbInvariant == FbSpec => []FbInv
<1>1. (\E f \in Framebuffers : FbStart(f)) => FbInv
  BY FbInitially
<1>2. FbInv /\ [FbNext]_fbVars => FbInv'
  BY ChooseScaleKeeps, LimitKeeps, AllocateKeeps, RefreshKeeps, FbStutterKeeps DEF FbNext
<1> QED BY <1>1, <1>2, PTL DEF FbSpec

-----------------------------------------------------------------------------
(* What follows.                                                           *)

\* flanterm_fb_init's variables keep their types; above all no difference of
\* unsigned lengths wraps.
THEOREM FbTypeCorrect == FbSpec => []FbTypeOK
<1>1. FbInv => FbTypeOK
  BY DEF FbInv
<1> QED BY <1>1, FbInvariant, PTL

\* The 873000 bytes of the pool are enough for every framebuffer, however the
\* pool is aligned: NULL comes back only for unsupported masks.
THEOREM PoolIsEnough == FbSpec => []PoolSuffices
<1>1. FbInv => PoolSuffices
  BY DEF FbInv
<1> QED BY <1>1, FbInvariant, PTL

LEMMA CellsAreInside == FbInv => CellsInside
<1> SUFFICES ASSUME FbInv, fb_at = "draw" PROVE CellsInside
  BY DEF CellsInside
<1>1. /\ Within /\ LaidOut /\ font_scale \in {1, 2, 4}
      /\ area \in [left : Nat, top : Nat, width : Nat, height : Nat]
      /\ fb.width \in Nat /\ fb.height \in Nat
  BY FramebufferSize DEF FbInv, FbTypeOK
<1>2. glyph_width \in {9, 18, 36} /\ glyph_height \in {16, 32, 64}
  BY <1>1 DEF glyph_width, glyph_height, FontWidth, FontHeight
<1>3. ASSUME NEW x \in 0..(cols - 1), NEW gx \in 0..(glyph_width - 1)
      PROVE  PixelColumn(x, gx) \in 0..(fb.width - 1)
  <2>1. offset_x + x * glyph_width + gx \in 0..(area.width - 1)
    BY <1>1, <1>2, <1>3, Fits DEF LaidOut
  <2>2. x * glyph_width \in Nat /\ offset_x \in Nat
    BY <1>2, <1>3 DEF FbInv, FbTypeOK
  <2> QED BY <1>1, <1>2, <2>1, <2>2 DEF PixelColumn, Within
<1>4. ASSUME NEW y \in 0..(rows - 1), NEW gy \in 0..(glyph_height - 1)
      PROVE  PixelRow(y, gy) \in 0..(fb.height - 1)
  <2>1. offset_y + y * glyph_height + gy \in 0..(area.height - 1)
    BY <1>1, <1>2, <1>4, Fits DEF LaidOut
  <2>2. y * glyph_height \in Nat /\ offset_y \in Nat
    BY <1>2, <1>4 DEF FbInv, FbTypeOK
  <2> QED BY <1>1, <1>2, <2>1, <2>2 DEF PixelRow, Within
<1> QED BY <1>3, <1>4 DEF CellsInside

\* On every screen every pixel of every cell is on it, also where the screen is
\* larger than the limits or no multiple of the glyphs.
THEOREM CellsStayInside == FbSpec => []CellsInside
BY CellsAreInside, FbInvariant, PTL

\* The columns of a dot, and the dot of a column, in a cell scaled by s.
LEMMA DotColumns ==
  ASSUME NEW s \in {1, 2, 4}, NEW d \in 0..8, NEW n \in 0..(s - 1)
  PROVE  d * s + n \in 0..(9 * s - 1) /\ (d * s + n) \div s = d
<1>1. CASE s = 1 BY <1>1
<1>2. CASE s = 2 BY <1>2
<1>3. CASE s = 4 BY <1>3
<1> QED BY <1>1, <1>2, <1>3

LEMMA ColumnsDot ==
  ASSUME NEW s \in {1, 2, 4}, NEW g \in 0..(9 * s - 1)
  PROVE  g \div s \in 0..8 /\ g % s \in 0..(s - 1) /\ (g \div s) * s + (g % s) = g
<1>1. CASE s = 1 BY <1>1
<1>2. CASE s = 2 BY <1>2
<1>3. CASE s = 4 BY <1>3
<1> QED BY <1>1, <1>2, <1>3

\* The walk's address of a pixel is that of its column and row.
LEMMA WalkAddress ==
  ASSUME NEW S \in Int, NEW t \in Int, NEW l \in Int, NEW p \in Int, NEW q \in Int,
         NEW c \in Int, NEW r \in Int
  PROVE  (t * S + l) + p + q * S + r * S + c = (t + q + r) * S + (l + p + c)
<1>1. (t + q + r) * S = t * S + q * S + r * S
  OBVIOUS
<1>2. PICK ts \in Int, qs \in Int, rs \in Int : ts = t * S /\ qs = q * S /\ rs = r * S
  OBVIOUS
<1> QED BY <1>1, <1>2

LEMMA PlotsExactly == FbInv => PlotExact
<1> SUFFICES ASSUME FbInv, NEW x \in Nat, NEW y \in Nat
             PROVE  Walk(x, y) =
                      {<<PixelRow(y, g[2]) * fb.stride + PixelColumn(x, g[1]),
                         <<g[1] \div font_scale, g[2] \div font_scale>>>> :
                         g \in (0..(glyph_width - 1)) \X (0..(glyph_height - 1))}
  BY DEF PlotExact
<1>1. PICK s \in {1, 2, 4} : s = font_scale
  BY DEF FbInv, FbTypeOK
<1>2. glyph_width = 9 * s /\ glyph_height \in Nat /\ glyph_width \in Nat
  BY <1>1 DEF glyph_width, glyph_height, FontWidth, FontHeight
<1>3. PICK S \in Int, t \in Int, l \in Int, ox \in Int, oy \in Int, xw \in Int, yh \in Int :
        /\ S = fb.stride /\ t = area.top /\ l = area.left /\ ox = offset_x /\ oy = offset_y
        /\ xw = x * glyph_width /\ yh = y * glyph_height
  <2>1. fb.stride \in Nat /\ area.top \in Nat /\ area.left \in Nat
    <3>1. fb \in Framebuffer /\ area \in [left : Nat, top : Nat, width : Nat, height : Nat]
      BY FramebuffersAssumption DEF FbInv, FbTypeOK
    <3> QED BY <3>1 DEF Framebuffer
  <2>2. offset_x \in Nat /\ offset_y \in Nat
    BY DEF FbInv, FbTypeOK
  <2>3. x * glyph_width \in Int /\ y * glyph_height \in Int
    BY <1>2
  <2> QED BY <2>1, <2>2, <2>3
<1>p. PICK p \in Int, q \in Int : p = ox + xw /\ q = oy + yh
  OBVIOUS
<1> DEFINE Pixel(c, r) == <<(t + q + r) * S + (l + p + c), <<c \div s, r \div s>>>>
           Square == (0..(glyph_width - 1)) \X (0..(glyph_height - 1))
<1>4. ASSUME NEW c \in Int, NEW r \in Int
      PROVE  /\ PixelRow(y, r) * fb.stride + PixelColumn(x, c) = (t + q + r) * S + (l + p + c)
             /\ Dest(x, y) + r * fb.stride + c = (t + q + r) * S + (l + p + c)
  <2>1. PixelRow(y, r) = t + q + r /\ PixelColumn(x, c) = l + p + c
    <3>1. PixelRow(y, r) = t + oy + yh + r /\ PixelColumn(x, c) = l + ox + xw + c
      BY <1>3 DEF PixelRow, PixelColumn
    <3> QED BY <1>p, <1>4, <3>1
  <2>2. Dest(x, y) = (t * S + l) + p + q * S
    <3>1. Dest(x, y) = (t * S + l) + ox + xw + (oy + yh) * S
      BY <1>3 DEF Dest, framebuffer
    <3>2. PICK a \in Int : a = t * S + l
      OBVIOUS
    <3> QED BY <1>p, <3>1, <3>2
  <2>3. (t * S + l) + p + q * S + r * S + c = (t + q + r) * S + (l + p + c)
    BY <1>4, WalkAddress
  <2> QED BY <1>3, <2>1, <2>2, <2>3
<1>d. Dest(x, y) \in Int
  <2>1. PICK a \in Int, b \in Int : a = t * S /\ b = (oy + yh) * S
    OBVIOUS
  <2>2. Dest(x, y) = (a + l) + ox + xw + b
    BY <1>3, <2>1 DEF Dest, framebuffer
  <2> QED BY <2>2
<1>5. ASSUME NEW w \in Walk(x, y)
      PROVE  \E g \in Square : w = Pixel(g[1], g[2])
  <2>1. PICK r \in 0..(glyph_height - 1), d \in 0..8, n \in 0..(s - 1) :
          w = <<Dest(x, y) + r * fb.stride + d * s + n, <<d, r \div s>>>>
    BY <1>1, <1>5 DEF Walk, FontWidth
  <2>2. PICK c \in Int : c = d * s + n /\ c \in 0..(9 * s - 1) /\ c \div s = d
    <3>1. d * s + n \in 0..(9 * s - 1) /\ (d * s + n) \div s = d
      BY DotColumns
    <3> QED BY <3>1
  <2>3. Dest(x, y) + r * fb.stride + d * s + n = Dest(x, y) + r * fb.stride + c
    <3>1. PICK a \in Int, b \in Int, e \in Int : a = Dest(x, y) /\ b = r * fb.stride /\ e = d * s
      <4>1. fb.stride \in Int /\ Dest(x, y) \in Int
        BY <1>d, <1>3
      <4> QED BY <4>1
    <3> QED BY <2>2, <3>1
  <2>4. w = Pixel(c, r)
    <3>1. r \in Int
      BY <1>2
    <3>2. Dest(x, y) + r * fb.stride + c = (t + q + r) * S + (l + p + c)
      BY <1>4, <3>1
    <3> QED BY <2>1, <2>2, <2>3, <3>2
  <2>5. <<c, r>> \in Square
    BY <1>2, <2>2
  <2> HIDE DEF Pixel, Square
  <2> QED BY <2>4, <2>5
<1>6. ASSUME NEW g \in Square
      PROVE  Pixel(g[1], g[2]) \in Walk(x, y)
  <2>1. PICK c \in 0..(9 * s - 1), r \in 0..(glyph_height - 1) : c = g[1] /\ r = g[2]
    BY <1>2, <1>6
  <2>2. PICK d \in 0..8, n \in 0..(s - 1) : d = c \div s /\ n = c % s /\ d * s + n = c
    BY ColumnsDot
  <2>3. Pixel(c, r) = <<Dest(x, y) + r * fb.stride + d * s + n, <<d, r \div s>>>>
    <3>0. c \in Int /\ r \in Int /\ d \in Int /\ n \in Int
      BY <1>2
    <3>1. Dest(x, y) + r * fb.stride + c = (t + q + r) * S + (l + p + c)
      BY <1>4, <3>0
    <3>2. Dest(x, y) + r * fb.stride + d * s + n = Dest(x, y) + r * fb.stride + c
      <4>1. PICK a \in Int, b \in Int, e \in Int : a = Dest(x, y) /\ b = r * fb.stride /\ e = d * s
        <5>1. fb.stride \in Int /\ Dest(x, y) \in Int
          BY <1>d, <1>3
        <5> QED BY <5>1
      <4>2. a + b + e + n = a + b + c
        <5>1. e + n = c
          BY <2>2, <4>1
        <5>2. a + b + e + n = a + b + (e + n)
          BY <3>0
        <5> QED BY <5>1, <5>2
      <4> QED BY <4>1, <4>2
    <3> QED BY <2>2, <3>1, <3>2
  <2>4. <<Dest(x, y) + r * fb.stride + d * s + n, <<d, r \div s>>>> \in Walk(x, y)
    BY <1>1 DEF Walk, FontWidth
  <2> HIDE DEF Pixel
  <2> QED BY <2>1, <2>3, <2>4
<1>7. \A w \in Walk(x, y) : \E g \in Square : w = Pixel(g[1], g[2])
  BY <1>5
<1>8. Walk(x, y) = {Pixel(g[1], g[2]) : g \in Square}
  <2> HIDE DEF Pixel, Square
  <2> QED BY <1>6, <1>7
<1>9. ASSUME NEW g \in Square
      PROVE  Pixel(g[1], g[2]) =
               <<PixelRow(y, g[2]) * fb.stride + PixelColumn(x, g[1]),
                 <<g[1] \div font_scale, g[2] \div font_scale>>>>
  <2>1. g[1] \in Int /\ g[2] \in Int
    BY <1>2, <1>9
  <2> QED BY <1>1, <1>4, <2>1
<1> HIDE DEF Pixel
<1> QED BY <1>8, <1>9

\* Wherever the cell is and whatever the scale, the pointer walk of plot_char
\* writes each pixel of the cell, with the dot that the scaled cell has there.
THEOREM PlotsAreExact == FbSpec => []PlotExact
BY PlotsExactly, FbInvariant, PTL

-----------------------------------------------------------------------------
(***************************************************************************)
(* Ata: driver and drive stay in step, and the two together implement      *)
(* Disk.                                                                   *)
(***************************************************************************)

\* Where no command is under way the drive has nothing to say, but perhaps ERR.
Waiting ==
  ata_at \in {"idle", "probe", "wait"} => status \subseteq {"ERR"}

CallFits ==
  /\ ata_at = "idle" => call = NoCall
  /\ ata_at # "idle" => call.op \in {"read", "write"}
  /\ ata_at = "probe" => call.op = "read"

\* Until the transfer the buffer is as it was when the read began.
Untouched ==
  ata_at \in {"probe", "wait", "poll"} /\ call.op = "read" => before = buffer[call.buffer]

\* From the command on the drive knows what it was asked for.
Commanding ==
  ata_at \in {"poll", "transfer"} =>
    /\ command = [op |-> call.op, sector |-> Sent(call.lba)]
    /\ drive # "absent" /\ ata_i = moved
    /\ call.op = "write" => msg = call.data

Polling ==
  ata_at = "poll" =>
    /\ moved = 0
    /\ status \in {{"BSY"}, {"ERR"}, {"DRQ"}}
    /\ status = {"DRQ"} /\ call.op = "read" => latch = medium[command.sector]

\* The words moved so far are in the buffer, the others are as before.
Reading ==
  ata_at = "transfer" /\ call.op = "read" =>
    /\ latch = medium[command.sector]
    /\ \A b \in 1..(2 * Words) : b <= 2 * moved => buffer[call.buffer][b] = latch[b]
    /\ moved < Words => status = {"DRQ"}
    /\ moved = Words => status = {}

\* The words moved so far are in the drive.
Writing ==
  ata_at = "transfer" /\ call.op = "write" =>
    /\ \A b \in 1..(2 * Words) : b <= 2 * moved => latch[b] = msg[b]
    /\ moved < Words => status = {"DRQ"}
    /\ moved = Words => status \in {{"BSY"}, {"ERR"}, {}}

AtaInv ==
  /\ AtaTypeOK /\ Waiting /\ CallFits /\ Untouched
  /\ Commanding /\ Polling /\ Reading /\ Writing

-----------------------------------------------------------------------------
(* Sectors.                                                                *)

\* Putting a word in a sector changes its two bytes.
LEMMA PutWordAt ==
  ASSUME NEW s \in Content, NEW w \in 0..(Words - 1), NEW low \in Bytes, NEW high \in Bytes
  PROVE  /\ PutWord(s, w, low, high) \in Content
         /\ PutWord(s, w, low, high)[2 * w + 1] = low
         /\ PutWord(s, w, low, high)[2 * w + 2] = high
         /\ \A b \in 1..(2 * Words) :
              b # 2 * w + 1 /\ b # 2 * w + 2 => PutWord(s, w, low, high)[b] = s[b]
<1>1. 2 * w + 1 \in 1..(2 * Words) /\ 2 * w + 2 \in 1..(2 * Words) /\ 2 * w + 1 # 2 * w + 2
  BY WordsAssumption
<1>2. s \in [1..(2 * Words) -> Bytes]
  BY DEF Content
<1> QED BY <1>1, <1>2 DEF PutWord, Content

\* A sector whose first words are those of another one has one more of them after
\* the next word has been put in place.
LEMMA PrefixGrows ==
  ASSUME NEW s \in Content, NEW t \in Content, NEW w \in 0..(Words - 1),
         \A b \in 1..(2 * Words) : b <= 2 * w => s[b] = t[b]
  PROVE  LET u == PutWord(s, w, t[2 * w + 1], t[2 * w + 2])
         IN  u \in Content /\ \A b \in 1..(2 * Words) : b <= 2 * (w + 1) => u[b] = t[b]
<1>1. 2 * w + 1 \in 1..(2 * Words) /\ 2 * w + 2 \in 1..(2 * Words)
  BY WordsAssumption
<1>2. t[2 * w + 1] \in Bytes /\ t[2 * w + 2] \in Bytes
  BY <1>1 DEF Content
<1> DEFINE u == PutWord(s, w, t[2 * w + 1], t[2 * w + 2])
<1>3. /\ u \in Content /\ u[2 * w + 1] = t[2 * w + 1] /\ u[2 * w + 2] = t[2 * w + 2]
      /\ \A b \in 1..(2 * Words) : b # 2 * w + 1 /\ b # 2 * w + 2 => u[b] = s[b]
  BY <1>2, PutWordAt
<1> HIDE DEF u
<1>4. ASSUME NEW b \in 1..(2 * Words), b <= 2 * (w + 1) PROVE u[b] = t[b]
  <2>1. b <= 2 * w \/ b = 2 * w + 1 \/ b = 2 * w + 2
    BY <1>4
  <2>2. CASE b <= 2 * w
    <3>1. b # 2 * w + 1 /\ b # 2 * w + 2
      BY <2>2
    <3> QED BY <1>3, <2>2, <3>1
  <2> QED BY <1>3, <2>1, <2>2
<1> QED BY <1>3, <1>4 DEF u

\* Two sectors that agree in all words are the same.
LEMMA Whole ==
  ASSUME NEW s \in Content, NEW t \in Content,
         \A b \in 1..(2 * Words) : b <= 2 * Words => s[b] = t[b]
  PROVE  s = t
BY WordsAssumption DEF Content

LEMMA BlankIsContent == Blank \in Content
BY DEF Blank, Content, Bytes

\* A call is one of three kinds.
LEMMA CallKinds ==
  ASSUME AtaTypeOK
  PROVE  \/ call = NoCall /\ call.op = "none"
         \/ call.op = "read" /\ call.lba \in Lbas /\ call.buffer \in DiskBuffers
         \/ call.op = "write" /\ call.lba \in Lbas /\ call.data \in Contents
BY DEF AtaTypeOK, NoCall

LEMMA SentIsSector ==
  ASSUME NEW l \in Lbas
  PROVE  Sent(l) \in AtaSectors
BY DEF AtaSectors

-----------------------------------------------------------------------------
(* The invariant.                                                          *)

LEMMA AtaInitially == AtaInit => AtaInv
<1> SUFFICES ASSUME AtaInit PROVE AtaInv
  OBVIOUS
<1>1. AtaTypeOK
  <2>1. moved \in 0..Words /\ ata_i \in 0..Words
    BY WordsAssumption DEF AtaInit
  <2>2. latch \in Content /\ msg \in Content /\ before \in Content
    BY BlankIsContent DEF AtaInit
  <2>3. buffer \in [DiskBuffers -> Content]
    BY BlankIsContent DEF AtaInit
  <2>4. command \in [op : {"none", "read", "write"}, sector : AtaSectors \cup {0}]
    BY DEF AtaInit
  <2> QED BY <2>1, <2>2, <2>3, <2>4 DEF AtaInit, AtaTypeOK
<1> QED
  BY <1>1 DEF AtaInit, AtaInv, Waiting, CallFits, Untouched, Commanding, Polling, Reading, Writing, NoCall

LEMMA CallReadKeeps ==
  ASSUME AtaInv, NEW l \in Lbas, NEW b \in DiskBuffers, CallRead(l, b)
  PROVE  AtaInv'
<1>1. AtaTypeOK'
  <2>1. before' \in Content
    BY DEF AtaInv, AtaTypeOK, CallRead
  <2>2. call' \in [op : {"read"}, lba : Lbas, buffer : DiskBuffers]
    BY DEF CallRead
  <2> QED BY <2>1, <2>2 DEF AtaInv, AtaTypeOK, CallRead, driveVars
<1>2. Untouched'
  BY DEF AtaInv, AtaTypeOK, CallRead, Untouched
<1> QED
  BY <1>1, <1>2 DEF AtaInv, CallRead, driveVars, Waiting, CallFits, Commanding, Polling, Reading, Writing

LEMMA CallWriteKeeps ==
  ASSUME AtaInv, NEW l \in Lbas, NEW c \in Contents, CallWrite(l, c)
  PROVE  AtaInv'
<1>1. AtaTypeOK'
  <2>1. call' \in [op : {"write"}, lba : Lbas, data : Contents]
    BY DEF CallWrite
  <2> QED BY <2>1 DEF AtaInv, AtaTypeOK, CallWrite, driveVars
<1> QED
  BY <1>1 DEF AtaInv, CallWrite, driveVars, Waiting, CallFits, Untouched, Commanding, Polling, Reading, Writing

LEMMA ProbeKeeps == AtaInv /\ Probe => AtaInv'
<1> SUFFICES ASSUME AtaInv, Probe PROVE AtaInv'
  OBVIOUS
<1>1. AtaTypeOK'
  BY DEF AtaInv, AtaTypeOK, Probe, driveVars
<1>2. CASE ata_at' = "idle" /\ call' = NoCall
  BY <1>1, <1>2 DEF AtaInv, Probe, driveVars, Waiting, CallFits, Untouched, Commanding, Polling, Reading, Writing
<1>3. CASE ata_at' = "wait" /\ UNCHANGED call
  BY <1>1, <1>3 DEF AtaInv, Probe, driveVars, Waiting, CallFits, Untouched, Commanding, Polling, Reading, Writing
<1> QED BY <1>2, <1>3 DEF Probe

LEMMA IssueKeeps == AtaInv /\ Issue => AtaInv'
<1> SUFFICES ASSUME AtaInv, Issue PROVE AtaInv'
  OBVIOUS
<1>1. /\ ata_at = "wait" /\ ata_at' = "poll" /\ drive # "absent" /\ drive' = drive
      /\ call' = call /\ status' = {"BSY"} /\ moved' = 0 /\ ata_i' = 0
      /\ command' = [op |-> call.op, sector |-> Sent(call.lba)]
      /\ latch' = latch /\ medium' = medium /\ buffer' = buffer /\ before' = before
  BY DEF Issue, Busy
<1>2. call.op \in {"read", "write"} /\ call.lba \in Lbas
  BY <1>1, CallKinds DEF AtaInv, CallFits
<1>3. msg' \in Content /\ (call.op = "write" => msg' = call.data)
  <2>1. CASE call.op = "write"
    BY <2>1, CallKinds, ContentsAssumption DEF Issue, AtaInv
  <2>2. CASE call.op # "write"
    BY <2>2 DEF Issue, AtaInv, AtaTypeOK
  <2> QED BY <2>1, <2>2
<1>4. AtaTypeOK'
  <2>1. command' \in [op : {"none", "read", "write"}, sector : AtaSectors \cup {0}]
    BY <1>1, <1>2, SentIsSector
  <2>2. moved' \in 0..Words /\ ata_i' \in 0..Words
    BY <1>1, WordsAssumption
  <2> QED BY <1>1, <1>3, <2>1, <2>2 DEF AtaInv, AtaTypeOK
<1>5. Commanding' /\ Polling'
  BY <1>1, <1>3 DEF Commanding, Polling
<1> QED
  BY <1>1, <1>2, <1>4, <1>5 DEF AtaInv, Waiting, CallFits, Untouched, Reading, Writing

LEMMA PollKeeps == AtaInv /\ Poll => AtaInv'
<1> SUFFICES ASSUME AtaInv, Poll PROVE AtaInv'
  OBVIOUS
<1>1. /\ ata_at = "poll" /\ ata_at' = "transfer" /\ UNCHANGED <<drive, driveVars, ata_i, call, msg, buffer, before>>
  BY DEF Poll
<1>2. AtaTypeOK'
  BY <1>1 DEF AtaInv, AtaTypeOK, driveVars
<1>3. status = {"DRQ"} /\ moved = 0 /\ moved < Words
  BY <1>1, WordsAssumption DEF AtaInv, Poll, Ready, Commanding, Polling
<1>4. Reading'
  BY <1>1, <1>3 DEF AtaInv, Polling, Reading, driveVars
<1>5. Writing'
  BY <1>1, <1>3 DEF Writing, driveVars
<1> QED
  BY <1>1, <1>2, <1>4, <1>5 DEF AtaInv, driveVars, Waiting, CallFits, Untouched, Commanding, Polling

LEMMA ReturnKeeps == AtaInv /\ Return => AtaInv'
<1> SUFFICES ASSUME AtaInv, Return PROVE AtaInv'
  OBVIOUS
<1>1. /\ ata_at = "transfer" /\ ata_at' = "idle" /\ call' = NoCall /\ ata_i = Words
      /\ UNCHANGED <<drive, driveVars, ata_i, msg, buffer, before>>
  BY DEF Return
<1>2. AtaTypeOK'
  BY <1>1 DEF AtaInv, AtaTypeOK, driveVars
<1>3. status \subseteq {"ERR"}
  <2>1. CASE call.op = "read"
    BY <1>1, <2>1 DEF AtaInv, Commanding, Reading
  <2>2. CASE call.op = "write"
    BY <1>1, <2>2 DEF AtaInv, Commanding, Writing, Return, Busy
  <2> QED BY <1>1, <2>1, <2>2 DEF AtaInv, CallFits
<1> QED
  BY <1>1, <1>2, <1>3 DEF AtaInv, driveVars, Waiting, CallFits, Untouched, Commanding, Polling, Reading, Writing

\* The facts both directions of a transfer share.
LEMMA Transferring ==
  ASSUME AtaInv, ata_at = "transfer", ata_i < Words
  PROVE  /\ moved = ata_i /\ moved \in 0..(Words - 1) /\ drive # "absent"
         /\ moved + 1 \in 0..Words
         /\ 2 * moved + 1 \in 1..(2 * Words) /\ 2 * moved + 2 \in 1..(2 * Words)
BY WordsAssumption DEF AtaInv, AtaTypeOK, Commanding

LEMMA WordInKeeps == AtaInv /\ WordIn => AtaInv'
<1> SUFFICES ASSUME AtaInv, WordIn PROVE AtaInv'
  OBVIOUS
<1>1. /\ ata_at = "transfer" /\ ata_at' = "transfer" /\ ata_i < Words /\ call.op = "read"
      /\ UNCHANGED <<drive, latch, command, medium, call, msg, before>>
      /\ ata_i' = ata_i + 1 /\ moved' = moved + 1
      /\ status' = IF moved + 1 = Words THEN {} ELSE status
  BY DEF WordIn
<1>2. /\ moved = ata_i /\ moved \in 0..(Words - 1) /\ moved' \in 0..Words
  BY <1>1, Transferring
<1> DEFINE old == buffer[call.buffer]
           new == PutWord(old, moved, latch[2 * moved + 1], latch[2 * moved + 2])
<1>3. call.buffer \in DiskBuffers /\ call.lba \in Lbas
  BY <1>1, CallKinds DEF AtaInv
<1>4. buffer' = [buffer EXCEPT ![call.buffer] = new]
  BY <1>2 DEF WordIn
<1>5. /\ latch = medium[command.sector] /\ status = {"DRQ"}
      /\ \A b \in 1..(2 * Words) : b <= 2 * moved => old[b] = latch[b]
  BY <1>1, <1>2 DEF AtaInv, Reading
<1>6. old \in Content /\ latch \in Content
  BY <1>3 DEF AtaInv, AtaTypeOK
<1>7. new \in Content /\ \A b \in 1..(2 * Words) : b <= 2 * (moved + 1) => new[b] = latch[b]
  BY <1>2, <1>5, <1>6, PrefixGrows
<1>8. buffer' \in [DiskBuffers -> Content] /\ buffer'[call.buffer] = new
  BY <1>3, <1>4, <1>7 DEF AtaInv, AtaTypeOK
<1> HIDE DEF old, new
<1>9. AtaTypeOK'
  BY <1>1, <1>2, <1>8 DEF AtaInv, AtaTypeOK
<1>10. Reading'
  <2>1. \A b \in 1..(2 * Words) : b <= 2 * moved' => buffer'[call'.buffer][b] = latch'[b]
    BY <1>1, <1>7, <1>8
  <2>2. (moved' < Words => status' = {"DRQ"}) /\ (moved' = Words => status' = {})
    <3>1. CASE moved + 1 = Words
      BY <1>1, <1>2, <3>1
    <3>2. CASE moved + 1 # Words
      BY <1>1, <1>2, <1>5, <3>2
    <3> QED BY <3>1, <3>2
  <2> QED BY <1>1, <1>5, <2>1, <2>2 DEF Reading
<1>11. Commanding'
  BY <1>1, <1>2 DEF AtaInv, Commanding
<1> QED
  BY <1>1, <1>9, <1>10, <1>11 DEF AtaInv, Waiting, CallFits, Untouched, Polling, Writing

LEMMA WordOutKeeps == AtaInv /\ WordOut => AtaInv'
<1> SUFFICES ASSUME AtaInv, WordOut PROVE AtaInv'
  OBVIOUS
<1>1. /\ ata_at = "transfer" /\ ata_at' = "transfer" /\ ata_i < Words /\ call.op = "write"
      /\ UNCHANGED <<drive, command, medium, call, msg, buffer, before>>
      /\ ata_i' = ata_i + 1 /\ moved' = moved + 1
      /\ status' = IF moved + 1 = Words THEN {"BSY"} ELSE status
  BY DEF WordOut
<1>2. /\ moved = ata_i /\ moved \in 0..(Words - 1) /\ moved' \in 0..Words
  BY <1>1, Transferring
<1>3. latch' = PutWord(latch, moved, msg[2 * moved + 1], msg[2 * moved + 2])
  BY <1>2 DEF WordOut
<1>4. status = {"DRQ"} /\ \A b \in 1..(2 * Words) : b <= 2 * moved => latch[b] = msg[b]
  BY <1>1, <1>2 DEF AtaInv, Writing
<1>5. latch \in Content /\ msg \in Content
  BY DEF AtaInv, AtaTypeOK
<1>6. latch' \in Content /\ \A b \in 1..(2 * Words) : b <= 2 * (moved + 1) => latch'[b] = msg[b]
  BY <1>2, <1>3, <1>4, <1>5, PrefixGrows
<1>7. AtaTypeOK'
  BY <1>1, <1>2, <1>6 DEF AtaInv, AtaTypeOK
<1>8. Writing'
  <2>1. \A b \in 1..(2 * Words) : b <= 2 * moved' => latch'[b] = msg'[b]
    BY <1>1, <1>6
  <2>2. (moved' < Words => status' = {"DRQ"}) /\ (moved' = Words => status' = {"BSY"})
    <3>1. CASE moved + 1 = Words
      BY <1>1, <1>2, <3>1
    <3>2. CASE moved + 1 # Words
      BY <1>1, <1>2, <1>4, <3>2
    <3> QED BY <3>1, <3>2
  <2> QED BY <2>1, <2>2 DEF Writing
<1>9. Commanding'
  BY <1>1, <1>2 DEF AtaInv, Commanding
<1> QED
  BY <1>1, <1>7, <1>8, <1>9 DEF AtaInv, Waiting, CallFits, Untouched, Polling, Reading

\* Where the driver is when the drive is busy.
LEMMA BusyAt ==
  ASSUME AtaInv, "BSY" \in status
  PROVE  /\ status = {"BSY"} /\ drive # "absent" /\ ata_i = moved
         /\ \/ ata_at = "poll" /\ moved = 0
            \/ ata_at = "transfer" /\ call.op = "write" /\ moved = Words
<1>1. ata_at \in {"poll", "transfer"}
  BY DEF AtaInv, AtaTypeOK, Waiting
<1>2. CASE ata_at = "poll"
  BY <1>2 DEF AtaInv, Polling, Commanding
<1>3. CASE ata_at = "transfer"
  <2>1. moved < Words \/ moved = Words
    BY WordsAssumption DEF AtaInv, AtaTypeOK
  <2>2. call.op = "write"
    BY <1>3, <2>1 DEF AtaInv, CallFits, Reading
  <2> QED BY <1>3, <2>1, <2>2 DEF AtaInv, Writing, Commanding
<1> QED BY <1>1, <1>2, <1>3

LEMMA ServeReadKeeps == AtaInv /\ ServeRead => AtaInv'
<1> SUFFICES ASSUME AtaInv, ServeRead PROVE AtaInv'
  OBVIOUS
<1>1. /\ "BSY" \in status /\ moved = 0 /\ command.op = "read"
      /\ latch' = medium[command.sector] /\ status' = {"DRQ"}
      /\ UNCHANGED <<drive, moved, command, medium, driverVars>>
  BY DEF ServeRead, Commanded
<1>2. ata_at = "poll"
  BY <1>1, BusyAt, WordsAssumption
<1>3. command.sector \in AtaSectors
  BY <1>2, CallKinds, SentIsSector DEF AtaInv, Commanding, CallFits
<1>4. latch' \in Content
  BY <1>1, <1>3, ContentsAssumption DEF AtaInv, AtaTypeOK
<1>5. AtaTypeOK'
  BY <1>1, <1>4 DEF AtaInv, AtaTypeOK, driverVars
<1> QED
  BY <1>1, <1>2, <1>5 DEF AtaInv, driverVars, Waiting, CallFits, Untouched, Commanding, Polling, Reading, Writing

LEMMA ServeWriteKeeps == AtaInv /\ ServeWrite => AtaInv'
<1> SUFFICES ASSUME AtaInv, ServeWrite PROVE AtaInv'
  OBVIOUS
<1>1. /\ "BSY" \in status /\ moved = 0 /\ command.op = "write" /\ status' = {"DRQ"}
      /\ UNCHANGED <<drive, moved, latch, command, medium, driverVars>>
  BY DEF ServeWrite, Commanded
<1>2. ata_at = "poll" /\ call.op = "write"
  BY <1>1, BusyAt, WordsAssumption DEF AtaInv, Commanding
<1>3. AtaTypeOK'
  BY <1>1 DEF AtaInv, AtaTypeOK, driverVars
<1> QED
  BY <1>1, <1>2, <1>3 DEF AtaInv, driverVars, Waiting, CallFits, Untouched, Commanding, Polling, Reading, Writing

\* What the drive stores is the sector the call was made with.
LEMMA StoresData ==
  ASSUME AtaInv, Store
  PROVE  /\ ata_at = "transfer" /\ call.op = "write" /\ ata_i = Words /\ latch = call.data
         /\ command.sector = Sent(call.lba) /\ Sent(call.lba) \in AtaSectors
         /\ call.data \in Contents
<1>1. ata_at = "transfer" /\ call.op = "write" /\ moved = Words /\ ata_i = moved
  BY BusyAt, WordsAssumption DEF Store
<1>2. latch \in Content /\ msg \in Content /\ msg = call.data /\ command.sector = Sent(call.lba)
  BY <1>1 DEF AtaInv, AtaTypeOK, Commanding
<1>3. \A b \in 1..(2 * Words) : b <= 2 * Words => latch[b] = msg[b]
  BY <1>1 DEF AtaInv, Writing
<1>4. latch = msg
  BY <1>2, <1>3, Whole
<1> QED BY <1>1, <1>2, <1>4, CallKinds, SentIsSector DEF AtaInv

LEMMA StoreKeeps == AtaInv /\ Store => AtaInv'
<1> SUFFICES ASSUME AtaInv, Store PROVE AtaInv'
  OBVIOUS
<1>1. /\ ata_at = "transfer" /\ call.op = "write"
      /\ medium' = [medium EXCEPT ![command.sector] = latch] /\ status' = {}
      /\ UNCHANGED <<drive, moved, latch, command, driverVars>>
  BY StoresData DEF Store
<1>2. medium' \in [AtaSectors -> Contents]
  BY <1>1, StoresData DEF AtaInv, AtaTypeOK
<1>3. AtaTypeOK'
  BY <1>1, <1>2 DEF AtaInv, AtaTypeOK, driverVars
<1>4. moved = Words
  BY DEF Store
<1> QED
  BY <1>1, <1>3, <1>4, WordsAssumption
     DEF AtaInv, driverVars, Waiting, CallFits, Untouched, Commanding, Polling, Reading, Writing

LEMMA RefuseKeeps == AtaInv /\ Refuse => AtaInv'
<1> SUFFICES ASSUME AtaInv, Refuse PROVE AtaInv'
  OBVIOUS
<1>1. /\ "BSY" \in status /\ status' = {"ERR"}
      /\ UNCHANGED <<drive, moved, latch, command, medium, driverVars>>
  BY DEF Refuse
<1>2. AtaTypeOK'
  BY <1>1 DEF AtaInv, AtaTypeOK, driverVars
<1>3. \/ ata_at = "poll" /\ moved = 0
      \/ ata_at = "transfer" /\ call.op = "write" /\ moved = Words
  BY <1>1, BusyAt
<1>4. Waiting' /\ CallFits' /\ Untouched' /\ Commanding'
  BY <1>1, <1>3 DEF AtaInv, driverVars, Waiting, CallFits, Untouched, Commanding
<1>5. Polling' /\ Reading'
  BY <1>1, <1>3 DEF AtaInv, driverVars, Polling, Reading
<1>6. Writing'
  <2>1. moved = Words => ~(moved < Words)
    BY WordsAssumption
  <2> QED BY <1>1, <1>3, <2>1 DEF AtaInv, driverVars, Writing
<1> QED BY <1>2, <1>4, <1>5, <1>6 DEF AtaInv

LEMMA AtaStutterKeeps == AtaInv /\ UNCHANGED ataVars => AtaInv'
BY DEF AtaInv, AtaTypeOK, Waiting, CallFits, Untouched, Commanding, Polling, Reading, Writing,
       ataVars, driveVars, driverVars

\* Every step keeps the invariant.
LEMMA AtaStepKeeps == AtaInv /\ [AtaNext]_ataVars => AtaInv'
<1> SUFFICES ASSUME AtaInv, [AtaNext]_ataVars PROVE AtaInv'
  OBVIOUS
<1>1. CASE \E l \in Lbas, b \in DiskBuffers : CallRead(l, b)
  BY <1>1, CallReadKeeps
<1>2. CASE \E l \in Lbas, c \in Contents : CallWrite(l, c)
  BY <1>2, CallWriteKeeps
<1>3. CASE Driver
  BY <1>3, ProbeKeeps, IssueKeeps, PollKeeps, WordInKeeps, WordOutKeeps, ReturnKeeps DEF Driver
<1>4. CASE Drive
  BY <1>4, ServeReadKeeps, ServeWriteKeeps, StoreKeeps, RefuseKeeps DEF Drive
<1>5. CASE UNCHANGED ataVars
  BY <1>5, AtaStutterKeeps
<1> QED BY <1>1, <1>2, <1>3, <1>4, <1>5 DEF AtaNext

THEOREM AtaInvariant == AtaSpec => []AtaInv
BY AtaInitially, AtaStepKeeps, PTL DEF AtaSpec

-----------------------------------------------------------------------------
(* What follows.                                                           *)

\* Driver and drive keep their types; above all the bytes of a word go where a
\* sector has room for them.
THEOREM AtaTypeCorrect == AtaSpec => []AtaTypeOK
<1>1. AtaInv => AtaTypeOK
  BY DEF AtaInv
<1> QED BY <1>1, AtaInvariant, PTL

\* However slow the drive is and whatever it answers, the driver moves a word only
\* when the drive asks for one, both count the same words, and no call begins
\* before the one before has ended in the drive as well.
THEOREM StaysInStep == AtaSpec => []InStep
<1>1. AtaInv => InStep
  <2> SUFFICES ASSUME AtaInv PROVE InStep
    OBVIOUS
  <2>1. ata_at = "transfer" => ata_i = moved
    BY DEF AtaInv, Commanding
  <2>2. ata_at = "transfer" /\ ata_i < Words => status = {"DRQ"}
    <3>1. ata_at = "transfer" => call.op \in {"read", "write"}
      BY DEF AtaInv, CallFits
    <3> QED BY <2>1, <3>1 DEF AtaInv, Reading, Writing
  <2>3. ata_at = "idle" => status \subseteq {"ERR"}
    BY DEF AtaInv, Waiting
  <2> QED BY <2>1, <2>2, <2>3 DEF InStep
<1> QED BY <1>1, AtaInvariant, PTL

-----------------------------------------------------------------------------
(* The refinement: what Disk sees of a state, and of each step.            *)

DiskRequest(c) ==
  IF c.op = "read" THEN [op |-> "read", sector |-> Sent(c.lba), buffer |-> c.buffer]
  ELSE [op |-> "write", sector |-> Sent(c.lba), data |-> c.data]

\* Nothing that Disk sees changes.
Unseen ==
  /\ medium' = medium /\ SeenBuffers' = SeenBuffers /\ SeenCall' = SeenCall
  /\ drive' = drive

\* Before the transfer Disk sees the buffers and the call as they are.
LEMMA SeenBefore ==
  ASSUME ata_at # "transfer"
  PROVE  /\ SeenBuffers = buffer /\ ~Stored
         /\ SeenCall = IF call.op = "none" THEN NoCall ELSE DiskRequest(call)
BY DEF SeenBuffers, Stored, SeenCall, DiskRequest

\* During a read it sees the buffer the read began with.
LEMMA SeenReading ==
  ASSUME ata_at = "transfer", call.op = "read"
  PROVE  /\ SeenBuffers = [buffer EXCEPT ![call.buffer] = before] /\ ~Stored
         /\ SeenCall = DiskRequest(call)
BY DEF SeenBuffers, Stored, SeenCall, DiskRequest

\* During a write it sees the call until the drive has stored the sector.
LEMMA SeenWriting ==
  ASSUME ata_at = "transfer", call.op = "write"
  PROVE  /\ SeenBuffers = buffer
         /\ Stored <=> ata_i = Words /\ "BSY" \notin status
         /\ SeenCall = IF Stored THEN NoCall ELSE DiskRequest(call)
BY DEF SeenBuffers, Stored, SeenCall, DiskRequest

Calls ==
  {NoCall} \cup [op : {"read"}, lba : Lbas, buffer : DiskBuffers]
           \cup [op : {"write"}, lba : Lbas, data : Contents]

\* A request that Disk sees is one of Disk's.
LEMMA RequestOfDisk ==
  ASSUME NEW c \in Calls, c.op # "none"
  PROVE  /\ DiskRequest(c) \in AbstractDisk!Requests
         /\ DiskRequest(c) # NoCall
         /\ DiskRequest(c).op = c.op /\ DiskRequest(c).sector = Sent(c.lba)
         /\ c.op = "read" => DiskRequest(c).buffer = c.buffer
         /\ c.op = "write" => DiskRequest(c).data = c.data
<1>1. CASE c.op = "read"
  <2>1. c.buffer \in DiskBuffers /\ c.lba \in Lbas
    BY <1>1 DEF Calls, NoCall
  <2>2. DiskRequest(c) = [op |-> "read", sector |-> Sent(c.lba), buffer |-> c.buffer]
    BY <1>1 DEF DiskRequest
  <2> QED BY <1>1, <2>1, <2>2, SentIsSector DEF AbstractDisk!Requests, NoCall
<1>2. CASE c.op = "write"
  <2>1. c.data \in Content /\ c.lba \in Lbas
    BY <1>2, ContentsAssumption DEF Calls, NoCall
  <2>2. DiskRequest(c) = [op |-> "write", sector |-> Sent(c.lba), data |-> c.data]
    BY <1>2 DEF DiskRequest
  <2> QED BY <1>2, <2>1, <2>2, SentIsSector DEF AbstractDisk!Requests, NoCall
<1>3. c.op \in {"none", "read", "write"}
  BY DEF Calls, NoCall
<1> QED BY <1>1, <1>2, <1>3

LEMMA CallReadAsks ==
  ASSUME AtaInv, AtaInv', NEW l \in Lbas, NEW b \in DiskBuffers, CallRead(l, b)
  PROVE  AbstractDisk!Ask /\ drive' = drive
<1>1. /\ ata_at = "idle" /\ ata_at' = "probe" /\ call = NoCall /\ call'.op = "read"
      /\ medium' = medium /\ buffer' = buffer /\ drive' = drive
  BY DEF AtaInv, CallFits, CallRead, driveVars
<1>2. SeenBuffers = buffer /\ SeenCall = NoCall
  BY <1>1, SeenBefore DEF NoCall
<1>3. SeenBuffers' = buffer' /\ SeenCall' = DiskRequest(call')
  BY <1>1 DEF SeenBuffers, Stored, SeenCall, DiskRequest
<1>4. call' \in Calls
  BY DEF AtaInv, AtaTypeOK, Calls
<1>5. DiskRequest(call') \in AbstractDisk!Requests
  BY <1>1, <1>4, RequestOfDisk
<1> QED BY <1>1, <1>2, <1>3, <1>5 DEF AbstractDisk!Ask, AbstractDisk!NoRequest, NoCall

LEMMA CallWriteAsks ==
  ASSUME AtaInv, AtaInv', NEW l \in Lbas, NEW d \in Contents, CallWrite(l, d)
  PROVE  AbstractDisk!Ask /\ drive' = drive
<1>1. /\ ata_at = "idle" /\ ata_at' = "wait" /\ call = NoCall /\ call'.op = "write"
      /\ medium' = medium /\ buffer' = buffer /\ drive' = drive
  BY DEF AtaInv, CallFits, CallWrite, driveVars
<1>2. SeenBuffers = buffer /\ SeenCall = NoCall
  BY <1>1, SeenBefore DEF NoCall
<1>3. SeenBuffers' = buffer' /\ SeenCall' = DiskRequest(call')
  BY <1>1 DEF SeenBuffers, Stored, SeenCall, DiskRequest
<1>4. call' \in Calls
  BY DEF AtaInv, AtaTypeOK, Calls
<1>5. DiskRequest(call') \in AbstractDisk!Requests
  BY <1>1, <1>4, RequestOfDisk
<1> QED BY <1>1, <1>2, <1>3, <1>5 DEF AbstractDisk!Ask, AbstractDisk!NoRequest, NoCall

\* Without a drive a read ends, and Disk fails.
LEMMA ProbeFails ==
  ASSUME AtaInv, Probe
  PROVE  Unseen \/ (AbstractDisk!Fail /\ drive' = drive)
<1>1. /\ ata_at = "probe" /\ call.op = "read" /\ medium' = medium /\ buffer' = buffer /\ drive' = drive
  BY DEF AtaInv, CallFits, Probe, driveVars
<1>2. SeenBuffers = buffer /\ SeenCall = DiskRequest(call)
  BY <1>1, SeenBefore
<1>3. CASE drive = "absent" /\ ata_at' = "idle" /\ call' = NoCall
  <2>1. SeenBuffers' = buffer' /\ SeenCall' = NoCall
    BY <1>3 DEF SeenBuffers, Stored, SeenCall, NoCall
  <2>2. DiskRequest(call) # NoCall
    <3>1. call \in Calls
      BY DEF AtaInv, AtaTypeOK, Calls
    <3> QED BY <1>1, <3>1, RequestOfDisk
  <2> QED BY <1>1, <1>2, <1>3, <2>1, <2>2 DEF AbstractDisk!Fail, AbstractDisk!NoRequest, NoCall
<1>4. CASE ata_at' = "wait" /\ UNCHANGED call
  <2>1. SeenBuffers' = buffer' /\ SeenCall' = DiskRequest(call')
    BY <1>1, <1>4 DEF SeenBuffers, Stored, SeenCall, DiskRequest
  <2> QED BY <1>1, <1>2, <1>4, <2>1 DEF Unseen
<1> QED BY <1>3, <1>4 DEF Probe

LEMMA IssueUnseen == AtaInv /\ Issue => Unseen
<1> SUFFICES ASSUME AtaInv, Issue PROVE Unseen
  OBVIOUS
<1>1. /\ ata_at = "wait" /\ ata_at' = "poll" /\ call' = call /\ medium' = medium
      /\ buffer' = buffer /\ drive' = drive /\ call.op \in {"read", "write"}
  BY DEF AtaInv, CallFits, Issue
<1>2. SeenBuffers = buffer /\ SeenCall = DiskRequest(call)
  BY <1>1, SeenBefore
<1>3. SeenBuffers' = buffer' /\ SeenCall' = DiskRequest(call')
  BY <1>1 DEF SeenBuffers, Stored, SeenCall, DiskRequest
<1> QED BY <1>1, <1>2, <1>3 DEF Unseen

LEMMA PollUnseen == AtaInv /\ Poll => Unseen
<1> SUFFICES ASSUME AtaInv, Poll PROVE Unseen
  OBVIOUS
<1>1. /\ ata_at = "poll" /\ ata_at' = "transfer" /\ call' = call /\ medium' = medium
      /\ buffer' = buffer /\ before' = before /\ drive' = drive /\ ata_i' = ata_i
      /\ call.op \in {"read", "write"} /\ ata_i # Words
  BY WordsAssumption DEF AtaInv, CallFits, Commanding, Polling, Poll, driveVars
<1>2. SeenBuffers = buffer /\ SeenCall = DiskRequest(call)
  BY <1>1, SeenBefore
<1>3. SeenCall' = DiskRequest(call')
  BY <1>1 DEF Stored, SeenCall, DiskRequest
<1>4. SeenBuffers' = buffer
  <2>1. CASE call.op = "read"
    <3>1. before = buffer[call.buffer] /\ buffer \in [DiskBuffers -> Content]
      BY <1>1, <2>1 DEF AtaInv, AtaTypeOK, Untouched
    <3>2. [buffer EXCEPT ![call.buffer] = before] = buffer
      BY <3>1
    <3> QED BY <1>1, <2>1, <3>2 DEF SeenBuffers
  <2>2. CASE call.op = "write"
    BY <1>1, <2>2 DEF SeenBuffers
  <2> QED BY <1>1, <2>1, <2>2
<1> QED BY <1>1, <1>2, <1>3, <1>4 DEF Unseen

LEMMA WordInUnseen == AtaInv /\ WordIn => Unseen
<1> SUFFICES ASSUME AtaInv, WordIn PROVE Unseen
  OBVIOUS
<1>1. /\ ata_at = "transfer" /\ ata_at' = "transfer" /\ call.op = "read" /\ call' = call
      /\ medium' = medium /\ before' = before /\ drive' = drive
      /\ \E new : buffer' = [buffer EXCEPT ![call.buffer] = new]
  BY DEF WordIn
<1>2. SeenBuffers = [buffer EXCEPT ![call.buffer] = before] /\ SeenCall = DiskRequest(call)
  BY <1>1, SeenReading
<1>3. SeenBuffers' = [buffer' EXCEPT ![call.buffer] = before] /\ SeenCall' = DiskRequest(call')
  BY <1>1 DEF SeenBuffers, Stored, SeenCall, DiskRequest
<1>4. [buffer' EXCEPT ![call.buffer] = before] = [buffer EXCEPT ![call.buffer] = before]
  <2>1. PICK new : buffer' = [buffer EXCEPT ![call.buffer] = new]
    BY <1>1
  <2> QED BY <2>1 DEF AtaInv, AtaTypeOK
<1> QED BY <1>1, <1>2, <1>3, <1>4 DEF Unseen

LEMMA WordOutUnseen == AtaInv /\ WordOut => Unseen
<1> SUFFICES ASSUME AtaInv, WordOut PROVE Unseen
  OBVIOUS
<1>1. /\ ata_at = "transfer" /\ ata_at' = "transfer" /\ call.op = "write" /\ call' = call
      /\ medium' = medium /\ buffer' = buffer /\ drive' = drive /\ ata_i # Words
  BY WordsAssumption DEF AtaInv, AtaTypeOK, WordOut
<1>2. SeenBuffers = buffer /\ SeenCall = DiskRequest(call)
  BY <1>1, SeenWriting
<1>3. ~Stored'
  <2>1. ata_i' = Words => "BSY" \in status'
    BY DEF AtaInv, Commanding, WordOut
  <2> QED BY <2>1 DEF Stored
<1>4. SeenBuffers' = buffer' /\ SeenCall' = DiskRequest(call')
  BY <1>1, <1>3 DEF SeenBuffers, SeenCall, DiskRequest
<1> QED BY <1>1, <1>2, <1>4 DEF Unseen

\* After the last word of a read the buffer holds the sector that was asked for.
LEMMA ReadComplete ==
  ASSUME AtaInv, ata_at = "transfer", ata_i = Words, call.op = "read"
  PROVE  buffer[call.buffer] = medium[Sent(call.lba)]
<1>1. moved = Words /\ latch = medium[command.sector] /\ command.sector = Sent(call.lba)
  BY DEF AtaInv, Commanding, Reading
<1>2. \A b \in 1..(2 * Words) : b <= 2 * Words => buffer[call.buffer][b] = latch[b]
  BY <1>1 DEF AtaInv, Reading
<1>3. buffer[call.buffer] \in Content /\ latch \in Content
  BY CallKinds DEF AtaInv, AtaTypeOK
<1>4. buffer[call.buffer] = latch
  BY <1>2, <1>3, Whole
<1> QED BY <1>1, <1>4

\* A read that returns has filled the buffer with the sector it was asked for.
LEMMA ReturnReads ==
  ASSUME AtaInv, Return, call.op = "read"
  PROVE  AbstractDisk!Read /\ drive' = drive
<1>1. /\ ata_at = "transfer" /\ ata_at' = "idle" /\ call' = NoCall /\ ata_i = Words
      /\ medium' = medium /\ buffer' = buffer /\ drive' = drive
  BY DEF Return, driveVars
<1>2. SeenBuffers = [buffer EXCEPT ![call.buffer] = before] /\ SeenCall = DiskRequest(call)
  BY <1>1, SeenReading
<1>3. SeenBuffers' = buffer /\ SeenCall' = NoCall
  BY <1>1 DEF SeenBuffers, Stored, SeenCall, NoCall
<1>4. call \in Calls
  BY DEF AtaInv, AtaTypeOK, Calls
<1>5. DiskRequest(call).op = "read" /\ DiskRequest(call).sector = Sent(call.lba)
      /\ DiskRequest(call).buffer = call.buffer
  BY <1>4, RequestOfDisk
<1>6. buffer \in [DiskBuffers -> Content] /\ call.buffer \in DiskBuffers
  BY CallKinds DEF AtaInv, AtaTypeOK
<1>7. buffer[call.buffer] = medium[Sent(call.lba)]
  BY <1>1, ReadComplete
<1>8. buffer = [[buffer EXCEPT ![call.buffer] = before] EXCEPT ![call.buffer] = medium[Sent(call.lba)]]
  BY <1>6, <1>7
<1> QED
  BY <1>1, <1>2, <1>3, <1>5, <1>8 DEF AbstractDisk!Read, AbstractDisk!NoRequest, NoCall

\* Of a write that returns the drive has stored, or refused, the sector already.
LEMMA ReturnUnseen ==
  ASSUME AtaInv, Return, call.op = "write"
  PROVE  Unseen
<1>1. /\ ata_at = "transfer" /\ ata_at' = "idle" /\ call' = NoCall /\ ata_i = Words
      /\ "BSY" \notin status /\ medium' = medium /\ buffer' = buffer /\ drive' = drive
  BY DEF Return, Busy, driveVars
<1>2. SeenBuffers = buffer /\ SeenCall = NoCall
  BY <1>1, SeenWriting
<1>3. SeenBuffers' = buffer' /\ SeenCall' = NoCall
  BY <1>1 DEF SeenBuffers, Stored, SeenCall, NoCall
<1> QED BY <1>1, <1>2, <1>3 DEF Unseen

LEMMA ServeUnseen == AtaInv /\ (ServeRead \/ ServeWrite) => Unseen
<1> SUFFICES ASSUME AtaInv, ServeRead \/ ServeWrite PROVE Unseen
  OBVIOUS
<1>1. /\ "BSY" \in status /\ moved = 0
      /\ UNCHANGED <<drive, medium, ata_at, ata_i, call, buffer, before>>
  BY DEF ServeRead, ServeWrite, Commanded, driverVars
<1>2. ata_at = "poll"
  BY <1>1, BusyAt, WordsAssumption
<1>3. SeenBuffers = buffer /\ SeenBuffers' = buffer'
  BY <1>1, <1>2 DEF SeenBuffers
<1>4. SeenCall' = SeenCall
  BY <1>1, <1>2 DEF SeenCall, Stored
<1> QED BY <1>1, <1>3, <1>4 DEF Unseen

\* The drive's writing a sector is Disk's.
LEMMA StoreWrites ==
  ASSUME AtaInv, Store
  PROVE  AbstractDisk!Write /\ drive' = drive
<1>1. /\ ata_at = "transfer" /\ call.op = "write" /\ ata_i = Words /\ latch = call.data
      /\ command.sector = Sent(call.lba)
  BY StoresData
<1>2. /\ "BSY" \in status /\ status' = {} /\ medium' = [medium EXCEPT ![command.sector] = latch]
      /\ UNCHANGED <<drive, ata_at, ata_i, call, buffer, before>>
  BY DEF Store, driverVars
<1>3. SeenBuffers = buffer /\ SeenCall = DiskRequest(call)
  BY <1>1, <1>2, SeenWriting
<1>4. SeenBuffers' = buffer' /\ SeenCall' = NoCall
  BY <1>1, <1>2 DEF SeenBuffers, Stored, SeenCall
<1>5. call \in Calls
  BY DEF AtaInv, AtaTypeOK, Calls
<1>6. DiskRequest(call).op = "write" /\ DiskRequest(call).sector = Sent(call.lba)
      /\ DiskRequest(call).data = call.data
  BY <1>1, <1>5, RequestOfDisk
<1> QED
  BY <1>1, <1>2, <1>3, <1>4, <1>6 DEF AbstractDisk!Write, AbstractDisk!NoRequest, NoCall

\* A drive that refuses is not reliable: before the transfer nothing is seen of it,
\* after the last word Disk fails.
LEMMA RefuseFails ==
  ASSUME AtaInv, Refuse
  PROVE  Unseen \/ (AbstractDisk!Fail /\ drive' = drive)
<1>1. /\ drive = "failing" /\ "BSY" \in status /\ status' = {"ERR"}
      /\ UNCHANGED <<drive, medium, ata_at, ata_i, call, buffer, before>>
  BY DEF Refuse, driverVars
<1>2. CASE ata_at = "poll"
  <2>1. SeenBuffers' = SeenBuffers /\ SeenCall' = SeenCall
    BY <1>1, <1>2 DEF SeenBuffers, SeenCall, Stored
  <2> QED BY <1>1, <2>1 DEF Unseen
<1>3. CASE ata_at = "transfer" /\ call.op = "write" /\ moved = Words
  <2>1. ata_i = Words
    BY <1>1, <1>3, BusyAt
  <2>2. SeenBuffers = buffer /\ SeenCall = DiskRequest(call)
    BY <1>1, <1>3, SeenWriting
  <2>3. SeenBuffers' = buffer' /\ SeenCall' = NoCall
    BY <1>1, <1>3, <2>1 DEF SeenBuffers, Stored, SeenCall
  <2>4. DiskRequest(call) # NoCall
    <3>1. call \in Calls
      BY DEF AtaInv, AtaTypeOK, Calls
    <3> QED BY <1>3, <3>1, RequestOfDisk
  <2> QED
    BY <1>1, <2>2, <2>3, <2>4 DEF AbstractDisk!Fail, AbstractDisk!NoRequest, NoCall
<1> QED BY <1>1, <1>2, <1>3, BusyAt

LEMMA StutterUnseen == UNCHANGED ataVars => Unseen
BY DEF ataVars, driveVars, driverVars, Unseen, SeenBuffers, SeenCall, Stored

\* Every step is one of Disk's, or nothing that Disk sees.
LEMMA StepImplements ==
  AtaInv /\ AtaInv' /\ [AtaNext]_ataVars => Unseen \/ AbstractDisk!Next
<1> SUFFICES ASSUME AtaInv, AtaInv', [AtaNext]_ataVars PROVE Unseen \/ AbstractDisk!Next
  OBVIOUS
<1>1. CASE \E l \in Lbas, b \in DiskBuffers : CallRead(l, b)
  BY <1>1, CallReadAsks DEF AbstractDisk!Next
<1>2. CASE \E l \in Lbas, c \in Contents : CallWrite(l, c)
  BY <1>2, CallWriteAsks DEF AbstractDisk!Next
<1>3. CASE Probe
  BY <1>3, ProbeFails DEF AbstractDisk!Next
<1>4. CASE Issue \/ Poll \/ WordIn \/ WordOut
  BY <1>4, IssueUnseen, PollUnseen, WordInUnseen, WordOutUnseen
<1>5. CASE Return
  <2>1. call.op \in {"read", "write"}
    BY <1>5 DEF AtaInv, CallFits, Return
  <2> QED BY <1>5, <2>1, ReturnReads, ReturnUnseen DEF AbstractDisk!Next
<1>6. CASE ServeRead \/ ServeWrite
  BY <1>6, ServeUnseen
<1>7. CASE Store
  BY <1>7, StoreWrites DEF AbstractDisk!Next
<1>8. CASE Refuse
  BY <1>8, RefuseFails DEF AbstractDisk!Next
<1>9. CASE UNCHANGED ataVars
  BY <1>9, StutterUnseen
<1> QED
  BY <1>1, <1>2, <1>3, <1>4, <1>5, <1>6, <1>7, <1>8, <1>9 DEF AtaNext, Driver, Drive

LEMMA InitImplements == AtaInit => AbstractDisk!Init
<1> SUFFICES ASSUME AtaInit PROVE AbstractDisk!Init
  OBVIOUS
<1>1. SeenBuffers = buffer /\ SeenCall = NoCall
  BY DEF AtaInit, SeenBuffers, SeenCall, NoCall
<1>2. buffer \in [DiskBuffers -> Content]
  BY BlankIsContent DEF AtaInit
<1>3. medium \in [AtaSectors -> Content]
  BY ContentsAssumption DEF AtaInit
<1> QED BY <1>1, <1>2, <1>3 DEF AbstractDisk!Init, AbstractDisk!NoRequest, NoCall

\* The driver and the drive together are the disk of Disk: a call moves the whole
\* sector that was asked for, unswapped, between the disk and the buffer that was
\* named, in one step that nobody sees half of.
THEOREM ImplementsDisk == AtaSpec => MovesSectors
<1>1. AtaInv /\ AtaInv' /\ [AtaNext]_ataVars =>
        [AbstractDisk!Next]_<<medium, SeenBuffers, SeenCall, drive = "good">>
  BY StepImplements DEF Unseen
<1> QED
  BY <1>1, InitImplements, AtaInvariant, PTL DEF AtaSpec, MovesSectors, AbstractDisk!Spec

-----------------------------------------------------------------------------
(* The parts.                                                              *)

LEMMA PartsBegin ==
  BootInit => Init /\ AtaInit /\ \E f \in Framebuffers : FbStart(f)
BY MachinesAssumption DEF BootInit, Machine

\* Steps that call no part.
Aside ==
  \/ Colour \/ LoadIdt \/ Mount \/ Banner \/ Cleanup \/ Strike
  \/ Taken \/ Release \/ EditBackspace \/ Saved \/ EditLetter \/ EnterNothing \/ Enter
  \/ LeaveDisk \/ CommandStops \/ Backspace \/ F1 \/ Letter

LEMMA AsideLeaves == Aside => UNCHANGED <<vars, fbVars, ataVars>>
<1> SUFFICES ASSUME Aside PROVE UNCHANGED <<vars, fbVars, ataVars>>
  OBVIOUS
<1>1. CASE Colour \/ LoadIdt \/ Mount \/ Banner \/ Cleanup \/ Strike \/ Taken
  BY <1>1 DEF Colour, LoadIdt, Mount, Banner, Cleanup, Strike, Taken
<1>2. CASE Release \/ EditBackspace \/ Saved \/ EditLetter \/ EnterNothing \/ Enter
  BY <1>2 DEF Release, EditBackspace, Saved, EditLetter, EnterNothing, Enter, Frame, Panic, Erase
<1>3. CASE LeaveDisk \/ CommandStops \/ Backspace \/ F1 \/ Letter
  BY <1>3 DEF LeaveDisk, CommandStops, Backspace, F1, Letter, Frame, Panic, Erase
<1> QED BY <1>1, <1>2, <1>3 DEF Aside

LEMMA StepKinds ==
  [BootNext]_all =>
    \/ Aside \/ Screen \/ ReadBootSector \/ BitmapInit \/ TakeBuffers
    \/ EnterDisk \/ Save \/ InDriver \/ InDrive \/ InBuffers \/ UNCHANGED all
BY DEF BootNext, KmainStep, Interrupt, Aside

\* A step of the kernel is one of the allocator, or leaves it alone.
LEMMA PageStep == [BootNext]_all => [Next]_vars
<1> SUFFICES ASSUME [BootNext]_all PROVE [Next]_vars
  OBVIOUS
<1>1. CASE Aside
  BY <1>1, AsideLeaves
<1>2. CASE BitmapInit
  BY <1>2 DEF BitmapInit, Next
<1>3. CASE TakeBuffers
  BY <1>3 DEF TakeBuffers, Next
<1>4. CASE InBuffers
  BY <1>4 DEF InBuffers, Next
<1>5. CASE Screen \/ ReadBootSector \/ EnterDisk \/ Save \/ InDriver \/ InDrive \/ UNCHANGED all
  BY <1>5 DEF Screen, ReadBootSector, EnterDisk, Save, Frame, InDriver, InDrive, all
<1> QED BY <1>1, <1>2, <1>3, <1>4, <1>5, StepKinds

\* The same of the screen.
LEMMA ScreenStep == [BootNext]_all => [FbNext]_fbVars
<1> SUFFICES ASSUME [BootNext]_all PROVE [FbNext]_fbVars
  OBVIOUS
<1>1. CASE Aside
  BY <1>1, AsideLeaves
<1>2. CASE Screen
  BY <1>2 DEF Screen
<1>3. CASE BitmapInit \/ TakeBuffers \/ InBuffers
  BY <1>3 DEF BitmapInit, TakeBuffers, InBuffers
<1>4. CASE ReadBootSector \/ EnterDisk \/ Save \/ InDriver \/ InDrive \/ UNCHANGED all
  BY <1>4 DEF ReadBootSector, EnterDisk, Save, Frame, InDriver, InDrive, all
<1> QED BY <1>1, <1>2, <1>3, <1>4, StepKinds

LEMMA DiskCallStep == DiskCall => AtaNext
BY DEF DiskCall, AtaNext

\* The same of the disk driver and the drive.
LEMMA DiskStep == [BootNext]_all => [AtaNext]_ataVars
<1> SUFFICES ASSUME [BootNext]_all PROVE [AtaNext]_ataVars
  OBVIOUS
<1>1. CASE Aside
  BY <1>1, AsideLeaves
<1>2. CASE ReadBootSector
  BY <1>2, BootSectorAssumption DEF ReadBootSector, AtaNext, DiskBuffers
<1>3. CASE EnterDisk \/ Save
  <2>1. DiskCall \/ UNCHANGED ataVars
    BY <1>3 DEF EnterDisk, Save, CallDisk
  <2> QED BY <2>1, DiskCallStep
<1>4. CASE InDriver \/ InDrive
  BY <1>4 DEF InDriver, InDrive, AtaNext
<1>5. CASE Screen \/ BitmapInit \/ TakeBuffers \/ InBuffers \/ UNCHANGED all
  BY <1>5 DEF Screen, BitmapInit, TakeBuffers, InBuffers, all
<1> QED BY <1>1, <1>2, <1>3, <1>4, <1>5, StepKinds

\* Every behaviour of the kernel is one of each part.
THEOREM PartsKept == BootSpec => Spec /\ FbSpec /\ AtaSpec
BY PartsBegin, PageStep, ScreenStep, DiskStep, PTL DEF BootSpec, Spec, FbSpec, AtaSpec

\* So the kernel's buffers are distinct usable pages, its screen's cells fit and are
\* drawn where they are, and driver and drive move whole sectors: also with a key's
\* command in the driver.
THEOREM PartsSound ==
  BootSpec => /\ []InBounds /\ []HandedSound /\ []PoolSuffices /\ []CellsInside /\ []PlotExact
              /\ []InStep /\ MovesSectors
BY PartsKept, BitmapInBounds, BuffersSound, PoolIsEnough, CellsStayInside, PlotsAreExact, StaysInStep,
   ImplementsDisk, PTL

-----------------------------------------------------------------------------
(* kmain and the interrupt handler.                                        *)

BeforeKeys    == {"screen", "remap", "unmask", "lidt", "gates", "sti"}
BeforeBuffers == BeforeKeys \cup {"read", "disk", "bitmap"}

\* command_buf comes after everything but the first prompt, and before any command.
OrderInv ==
  /\ next \in Nat \ {0}
  /\ k_at \in BeforeBuffers => next = 1
  /\ cleared # 0 => next # 1
  /\ k_at \in {"prompt", "halt"} => next # 1
  /\ argv0 \/ editor_mode \/ irq_at \in {"disk", "save"} => next # 1
  /\ irq_at \in {"disk", "save"} => argv0
  /\ editor_mode => argv0

\* Interrupts are let in after the table is filled, stay on outside the handler, and
\* are off in it.
GateInv ==
  /\ enabled => idt = "filled" /\ k_at \notin BeforeKeys /\ irq_at = "none"
  /\ k_at \notin BeforeKeys \ {"sti"} => idt = "filled"
  /\ dead = "no" => (in_service <=> irq_at # "none")
  /\ irq_at = "none" /\ dead = "no" /\ k_at \notin BeforeKeys => enabled
  /\ irq_at # "none" => k_at \notin BeforeKeys

\* The disk driver runs for fat32_init or for a key, never for both.
DriverInv == ata_at # "idle" => k_at = "disk" \/ irq_at \in {"disk", "save"}

\* fat32_init waits for the first sector, in a buffer that was zero.
BootSectorInv ==
  /\ k_at \in BeforeKeys \cup {"read"} => buffer["disk_buffer"] = Blank
  /\ k_at = "disk" =>
       /\ ata_at # "idle" => call = [op |-> "read", lba |-> 0, buffer |-> "disk_buffer"]
       /\ drive = "absent" => buffer["disk_buffer"] = Blank
       /\ drive # "absent" /\ ata_at = "idle" => buffer["disk_buffer"] = medium[0]

\* What kmain has zeroed of command_buf is zero if no key came.
PromptInv ==
  /\ k_at = "buffers" /\ ~early => \A c \in 1..cleared : line[c] = "zero"
  /\ PromptClean

BootInv ==
  /\ BootTypeOK /\ AtaInv
  /\ OrderInv /\ GateInv /\ DriverInv /\ BootSectorInv /\ PromptInv /\ StopsOnlySo

LEMMA BootInitially == BootInit => BootInv
<1> SUFFICES ASSUME BootInit PROVE BootInv
  OBVIOUS
<1>1. BootTypeOK
  <2>1. keys \in Nat
    BY MachinesAssumption DEF BootInit, Machine
  <2>2. cleared \in 0..LineCells
    BY LineCellsAssumption DEF BootInit
  <2>3. /\ k_at = "screen" /\ bps = 0 /\ idt = "none" /\ key = "none" /\ irq_at = "none"
        /\ line = [c \in 1..LineCells |-> "junk"] /\ cursor_pos = 0 /\ dead = "no"
    BY DEF BootInit
  <2>4. /\ unmasked \in BOOLEAN /\ enabled \in BOOLEAN /\ in_service \in BOOLEAN
        /\ argv0 \in BOOLEAN /\ editor_mode \in BOOLEAN /\ early \in BOOLEAN
    BY DEF BootInit
  <2>5. 0 \in Uint16
    BY DEF Uint16
  <2> QED BY <2>1, <2>2, <2>3, <2>4, <2>5 DEF BootTypeOK
<1>2. AtaInv
  BY PartsBegin, AtaInitially
<1>3. next = 1
  BY DEF BootInit, Init
<1>4. buffer["disk_buffer"] = Blank /\ ata_at = "idle"
  BY PartsBegin DEF AtaInit, DiskBuffers
<1>5. OrderInv /\ GateInv /\ DriverInv
  BY <1>3, <1>4 DEF BootInit, OrderInv, GateInv, DriverInv, BeforeKeys, BeforeBuffers
<1>6. BootSectorInv /\ PromptInv /\ StopsOnlySo
  BY <1>4 DEF BootInit, BootSectorInv, PromptInv, PromptClean, StopsOnlySo
<1> QED BY <1>1, <1>2, <1>5, <1>6 DEF BootInv

\* What StopsOnlySo says of a stop stays true.
LEMMA StopsKept ==
  ASSUME StopsOnlySo,
         UNCHANGED <<dead, irq_at, editor_mode, argv0, next, fb_at, wild, handed, memmap>>
  PROVE  StopsOnlySo'
BY DEF StopsOnlySo, Stray, Usable

LEMMA RunsOn == ASSUME dead' = "no" PROVE StopsOnlySo'
BY DEF StopsOnlySo

LEMMA ColourKeeps == BootInv /\ Colour => BootInv'
<1> SUFFICES ASSUME BootInv, Colour PROVE BootInv'
  OBVIOUS
<1>1. AtaInv'
  BY AtaStutterKeeps DEF BootInv, Colour
<1>2. UNCHANGED <<next, fb_at, ata_at, buffer, call, medium, drive>>
  BY DEF Colour, vars, fbVars, ataVars, driveVars, driverVars
<1>3. /\ k_at = "screen" /\ k_at' \in {"screen", "remap"} /\ dead = "no" /\ irq_at = "none"
      /\ dead' = "no" \/ (dead' = "reset" /\ fb_at = "null")
      /\ UNCHANGED <<bps, idt, unmasked, enabled, in_service, key, keys, irq_at,
                     line, cursor_pos, argv0, editor_mode, early, cleared>>
  BY DEF Colour, Kmain, irqVars, lineVars
<1>4. BootTypeOK'
  BY <1>3 DEF BootInv, BootTypeOK
<1>5. OrderInv' /\ GateInv' /\ DriverInv'
  BY <1>2, <1>3 DEF BootInv, OrderInv, GateInv, DriverInv, BeforeKeys, BeforeBuffers
<1>6. BootSectorInv' /\ PromptInv'
  BY <1>2, <1>3 DEF BootInv, BootSectorInv, PromptInv, PromptClean, BeforeKeys
<1>7. StopsOnlySo'
  BY <1>2, <1>3 DEF StopsOnlySo
<1> QED BY <1>1, <1>4, <1>5, <1>6, <1>7 DEF BootInv

LEMMA LoadIdtKeeps == BootInv /\ LoadIdt => BootInv'
<1> SUFFICES ASSUME BootInv, LoadIdt PROVE BootInv'
  OBVIOUS
<1>1. AtaInv'
  BY AtaStutterKeeps DEF BootInv, LoadIdt
<1>2. UNCHANGED <<next, fb_at, ata_at, buffer, call, medium, drive>>
  BY DEF LoadIdt, vars, fbVars, ataVars, driveVars, driverVars
<1>3. UNCHANGED <<bps, in_service, key, keys, irq_at, line, cursor_pos, argv0, editor_mode, early, cleared, dead>>
  BY DEF LoadIdt, lineVars
<1>4. /\ dead = "no" /\ irq_at = "none"
      /\ \/ k_at = "remap" /\ unmasked' = FALSE /\ k_at' = "unmask" /\ UNCHANGED <<idt, enabled>>
         \/ k_at = "unmask" /\ unmasked' = TRUE /\ k_at' = "lidt" /\ UNCHANGED <<idt, enabled>>
         \/ k_at = "lidt" /\ idt' = "empty" /\ k_at' = "gates" /\ UNCHANGED <<unmasked, enabled>>
         \/ k_at = "gates" /\ idt' = "filled" /\ k_at' = "sti" /\ UNCHANGED <<unmasked, enabled>>
         \/ k_at = "sti" /\ enabled' = TRUE /\ k_at' = "read" /\ UNCHANGED <<idt, unmasked>>
  BY DEF LoadIdt, Kmain
<1>5. BootTypeOK'
  <2>1. k_at' \in BeforeKeys \cup {"read"} /\ idt' \in {"none", "empty", "filled"}
    BY <1>4 DEF BootInv, BootTypeOK, BeforeKeys
  <2>2. unmasked' \in BOOLEAN /\ enabled' \in BOOLEAN
    BY <1>4 DEF BootInv, BootTypeOK
  <2> QED BY <1>3, <2>1, <2>2 DEF BootInv, BootTypeOK, BeforeKeys
<1>6. OrderInv' /\ GateInv' /\ DriverInv'
  BY <1>2, <1>3, <1>4 DEF BootInv, OrderInv, GateInv, DriverInv, BeforeKeys, BeforeBuffers
<1>7. BootSectorInv' /\ PromptInv' /\ StopsOnlySo'
  BY <1>2, <1>3, <1>4 DEF BootInv, BootSectorInv, PromptInv, PromptClean, StopsOnlySo, BeforeKeys
<1> QED BY <1>1, <1>5, <1>6, <1>7 DEF BootInv

LEMMA ReadBootSectorKeeps == BootInv /\ ReadBootSector => BootInv'
<1> SUFFICES ASSUME BootInv, ReadBootSector PROVE BootInv'
  OBVIOUS
<1>1. AtaInv'
  BY AtaStepKeeps, BootSectorAssumption DEF BootInv, ReadBootSector, AtaNext, DiskBuffers
<1>2. /\ k_at = "read" /\ k_at' = "disk" /\ dead = "no" /\ irq_at = "none"
      /\ ata_at' # "idle" /\ call' = [op |-> "read", lba |-> 0, buffer |-> "disk_buffer"]
      /\ UNCHANGED <<next, fb_at, buffer, medium, drive>>
  BY DEF ReadBootSector, Kmain, CallRead, vars, fbVars, driveVars
<1>3. UNCHANGED <<bps, idt, unmasked, enabled, in_service, key, keys, irq_at, line, cursor_pos,
                  argv0, editor_mode, early, cleared, dead>>
  BY DEF ReadBootSector, irqVars, lineVars
<1>4. BootTypeOK'
  BY <1>2, <1>3 DEF BootInv, BootTypeOK
<1>5. OrderInv' /\ GateInv' /\ DriverInv'
  BY <1>2, <1>3 DEF BootInv, OrderInv, GateInv, DriverInv, BeforeKeys, BeforeBuffers
<1>6. BootSectorInv' /\ PromptInv' /\ StopsOnlySo'
  BY <1>2, <1>3 DEF BootInv, BootSectorInv, PromptInv, PromptClean, StopsOnlySo, BeforeKeys
<1> QED BY <1>1, <1>4, <1>5, <1>6 DEF BootInv

LEMMA TwoBytes ==
  ASSUME NEW a \in Bytes, NEW b \in Bytes
  PROVE  a + 256 * b \in Uint16
BY DEF Bytes, Uint16

\* What fat32_init takes out of the first sector.
LEMMA MountReads ==
  ASSUME BootInv, Mount
  PROVE  /\ bps' = IF drive = "absent" THEN 0 ELSE medium[0][1] + 256 * medium[0][2]
         /\ bps' \in Uint16
<1>1. /\ bps' = buffer["disk_buffer"][1] + 256 * buffer["disk_buffer"][2]
      /\ k_at = "disk" /\ ata_at = "idle"
  BY DEF Mount, Kmain
<1>2. 1 \in 1..(2 * Words) /\ 2 \in 1..(2 * Words)
  BY WordsAssumption
<1>3. Blank[1] = 0 /\ Blank[2] = 0
  BY <1>2 DEF Blank
<1>4. buffer["disk_buffer"] = IF drive = "absent" THEN Blank ELSE medium[0]
  BY <1>1 DEF BootInv, BootSectorInv
<1>5. buffer["disk_buffer"][1] \in Bytes /\ buffer["disk_buffer"][2] \in Bytes
  BY <1>2 DEF BootInv, AtaInv, AtaTypeOK, Content, DiskBuffers
<1>6. bps' \in Uint16
  BY <1>1, <1>5, TwoBytes
<1> QED BY <1>1, <1>3, <1>4, <1>6

LEMMA MountKeeps == BootInv /\ Mount => BootInv'
<1> SUFFICES ASSUME BootInv, Mount PROVE BootInv'
  OBVIOUS
<1>1. AtaInv'
  BY AtaStutterKeeps DEF BootInv, Mount
<1>2. UNCHANGED <<next, fb_at, ata_at, buffer, call, medium, drive>>
  BY DEF Mount, vars, fbVars, ataVars, driveVars, driverVars
<1>3. /\ k_at = "disk" /\ k_at' = "bitmap" /\ dead = "no" /\ irq_at = "none" /\ ata_at = "idle"
      /\ UNCHANGED <<idt, unmasked, enabled, in_service, key, keys, irq_at, line, cursor_pos,
                     argv0, editor_mode, early, cleared, dead>>
  BY DEF Mount, Kmain, irqVars, lineVars
<1>4. BootTypeOK'
  BY <1>3, MountReads DEF BootInv, BootTypeOK
<1>5. OrderInv' /\ GateInv' /\ DriverInv'
  BY <1>2, <1>3 DEF BootInv, OrderInv, GateInv, DriverInv, BeforeKeys, BeforeBuffers
<1>6. BootSectorInv' /\ PromptInv' /\ StopsOnlySo'
  BY <1>2, <1>3 DEF BootInv, BootSectorInv, PromptInv, PromptClean, StopsOnlySo, BeforeKeys
<1> QED BY <1>1, <1>4, <1>5, <1>6 DEF BootInv

\* Steps of the allocator and the screen that leave kmain where it is.
LEMMA PartKeeps == BootInv /\ (Screen \/ BitmapInit \/ TakeBuffers \/ InBuffers) => BootInv'
<1> SUFFICES ASSUME BootInv, Screen \/ BitmapInit \/ TakeBuffers \/ InBuffers PROVE BootInv'
  OBVIOUS
<1>1. UNCHANGED bootVars /\ UNCHANGED ataVars
  BY DEF Screen, BitmapInit, TakeBuffers, InBuffers
<1>2. AtaInv'
  BY <1>1, AtaStutterKeeps DEF BootInv
<1>3. UNCHANGED <<k_at, bps, idt, unmasked, enabled, in_service, key, keys, irq_at, line,
                  cursor_pos, argv0, editor_mode, early, cleared, dead, ata_at, buffer, call, medium, drive>>
  BY <1>1 DEF bootVars, irqVars, lineVars, ataVars, driveVars, driverVars
<1>4. next' = next \/ (k_at = "buffers" /\ next' = next + 1)
  <2>1. CASE Screen
    BY <2>1 DEF Screen, vars
  <2>2. CASE BitmapInit
    BY <2>2 DEF BitmapInit, FindTop, SizeBitmap, SkipRegion, Place, ClearRegion, Reserve
  <2>3. CASE TakeBuffers
    BY <2>3 DEF TakeBuffers, Kmain, Malloc, MallocRunsOff
  <2>4. CASE InBuffers
    BY <2>4 DEF InBuffers, WriteBuffer
  <2> QED BY <2>1, <2>2, <2>3, <2>4
<1>5. dead # "no" => UNCHANGED <<next, fb_at, wild, handed, memmap>>
  <2>1. CASE Screen \/ BitmapInit \/ TakeBuffers
    BY <2>1 DEF Screen, BitmapInit, TakeBuffers, Kmain
  <2>2. CASE InBuffers
    BY <2>2 DEF InBuffers, WriteBuffer, fbVars
  <2> QED BY <2>1, <2>2
<1>6. BootTypeOK'
  BY <1>3 DEF BootInv, BootTypeOK
<1>7. OrderInv'
  BY <1>3, <1>4 DEF BootInv, OrderInv, BeforeKeys, BeforeBuffers
<1>8. GateInv' /\ DriverInv' /\ BootSectorInv'
  BY <1>3, <1>4 DEF BootInv, OrderInv, GateInv, DriverInv, BootSectorInv
<1>9. PromptInv'
  BY <1>3 DEF BootInv, PromptInv, PromptClean
<1>10. StopsOnlySo'
  <2>1. CASE dead = "no"
    BY <1>3, <2>1, RunsOn
  <2>2. CASE dead # "no"
    BY <1>3, <1>5, <2>2, StopsKept DEF BootInv
  <2> QED BY <2>1, <2>2
<1> QED BY <1>2, <1>6, <1>7, <1>8, <1>9, <1>10 DEF BootInv

LEMMA BannerKeeps == BootInv /\ Banner => BootInv'
<1> SUFFICES ASSUME BootInv, Banner PROVE BootInv'
  OBVIOUS
<1>1. AtaInv'
  BY AtaStutterKeeps DEF BootInv, Banner
<1>2. UNCHANGED <<next, fb_at, ata_at, buffer, call, medium, drive>>
  BY DEF Banner, vars, fbVars, ataVars, driveVars, driverVars
<1>3. /\ k_at = "bitmap" /\ k_at' = "buffers" /\ dead = "no" /\ irq_at = "none"
      /\ UNCHANGED <<bps, idt, unmasked, enabled, in_service, key, keys, irq_at, line, cursor_pos,
                     argv0, editor_mode, early, cleared, dead>>
  BY DEF Banner, Kmain, irqVars, lineVars
<1>4. BootTypeOK'
  BY <1>3 DEF BootInv, BootTypeOK
<1>5. OrderInv' /\ GateInv' /\ DriverInv'
  BY <1>2, <1>3 DEF BootInv, OrderInv, GateInv, DriverInv, BeforeKeys, BeforeBuffers
<1>6. BootSectorInv' /\ PromptInv' /\ StopsOnlySo'
  <2>1. cleared = 0
    BY <1>3 DEF BootInv, OrderInv, BeforeBuffers
  <2>2. PromptInv'
    BY <1>3, <2>1 DEF PromptInv, PromptClean
  <2> QED BY <1>2, <1>3, <2>2 DEF BootInv, BootSectorInv, StopsOnlySo, BeforeKeys
<1> QED BY <1>1, <1>4, <1>5, <1>6 DEF BootInv

LEMMA CleanupKeeps == BootInv /\ Cleanup => BootInv'
<1> SUFFICES ASSUME BootInv, Cleanup PROVE BootInv'
  OBVIOUS
<1>1. AtaInv'
  BY AtaStutterKeeps DEF BootInv, Cleanup
<1>2. UNCHANGED <<next, fb_at, ata_at, buffer, call, medium, drive>>
  BY DEF Cleanup, vars, fbVars, ataVars, driveVars, driverVars
<1>3. /\ k_at' \in {"buffers", "prompt", "halt"} /\ k_at \in {"buffers", "prompt"}
      /\ dead = "no" /\ irq_at = "none"
      /\ UNCHANGED <<bps, idt, unmasked, enabled, in_service, key, keys, irq_at, argv0, editor_mode, early>>
  BY DEF Cleanup, CleanupFaults, Kmain, irqVars
<1>4. CASE /\ k_at = "buffers" /\ k_at' = k_at /\ next > Len(Buffers) /\ cleared < LineCells
           /\ line' = [line EXCEPT ![cleared + 1] = "zero"] /\ cleared' = cleared + 1
           /\ cursor_pos' = cursor_pos /\ dead' = dead
  <2>1. cleared \in 0..LineCells /\ cleared + 1 \in 1..LineCells
        /\ line \in [1..LineCells -> {"junk", "zero", "key", "blank"}]
    BY <1>4, LineCellsAssumption DEF BootInv, BootTypeOK
  <2>2. BootTypeOK'
    BY <1>3, <1>4, <2>1 DEF BootInv, BootTypeOK
  <2>3. next # 1
    BY <1>4 DEF Buffers
  <2>4. PromptInv'
    BY <1>3, <1>4, <2>1 DEF BootInv, PromptInv, PromptClean
  <2>5. OrderInv' /\ GateInv' /\ DriverInv' /\ BootSectorInv' /\ StopsOnlySo'
    BY <1>2, <1>3, <1>4, <2>3 DEF BootInv, OrderInv, GateInv, DriverInv, BootSectorInv, StopsOnlySo,
       BeforeKeys, BeforeBuffers
  <2> QED BY <1>1, <2>2, <2>4, <2>5 DEF BootInv
<1>5. CASE /\ k_at = "buffers" /\ cleared = LineCells /\ cursor_pos' = 0 /\ k_at' = "prompt"
           /\ UNCHANGED <<line, cleared, dead>>
  <2>1. BootTypeOK'
    BY <1>3, <1>5 DEF BootInv, BootTypeOK
  <2>2. next # 1
    BY <1>5, LineCellsAssumption DEF BootInv, OrderInv
  <2>3. PromptInv'
    BY <1>3, <1>5 DEF BootInv, PromptInv, PromptClean
  <2>4. OrderInv' /\ GateInv' /\ DriverInv' /\ BootSectorInv' /\ StopsOnlySo'
    BY <1>2, <1>3, <1>5, <2>2 DEF BootInv, OrderInv, GateInv, DriverInv, BootSectorInv, StopsOnlySo,
       BeforeKeys, BeforeBuffers
  <2> QED BY <1>1, <2>1, <2>3, <2>4 DEF BootInv
<1>6. CASE k_at = "prompt" /\ k_at' = "halt" /\ UNCHANGED <<line, cursor_pos, cleared, dead>>
  <2>1. BootTypeOK'
    BY <1>3, <1>6 DEF BootInv, BootTypeOK
  <2>2. PromptInv'
    BY <1>3, <1>6 DEF BootInv, PromptInv, PromptClean
  <2>3. OrderInv' /\ GateInv' /\ DriverInv' /\ BootSectorInv' /\ StopsOnlySo'
    BY <1>2, <1>3, <1>6 DEF BootInv, OrderInv, GateInv, DriverInv, BootSectorInv, StopsOnlySo,
       BeforeKeys, BeforeBuffers
  <2> QED BY <1>1, <2>1, <2>2, <2>3 DEF BootInv
<1>7. CASE CleanupFaults /\ dead' = "panic" /\ UNCHANGED <<k_at, line, cursor_pos, cleared>>
  <2>1. BootTypeOK'
    BY <1>3, <1>7 DEF BootInv, BootTypeOK
  <2>2. PromptInv'
    BY <1>3, <1>7 DEF BootInv, PromptInv, PromptClean
  <2>3. OrderInv' /\ GateInv' /\ DriverInv' /\ BootSectorInv'
    BY <1>2, <1>3, <1>7 DEF BootInv, OrderInv, GateInv, DriverInv, BootSectorInv
  <2>4. Stray("command_buf") \/ Stray("folder_name")
    BY <1>7 DEF CleanupFaults
  <2>5. UNCHANGED <<wild, handed, memmap>>
    BY DEF Cleanup, vars
  <2>6. (Stray("command_buf") \/ Stray("folder_name"))'
    BY <2>4, <2>5 DEF Stray, Usable
  <2>7. StopsOnlySo'
    BY <1>3, <1>7, <2>6 DEF StopsOnlySo
  <2> QED BY <1>1, <2>1, <2>2, <2>3, <2>7 DEF BootInv
<1> QED BY <1>4, <1>5, <1>6, <1>7 DEF Cleanup, Kmain

-----------------------------------------------------------------------------
(* The keyboard.                                                           *)

LEMMA StrikeKeeps == BootInv /\ Strike => BootInv'
<1> SUFFICES ASSUME BootInv, Strike PROVE BootInv'
  OBVIOUS
<1>1. AtaInv'
  BY AtaStutterKeeps DEF BootInv, Strike
<1>2. UNCHANGED <<next, fb_at, ata_at, buffer, call, medium, drive>>
  BY DEF Strike, vars, fbVars, ataVars, driveVars, driverVars
<1>3. /\ key' \in Keys /\ keys > 0 /\ keys' = keys - 1
      /\ UNCHANGED <<k_at, bps, idt, unmasked, enabled, in_service, irq_at, line, cursor_pos,
                     argv0, editor_mode, early, cleared, dead>>
  BY DEF Strike, irqVars, lineVars
<1>4. BootTypeOK'
  <2>1. keys' \in Nat
    BY <1>3 DEF BootInv, BootTypeOK
  <2> QED BY <1>3, <2>1 DEF BootInv, BootTypeOK
<1>5. OrderInv' /\ GateInv' /\ DriverInv' /\ BootSectorInv' /\ PromptInv'
  BY <1>2, <1>3 DEF BootInv, OrderInv, GateInv, DriverInv, BootSectorInv, PromptInv, PromptClean
<1>6. StopsOnlySo'
  BY <1>2, <1>3, StopsKept DEF BootInv, Strike, vars
<1> QED BY <1>1, <1>4, <1>5, <1>6 DEF BootInv

LEMMA TakenKeeps == BootInv /\ Taken => BootInv'
<1> SUFFICES ASSUME BootInv, Taken PROVE BootInv'
  OBVIOUS
<1>1. AtaInv'
  BY AtaStutterKeeps DEF BootInv, Taken
<1>2. UNCHANGED <<next, fb_at, ata_at, buffer, call, medium, drive>>
  BY DEF Taken, vars, fbVars, ataVars, driveVars, driverVars
<1>3. idt = "filled" /\ k_at \notin BeforeKeys /\ irq_at = "none" /\ dead = "no"
  BY DEF BootInv, GateInv, Taken
<1>4. /\ irq_at' = key /\ key \in Keys /\ key' = "none" /\ enabled' = FALSE /\ in_service' = TRUE
      /\ UNCHANGED <<k_at, bps, idt, unmasked, keys, line, cursor_pos, argv0, editor_mode, early,
                     cleared, dead>>
  BY <1>3 DEF Taken, lineVars, BootInv, BootTypeOK
<1>5. irq_at' \notin {"none", "disk", "save"}
  BY <1>4 DEF Keys
<1>6. BootTypeOK'
  BY <1>4 DEF BootInv, BootTypeOK
<1>7. OrderInv' /\ GateInv' /\ DriverInv' /\ BootSectorInv' /\ PromptInv'
  BY <1>2, <1>3, <1>4, <1>5
     DEF BootInv, OrderInv, GateInv, DriverInv, BootSectorInv, PromptInv, PromptClean
<1>8. StopsOnlySo'
  BY <1>3, <1>4, RunsOn
<1> QED BY <1>1, <1>6, <1>7, <1>8 DEF BootInv

LineOf(l) == l \in [1..LineCells -> {"junk", "zero", "key", "blank"}]

\* A handler leaves.
LEMMA ExitKeeps ==
  ASSUME BootInv, Handler(irq_at), irq_at # "none", Eoi, Iret, Frame, UNCHANGED ataVars,
         irq_at \in {"disk", "save"} => ata_at = "idle",
         LineOf(line'), cursor_pos' \in Int,
         argv0' \in BOOLEAN, editor_mode' \in BOOLEAN, early' \in BOOLEAN,
         argv0' => next # 1, editor_mode' => argv0', PromptInv'
  PROVE  BootInv'
<1>1. AtaInv'
  BY AtaStutterKeeps DEF BootInv
<1>2. UNCHANGED <<next, fb_at, ata_at, buffer, call, medium, drive>>
  BY DEF Frame, vars, fbVars, ataVars, driveVars, driverVars
<1>3. /\ dead = "no" /\ dead' = "no" /\ irq_at' = "none" /\ enabled' = TRUE /\ in_service' = FALSE
      /\ UNCHANGED <<k_at, bps, idt, unmasked, key, keys, cleared>>
  BY DEF Handler, Eoi, Iret, Frame
<1>4. BootTypeOK'
  BY <1>3 DEF BootInv, BootTypeOK, LineOf
<1>5. k_at \notin BeforeKeys /\ idt = "filled"
  BY DEF BootInv, GateInv
<1>6. GateInv'
  BY <1>3, <1>5 DEF GateInv
<1>7. OrderInv' /\ DriverInv' /\ BootSectorInv'
  BY <1>2, <1>3 DEF BootInv, OrderInv, DriverInv, BootSectorInv
<1>8. StopsOnlySo'
  BY <1>3, RunsOn
<1> QED BY <1>1, <1>4, <1>6, <1>7, <1>8 DEF BootInv

\* One that faults: the invariant says nothing more of it than why.
LEMMA PanicKeeps ==
  ASSUME BootInv, Handler(irq_at), irq_at # "none", Panic, Frame,
         IF editor_mode
         THEN \/ irq_at = "backspace" /\ Stray("command_buf")
              \/ irq_at \in {"letter", "enter"} /\ (next <= 2 \/ Stray("doc_buf"))
         ELSE \/ irq_at \in {"letter", "backspace", "enter"} /\ (next = 1 \/ Stray("command_buf"))
              \/ irq_at = "enter" /\ ~argv0
  PROVE  BootInv'
<1>1. UNCHANGED ataVars /\ dead' = "panic" /\ dead = "no"
  BY DEF Handler, Panic, Stops
<1>2. AtaInv'
  BY <1>1, AtaStutterKeeps DEF BootInv
<1>3. UNCHANGED <<next, fb_at, wild, handed, memmap, ata_at, buffer, call, medium, drive>>
  BY <1>1 DEF Frame, vars, fbVars, ataVars, driveVars, driverVars
<1>4. UNCHANGED <<k_at, bps, idt, unmasked, enabled, in_service, key, keys, irq_at, line,
                  cursor_pos, argv0, editor_mode, early, cleared>>
  BY DEF Panic, Stops, Frame, lineVars
<1>5. BootTypeOK'
  BY <1>1, <1>4 DEF BootInv, BootTypeOK
<1>6. OrderInv' /\ GateInv' /\ DriverInv' /\ BootSectorInv' /\ PromptInv'
  BY <1>1, <1>3, <1>4
     DEF BootInv, OrderInv, GateInv, DriverInv, BootSectorInv, PromptInv, PromptClean
<1>7. Stray("command_buf")' = Stray("command_buf") /\ Stray("doc_buf")' = Stray("doc_buf")
  BY <1>3 DEF Stray, Usable
<1>8. StopsOnlySo'
  BY <1>1, <1>3, <1>4, <1>7 DEF StopsOnlySo
<1> QED BY <1>2, <1>5, <1>6, <1>8 DEF BootInv

\* A key that changes the line after kmain has zeroed it keeps it clean behind the
\* cursor.
LEMMA LinePrompt ==
  ASSUME BootInv, next # 1, Early, UNCHANGED <<k_at, cleared>>,
         k_at \in {"prompt", "halt"} /\ ~early =>
           \A c \in 1..LineCells : c > cursor_pos' => line'[c] \in {"zero", "blank"}
  PROVE  PromptInv' /\ early' \in BOOLEAN
<1>1. k_at \in {"buffers", "prompt", "halt"}
  BY DEF BootInv, OrderInv, BootTypeOK, BeforeBuffers, BeforeKeys
<1>2. early' = (early \/ k_at = "buffers") /\ early \in BOOLEAN
  BY DEF Early, BootInv, BootTypeOK
<1> QED BY <1>1, <1>2 DEF PromptInv, PromptClean

LEMMA PutFits ==
  ASSUME LineOf(line), NEW n \in Int, NEW c \in {"key", "blank"}
  PROVE  /\ LineOf(Put(n, c))
         /\ \A d \in 1..LineCells : Put(n, c)[d] = IF d = n THEN c ELSE line[d]
BY DEF LineOf, Put

LEMMA CleanLineFits ==
  ASSUME CleanLine
  PROVE  /\ LineOf(line') /\ cursor_pos' \in Int /\ Early
         /\ \A c \in 1..LineCells : line'[c] \in {"zero", "blank"}
BY DEF CleanLine, LineOf

LEMMA LineTypes ==
  BootInv => /\ LineOf(line) /\ cursor_pos \in Int /\ early \in BOOLEAN
             /\ argv0 \in BOOLEAN /\ editor_mode \in BOOLEAN
BY DEF BootInv, BootTypeOK, LineOf

\* What OrderInv says of a key's command.
LEMMA Buffered ==
  BootInv => /\ argv0 => next # 1
             /\ editor_mode => argv0
             /\ irq_at \in {"disk", "save"} => argv0
BY DEF BootInv, OrderInv

\* A release, and F1 outside the editor.
LEMMA KeyIgnoredKeeps == BootInv /\ (Release \/ F1) => BootInv'
<1> SUFFICES ASSUME BootInv, Release \/ F1 PROVE BootInv'
  OBVIOUS
<1>1. /\ irq_at \in {"release", "f1"} /\ Handler(irq_at) /\ Eoi /\ Iret /\ Frame
      /\ UNCHANGED ataVars /\ UNCHANGED lineVars
  BY DEF Release, F1, Handler
<1>2. UNCHANGED <<line, cursor_pos, argv0, editor_mode, early, k_at, cleared>>
  BY <1>1 DEF lineVars, Frame
<1>3. PromptInv'
  BY <1>2 DEF BootInv, PromptInv, PromptClean
<1>4. LineOf(line')
  BY <1>2, LineTypes DEF LineOf
<1> QED BY <1>1, <1>2, <1>3, <1>4, LineTypes, Buffered, ExitKeeps

\* F1's save is over.
LEMMA SavedKeeps == BootInv /\ Saved => BootInv'
<1> SUFFICES ASSUME BootInv, Saved PROVE BootInv'
  OBVIOUS
<1>1. /\ irq_at = "save" /\ Handler(irq_at) /\ Eoi /\ Iret /\ Frame /\ ata_at = "idle"
      /\ UNCHANGED ataVars /\ UNCHANGED <<argv0, editor_mode>> /\ CleanLine
  BY DEF Saved, Handler
<1>2. UNCHANGED <<k_at, cleared>> /\ next # 1
  BY <1>1, Buffered DEF Frame
<1>3. PromptInv' /\ early' \in BOOLEAN
  BY <1>1, <1>2, CleanLineFits, LinePrompt
<1> QED BY <1>1, <1>2, <1>3, CleanLineFits, LineTypes, Buffered, ExitKeeps

\* A command that used the disk is over.
LEMMA LeaveDiskKeeps == BootInv /\ LeaveDisk => BootInv'
<1> SUFFICES ASSUME BootInv, LeaveDisk PROVE BootInv'
  OBVIOUS
<1>1. /\ irq_at = "disk" /\ Handler(irq_at) /\ Eoi /\ Iret /\ Frame /\ ata_at = "idle"
      /\ UNCHANGED ataVars /\ argv0' = argv0 /\ editor_mode' \in BOOLEAN /\ CleanLine
  BY DEF LeaveDisk, Handler
<1>2. UNCHANGED <<k_at, cleared>> /\ next # 1 /\ argv0
  BY <1>1, Buffered DEF Frame
<1>3. PromptInv' /\ early' \in BOOLEAN
  BY <1>1, <1>2, CleanLineFits, LinePrompt
<1> QED BY <1>1, <1>2, <1>3, CleanLineFits, LineTypes, ExitKeeps

LEMMA EraseKeeps == BootInv /\ (EditBackspace \/ Backspace) => BootInv'
<1> SUFFICES ASSUME BootInv, EditBackspace \/ Backspace PROVE BootInv'
  OBVIOUS
<1>1. irq_at = "backspace" /\ Handler(irq_at) /\ Frame
  BY DEF EditBackspace, Backspace, Handler
<1>2. CASE LineFaults /\ Panic
  <2>1. next = 1 \/ Stray("command_buf")
    BY <1>2 DEF LineFaults, NoBuffer
  <2>2. editor_mode => next # 1
    BY Buffered
  <2> QED BY <1>1, <1>2, <2>1, <2>2, PanicKeeps
<1>3. CASE ~NoBuffer /\ Erase /\ Eoi /\ Iret
  <2>1. /\ line' = Put(cursor_pos, "blank") /\ cursor_pos' = cursor_pos - 1 /\ Early
        /\ UNCHANGED <<argv0, editor_mode>> /\ UNCHANGED ataVars /\ UNCHANGED <<k_at, cleared>>
        /\ next # 1
    BY <1>1, <1>3 DEF Erase, Frame, NoBuffer
  <2>2. LineOf(line') /\ cursor_pos' \in Int
    BY <2>1, PutFits, LineTypes
  <2>3. k_at \in {"prompt", "halt"} /\ ~early =>
          \A c \in 1..LineCells : c > cursor_pos' => line'[c] \in {"zero", "blank"}
    <3>1. \A c \in 1..LineCells : c > cursor_pos' => c = cursor_pos \/ c > cursor_pos
      BY <2>1, LineTypes
    <3>2. \A c \in 1..LineCells : line'[c] = "blank" \/ (c # cursor_pos /\ line'[c] = line[c])
      BY <2>1, PutFits, LineTypes
    <3> QED BY <3>1, <3>2 DEF BootInv, PromptInv, PromptClean
  <2>4. PromptInv' /\ early' \in BOOLEAN
    BY <2>1, <2>3, LinePrompt
  <2> QED BY <1>1, <1>3, <2>1, <2>2, <2>4, LineTypes, Buffered, ExitKeeps
<1> QED BY <1>2, <1>3 DEF EditBackspace, Backspace

LEMMA EditLetterKeeps == BootInv /\ EditLetter => BootInv'
<1> SUFFICES ASSUME BootInv, EditLetter PROVE BootInv'
  OBVIOUS
<1>1. irq_at \in {"letter", "enter"} /\ Handler(irq_at) /\ editor_mode /\ Frame
  BY DEF EditLetter, Handler
<1>2. CASE (NoDocument \/ Stray("doc_buf")) /\ Panic
  BY <1>1, <1>2, PanicKeeps DEF NoDocument
<1>3. CASE /\ ~NoDocument /\ cursor_pos' = cursor_pos + 1 /\ Early
           /\ UNCHANGED <<line, argv0, editor_mode, ataVars>> /\ Eoi /\ Iret
  <2>1. UNCHANGED <<k_at, cleared>> /\ next # 1
    BY <1>1, Buffered DEF Frame
  <2>2. LineOf(line') /\ cursor_pos' \in Int
    BY <1>3, LineTypes DEF LineOf
  <2>3. k_at \in {"prompt", "halt"} /\ ~early =>
          \A c \in 1..LineCells : c > cursor_pos' => line'[c] \in {"zero", "blank"}
    <3>1. \A c \in 1..LineCells : c > cursor_pos' => c > cursor_pos
      BY <1>3, LineTypes
    <3> QED BY <1>3, <3>1 DEF BootInv, PromptInv, PromptClean
  <2>4. PromptInv' /\ early' \in BOOLEAN
    BY <1>3, <2>1, <2>3, LinePrompt
  <2> QED BY <1>1, <1>3, <2>1, <2>2, <2>4, LineTypes, Buffered, ExitKeeps
<1> QED BY <1>2, <1>3 DEF EditLetter

LEMMA LetterKeeps == BootInv /\ Letter => BootInv'
<1> SUFFICES ASSUME BootInv, Letter PROVE BootInv'
  OBVIOUS
<1>1. irq_at = "letter" /\ Handler(irq_at) /\ ~editor_mode /\ Frame
  BY DEF Letter, Handler
<1>2. CASE LineFaults /\ Panic
  BY <1>1, <1>2, PanicKeeps DEF LineFaults, NoBuffer
<1>3. CASE /\ ~NoBuffer /\ Early
           /\ line' = Put(cursor_pos + 1, "key") /\ cursor_pos' = cursor_pos + 1
           /\ UNCHANGED <<argv0, editor_mode, ataVars>> /\ Eoi /\ Iret
  <2>1. UNCHANGED <<k_at, cleared>> /\ next # 1
    BY <1>1, <1>3 DEF Frame, NoBuffer
  <2>2. LineOf(line') /\ cursor_pos' \in Int
    BY <1>3, PutFits, LineTypes
  <2>3. k_at \in {"prompt", "halt"} /\ ~early =>
          \A c \in 1..LineCells : c > cursor_pos' => line'[c] \in {"zero", "blank"}
    <3>1. \A c \in 1..LineCells : c > cursor_pos' => c # cursor_pos + 1 /\ c > cursor_pos
      BY <1>3, LineTypes
    <3>2. \A c \in 1..LineCells : c > cursor_pos' => line'[c] = line[c]
      BY <1>3, <3>1, PutFits, LineTypes
    <3> QED BY <3>1, <3>2 DEF BootInv, PromptInv, PromptClean
  <2>4. PromptInv' /\ early' \in BOOLEAN
    BY <1>3, <2>1, <2>3, LinePrompt
  <2> QED BY <1>1, <1>3, <2>1, <2>2, <2>4, LineTypes, Buffered, ExitKeeps
<1> QED BY <1>2, <1>3 DEF Letter

LEMMA EnterNothingKeeps == BootInv /\ EnterNothing => BootInv'
<1> SUFFICES ASSUME BootInv, EnterNothing PROVE BootInv'
  OBVIOUS
<1>1. /\ irq_at = "enter" /\ Handler(irq_at) /\ ~editor_mode /\ Frame /\ Panic
      /\ next = 1 \/ Stray("command_buf") \/ ~argv0
  BY DEF EnterNothing, Handler, LineFaults, NoBuffer
<1> QED BY <1>1, PanicKeeps

LEMMA EnterKeeps == BootInv /\ Enter => BootInv'
<1> SUFFICES ASSUME BootInv, Enter PROVE BootInv'
  OBVIOUS
<1>1. /\ irq_at = "enter" /\ Handler(irq_at) /\ Eoi /\ Iret /\ Frame /\ next # 1
      /\ UNCHANGED ataVars /\ argv0' = TRUE /\ editor_mode' \in BOOLEAN /\ CleanLine
  BY DEF Enter, Command, Handler, NoBuffer
<1>2. UNCHANGED <<k_at, cleared>>
  BY <1>1 DEF Frame
<1>3. PromptInv' /\ early' \in BOOLEAN
  BY <1>1, <1>2, CleanLineFits, LinePrompt
<1> QED BY <1>1, <1>3, CleanLineFits, ExitKeeps

LEMMA DiskCallFrame ==
  DiskCall => ata_at' # "idle" /\ UNCHANGED <<buffer, medium, drive>>
BY DEF DiskCall, CallRead, CallWrite, driveVars

\* A command or F1 calls the driver: it is idle.
LEMMA DiskKeyKeeps == BootInv /\ (EnterDisk \/ Save) => BootInv'
<1> SUFFICES ASSUME BootInv, EnterDisk \/ Save PROVE BootInv'
  OBVIOUS
<1>1. /\ irq_at \in {"enter", "f1"} /\ dead = "no" /\ Frame
      /\ UNCHANGED <<enabled, in_service, line, cursor_pos, early>>
      /\ argv0' \in BOOLEAN /\ editor_mode' \in BOOLEAN
      /\ CallDisk("disk") \/ CallDisk("save")
  BY LineTypes DEF EnterDisk, Save, Command, Handler
<1>2. argv0' /\ next # 1
  BY Buffered DEF EnterDisk, Save, Command, NoBuffer
<1>3. UNCHANGED <<k_at, bps, idt, unmasked, key, keys, cleared, next, fb_at>>
  BY <1>1 DEF Frame, vars, fbVars
<1>4. k_at \in {"buffers", "prompt", "halt"}
  BY <1>2 DEF BootInv, OrderInv, BootTypeOK, BeforeBuffers, BeforeKeys
<1>5. ata_at = "idle"
  BY <1>1, <1>4 DEF BootInv, DriverInv
<1>6. DiskCall /\ irq_at' \in {"disk", "save"} /\ dead' = "no"
  BY <1>1, <1>5 DEF CallDisk
<1>7. AtaInv'
  BY <1>6, DiskCallStep, AtaStepKeeps DEF BootInv
<1>8. BootTypeOK'
  BY <1>1, <1>3, <1>6 DEF BootInv, BootTypeOK
<1>9. GateInv'
  BY <1>1, <1>3, <1>6 DEF BootInv, GateInv
<1>10. OrderInv' /\ DriverInv' /\ BootSectorInv'
  BY <1>2, <1>3, <1>4, <1>6, DiskCallFrame
     DEF BootInv, OrderInv, DriverInv, BootSectorInv, BeforeKeys, BeforeBuffers
<1>11. PromptInv' /\ StopsOnlySo'
  BY <1>1, <1>3, <1>6, RunsOn DEF BootInv, PromptInv, PromptClean
<1> QED BY <1>7, <1>8, <1>9, <1>10, <1>11 DEF BootInv

LEMMA CommandStopsKeeps == BootInv /\ CommandStops => BootInv'
<1> SUFFICES ASSUME BootInv, CommandStops PROVE BootInv'
  OBVIOUS
<1>1. /\ irq_at \in {"enter", "disk", "save"} /\ dead' = "command" /\ argv0' = TRUE /\ next # 1
      /\ UNCHANGED ataVars /\ Frame
      /\ UNCHANGED <<irq_at, enabled, in_service, line, cursor_pos, editor_mode, early>>
  BY Buffered DEF CommandStops, Stops, Command, Handler, NoBuffer
<1>2. AtaInv'
  BY <1>1, AtaStutterKeeps DEF BootInv
<1>3. UNCHANGED <<k_at, bps, idt, unmasked, key, keys, cleared, next, fb_at,
                  ata_at, buffer, call, medium, drive>>
  BY <1>1 DEF Frame, vars, fbVars, ataVars, driveVars, driverVars
<1>4. BootTypeOK'
  BY <1>1, <1>3 DEF BootInv, BootTypeOK
<1>5. OrderInv' /\ GateInv' /\ DriverInv' /\ BootSectorInv' /\ PromptInv'
  BY <1>1, <1>3
     DEF BootInv, OrderInv, GateInv, DriverInv, BootSectorInv, PromptInv, PromptClean
<1>6. StopsOnlySo'
  BY <1>1 DEF StopsOnlySo
<1> QED BY <1>2, <1>4, <1>5, <1>6 DEF BootInv

-----------------------------------------------------------------------------
(* The driver and the drive.                                               *)

LEMMA SentZero == Sent(0) = 0
BY AddressableAssumption DEF Sent


\* While kmain waits for the first sector the driver fills its buffer with it.
LEMMA DriverReadsBootSector ==
  ASSUME BootInv, Driver, k_at = "disk"
  PROVE  /\ ata_at' # "idle" => call' = [op |-> "read", lba |-> 0, buffer |-> "disk_buffer"]
         /\ drive = "absent" => buffer'["disk_buffer"] = Blank
         /\ drive # "absent" /\ ata_at' = "idle" => buffer'["disk_buffer"] = medium[0]
<1>1. ata_at # "idle"
  BY DEF Driver, Probe, Issue, Poll, WordIn, WordOut, Return
<1>2. call = [op |-> "read", lba |-> 0, buffer |-> "disk_buffer"]
  BY <1>1 DEF BootInv, BootSectorInv
<1>3. drive = "absent" => buffer["disk_buffer"] = Blank
  BY DEF BootInv, BootSectorInv
<1>4. ata_at = "transfer" => drive # "absent"
  BY DEF BootInv, AtaInv, Commanding
<1>5. CASE Probe
  BY <1>2, <1>3, <1>5 DEF Probe
<1>6. CASE Issue \/ Poll
  BY <1>2, <1>3, <1>6 DEF Issue, Poll
<1>7. CASE WordIn
  BY <1>2, <1>4, <1>7 DEF WordIn
<1>8. CASE WordOut
  BY <1>2, <1>8 DEF WordOut
<1>9. CASE Return
  <2>1. /\ ata_at = "transfer" /\ ata_i = Words /\ ata_at' = "idle" /\ buffer' = buffer
    BY <1>9 DEF Return
  <2>2. buffer["disk_buffer"] = medium[0]
    BY <1>2, <2>1, ReadComplete, SentZero DEF BootInv
  <2> QED BY <1>4, <2>1, <2>2
<1> QED BY <1>5, <1>6, <1>7, <1>8, <1>9 DEF Driver

\* And the drive stores nothing.
LEMMA DriveLeavesBootSector ==
  ASSUME BootInv, Drive, k_at = "disk"
  PROVE  medium' = medium
<1>1. CASE Store
  <2>1. ata_at = "transfer" /\ call.op = "write"
    BY <1>1, StoresData DEF BootInv
  <2>2. call = [op |-> "read", lba |-> 0, buffer |-> "disk_buffer"]
    BY <2>1 DEF BootInv, BootSectorInv
  <2> QED BY <2>1, <2>2
<1> QED BY <1>1 DEF Drive, ServeRead, ServeWrite, Refuse

LEMMA InDriverKeeps == BootInv /\ InDriver => BootInv'
<1> SUFFICES ASSUME BootInv, InDriver PROVE BootInv'
  OBVIOUS
<1>1. /\ Driver /\ (k_at = "disk" \/ irq_at \in {"disk", "save"}) /\ dead = "no"
      /\ UNCHANGED <<k_at, bps, idt, unmasked, enabled, in_service, key, keys, irq_at, line,
                     cursor_pos, argv0, editor_mode, early, cleared, dead, next, fb_at>>
  BY DEF InDriver, Kmain, Handler, bootVars, irqVars, lineVars, vars, fbVars
<1>2. medium' = medium /\ drive' = drive
  BY <1>1 DEF Driver, Probe, Issue, Poll, WordIn, WordOut, Return, driveVars
<1>3. AtaInv'
  BY <1>1, AtaStepKeeps DEF BootInv, AtaNext
<1>4. BootTypeOK'
  BY <1>1 DEF BootInv, BootTypeOK
<1>5. BootSectorInv'
  <2>1. k_at \notin BeforeKeys \cup {"read"}
    BY <1>1 DEF BootInv, OrderInv, GateInv, BeforeKeys, BeforeBuffers
  <2> QED BY <1>1, <1>2, <2>1, DriverReadsBootSector DEF BootSectorInv, BeforeKeys
<1>6. OrderInv' /\ GateInv' /\ DriverInv' /\ PromptInv'
  BY <1>1 DEF BootInv, OrderInv, GateInv, DriverInv, PromptInv, PromptClean
<1>7. StopsOnlySo'
  BY <1>1, RunsOn
<1> QED BY <1>3, <1>4, <1>5, <1>6, <1>7 DEF BootInv

LEMMA InDriveKeeps == BootInv /\ InDrive => BootInv'
<1> SUFFICES ASSUME BootInv, InDrive PROVE BootInv'
  OBVIOUS
<1>1. /\ Drive
      /\ UNCHANGED <<k_at, bps, idt, unmasked, enabled, in_service, key, keys, irq_at, line,
                     cursor_pos, argv0, editor_mode, early, cleared, dead, next, fb_at>>
  BY DEF InDrive, bootVars, irqVars, lineVars, vars, fbVars
<1>2. UNCHANGED <<drive, ata_at, call, buffer>>
  BY <1>1 DEF Drive, ServeRead, ServeWrite, Store, Refuse, driverVars
<1>3. AtaInv'
  BY <1>1, AtaStepKeeps DEF BootInv, AtaNext
<1>4. BootTypeOK'
  BY <1>1 DEF BootInv, BootTypeOK
<1>5. BootSectorInv'
  BY <1>1, <1>2, DriveLeavesBootSector DEF BootInv, BootSectorInv
<1>6. OrderInv' /\ GateInv' /\ DriverInv' /\ PromptInv'
  BY <1>1, <1>2 DEF BootInv, OrderInv, GateInv, DriverInv, PromptInv, PromptClean
<1>7. StopsOnlySo'
  BY <1>1, StopsKept DEF BootInv, InDrive, vars
<1> QED BY <1>3, <1>4, <1>5, <1>6, <1>7 DEF BootInv

LEMMA RestKeeps == BootInv /\ UNCHANGED all => BootInv'
<1> SUFFICES ASSUME BootInv, UNCHANGED all PROVE BootInv'
  OBVIOUS
<1>1. UNCHANGED <<bootVars, vars, fbVars, ataVars>>
  BY DEF all
<1>2. AtaInv'
  BY <1>1, AtaStutterKeeps DEF BootInv
<1>3. UNCHANGED <<k_at, bps, idt, unmasked, enabled, in_service, key, keys, irq_at, line,
                  cursor_pos, argv0, editor_mode, early, cleared, dead, next, fb_at,
                  ata_at, buffer, call, medium, drive>>
  BY <1>1 DEF bootVars, irqVars, lineVars, vars, fbVars, ataVars, driveVars, driverVars
<1>4. BootTypeOK'
  BY <1>3 DEF BootInv, BootTypeOK
<1>5. OrderInv' /\ GateInv' /\ DriverInv' /\ BootSectorInv' /\ PromptInv'
  BY <1>3 DEF BootInv, OrderInv, GateInv, DriverInv, BootSectorInv, PromptInv, PromptClean
<1>6. StopsOnlySo'
  BY <1>1, <1>3, StopsKept DEF BootInv, vars
<1> QED BY <1>2, <1>4, <1>5, <1>6 DEF BootInv

LEMMA BootStepKeeps == BootInv /\ [BootNext]_all => BootInv'
<1> SUFFICES ASSUME BootInv, [BootNext]_all PROVE BootInv'
  OBVIOUS
<1>1. CASE KmainStep
  BY <1>1, PartKeeps, ColourKeeps, LoadIdtKeeps, ReadBootSectorKeeps, MountKeeps, BannerKeeps,
     CleanupKeeps DEF KmainStep
<1>2. CASE Strike \/ Interrupt
  BY <1>2, StrikeKeeps, TakenKeeps, KeyIgnoredKeeps, SavedKeeps, EraseKeeps, EditLetterKeeps,
     LetterKeeps, EnterNothingKeeps, EnterKeeps, DiskKeyKeeps, LeaveDiskKeeps, CommandStopsKeeps
     DEF Interrupt
<1>3. CASE InDriver \/ InDrive \/ InBuffers \/ UNCHANGED all
  BY <1>3, InDriverKeeps, InDriveKeeps, PartKeeps, RestKeeps
<1> QED BY <1>1, <1>2, <1>3 DEF BootNext

THEOREM BootInvariant == BootSpec => []BootInv
BY BootInitially, BootStepKeeps, PTL DEF BootSpec

-----------------------------------------------------------------------------
(* What follows.                                                           *)

\* On every machine, with any number of keys at any time, the kernel stops outside
\* commands only so: it cannot draw, a key came before its buffer or wrote where
\* malloc had no page, or Enter found no first word.  The table is filled when the
\* first interrupt comes, and no command ever enters the disk driver while
\* fat32_init is in it.
THEOREM KernelStopsOnlySo == BootSpec => []StopsOnlySo
<1>1. BootInv => StopsOnlySo
  BY DEF BootInv
<1> QED BY <1>1, BootInvariant, PTL

\* Each of the handler's ways out, those through the disk driver too, gives the
\* keyboard back, and wherever kmain is after sti, interrupts are on.
THEOREM KeyboardAcknowledged == BootSpec => []Acknowledged
<1>1. BootInv => Acknowledged
  BY DEF BootInv, GateInv, Acknowledged, BeforeKeys
<1> QED BY <1>1, BootInvariant, PTL

\* A key that kmain's own cmd_cleanup does not overrun finds a clean line.
THEOREM FirstLineClean == BootSpec => []PromptClean
<1>1. BootInv => PromptClean
  BY DEF BootInv, PromptInv
<1> QED BY <1>1, BootInvariant, PTL

\* Whatever the sectors hold and however slow the drive is, fat32_init takes the
\* geometry of the first sector, or none without a drive.
THEOREM GeometryOfFirstSector == BootSpec => MountsFirstSector
<1>1. BootInv /\ [BootNext]_all =>
        [k_at = "disk" /\ k_at' = "bitmap" =>
           bps' = IF drive = "absent" THEN 0 ELSE medium[0][1] + 256 * medium[0][2]]_all
  <2> SUFFICES ASSUME BootInv, BootNext, k_at = "disk", k_at' = "bitmap"
               PROVE  bps' = IF drive = "absent" THEN 0 ELSE medium[0][1] + 256 * medium[0][2]
    OBVIOUS
  <2>1. Mount
    <3>1. CASE KmainStep
      <4>1. ~(Screen \/ BitmapInit \/ TakeBuffers)
        BY DEF Screen, BitmapInit, TakeBuffers, Kmain
      <4> QED BY <3>1, <4>1 DEF KmainStep, Colour, LoadIdt, ReadBootSector, Banner, Cleanup, Kmain
    <3>2. CASE Strike \/ Interrupt
      BY <3>2
         DEF Strike, Interrupt, Taken, Release, EditBackspace, Save, Saved, EditLetter, EnterNothing,
             Enter, EnterDisk, LeaveDisk, CommandStops, Backspace, F1, Letter, Frame
    <3>3. CASE InDriver \/ InDrive \/ InBuffers
      BY <3>3 DEF InDriver, InDrive, InBuffers, bootVars
    <3> QED BY <3>1, <3>2, <3>3 DEF BootNext
  <2> QED BY <2>1, MountReads
<1> QED BY <1>1, BootInvariant, PTL DEF BootSpec, MountsFirstSector
=============================================================================
