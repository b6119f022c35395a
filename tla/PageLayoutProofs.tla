-------------------------- MODULE PageLayoutProofs --------------------------
(***************************************************************************)
(* The layout of slab pages is sound for all size classes of the code, all *)
(* page ids and all slots.                                                 *)
(***************************************************************************)
EXTENDS PageLayout, Integers, TLAPS

\* Capacity and first slot per class, computed from slabLayout.
Capacities == <<16351, 8183, 4093, 2047, 1023, 511, 255, 127, 63, 31, 15, 7, 3, 1>>
Starts == <<2112, 1152, 768, 512, 1024, 2048, 4096, 8192, 16384, 32768, 65536, 131072,
            262144, 524288>>

\* What slabLayout computes for each of the 14 slot sizes.
LEMMA LayoutTable ==
  ASSUME WordBits = 64, NEW sc \in 1..14
  PROVE  slabLayout(SizeClasses[sc]) =
           [capacity |-> Capacities[sc], slotsStart |-> Starts[sc]]
  <1>1. CASE sc \in {1, 2, 3, 4}
    BY <1>1 DEF slabLayout, roundUp, SizeClasses, Capacities, Starts, PageSize, HeaderSize
  <1>2. CASE sc \in {5, 6, 7, 8, 9}
    BY <1>2 DEF slabLayout, roundUp, SizeClasses, Capacities, Starts, PageSize, HeaderSize
  <1>3. CASE sc \in {10, 11, 12, 13, 14}
    BY <1>3 DEF slabLayout, roundUp, SizeClasses, Capacities, Starts, PageSize, HeaderSize
  <1> QED BY <1>1, <1>2, <1>3

\* The fields of a slab header, class by class.
LEMMA SlabHeader ==
  ASSUME WordBits = 64, NEW id \in Nat, NEW sc \in 1..14
  PROVE  /\ NewSlabHeader(id, sc).pageID = id
         /\ NewSlabHeader(id, sc).capacity = Capacities[sc]
         /\ NewSlabHeader(id, sc).slotsStart = Starts[sc]
         /\ SlotSize(NewSlabHeader(id, sc)) = SizeClasses[sc]
  BY LayoutTable DEF NewSlabHeader, SlotSize, IsJumbo, ScIdxJumbo

\* The arithmetic of the 14 layouts: header and bitmap end before the first
\* slot, the last slot ends with the page, and a page offset is divided back
\* into its slot.
LEMMA LayoutArithmetic ==
  ASSUME NEW sc \in 1..14, NEW i \in 0..Capacities[sc] - 1
  PROVE  /\ HeaderSize + 8 * ((Capacities[sc] + 63) \div 64) <= Starts[sc]
         /\ Starts[sc] + i * SizeClasses[sc] + SizeClasses[sc] <= PageSize
         /\ Starts[sc] + i * SizeClasses[sc] \in Nat
         /\ (i * SizeClasses[sc]) \div SizeClasses[sc] = i
         /\ SizeClasses[sc] \in Nat \ {0}
         /\ Starts[sc] \in Nat
  <1>1. CASE sc \in {1, 2, 3, 4, 5}
    BY <1>1 DEF SizeClasses, Capacities, Starts, PageSize, HeaderSize
  <1>2. CASE sc \in {6, 7, 8, 9, 10}
    BY <1>2 DEF SizeClasses, Capacities, Starts, PageSize, HeaderSize
  <1>3. CASE sc \in {11, 12, 13, 14}
    BY <1>3 DEF SizeClasses, Capacities, Starts, PageSize, HeaderSize
  <1> QED BY <1>1, <1>2, <1>3

\* The slots of a slab page lie behind header and bitmap, inside the page and
\* apart from one another.
SlotsSound(h) ==
  \A i \in 0..h.capacity - 1 :
    /\ HeaderSize + 8 * BitmapLen(h) <= slotOffset(h, i)
    /\ slotOffset(h, i) + SlotSize(h) <= PageSize
    /\ \A j \in 0..h.capacity - 1 : i < j => slotOffset(h, i) + SlotSize(h) <= slotOffset(h, j)

\* A reference leads back to its page and its slot.
RefsSound(h) ==
  \A i \in 0..h.capacity - 1 :
    /\ PageID(Pack(h.pageID, slotOffset(h, i))) = h.pageID
    /\ slotIndex(h, Pack(h.pageID, slotOffset(h, i))) = i

\* Two slots of one page do not overlap, for the layout that slabLayout gives
\* any size class: the bitmap, sized before the capacity is known, is never
\* too small, and its slots never run over the end of the page.
THEOREM SlabSlotsApart ==
  ASSUME WordBits = 64, NEW id \in Nat, NEW sc \in DOMAIN SizeClasses
  PROVE  SlotsSound(NewSlabHeader(id, sc))
  <1> DEFINE h == NewSlabHeader(id, sc)
  <1>1. sc \in 1..14
    BY DEF SizeClasses
  <1>2. /\ h.capacity = Capacities[sc] /\ h.slotsStart = Starts[sc]
        /\ SlotSize(h) = SizeClasses[sc]
    BY <1>1, SlabHeader
  <1> HIDE DEF h
  <1>3. SUFFICES ASSUME NEW i \in 0..h.capacity - 1, NEW j \in 0..h.capacity - 1
                 PROVE  /\ HeaderSize + 8 * BitmapLen(h) <= slotOffset(h, i)
                        /\ slotOffset(h, i) + SlotSize(h) <= PageSize
                        /\ i < j => slotOffset(h, i) + SlotSize(h) <= slotOffset(h, j)
    BY DEF SlotsSound, h
  <1>4. /\ slotOffset(h, i) = Starts[sc] + i * SizeClasses[sc]
        /\ slotOffset(h, j) = Starts[sc] + j * SizeClasses[sc]
    BY <1>2 DEF slotOffset
  <1>5. HeaderSize + 8 * BitmapLen(h) <= slotOffset(h, i)
    <2>1. BitmapLen(h) = (Capacities[sc] + 63) \div 64
      <3>1. Capacities[sc] \in Nat
        BY <1>1 DEF Capacities
      <3> QED BY <1>2, <3>1 DEF BitmapLen
    <2>2. i * SizeClasses[sc] \in Nat
      BY <1>1, <1>2 DEF SizeClasses
    <2>3. Starts[sc] \in Nat /\ HeaderSize + 8 * BitmapLen(h) <= Starts[sc]
      BY <1>1, <1>2, <2>1, LayoutArithmetic
    <2>4. HeaderSize + 8 * BitmapLen(h) \in Nat
      BY <1>1, <2>1 DEF HeaderSize, Capacities
    <2> QED BY <1>4, <2>2, <2>3, <2>4
  <1>6. slotOffset(h, i) + SlotSize(h) <= PageSize
    BY <1>1, <1>2, <1>4, LayoutArithmetic
  <1>7. ASSUME i < j
        PROVE  slotOffset(h, i) + SlotSize(h) <= slotOffset(h, j)
    <2>1. i * SizeClasses[sc] + SizeClasses[sc] <= j * SizeClasses[sc]
      BY <1>1, <1>2, <1>7 DEF SizeClasses, Capacities
    <2> QED BY <1>1, <1>2, <1>4, <2>1, LayoutArithmetic
  <1> QED BY <1>5, <1>6, <1>7

\* Release and RebuildVolatile find the slot that Alloc handed out: a SlotRef
\* packs page and offset without loss, and the offset divides back into the
\* slot index.
THEOREM SlotRefsExact ==
  ASSUME WordBits = 64, NEW id \in Nat, NEW sc \in DOMAIN SizeClasses
  PROVE  RefsSound(NewSlabHeader(id, sc))
  <1> DEFINE h == NewSlabHeader(id, sc)
  <1>1. sc \in 1..14
    BY DEF SizeClasses
  <1>2. /\ h.pageID = id /\ h.capacity = Capacities[sc] /\ h.slotsStart = Starts[sc]
        /\ SlotSize(h) = SizeClasses[sc]
    BY <1>1, SlabHeader
  <1> HIDE DEF h
  <1>3. SUFFICES ASSUME NEW i \in 0..h.capacity - 1
                 PROVE  /\ PageID(Pack(h.pageID, slotOffset(h, i))) = h.pageID
                        /\ slotIndex(h, Pack(h.pageID, slotOffset(h, i))) = i
    BY DEF RefsSound, h
  <1> DEFINE off == slotOffset(h, i)
  <1>4. off = Starts[sc] + i * SizeClasses[sc]
    BY <1>2 DEF slotOffset
  <1>5. off \in Nat /\ off < PageSize
    BY <1>1, <1>2, <1>4, LayoutArithmetic DEF PageSize
  <1> HIDE DEF off
  <1>6. PageID(Pack(id, off)) = id /\ Offset(Pack(id, off)) = off
    BY <1>5 DEF PageID, Offset, Pack, PageSize
  <1>7. slotIndex(h, Pack(id, off)) = i
    <2>1. off - Starts[sc] = i * SizeClasses[sc]
      BY <1>1, <1>2, <1>4, <1>5, LayoutArithmetic
    <2> QED BY <1>1, <1>2, <1>6, <2>1, LayoutArithmetic DEF slotIndex
  <1> QED BY <1>2, <1>6, <1>7 DEF off

\* The largest slab class is JumboThreshold.
LEMMA LargestClass == SizeClasses[14] = JumboThreshold /\ JumboThreshold \in Nat
  <1>1. JumboThreshold = 524288
    BY SMT DEF JumboThreshold, PageSize
  <1>2. SizeClasses[14] = 524288
    BY SMT DEF SizeClasses
  <1> QED BY SMT, <1>1, <1>2

\* Alloc finds a slot that is large enough: every size up to JumboThreshold
\* has a class, and the class holds it.
THEOREM SizeClassFits ==
  ASSUME NEW n \in 1..JumboThreshold
  PROVE  SizeClassFor(n) \in DOMAIN SizeClasses /\ n <= SizeClasses[SizeClassFor(n)]
  <1> DEFINE Fits(c) == n <= SizeClasses[c]
             First(c) == Fits(c) /\ \A d \in 1..c - 1 : SizeClasses[d] < n
  <1>1. DOMAIN SizeClasses = 1..14
    BY DEF SizeClasses
  <1>2. \A c \in 1..14 : \A d \in 1..c : SizeClasses[d] \in Nat /\ SizeClasses[d] <= SizeClasses[c]
    <2> SUFFICES ASSUME NEW c \in 1..14, NEW d \in 1..c
                 PROVE  SizeClasses[d] \in Nat /\ SizeClasses[d] <= SizeClasses[c]
      OBVIOUS
    <2>1. CASE c \in {1, 2, 3, 4, 5, 6, 7}
      BY <2>1 DEF SizeClasses
    <2>2. CASE c \in {8, 9, 10, 11}
      BY <2>2 DEF SizeClasses
    <2>3. CASE c \in {12, 13, 14}
      BY <2>3 DEF SizeClasses
    <2> QED BY <2>1, <2>2, <2>3
  <1>3. Fits(14)
    BY LargestClass DEF Fits
  <1> HIDE DEF Fits
  <1>4. Fits(1) \/ (~Fits(1) /\ Fits(2)) \/ (~Fits(2) /\ Fits(3)) \/ (~Fits(3) /\
        Fits(4)) \/ (~Fits(4) /\ Fits(5)) \/ (~Fits(5) /\ Fits(6)) \/ (~Fits(6) /\
        Fits(7)) \/ (~Fits(7) /\ Fits(8)) \/ (~Fits(8) /\ Fits(9)) \/ (~Fits(9) /\
        Fits(10)) \/ (~Fits(10) /\ Fits(11)) \/ (~Fits(11) /\ Fits(12)) \/ (~Fits(12) /\
        Fits(13)) \/ (~Fits(13) /\ Fits(14))
    BY <1>3
  <1>5. \E c \in 1..14 : Fits(c) /\ (c # 1 => ~Fits(c - 1))
    BY <1>4
  <1>6. \E c \in 1..14 : First(c)
    BY <1>2, <1>5 DEF Fits
  <1> QED BY <1>1, <1>6 DEF SizeClassFor, Fits

\* A jumbo span holds its header and its payload, and its length fits the 16
\* bits of the header field, for every size whose sums fit in 32 bits.
THEOREM JumboFits ==
  ASSUME NEW n \in Nat, NEW id \in Nat, HeaderSize + n + PageSize - 1 < 4096 * PageSize
  PROVE  /\ HeaderSize + n <= TotalSize(NewJumboHeader(id, SpanPagesFor(n)))
         /\ SpanPagesFor(n) \in Nat /\ SpanPagesFor(n) <= 65535
  <1> DEFINE q == SpanPagesFor(n)
  <1>1. HeaderSize = 32 /\ PageSize = 1048576
    BY SMT DEF HeaderSize, PageSize
  <1>2. n + 1048607 < 4294967296
    BY SMT, <1>1
  <1>3. q = (n + 1048607) \div 1048576
    BY SMT, <1>1 DEF SpanPagesFor
  <1>4. q \in Int /\ 1048576 * q <= n + 1048607 /\ n + 1048607 < 1048576 * q + 1048576
    BY SMT, <1>3
  <1> HIDE DEF q
  <1>5. 32 + n <= q * 1048576 /\ 0 <= q /\ q <= 65535
    BY SMT, <1>2, <1>4
  <1>6. TotalSize(NewJumboHeader(id, q)) = q * PageSize
    BY SMT DEF TotalSize, NewJumboHeader
  <1>7. q * PageSize = q * 1048576 /\ HeaderSize + n = 32 + n
    BY SMT, <1>1
  <1>8. HeaderSize + n <= TotalSize(NewJumboHeader(id, q))
    BY SMT, <1>5, <1>6, <1>7
  <1>9. q \in Nat
    BY SMT, <1>4, <1>5
  <1> QED BY SMT, <1>5, <1>8, <1>9 DEF q
=============================================================================
