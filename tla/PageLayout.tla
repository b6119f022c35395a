----------------------------- MODULE PageLayout -----------------------------
(***************************************************************************)
(* How a page is laid out: size classes, header, bitmap, slots, and the    *)
(* references to them (internal/pagestore/header.go, pagestore.go and      *)
(* page.go).  The numbers are the ones of the code, except WordBits: the   *)
(* slots that one word of the bitmap stands for, 64 in the code.           *)
(*                                                                         *)
(* Class and slot numbers: a class is its position in SizeClasses, from 1; *)
(* slots and bitmap words count from 0, as in the code.                    *)
(***************************************************************************)
EXTENDS Naturals, Sequences, FiniteSets

LOCAL INSTANCE FiniteSetsExt

CONSTANT WordBits

ASSUME WordBitsAssumption == WordBits \in Nat \ {0}

HeaderSize == 32
PageSize == 1048576
JumboThreshold == PageSize \div 2
ScIdxJumbo == 255

SizeClasses == <<64, 128, 256, 512, 1024, 2048, 4096, 8192, 16384, 32768, 65536,
                 131072, 262144, 524288>>

\* The first class that n bytes fit in, for n up to the largest.
SizeClassFor(n) == CHOOSE c \in DOMAIN SizeClasses :
                     /\ n <= SizeClasses[c]
                     /\ \A d \in 1..c - 1 : SizeClasses[d] < n

----------------------------------------------------------------------------
\* Layout.

\* roundUp to a power of two.
roundUp(v, align) == ((v + align - 1) \div align) * align

slabLayout(slotSize) ==
  LET upperCap == (PageSize - HeaderSize) \div slotSize
      bitmapBytes == ((upperCap + WordBits - 1) \div WordBits) * 8
      slotsStart == roundUp(HeaderSize + bitmapBytes, slotSize)
  IN  [capacity |-> (PageSize - slotsStart) \div slotSize, slotsStart |-> slotsStart]

\* Blocks of PageSize for a payload of its own.  The sums are uint32 in the code
\* and do not wrap as long as n stays a block and a header below 4 GiB.
SpanPagesFor(n) == (HeaderSize + n + PageSize - 1) \div PageSize

\* The header fields that are ever read again.
NewSlabHeader(id, sc) ==
  LET l == slabLayout(SizeClasses[sc])
  IN  [pageID |-> id, gen |-> 0, scIdx |-> sc, spanPages |-> 1,
       capacity |-> l.capacity, slotsStart |-> l.slotsStart]

NewJumboHeader(id, span) ==
  [pageID |-> id, gen |-> 0, scIdx |-> ScIdxJumbo, spanPages |-> span,
   capacity |-> 0, slotsStart |-> HeaderSize]

IsJumbo(h) == h.scIdx = ScIdxJumbo
SlotSize(h) == IF IsJumbo(h) THEN 0 ELSE SizeClasses[h.scIdx]
BitmapLen(h) == (h.capacity + WordBits - 1) \div WordBits
TotalSize(h) == h.spanPages * PageSize

----------------------------------------------------------------------------
\* The header as bytes in the file: the fields, and the checksum of the
\* fields it was computed from.

Zeroed == [written |-> FALSE]
WriteHeader(h) == [written |-> TRUE, h |-> h, crc |-> h]

\* BumpGen after its first write.
GenWritten(raw) == [raw EXCEPT !.h.gen = @ + 1]

\* ReadHeader succeeds: magic, checksum, class and span.
Validate(raw) ==
  /\ raw.written /\ raw.crc = raw.h
  /\ IsJumbo(raw.h) \/ raw.h.scIdx \in DOMAIN SizeClasses
  /\ raw.h.spanPages # 0

----------------------------------------------------------------------------
\* References.

Pack(id, offset) == id * PageSize + offset
PageID(r) == r \div PageSize
Offset(r) == r % PageSize

\* Mutant: slots are counted from the start of the page.
slotOffsetFromZero(h, i) == i * SlotSize(h)

slotOffset(h, i) == h.slotsStart + i * SlotSize(h)

\* The slot of a reference into the page, as Release and RebuildVolatile
\* compute it.
slotIndex(h, r) == (Offset(r) - h.slotsStart) \div SlotSize(h)

----------------------------------------------------------------------------
\* The runtime page: header, bitmap (the allocated bits of each word), free
\* count and hint.

NewPage(h) ==
  [h |-> h, words |-> [w \in 0..BitmapLen(h) - 1 |-> {}], free |-> h.capacity, hint |-> 0]

FreeBits(p, w) == {b \in 0..WordBits - 1 : b \notin p.words[w] /\ w * WordBits + b < p.h.capacity}
CanAlloc(p) == \E w \in DOMAIN p.words : FreeBits(p, w) # {}
hasFreeSlot(p) == p.free > 0

\* The word in which allocSlot finds a free bit: the first from the hint on.
FirstFreeWord(p) ==
  LET nw == BitmapLen(p.h)
      at(k) == (p.hint + k) % nw
  IN  at(Min({k \in 0..nw - 1 : FreeBits(p, at(k)) # {}}))

\* The slot that allocSlot takes from a page with room, and the page after it.
NextSlot(p) == FirstFreeWord(p) * WordBits + Min(FreeBits(p, FirstFreeWord(p)))

allocSlot(p) ==
  LET w == FirstFreeWord(p)
  IN  [p EXCEPT !.words[w] = @ \cup {Min(FreeBits(p, w))}, !.free = @ - 1, !.hint = w]

\* freeSlot: the page, and whether it counts as empty.
freeSlot(p, i) == [p EXCEPT !.words[i \div WordBits] = @ \ {i % WordBits}, !.free = @ + 1]
Emptied(p) == p.free = p.h.capacity

\* rebuildFreeCount of a page whose slots in use are given.
Rebuilt(h, slots) ==
  LET p == [NewPage(h) EXCEPT !.words = [w \in DOMAIN @ |->
              {b \in 0..WordBits - 1 : w * WordBits + b \in slots}]]
  IN  [p EXCEPT !.free = Cardinality(UNION {{<<w, b>> : b \in FreeBits(p, w)} : w \in DOMAIN p.words})]
=============================================================================
