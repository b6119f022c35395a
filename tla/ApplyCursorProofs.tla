------------------------- MODULE ApplyCursorProofs -------------------------
(***************************************************************************)
(* Proofs about the apply cursor, for every number of log records.         *)
(***************************************************************************)
EXTENDS ApplyCursor, WellFoundedInduction, TLAPS

\* Every non-empty set of naturals has a least element.
LEMMA LeastNatural ==
  ASSUME NEW S \in SUBSET Nat, S # {}
  PROVE  \E l \in S : \A k \in S : l <= k
<1> DEFINE Less == {ss \in Nat \X Nat : ss[1] < ss[2]}
<1>1. IsWellFoundedOn(Less, Nat)
  BY NatLessThanWellFounded DEF OpToRel
<1>2. \A k, l \in Nat : <<k, l>> \in Less <=> k < l
  OBVIOUS
<1> HIDE DEF Less
<1>3. PICK l \in S : \A k \in S : ~ (<<k, l>> \in Less)
  BY <1>1, WFMin
<1>4. \A k \in S : ~ (k < l)
  BY <1>2, <1>3
<1> QED
  BY <1>4

\* recompute() returns a bound that is reached: it is high or one below a
\* pending request, and at most all of these.
LEMMA RecomputeIsLeast ==
  ASSUME NEW p \in SUBSET (Nat \ {0}), NEW h \in Nat
  PROVE  /\ Recompute(p, h) \in Nat
         /\ Recompute(p, h) <= h
         /\ \A first \in p : Recompute(p, h) < first
         /\ \/ Recompute(p, h) = h
            \/ \E first \in p : Recompute(p, h) = first - 1
<1> DEFINE below == {h} \cup {first - 1 : first \in p \ {0}}
<1>1. below \in SUBSET Nat /\ below # {}
  OBVIOUS
<1>2. \E l \in below : \A k \in below : l <= k
  BY <1>1, LeastNatural
<1>3. Recompute(p, h) \in below /\ \A k \in below : Recompute(p, h) <= k
  BY <1>2 DEF Recompute
<1>4. \A first \in p : first - 1 \in below /\ first \in Nat \ {0}
  OBVIOUS
<1> QED
  BY <1>1, <1>3, <1>4
----------------------------------------------------------------------------
\* The inductive invariant: the types, and pending mirrors the open requests.
Inv == TypeOK /\ CursorInv

LEMMA InvInit == Init => Inv
<1> SUFFICES ASSUME Init PROVE Inv
  OBVIOUS
<1>1. PICK lsn \in 0..MaxLSN :
        /\ pending = {} /\ high = lsn /\ contig = lsn
        /\ walLSN = lsn /\ open = {}
  BY DEF Init
<1>2. Recompute({}, lsn) = lsn
  BY RecomputeIsLeast, MaxLSNAssumption
<1> QED
  BY <1>1, <1>2 DEF Inv, TypeOK, CursorInv

\* The watermark of a well-formed cursor is typed.
LEMMA RecomputeTyped ==
  ASSUME NEW p \in SUBSET (1..MaxLSN), NEW h \in 0..MaxLSN
  PROVE  Recompute(p, h) \in 0..MaxLSN
<1>1. p \in SUBSET (Nat \ {0}) /\ h \in Nat
  BY MaxLSNAssumption
<1> QED
  BY <1>1, RecomputeIsLeast, MaxLSNAssumption

\* Each step of the committer and of the producers preserves the invariant.
LEMMA InvNext == Inv /\ [Next]_vars => Inv'
<1> SUFFICES ASSUME Inv, [Next]_vars PROVE Inv'
  OBVIOUS
<1> USE MaxLSNAssumption DEF Inv, TypeOK
<1>1. CASE BeginRequest
  <2>1. PICK last \in walLSN + 1 .. MaxLSN :
          /\ Begin(walLSN + 1, last)
          /\ walLSN' = last
          /\ open' = open \cup {[first |-> walLSN + 1, last |-> last]}
    BY <1>1 DEF BeginRequest
  <2> DEFINE r == [first |-> walLSN + 1, last |-> last]
  <2>2. /\ pending' = pending \cup {walLSN + 1}
        /\ high' = last
        /\ contig' = Recompute(pending', high')
    BY <2>1 DEF Begin, CursorInv
  <2>3. r \in Requests /\ r.first = walLSN + 1 /\ r.last = last
    BY DEF Requests
  <2>4. pending' \subseteq 1..MaxLSN /\ high' \in 0..MaxLSN
    BY <2>2
  <2>5. TypeOK'
    BY <2>1, <2>2, <2>3, <2>4, RecomputeTyped
  <2>6. pending' = {s.first : s \in open'}
    BY <2>1, <2>2, <2>3 DEF CursorInv
  <2>7. \A s \in open : s.first <= s.last /\ s.last <= walLSN /\ s.first < r.first
    BY <2>3 DEF CursorInv, Requests
  <2>8. /\ \A s \in open' : s.first <= s.last /\ s.last <= high'
        /\ \A s, t \in open' : s.first = t.first => s = t
    BY <2>1, <2>2, <2>3, <2>7 DEF CursorInv, Requests
  <2> QED
    BY <2>1, <2>2, <2>5, <2>6, <2>8 DEF CursorInv
<1>2. CASE LoseBatch
  BY <1>2 DEF LoseBatch, cursorVars, CursorInv
<1>3. CASE FinishRequest
  <2>1. PICK r \in open :
          /\ Finish(r.first, r.last)
          /\ open' = open \ {r}
          /\ UNCHANGED walLSN
    BY <1>3 DEF FinishRequest
  <2>2. r.last # 0
    BY DEF Requests
  <2>3. /\ pending' = pending \ {r.first}
        /\ contig' = Recompute(pending', high)
        /\ high' = high
    BY <2>1, <2>2 DEF Finish
  <2>4. TypeOK'
    BY <2>1, <2>3, RecomputeTyped
  <2>5. pending' = {s.first : s \in open'}
    BY <2>1, <2>3 DEF CursorInv
  <2> QED
    BY <2>1, <2>3, <2>4, <2>5 DEF CursorInv
<1>4. CASE UNCHANGED vars
  BY <1>4 DEF vars, CursorInv
<1> QED
  BY <1>1, <1>2, <1>3, <1>4 DEF Next

\* The cursor is always well formed: pending holds exactly the first LSNs of
\* the requests whose index mutation is in flight.
THEOREM CursorWellFormed == Spec => []Inv
<1>1. Init => Inv
  BY InvInit
<1>2. Inv /\ [Next]_vars => Inv'
  BY InvNext
<1> QED
  BY <1>1, <1>2, PTL DEF Spec

\* What the invariant says of the watermark.
LEMMA InvBounds ==
  ASSUME Inv
  PROVE  NeverPastHole /\ NeverPastBegun /\ CatchesUp
<1>1. pending \in SUBSET (Nat \ {0}) /\ high \in Nat
  BY MaxLSNAssumption DEF Inv, TypeOK
<1>2. /\ contig <= high
      /\ \A first \in pending : contig < first
      /\ contig = high \/ \E first \in pending : contig = first - 1
  BY <1>1, RecomputeIsLeast DEF Inv, CursorInv
<1>3. NeverPastHole
  BY <1>2 DEF Inv, CursorInv, NeverPastHole
<1>4. NeverPastBegun
  BY <1>2 DEF Inv, CursorInv, NeverPastBegun
<1>5. CatchesUp
  BY <1>2 DEF Inv, CursorInv, CatchesUp
<1> QED
  BY <1>3, <1>4, <1>5

\* A checkpoint at applied() never covers a durable record that is not yet in
\* the index, however begin and finish interleave.
THEOREM HoleSafety == Spec => []NeverPastHole
BY CursorWellFormed, InvBounds, PTL

\* A checkpoint at applied() never covers a record the committer has not
\* begun, even when the log is already durable beyond it.
THEOREM BegunSafety == Spec => []NeverPastBegun
BY CursorWellFormed, InvBounds, PTL

\* Once every begun request has been applied nothing holds the log back.
THEOREM CatchUp == Spec => []CatchesUp
BY CursorWellFormed, InvBounds, PTL

\* The watermark never moves backwards.
THEOREM Monotone == Spec => NeverGoesBack
<1>1. Inv /\ Inv' /\ [Next]_vars => [contig' >= contig]_vars
  <2> SUFFICES ASSUME Inv, Inv', Next PROVE contig' >= contig
    BY DEF vars
  <2> USE MaxLSNAssumption DEF Inv, TypeOK
  <2>1. /\ contig <= high /\ \A first \in pending : contig < first
    BY RecomputeIsLeast DEF CursorInv
  <2>2. \/ contig' = high'
        \/ \E first \in pending' : contig' = first - 1
    BY RecomputeIsLeast DEF CursorInv
  <2>3. CASE BeginRequest
    <3>1. high' >= high /\ pending' = pending \cup {walLSN + 1}
      BY <2>3 DEF BeginRequest, Begin
    <3> QED
      BY <2>1, <2>2, <3>1 DEF CursorInv
  <2>4. CASE LoseBatch
    BY <2>4 DEF LoseBatch, cursorVars
  <2>5. CASE FinishRequest
    <3>1. high' = high /\ pending' \subseteq pending
      BY <2>5 DEF FinishRequest, Finish, Requests
    <3> QED
      BY <2>1, <2>2, <3>1
  <2> QED
    BY <2>3, <2>4, <2>5 DEF Next
<1> QED
  BY <1>1, CursorWellFormed, PTL DEF Spec, NeverGoesBack
=============================================================================
