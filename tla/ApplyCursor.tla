---------------------------- MODULE ApplyCursor ----------------------------
(***************************************************************************)
(* The apply cursor of a queue (internal/queue/queue.go, applyCursor): the *)
(* watermark up to which every record of the write-ahead log is known to   *)
(* be applied to the index.  Checkpoint may only cut the log at or below   *)
(* this watermark.                                                         *)
(*                                                                         *)
(* The queue's committer goroutine calls begin once per durable request,   *)
(* in LSN order, before it wakes the producer.  The producers call finish, *)
(* in any order, once they have applied their records to the index.  Each  *)
(* method runs under the cursor's own mutex and is one action here.        *)
(***************************************************************************)
EXTENDS Naturals, FiniteSets

CONSTANT MaxLSN      \* bound: LSNs the log assigns

ASSUME MaxLSNAssumption == MaxLSN \in Nat

VARIABLES
  pending,           \* first LSN of each begun, unfinished request
  high,              \* highest last LSN begun
  contig,            \* the watermark
  walLSN,            \* last LSN the log has assigned
  open               \* the requests [first, last] begun and not yet applied

cursorVars == <<pending, high, contig>>
vars == <<pending, high, contig, walLSN, open>>

----------------------------------------------------------------------------
\* The methods of the cursor.

\* Mutant: the watermark stands on the first pending LSN, not below it.
RecomputeOnHole(p, h) ==
  LET below == {h} \cup (p \ {0})
  IN  CHOOSE l \in below : \A k \in below : l <= k

\* recompute(): the watermark is the largest LSN below every pending request
\* and at most high.
Recompute(p, h) ==
  LET below == {h} \cup {first - 1 : first \in p \ {0}}
  IN  CHOOSE l \in below : \A k \in below : l <= k

Reset(lsn) ==
  /\ pending' = {}
  /\ high' = lsn
  /\ contig' = lsn

Begin(first, last) ==
  IF last = 0
  THEN UNCHANGED cursorVars
  ELSE /\ pending' = pending \cup {first}
       /\ high' = IF last > high THEN last ELSE high
       /\ contig' = Recompute(pending', high')

\* Mutants: finish does not recompute, or takes its own last LSN.
FinishKeepsContig(first, last) ==
  pending' = pending \ {first} /\ UNCHANGED <<high, contig>>
FinishTakesLast(first, last) ==
  pending' = pending \ {first} /\ contig' = last /\ UNCHANGED high

Finish(first, last) ==
  IF last = 0
  THEN UNCHANGED cursorVars
  ELSE /\ pending' = pending \ {first}
       /\ contig' = Recompute(pending', high)
       /\ UNCHANGED high

----------------------------------------------------------------------------
\* The cursor's callers.

\* recover() resets the cursor once, to the highest LSN of the replayed log.
Init ==
  \E lsn \in 0..MaxLSN :
    /\ pending = {}
    /\ high = lsn
    /\ contig = lsn
    /\ walLSN = lsn
    /\ open = {}

\* The committer registers a durable request of last - walLSN records.
BeginRequest ==
  \E last \in walLSN + 1 .. MaxLSN :
    /\ Begin(walLSN + 1, last)
    /\ walLSN' = last
    /\ open' = open \cup {[first |-> walLSN + 1, last |-> last]}

\* A batch whose append failed has used up its LSNs and is never begun.
LoseBatch ==
  \E last \in walLSN + 1 .. MaxLSN :
    /\ walLSN' = last
    /\ UNCHANGED <<cursorVars, open>>

\* A producer has applied its request.
FinishRequest ==
  \E r \in open :
    /\ Finish(r.first, r.last)
    /\ open' = open \ {r}
    /\ UNCHANGED walLSN

Next == BeginRequest \/ LoseBatch \/ FinishRequest

Spec == Init /\ [][Next]_vars

----------------------------------------------------------------------------
\* Properties.

Requests == [first : 1..MaxLSN, last : 1..MaxLSN]

\* The cursor's state has the types of its Go fields, and the requests in
\* flight are well formed.
TypeOK ==
  /\ pending \subseteq 1..MaxLSN
  /\ high \in 0..MaxLSN
  /\ contig \in 0..MaxLSN
  /\ walLSN \in 0..MaxLSN
  /\ open \subseteq Requests

\* Checkpoint may cut the log at applied(): the watermark never reaches a
\* record whose index mutation is still in flight (the "hole" of
\* TestApplyCursorDoesNotAdvancePastHole).
NeverPastHole == \A r \in open : contig < r.first

\* Nor does it reach a record that has not been begun at all.
NeverPastBegun == contig <= high /\ high <= walLSN

\* The watermark is not held back for ever: when every begun request has
\* been applied it stands at the highest begun LSN, so the next checkpoint
\* can cut everything.
CatchesUp == open = {} => contig = high

\* applied() never goes back, so a checkpoint never records a lower LSN than
\* the checkpoint before it in the same lifetime of the queue.
NeverGoesBack == [][contig' >= contig]_vars

\* Distinct requests never share an LSN, and pending holds exactly the first
\* LSNs of the open requests: what makes NeverPastHole inductive.
CursorInv ==
  /\ pending = {r.first : r \in open}
  /\ \A r \in open : r.first <= r.last /\ r.last <= high
  /\ \A r, s \in open : r.first = s.first => r = s
  /\ high <= walLSN
  /\ contig = Recompute(pending, high)
=============================================================================
