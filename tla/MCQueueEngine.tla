--------------------------- MODULE MCQueueEngine ---------------------------
(***************************************************************************)
(* Instances of QueueEngine for TLC.                                       *)
(***************************************************************************)
EXTENDS QueueEngine, TLC

LOCAL INSTANCE FiniteSetsExt

\* Page-store slots are interchangeable, and so are clients.
Symmetry == Permutations(Client) \cup Permutations(PageSlot)

\* Enqueue calls, those made by Replay included, that hold a reservation.
Reserving ==
  {c \in Client : op[c] \in {"enqueue", "replay"} /\
                  phase[c] \in {"alloc", "commit", "ok", "err"}}

\* The depth reserved is exactly that of the calls in progress: it is given
\* back once on every path, or depth would be lost or gained for ever.
ReservedExact ==
  reserved = MapThenSumSet(Size, Reserving)

\* The state of message b as its users know it.  A dead letter whose replay is
\* published counts as replayed, although its old slot is still there.
Superseded == UNION {Refs(replaying[c]) : c \in {d \in Client : At(d, "replay", "free")}}
CopiesOf(b) == {r \in DOMAIN idx \ Superseded : idx[r].body = b}

UserState(b) ==
  CHOOSE m \in
    {[st |-> CASE s.state \in {READY, DELAYED} -> "waiting"
               [] s.state = INFLIGHT -> "leased"
               [] s.state = DEAD -> "dead",
      tries |-> s.attempts, avail |-> s.avail, until |-> s.until] :
        s \in {idx[r] : r \in CopiesOf(b)}} \cup
    {[st |-> IF \E d \in delivered : d.body = b /\ d.id \in acked THEN "gone" ELSE "unsent",
      tries |-> 0, avail |-> 0, until |-> 0]} :
    m.st \in {"gone", "unsent"} => CopiesOf(b) = {}

Abstract == INSTANCE MessageQueue WITH
  Body <- 1..MaxBody, clock <- now, msg <- [b \in 1..MaxBody |-> UserState(b)]

\* Whatever the interleaving of its critical sections and however often
\* commits fail, the queue behaves like MessageQueue, where every call is
\* atomic: no message is doubled, revived, leased before its time or after
\* its last attempt, or dead-lettered early.
QueueImplemented == Abstract!Spec

\* What Lease returns is what the producer sent ("body bytes round-trip
\* intact", correctness_test.go).  Lease reads payloads after it has released
\* q.mu, so a lease that runs out meanwhile lets the slot be acked, freed and
\* written again before it is read.
DeliveredIntact ==
  \A d \in delivered : d.got = d.body
============================================================================
