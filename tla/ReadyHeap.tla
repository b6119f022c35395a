----------------------------- MODULE ReadyHeap -----------------------------
(***************************************************************************)
(* The ready heap of a queue (internal/queue/heap.go): a binary heap in a  *)
(* slice, ordered by a priority that was cached when the entry was pushed  *)
(* or last refreshed, and then by message id in the queue's direction.     *)
(* The queue pushes (Enqueue, promotion, Nack, expiry), pops (Lease) and   *)
(* refreshes (tick); the clock runs in between.  The sift operations of    *)
(* container/heap are modelled from their use: heap indices start at 1.    *)
(***************************************************************************)
EXTENDS Integers, Sequences, FiniteSets

LOCAL INSTANCE SequencesExt

CONSTANTS
  Priority,        \* priorities of messages
  MaxPri,          \* the cap on an aged priority (255)
  AgingMs,         \* milliseconds per step of priority; 0 disables aging
  Orders,          \* the orders queues are configured with: "FIFO", "LIFO"
  MaxMsg,          \* bound: messages enqueued
  MaxTime          \* bound: the clock

ASSUME HeapAssumption ==
  /\ MaxPri \in Nat /\ Priority \subseteq 0..MaxPri
  /\ AgingMs \in Nat /\ Orders \subseteq {"FIFO", "LIFO"} /\ MaxMsg \in Nat /\ MaxTime \in Nat

VARIABLES
  dir,             \* 1 for FIFO and -1 for LIFO, set by newReadyHeap
  entries,         \* the slice: [msgID, priority, enq, cachedPri]
  out,             \* messages popped: leased or delayed, and not done
  nextID,
  now,
  refreshed        \* history: when refresh last ran

vars == <<dir, entries, out, nextID, now, refreshed>>

Init ==
  /\ dir \in {IF order = "LIFO" THEN -1 ELSE 1 : order \in Orders}
  /\ entries = << >> /\ out = {} /\ nextID = 1
  /\ now = 0 /\ refreshed = 0

----------------------------------------------------------------------------

ComputePri(e, t) ==
  IF AgingMs > 0 /\ t > e.enq
  THEN LET p == e.priority + (t - e.enq) \div AgingMs
       IN  IF p > MaxPri THEN MaxPri ELSE p
  ELSE e.priority

Less(a, b) ==
  \/ a.cachedPri > b.cachedPri
  \/ a.cachedPri = b.cachedPri /\ a.msgID * dir < b.msgID * dir

Swap(h, i, j) == [h EXCEPT ![i] = h[j], ![j] = h[i]]

\* container/heap: up, down and Init.
RECURSIVE Up(_, _)
Up(h, j) ==
  IF j = 1 \/ ~Less(h[j], h[j \div 2]) THEN h
  ELSE Up(Swap(h, j, j \div 2), j \div 2)

RECURSIVE Down(_, _, _)
Down(h, i, n) ==
  LET j == IF 2 * i + 1 <= n /\ Less(h[2 * i + 1], h[2 * i])
           THEN 2 * i + 1 ELSE 2 * i
  IN  IF 2 * i > n \/ ~Less(h[j], h[i]) THEN h
      ELSE Down(Swap(h, i, j), j, n)

RECURSIVE Heapify(_, _)
Heapify(h, i) == IF i = 0 THEN h ELSE Heapify(Down(h, i, Len(h)), i - 1)

----------------------------------------------------------------------------
\* push, pop and refresh.

Pushed(e) ==
  LET x == [e EXCEPT !.cachedPri = ComputePri(e, now)]
  IN  Up(Append(entries, x), Len(entries) + 1)

Popped ==
  LET n == Len(entries)
  IN  Front(Down(Swap(entries, 1, n), 1, n - 1))

Recached == [i \in 1..Len(entries) |->
               [entries[i] EXCEPT !.cachedPri = ComputePri(entries[i], now)]]

\* Mutant: the keys are recomputed and heap.Init is not called.
RefreshedUnsifted == IF AgingMs = 0 THEN entries ELSE Recached

\* Mutant: refresh does nothing.
RefreshedNever == entries

Refreshed ==
  IF AgingMs = 0 \/ entries = << >> THEN entries
  ELSE Heapify(Recached, Len(entries) \div 2)

----------------------------------------------------------------------------
\* What the queue does with the heap.

Enqueue(p) ==
  /\ nextID <= MaxMsg
  /\ entries' = Pushed([msgID |-> nextID, priority |-> p, enq |-> now, cachedPri |-> 0])
  /\ nextID' = nextID + 1
  /\ UNCHANGED <<dir, out, now, refreshed>>

Lease ==
  /\ entries # << >>
  /\ out' = out \cup {[entries[1] EXCEPT !.cachedPri = 0]}
  /\ entries' = Popped
  /\ UNCHANGED <<dir, nextID, now, refreshed>>

\* Nack, expiry, promotion and a failed durable lease push the message
\* again, with the id and the enqueue time it had.
Return(e) ==
  /\ e \in out
  /\ out' = out \ {e}
  /\ entries' = Pushed(e)
  /\ UNCHANGED <<dir, nextID, now, refreshed>>

Refresh ==
  /\ entries' = Refreshed
  /\ refreshed' = now
  /\ UNCHANGED <<dir, out, nextID, now>>

Tock ==
  /\ now < MaxTime
  /\ now' = now + 1
  /\ UNCHANGED <<dir, entries, out, nextID, refreshed>>

Next ==
  \/ \E p \in Priority : Enqueue(p)
  \/ Lease
  \/ \E e \in out : Return(e)
  \/ Refresh
  \/ Tock

Spec == Init /\ [][Next]_vars

----------------------------------------------------------------------------

\* The order Lease promises, without the heap: higher priority first, then
\* the oldest message of a FIFO queue and the youngest of a LIFO one.
Ahead(a, b) ==
  IF a.cachedPri # b.cachedPri THEN a.cachedPri > b.cachedPri
  ELSE IF dir = 1 THEN a.msgID < b.msgID ELSE a.msgID > b.msgID

\* Lease hands out the message that is ahead of every other message in the
\* heap, and pop takes that one out and loses no other.
PopsBest ==
  [][Len(entries') < Len(entries) =>
       \E e \in ToSet(entries) :
         /\ out' \ out = {[e EXCEPT !.cachedPri = 0]}
         /\ ToSet(entries') = ToSet(entries) \ {e}
         /\ \A f \in ToSet(entries') : Ahead(e, f)]_vars

\* Aging bounds overtaking: in a FIFO queue a message old enough at the last
\* refresh to have reached the cap is passed by no younger message.
AgedNotPassed ==
  [][(dir = 1 /\ AgingMs > 0 /\ Len(entries') < Len(entries)) =>
       \A e \in out' \ out : \A f \in ToSet(entries') :
         f.enq + (MaxPri - f.priority) * AgingMs <= refreshed => e.msgID < f.msgID]_vars

=============================================================================
