---------------------------- MODULE QueueEngine ----------------------------
(***************************************************************************)
(* The runtime of one queue (internal/queue/queue.go): the index, the ready*)
(* heap, the delayed and in-flight wheels, the receipts, the dead-letter   *)
(* list, and the operations that move messages between them.               *)
(*                                                                         *)
(* Every operation holds q.mu for a while, releases it, waits in           *)
(* submitCommit for its log records to become durable, and comes back to   *)
(* apply or to undo its effect.  One critical section, or one call made    *)
(* outside the lock, is one action; between two of them every other client *)
(* and the ticker may run.                                                 *)
(*                                                                         *)
(* The log is abstract here: a commit succeeds or fails as it likes, for a *)
(* whole group of waiting operations at once.  QueueDurable conjoins these *)
(* actions with the log, the apply cursor, checkpoints and crashes.        *)
(***************************************************************************)
EXTENDS Integers, FiniteSets

CONSTANTS
  Client,          \* goroutines that call the API
  Ticker,          \* the background ticker goroutine
  PageSlot,        \* slots of the page store: index slots and payload slots
  MaxDepth,        \* Config.MaxDepth, 0 = unlimited
  MaxAttempts,     \* Config.MaxAttempts, 0 = unlimited
  DurableLeases,   \* Config.DurableLeases
  MaxDelay,        \* Config.maxDelayMs
  Delays,          \* delays callers ask for
  Visibility,      \* visibility timeouts callers ask for
  BatchSizes,      \* messages per Enqueue call
  LeaseSizes,      \* messages a Lease call asks for
  MaxBody,         \* bound: messages callers create
  MaxMsgID,        \* bound: ids assigned
  MaxNonce,        \* bound: Lease calls that deliver
  MaxTime          \* bound: the clock

ASSUME EngineAssumption ==
  /\ Ticker \notin Client
  /\ MaxDepth \in Nat /\ MaxAttempts \in Nat /\ DurableLeases \in BOOLEAN
  /\ MaxDelay \in Nat /\ Delays \subseteq Nat /\ Visibility \subseteq Nat \ {0}
  /\ BatchSizes \subseteq Nat \ {0} /\ LeaseSizes \subseteq Nat \ {0}
  /\ MaxBody \in Nat /\ MaxMsgID \in Nat /\ MaxNonce \in Nat /\ MaxTime \in Nat

VARIABLES
  \* shared state of the queue
  now,             \* the clock
  alloc,           \* page-store slots in use
  content,         \* what was last written to each page-store slot
  idx,             \* index.live: index slot -> Slot
  ready,           \* the ready heap: [id, ref]
  delayed,         \* the delayed wheel: [id, ref, deadline]
  inflight,        \* the in-flight wheel: [id, ref, deadline, nonce]
  receipts,        \* current leases: [id, ref, nonce, attempt, until], one per id
  dead,            \* the dead-letter list: [id, ref, pay, attempts, body]
  reserved,        \* depth reserved by Enqueue calls in progress
  nextMsgID,       \* last message id assigned
  nextNonce,       \* last lease nonce drawn
  nextBody,        \* last payload a caller made up
  \* local state of the goroutines
  op, phase,       \* the operation a process is in, and where it is in it
  req,             \* Enqueue: the requests
  items,           \* Enqueue: what was allocated for them
  replaying,       \* Replay: the dead letters taken off the list
  leased,          \* Lease: the deliveries being prepared
  held,            \* Ack, Nack, tick: leases taken off receipts, not settled
  expired,         \* tick: leases returned to ready whose EXPIRE is not logged
  current,         \* tick: the message whose record is being committed
  \* what callers have been told
  delivered,       \* deliveries returned, their receipts included
  acked            \* ids whose ACK record is durable

store == <<alloc, content>>
wheels == <<ready, delayed, inflight, receipts>>
counters == <<nextMsgID, nextNonce, nextBody>>
enqueueVars == <<req, items, replaying>>
leaseVars == <<leased, held>>
tickVars == <<expired, current>>
told == <<delivered, acked>>
queueVars == <<now, store, idx, wheels, dead, reserved, counters>>
localVars == <<op, phase, enqueueVars, leaseVars, tickVars>>
vars == <<queueVars, localVars, told>>

Process == Client \cup {Ticker}

\* index.State*
READY == "READY"
DELAYED == "DELAYED"
INFLIGHT == "INFLIGHT"
DEAD == "DEAD"

\* The zero Slot that GetByRef returns for a reference that is not live.
NoSlot == [id |-> 0, state |-> READY, attempts |-> 0, until |-> 0, nonce |-> 0,
           avail |-> 0, pay |-> 0, body |-> 0]

GetByRef(f, r) == IF r \in DOMAIN f THEN f[r] ELSE NoSlot
Put(f, r, s) == [x \in DOMAIN f \cup {r} |-> IF x = r THEN s ELSE f[x]]
Without(f, S) == [x \in DOMAIN f \ S |-> f[x]]

----------------------------------------------------------------------------
Init ==
  /\ now = 0 /\ alloc = {} /\ content = [s \in PageSlot |-> 0]
  /\ idx = [r \in {} |-> NoSlot]
  /\ ready = {} /\ delayed = {} /\ inflight = {} /\ receipts = {} /\ dead = {}
  /\ reserved = 0 /\ nextMsgID = 0 /\ nextNonce = 0 /\ nextBody = 0
  /\ op = [p \in Process |-> "none"]
  /\ phase = [p \in Process |-> "idle"]
  /\ req = [c \in Client |-> << >>]
  /\ items = [c \in Client |-> {}]
  /\ replaying = [c \in Client |-> {}]
  /\ leased = [c \in Client |-> {}]
  /\ held = [p \in Process |-> {}]
  /\ expired = {} /\ current = 0
  /\ delivered = {} /\ acked = {}

\* The clock advances at any moment.
Tock ==
  /\ now < MaxTime
  /\ now' = now + 1
  /\ UNCHANGED <<store, idx, wheels, dead, reserved, counters, localVars, told>>

----------------------------------------------------------------------------
\* Goroutine bookkeeping.

Goto(p, o, ph) ==
  /\ op' = [op EXCEPT ![p] = o]
  /\ phase' = [phase EXCEPT ![p] = ph]

At(p, o, ph) == op[p] = o /\ phase[p] = ph

\* submitCommit and runCommitter: the committer settles a group of waiting
\* operations together.  Their records are durable ("ok"), or the payload
\* sync or the log write failed or the queue is closing ("err").
Settle(S, result) ==
  /\ S # {} /\ \A p \in S : phase[p] = "commit"
  /\ phase' = [p \in Process |-> IF p \in S THEN result ELSE phase[p]]
  /\ UNCHANGED <<queueVars, op, enqueueVars, leaseVars, tickVars, told>>

CommitBatch(S) == Settle(S, "ok")
FailBatch(S) == Settle(S, "err")

----------------------------------------------------------------------------
\* Enqueue, also as the second half of Replay.

\* Mutant: the reservations of other calls are not counted.
FullIgnoresReserved(n) ==
  MaxDepth > 0 /\ Cardinality(ready) + Cardinality(delayed) + n > MaxDepth

Full(n) ==
  MaxDepth > 0 /\ Cardinality(ready) + Cardinality(delayed) + reserved + n > MaxDepth

\* A call that is rejected (ErrDelayTooLong, ErrFull) changes nothing.
EnqueueReserve(c, n, delay) ==
  /\ op[c] = "none" /\ nextBody + n <= MaxBody
  /\ delay <= MaxDelay /\ ~Full(n)
  /\ Goto(c, "enqueue", "alloc")
  /\ req' = [req EXCEPT ![c] =
       [i \in 1..n |-> [body |-> nextBody + i, delay |-> delay, avail |-> now + delay]]]
  /\ nextBody' = nextBody + n
  /\ reserved' = reserved + n
  /\ UNCHANGED <<now, store, idx, wheels, dead, nextMsgID, nextNonce, items,
                 replaying, leaseVars, tickVars, told>>

Requests(c) == DOMAIN req[c]
Size(c) == Cardinality(Requests(c))

\* An index slot and a payload slot for every request, all different.
Allocations(c) ==
  {it \in [Requests(c) -> PageSlot \X PageSlot] :
     \A i \in Requests(c) :
       /\ it[i][1] \notin alloc /\ it[i][2] \notin alloc /\ it[i][1] # it[i][2]
       /\ \A j \in Requests(c) \ {i} :
            {it[i][1], it[i][2]} \cap {it[j][1], it[j][2]} = {}}

\* Phases 1 and 2: slots and an id for every request, payloads written.
EnqueueAlloc(c) ==
  /\ phase[c] = "alloc" /\ nextMsgID + Size(c) <= MaxMsgID
  /\ \E it \in Allocations(c) :
       /\ items' = [items EXCEPT ![c] =
            {[id |-> nextMsgID + i, ref |-> it[i][1], pay |-> it[i][2],
              delay |-> req[c][i].delay, avail |-> req[c][i].avail,
              body |-> req[c][i].body] : i \in Requests(c)}]
       /\ alloc' = alloc \cup UNION {{it[i][1], it[i][2]} : i \in Requests(c)}
       /\ content' = [s \in PageSlot |->
            IF \E i \in Requests(c) : it[i][2] = s
            THEN req[c][CHOOSE i \in Requests(c) : it[i][2] = s].body
            ELSE content[s]]
  /\ nextMsgID' = nextMsgID + Size(c)
  /\ Goto(c, op[c], "commit")
  /\ UNCHANGED <<now, idx, wheels, dead, reserved, nextNonce, nextBody, req,
                 replaying, leaseVars, tickVars, told>>

\* The page store fails to allocate: the slots allocated so far are released
\* by the deferred function, the k ids drawn so far are lost.
EnqueueAllocFail(c) ==
  /\ phase[c] = "alloc"
  /\ \E k \in 0..Size(c) : nextMsgID + k <= MaxMsgID /\ nextMsgID' = nextMsgID + k
  /\ Goto(c, op[c], "err")
  /\ UNCHANGED <<now, store, idx, wheels, dead, reserved, nextNonce, nextBody,
                 enqueueVars, leaseVars, tickVars, told>>

Refs(S) == {x.ref : x \in S}
Pays(S) == {x.pay : x \in S}

\* The call is over; a Replay goes on, an Enqueue returns.
EnqueueReturn(c, next) ==
  /\ items' = [items EXCEPT ![c] = {}]
  /\ req' = [req EXCEPT ![c] = << >>]
  /\ IF op[c] = "replay" THEN Goto(c, "replay", next) ELSE Goto(c, "none", "idle")

\* Mutant: the index slots of a failed call are not freed.
EnqueueUndoLeaks(c) ==
  /\ op[c] \in {"enqueue", "replay"} /\ phase[c] = "err"
  /\ alloc' = alloc \ Pays(items[c])
  /\ reserved' = reserved - Size(c)
  /\ EnqueueReturn(c, "putback")
  /\ UNCHANGED <<now, content, idx, wheels, dead, counters, replaying, leaseVars,
                 tickVars, told>>

\* Mutant: a failed call keeps its reservation.
EnqueueUndoKeepsReserved(c) ==
  /\ op[c] \in {"enqueue", "replay"} /\ phase[c] = "err"
  /\ alloc' = alloc \ (Refs(items[c]) \cup Pays(items[c]))
  /\ idx' = Without(idx, Refs(items[c]))
  /\ EnqueueReturn(c, "putback")
  /\ UNCHANGED <<now, content, wheels, dead, reserved, counters, replaying,
                 leaseVars, tickVars, told>>

\* Both deferred functions of a failed call: release the payload slots,
\* FreeSlot the index slots, give the reservation back.
EnqueueUndo(c) ==
  /\ op[c] \in {"enqueue", "replay"} /\ phase[c] = "err"
  /\ alloc' = alloc \ (Refs(items[c]) \cup Pays(items[c]))
  /\ idx' = Without(idx, Refs(items[c]))
  /\ reserved' = reserved - Size(c)
  /\ EnqueueReturn(c, "putback")
  /\ UNCHANGED <<now, content, wheels, dead, counters, replaying, leaseVars,
                 tickVars, told>>

ItemSlot(it) ==
  [id |-> it.id, state |-> IF it.delay > 0 THEN DELAYED ELSE READY, attempts |-> 0,
   until |-> 0, nonce |-> 0, avail |-> it.avail, pay |-> it.pay, body |-> it.body]

Published(c) ==
  [r \in DOMAIN idx \cup Refs(items[c]) |->
     IF r \in Refs(items[c]) THEN ItemSlot(CHOOSE it \in items[c] : it.ref = r) ELSE idx[r]]

\* The records are durable: publish the messages.
EnqueueApply(c) ==
  /\ op[c] \in {"enqueue", "replay"} /\ phase[c] = "ok"
  /\ idx' = Published(c)
  /\ ready' = ready \cup {[id |-> it.id, ref |-> it.ref] :
                             it \in {x \in items[c] : x.delay = 0}}
  /\ delayed' = delayed \cup {[id |-> it.id, ref |-> it.ref, deadline |-> it.avail] :
                                it \in {x \in items[c] : x.delay > 0}}
  /\ reserved' = reserved - Size(c)
  /\ EnqueueReturn(c, "free")
  /\ UNCHANGED <<now, store, inflight, receipts, dead, counters, replaying,
                 leaseVars, tickVars, told>>

----------------------------------------------------------------------------
\* Lease.

Due == {e \in delayed : e.deadline <= now}
Promoted == {e \in Due : GetByRef(idx, e.ref).id # 0}

\* Mutant: the promoted slots keep their state.
PromotedIdxKeepsState == idx

PromotedIdx ==
  [r \in DOMAIN idx |-> IF r \in Refs(Promoted)
                        THEN [idx[r] EXCEPT !.state = READY] ELSE idx[r]]
PromotedReady ==
  ready \cup {[id |-> idx[e.ref].id, ref |-> e.ref] : e \in Promoted}

\* Promote what is due, pop up to max live heap entries in some order, mark
\* them in flight under a fresh nonce.  A call that finds nothing returns at
\* once.  One nonce stands for those of a whole call: nonces are only ever
\* compared between leases of the same message.
Lease(c, max, visibility) ==
  /\ op[c] = "none" /\ nextNonce < MaxNonce
  /\ delayed' = delayed \ Due
  /\ \E popped \in SUBSET PromotedReady :
       LET live == {e \in popped : GetByRef(PromotedIdx, e.ref).id # 0}
           until == now + visibility
           nonce == nextNonce + 1
           ds == {[id |-> PromotedIdx[e.ref].id, ref |-> e.ref, nonce |-> nonce,
                   attempt |-> PromotedIdx[e.ref].attempts + 1, until |-> until,
                   pay |-> PromotedIdx[e.ref].pay,
                   body |-> PromotedIdx[e.ref].body] : e \in live}
       IN  /\ Cardinality(live) <= max
           /\ Cardinality(live) = max \/ popped = PromotedReady
           /\ ready' = PromotedReady \ popped
           /\ idx' = [r \in DOMAIN idx |->
                IF r \in Refs(live)
                THEN [PromotedIdx[r] EXCEPT !.state = INFLIGHT, !.attempts = @ + 1,
                                            !.until = until, !.nonce = nonce]
                ELSE PromotedIdx[r]]
           /\ receipts' = {i \in receipts : \A d \in ds : d.id # i.id} \cup
                {[id |-> d.id, ref |-> d.ref, nonce |-> nonce,
                  attempt |-> d.attempt, until |-> until] : d \in ds}
           /\ inflight' = inflight \cup
                {[id |-> d.id, ref |-> d.ref, deadline |-> until, nonce |-> nonce] :
                   d \in ds}
           /\ leased' = [leased EXCEPT ![c] = ds]
           /\ IF ds = {}
              THEN nextNonce' = nextNonce /\ UNCHANGED <<op, phase>>
              ELSE /\ nextNonce' = nonce
                   /\ Goto(c, "lease", IF DurableLeases THEN "commit" ELSE "ok")
  /\ UNCHANGED <<now, store, dead, reserved, nextMsgID, nextBody, enqueueVars,
                 held, tickVars, told>>

\* The payloads are read after the lock is released, and the deliveries
\* returned: got is what the payload slots hold now.
LeaseReturn(c) ==
  /\ At(c, "lease", "ok")
  /\ delivered' = delivered \cup
       {[id |-> d.id, nonce |-> d.nonce, attempt |-> d.attempt, body |-> d.body,
         got |-> content[d.pay]] : d \in leased[c]}
  /\ leased' = [leased EXCEPT ![c] = {}]
  /\ Goto(c, "none", "idle")
  /\ UNCHANGED <<queueVars, enqueueVars, held, tickVars, acked>>

SameLease(i, d) == i.id = d.id /\ i.nonce = d.nonce /\ i.attempt = d.attempt

\* rollbackLeases: the LEASE records could not be made durable.
LeaseRollback(c) ==
  LET mine == {i \in receipts : \E d \in leased[c] : SameLease(i, d)}
      back == {i \in mine : i.ref \in DOMAIN idx}
  IN  /\ At(c, "lease", "err")
      /\ receipts' = receipts \ mine
      /\ inflight' = {e \in inflight : \A i \in mine : i.id # e.id}
      /\ idx' = [r \in DOMAIN idx |->
           IF r \in Refs(back)
           THEN [idx[r] EXCEPT !.state = READY, !.until = 0, !.nonce = 0,
                               !.attempts = IF @ > 0 THEN @ - 1 ELSE 0]
           ELSE idx[r]]
      /\ ready' = ready \cup {[id |-> idx[i.ref].id, ref |-> i.ref] : i \in back}
      /\ leased' = [leased EXCEPT ![c] = {}]
      /\ Goto(c, "none", "idle")
      /\ UNCHANGED <<now, store, delayed, dead, reserved, counters, enqueueVars,
                     held, tickVars, told>>

----------------------------------------------------------------------------
\* Ack and Nack.

\* Mutant: the wheel entry of the lease is left behind.
TakeLeaseKeepsEntry(c, d, at) ==
  \E i \in receipts :
    /\ SameLease(i, d)
    /\ receipts' = {x \in receipts : x.id # i.id}
    /\ inflight' = inflight
    /\ held' = [held EXCEPT ![c] =
         {[id |-> i.id, ref |-> i.ref, nonce |-> i.nonce, attempt |-> i.attempt,
           until |-> i.until, at |-> at, slot |-> GetByRef(idx, i.ref)]}]

\* Take a lease off receipts and off the wheel, for as long as it takes to
\* commit the record that settles it.  A receipt that does not match is
\* rejected (ErrBadReceipt) and changes nothing.
TakeLease(c, d, at) ==
  \E i \in receipts :
    /\ SameLease(i, d)
    /\ receipts' = {x \in receipts : x.id # i.id}
    /\ inflight' = {e \in inflight : e.id # i.id}
    /\ held' = [held EXCEPT ![c] =
         {[id |-> i.id, ref |-> i.ref, nonce |-> i.nonce, attempt |-> i.attempt,
           until |-> i.until, at |-> at, slot |-> GetByRef(idx, i.ref)]}]

\* restoreLease: the lease is given back when the commit failed.
RestoreLease(h) ==
  IF h.slot.id = 0 \/ \E i \in receipts : i.id = h.slot.id
  THEN UNCHANGED <<idx, receipts, inflight>>
  ELSE /\ idx' = Put(idx, h.ref, [h.slot EXCEPT !.state = INFLIGHT,
                                    !.until = h.until, !.nonce = h.nonce])
       /\ receipts' = receipts \cup
            {[id |-> h.slot.id, ref |-> h.ref, nonce |-> h.nonce,
              attempt |-> h.attempt, until |-> h.until]}
       /\ inflight' = inflight \cup
            {[id |-> h.slot.id, ref |-> h.ref, deadline |-> h.until,
              nonce |-> h.nonce]}

\* Mutant: the payload slot is released before the ACK record is durable.
AckReleasesEarly(c, d) ==
  /\ op[c] = "none"
  /\ TakeLease(c, d, 0)
  /\ alloc' = alloc \ {idx[i.ref].pay : i \in {j \in receipts : SameLease(j, d)}}
  /\ Goto(c, "ack", "commit")
  /\ UNCHANGED <<now, content, idx, ready, delayed, dead, reserved, counters,
                 enqueueVars, leased, tickVars, told>>

Ack(c, d) ==
  /\ op[c] = "none"
  /\ TakeLease(c, d, 0)
  /\ Goto(c, "ack", "commit")
  /\ UNCHANGED <<now, store, idx, ready, delayed, dead, reserved, counters,
                 enqueueVars, leased, tickVars, told>>

\* The ACK record is durable: release the payload slot ...
AckRelease(c) ==
  /\ At(c, "ack", "ok")
  /\ \E h \in held[c] :
       /\ alloc' = IF h.slot.id # 0 THEN alloc \ {h.slot.pay} ELSE alloc
       /\ acked' = acked \cup {h.id}
  /\ Goto(c, "ack", "free")
  /\ UNCHANGED <<now, content, idx, wheels, dead, reserved, counters,
                 enqueueVars, leaseVars, tickVars, delivered>>

\* ... and then free the index slot, all without the lock.
AckFree(c) ==
  /\ At(c, "ack", "free")
  /\ \E h \in held[c] :
       /\ idx' = Without(idx, {h.ref})
       /\ alloc' = alloc \ {h.ref}
  /\ held' = [held EXCEPT ![c] = {}]
  /\ Goto(c, "none", "idle")
  /\ UNCHANGED <<now, content, wheels, dead, reserved, counters, enqueueVars,
                 leased, tickVars, told>>

\* Mutant: the lease is dropped, not given back.
GiveBackForgets(c) ==
  /\ op[c] \in {"ack", "nack"} /\ phase[c] = "err"
  /\ held' = [held EXCEPT ![c] = {}]
  /\ Goto(c, "none", "idle")
  /\ UNCHANGED <<now, store, idx, wheels, dead, reserved, counters,
                 enqueueVars, leased, tickVars, told>>

\* Mutant: a failed Nack waits for ever.
GiveBackAckOnly(c) ==
  /\ op[c] = "ack" /\ phase[c] = "err"
  /\ \E h \in held[c] : RestoreLease(h)
  /\ held' = [held EXCEPT ![c] = {}]
  /\ Goto(c, "none", "idle")
  /\ UNCHANGED <<now, store, ready, delayed, dead, reserved, counters,
                 enqueueVars, leased, tickVars, told>>

\* Ack or Nack failed.
GiveBack(c) ==
  /\ op[c] \in {"ack", "nack"} /\ phase[c] = "err"
  /\ \E h \in held[c] : RestoreLease(h)
  /\ held' = [held EXCEPT ![c] = {}]
  /\ Goto(c, "none", "idle")
  /\ UNCHANGED <<now, store, ready, delayed, dead, reserved, counters,
                 enqueueVars, leased, tickVars, told>>

\* Mutant: one attempt too many.
ExhaustedLate(slot) == MaxAttempts > 0 /\ slot.attempts > MaxAttempts

Exhausted(slot) == MaxAttempts > 0 /\ slot.attempts >= MaxAttempts

ReadPayload(slot) == IF slot.id = 0 THEN 0 ELSE content[slot.pay]

\* deadLetterLocked.
DeadLetter(h) ==
  /\ idx' = Put(idx, h.ref, [h.slot EXCEPT !.state = DEAD, !.until = 0, !.nonce = 0])
  /\ dead' = IF \E m \in dead : m.id = h.slot.id THEN dead
             ELSE dead \cup {[id |-> h.slot.id, ref |-> h.ref, pay |-> h.slot.pay,
                              attempts |-> h.slot.attempts,
                              body |-> ReadPayload(h.slot)]}

\* Whether the message goes to the dead letters is decided under the first
\* lock, from the slot read there.
Nack(c, d, delay) ==
  /\ op[c] = "none"
  /\ TakeLease(c, d, now + delay)
  /\ Goto(c, "nack", "commit")
  /\ UNCHANGED <<now, store, idx, ready, delayed, dead, reserved, counters,
                 enqueueVars, leased, tickVars, told>>

NackApply(c) ==
  /\ At(c, "nack", "ok")
  /\ \E h \in held[c] :
       LET back(st) == Put(idx, h.ref, [h.slot EXCEPT !.state = st, !.until = 0,
                                          !.nonce = 0, !.avail = h.at])
       IN  \/ /\ Exhausted(h.slot)
              /\ DeadLetter(h)
              /\ UNCHANGED <<ready, delayed>>
           \/ /\ ~Exhausted(h.slot) /\ h.at <= now
              /\ idx' = back(READY)
              /\ ready' = ready \cup {[id |-> h.slot.id, ref |-> h.ref]}
              /\ UNCHANGED <<delayed, dead>>
           \/ /\ ~Exhausted(h.slot) /\ h.at > now
              /\ idx' = back(DELAYED)
              /\ delayed' = delayed \cup
                   {[id |-> h.slot.id, ref |-> h.ref, deadline |-> h.at]}
              /\ UNCHANGED <<ready, dead>>
  /\ held' = [held EXCEPT ![c] = {}]
  /\ Goto(c, "none", "idle")
  /\ UNCHANGED <<now, store, inflight, receipts, reserved, counters, enqueueVars,
                 leased, tickVars, told>>

----------------------------------------------------------------------------
\* The ticker.

\* The loop of tick over what it collected, earliest deadline first: H are
\* the leases to dead-letter, X the expiries to log.
TickNext(H, X) ==
  IF H \cup X = {}
  THEN Goto(Ticker, "none", "idle") /\ current' = 0
  ELSE /\ Goto(Ticker, "tick", "commit")
       /\ \E e \in H \cup X :
            /\ \A f \in H \cup X : e.until <= f.until
            /\ current' = e.id

\* Mutant: a lease ends one tick of the clock early.
OverdueEarly == {e \in inflight : e.deadline <= now + 1}

\* Mutant: a lease ends one tick of the clock late.
OverdueLate == {e \in inflight : e.deadline < now}

\* inflight.popExpired.
Overdue == {e \in inflight : e.deadline <= now}

\* One tick under the lock: promote, then expire.  The in-flight wheel is
\* popped up to now; an entry counts only when the receipt still carries its
\* nonce.  An exhausted message waits for its DEAD record, the others are
\* ready again before their EXPIRE record is written.
Tick ==
  LET ended == {i \in receipts : \E e \in Overdue : e.id = i.id /\ e.nonce = i.nonce}
      live == {i \in ended : i.ref \in DOMAIN idx}
      toDead == {i \in live : Exhausted(PromotedIdx[i.ref])}
      H == {[id |-> i.id, ref |-> i.ref, nonce |-> i.nonce, attempt |-> i.attempt,
             until |-> i.until, at |-> 0, slot |-> PromotedIdx[i.ref]] : i \in toDead}
      X == {[id |-> i.id, until |-> i.until] : i \in live \ toDead}
  IN  /\ op[Ticker] = "none"
      /\ delayed' = delayed \ Due
      /\ inflight' = inflight \ Overdue
      /\ receipts' = receipts \ ended
      /\ idx' = [r \in DOMAIN idx |->
           IF r \in Refs(live \ toDead)
           THEN [PromotedIdx[r] EXCEPT !.state = READY, !.until = 0, !.nonce = 0]
           ELSE PromotedIdx[r]]
      /\ ready' = PromotedReady \cup
           {[id |-> idx[i.ref].id, ref |-> i.ref] : i \in live \ toDead}
      /\ held' = [held EXCEPT ![Ticker] = H]
      /\ expired' = X
      /\ TickNext(H, X)
      /\ UNCHANGED <<now, store, dead, reserved, counters, enqueueVars, leased, told>>

\* The DEAD record of the current message is durable, or was not written.
TickDead ==
  /\ op[Ticker] = "tick"
  /\ \E h \in held[Ticker] :
       /\ h.id = current
       /\ \/ /\ phase[Ticker] = "ok" /\ DeadLetter(h)
             /\ UNCHANGED <<receipts, inflight>>
          \/ /\ phase[Ticker] = "err" /\ RestoreLease(h)
             /\ UNCHANGED dead
       /\ held' = [held EXCEPT ![Ticker] = @ \ {h}]
       /\ TickNext(held[Ticker] \ {h}, expired)
  /\ UNCHANGED <<now, store, ready, delayed, reserved, counters, enqueueVars,
                 leased, expired, told>>

\* So is its EXPIRE record: either way the tick goes on.
TickExpire ==
  /\ op[Ticker] = "tick" /\ phase[Ticker] \in {"ok", "err"}
  /\ \E e \in expired :
       /\ e.id = current
       /\ expired' = expired \ {e}
       /\ TickNext(held[Ticker], expired \ {e})
  /\ UNCHANGED <<queueVars, enqueueVars, leaseVars, told>>

----------------------------------------------------------------------------
\* Replay of dead letters.

\* Take the chosen dead letters off the list, in some order ...
ReplayTake(c, S, delay) ==
  /\ op[c] = "none" /\ S # {}
  /\ dead' = dead \ S
  /\ replaying' = [replaying EXCEPT ![c] = S]
  /\ \E f \in [1..Cardinality(S) -> S] :
       /\ \A m \in S : \E i \in 1..Cardinality(S) : f[i] = m
       /\ req' = [req EXCEPT ![c] =
            [i \in 1..Cardinality(S) |->
               [body |-> f[i].body, delay |-> delay, avail |-> delay]]]
  /\ Goto(c, "replay", "reserve")
  /\ UNCHANGED <<now, store, idx, wheels, reserved, counters, items, leaseVars,
                 tickVars, told>>

TooLong(c) == \E i \in Requests(c) : req[c][i].delay > MaxDelay

\* ... call Enqueue with their payloads ...
ReplayReserve(c) ==
  /\ At(c, "replay", "reserve")
  /\ ~TooLong(c) /\ ~Full(Size(c))
  /\ req' = [req EXCEPT ![c] =
       [i \in Requests(c) |-> [req[c][i] EXCEPT !.avail = now + req[c][i].delay]]]
  /\ reserved' = reserved + Size(c)
  /\ Goto(c, "replay", "alloc")
  /\ UNCHANGED <<now, store, idx, wheels, dead, counters, items, replaying,
                 leaseVars, tickVars, told>>

\* ... which may reject them ...
ReplayReject(c) ==
  /\ At(c, "replay", "reserve")
  /\ TooLong(c) \/ Full(Size(c))
  /\ EnqueueReturn(c, "putback")
  /\ UNCHANGED <<queueVars, replaying, leaseVars, tickVars, told>>

\* ... put them back on the list when Enqueue failed ...
ReplayPutBack(c) ==
  /\ At(c, "replay", "putback")
  /\ dead' = dead \cup replaying[c]
  /\ replaying' = [replaying EXCEPT ![c] = {}]
  /\ Goto(c, "none", "idle")
  /\ UNCHANGED <<now, store, idx, wheels, reserved, counters, req, items,
                 leaseVars, tickVars, told>>

\* ... and free their slots when it succeeded, without a log record.
ReplayFree(c) ==
  /\ At(c, "replay", "free")
  /\ alloc' = alloc \ (Pays(replaying[c]) \cup Refs(replaying[c]))
  /\ idx' = Without(idx, Refs(replaying[c]))
  /\ replaying' = [replaying EXCEPT ![c] = {}]
  /\ Goto(c, "none", "idle")
  /\ UNCHANGED <<now, content, wheels, dead, reserved, counters, req, items,
                 leaseVars, tickVars, told>>

----------------------------------------------------------------------------
Call(c) ==
  \/ \E n \in BatchSizes, delay \in Delays : EnqueueReserve(c, n, delay)
  \/ \E n \in LeaseSizes, v \in Visibility : Lease(c, n, v)
  \/ \E d \in delivered : Ack(c, d)
  \/ \E d \in delivered, delay \in Delays : Nack(c, d, delay)
  \/ \E S \in SUBSET dead, delay \in Delays : ReplayTake(c, S, delay)

Continue(c) ==
  \/ EnqueueAlloc(c) \/ EnqueueAllocFail(c) \/ EnqueueUndo(c) \/ EnqueueApply(c)
  \/ LeaseReturn(c) \/ LeaseRollback(c)
  \/ AckRelease(c) \/ AckFree(c) \/ GiveBack(c) \/ NackApply(c)
  \/ ReplayReserve(c) \/ ReplayReject(c) \/ ReplayPutBack(c) \/ ReplayFree(c)

Commit ==
  \E S \in SUBSET Process : CommitBatch(S) \/ FailBatch(S)

TickStep == Tick \/ TickDead \/ TickExpire

Next ==
  \/ Tock
  \/ \E c \in Client : Call(c) \/ Continue(c)
  \/ Commit
  \/ TickStep

Spec == Init /\ [][Next]_vars

----------------------------------------------------------------------------
\* Properties.

Slot ==
  [id : Nat, state : {READY, DELAYED, INFLIGHT, DEAD}, attempts : Nat, until : Nat,
   nonce : Nat, avail : Nat, pay : PageSlot, body : Nat]

Held ==
  [id : Nat, ref : PageSlot, nonce : Nat, attempt : Nat, until : Nat, at : Nat,
   slot : Slot]

Receipt == [id : Nat, ref : PageSlot, nonce : Nat, attempt : Nat, until : Nat]

DeadMessage == [id : Nat, ref : PageSlot, pay : PageSlot, attempts : Nat, body : Nat]

Request == [body : Nat, delay : Nat, avail : Nat]

Item == [id : Nat, ref : PageSlot, pay : PageSlot, delay : Nat, avail : Nat, body : Nat]

Delivery ==
  [id : Nat, ref : PageSlot, nonce : Nat, attempt : Nat, until : Nat, pay : PageSlot,
   body : Nat]

Ops == {"none", "enqueue", "lease", "ack", "nack", "replay", "tick"}
Phases == {"idle", "reserve", "alloc", "commit", "ok", "err", "putback", "free"}

\* The types of the variables.
TypeOK ==
  /\ now \in Nat /\ reserved \in Int
  /\ nextMsgID \in Nat /\ nextNonce \in Nat /\ nextBody \in Nat
  /\ alloc \subseteq PageSlot /\ content \in [PageSlot -> Nat]
  /\ DOMAIN idx \subseteq PageSlot /\ idx \in [DOMAIN idx -> Slot]
  /\ ready \subseteq [id : Nat, ref : PageSlot]
  /\ delayed \subseteq [id : Nat, ref : PageSlot, deadline : Nat]
  /\ inflight \subseteq [id : Nat, ref : PageSlot, deadline : Nat, nonce : Nat]
  /\ receipts \subseteq Receipt
  /\ dead \subseteq DeadMessage
  /\ op \in [Process -> Ops] /\ phase \in [Process -> Phases]
  /\ DOMAIN req = Client /\ \A c \in Client : req[c] \in [DOMAIN req[c] -> Request]
  /\ items \in [Client -> SUBSET Item]
  /\ replaying \in [Client -> SUBSET DeadMessage]
  /\ leased \in [Client -> SUBSET Delivery]
  /\ held \in [Process -> SUBSET Held]
  /\ expired \subseteq [id : Nat, until : Nat] /\ current \in Nat
  /\ delivered \subseteq [id : Nat, nonce : Nat, attempt : Nat, body : Nat, got : Nat]
  /\ acked \subseteq Nat

\* The index slot r is the live slot of message id, in state st.
Live(r, id, st) == r \in DOMAIN idx /\ idx[r].id = id /\ idx[r].state = st

\* Every entry of the heap, of a wheel, of receipts or of the dead-letter
\* list, and every lease or dead letter an operation has taken aside, refers
\* to the live index slot of its message, in the matching state: no entry is
\* ever stale, whatever the order of the critical sections.
EntriesCurrent ==
  /\ \A e \in ready : Live(e.ref, e.id, READY)
  /\ \A e \in delayed : Live(e.ref, e.id, DELAYED) /\ idx[e.ref].avail = e.deadline
  /\ \A i \in receipts :
       /\ Live(i.ref, i.id, INFLIGHT)
       /\ idx[i.ref].nonce = i.nonce /\ idx[i.ref].attempts = i.attempt
       /\ idx[i.ref].until = i.until
  /\ \A p \in Process : \A h \in held[p] :
       /\ Live(h.ref, h.id, INFLIGHT) /\ idx[h.ref] = h.slot
       /\ h.slot.nonce = h.nonce /\ h.slot.attempts = h.attempt
       /\ h.slot.until = h.until
  /\ \A m \in dead \cup UNION {replaying[c] : c \in Client} :
       Live(m.ref, m.id, DEAD) /\ idx[m.ref].pay = m.pay /\ idx[m.ref].body = m.body

\* Every live message can still be reached: it is in the heap, on the delayed
\* wheel, leased, held by exactly one operation, in the dead-letter list, or
\* taken by exactly one Replay; and no two live slots are of one message.
\* This is what makes "at least once" true between restarts.
NothingLost ==
  /\ \A r \in DOMAIN idx :
       \/ \E e \in ready : e.ref = r
       \/ \E e \in delayed : e.ref = r
       \/ \E i \in receipts : i.ref = r
       \/ \E p \in Process : \E h \in held[p] : h.ref = r
       \/ \E m \in dead : m.ref = r
       \/ \E c \in Client : \E m \in replaying[c] : m.ref = r
  /\ \A r, s \in DOMAIN idx : idx[r].id = idx[s].id => r = s

\* A leased message is leased once: a lease on record is held by no
\* operation, no two operations hold one message, and the in-flight wheel
\* carries exactly the deadlines of the leases on record.
LeasedOnce ==
  /\ inflight = {[id |-> i.id, ref |-> i.ref, deadline |-> i.until,
                  nonce |-> i.nonce] : i \in receipts}
  /\ \A i, j \in receipts : i.id = j.id => i = j
  /\ \A p \in Process : \A h \in held[p] :
       /\ \A i \in receipts : i.id # h.id
       /\ \A q \in Process : \A k \in held[q] : k.id = h.id => k = h /\ q = p

\* Index slots whose Ack has released the payload and not yet freed the slot.
Releasing ==
  {r \in DOMAIN idx : \E c \in Client :
     At(c, "ack", "free") /\ \E h \in held[c] : h.ref = r}

Pending == UNION {items[c] : c \in Client}

LivePays == {idx[r].pay : r \in DOMAIN idx \ Releasing}

\* The page-store slots in use are exactly those of the live messages and of
\* the Enqueue calls in progress, and each has one owner: no path, the
\* failing ones and the unlocked releases of Ack and Replay included, leaks a
\* slot, frees it twice or frees it under a message that still needs it.
SlotsOwnedOnce ==
  /\ alloc = DOMAIN idx \cup LivePays \cup Refs(Pending) \cup Pays(Pending)
  /\ DOMAIN idx \cap LivePays = {}
  /\ \A r, s \in DOMAIN idx \ Releasing : idx[r].pay = idx[s].pay => r = s
  /\ \A a \in Pending :
       /\ a.ref # a.pay
       /\ {a.ref, a.pay} \cap (DOMAIN idx \cup LivePays) = {}
       /\ \A b \in Pending \ {a} : {a.ref, a.pay} \cap {b.ref, b.pay} = {}

\* The payload of a live message, of an Enqueue in progress and of a dead
\* letter is the one its producer sent, although payload slots are written,
\* read and released outside q.mu.
PayloadIntact ==
  /\ \A r \in DOMAIN idx \ Releasing : content[idx[r].pay] = idx[r].body
  /\ \A it \in Pending : content[it.pay] = it.body

\* A dead letter is on the list or in one Replay, never both or twice.
DeadOnce ==
  /\ \A m, n \in dead : m.id = n.id => m = n
  /\ \A c \in Client : \A m \in replaying[c] :
       /\ \A n \in dead : n.id # m.id
       /\ \A d \in Client : \A n \in replaying[d] : n.id = m.id => n = m /\ d = c

\* Ids are drawn from one counter, and each is given to one message.
IdsFresh ==
  /\ \A r \in DOMAIN idx : idx[r].id \in 1..nextMsgID
  /\ \A c \in Client : \A a \in items[c] :
       /\ a.id \in 1..nextMsgID
       /\ \A r \in DOMAIN idx : idx[r].id # a.id
       /\ \A d \in Client : \A b \in items[d] : a.id = b.id => a = b /\ c = d

\* What a goroutine has taken aside belongs to the operation it is in.
Local(c) ==
  /\ items[c] # {} => op[c] \in {"enqueue", "replay"} /\ phase[c] \in {"commit", "ok", "err"}
  /\ replaying[c] # {} => op[c] = "replay"
  /\ held[c] # {} => op[c] \in {"ack", "nack"}
  /\ \A h, k \in held[c] : h = k
  /\ phase[c] = "alloc" => op[c] \in {"enqueue", "replay"}
  /\ Size(c) \in Nat /\ Requests(c) = 1..Size(c)
  /\ IsFiniteSet(replaying[c])

LocalOK ==
  /\ \A c \in Client : Local(c)
  /\ held[Ticker] # {} => op[Ticker] = "tick"
  /\ IsFiniteSet(dead)

\* The ownership of messages and of slots, as an inductive invariant: who
\* refers to a live slot depends on the ids being fresh, on the slots being
\* allocated once and on what each goroutine may hold, and the other way
\* round, so that none of these is inductive without the others.
EngineInv ==
  /\ TypeOK /\ LocalOK /\ IdsFresh
  /\ EntriesCurrent /\ NothingLost /\ LeasedOnce /\ DeadOnce
  /\ SlotsOwnedOnce /\ PayloadIntact

\* While its lease runs, a delivery in preparation finds its own bytes in the
\* payload slot, although Lease reads it without the lock: nobody else has
\* the receipt, and the ticker does not end the lease before its deadline.
DeliveredInTime ==
  \A c \in Client : \A d \in leased[c] : d.until > now => content[d.pay] = d.body

\* A lease ends before its deadline only because its holder acks or nacks it
\* or because its own LEASE record could not be committed: the ticker and the
\* other consumers never take it away.
LeaseHonoured ==
  [][\A i \in receipts \ receipts' :
       \/ i.until <= now
       \/ \E c \in Client : \E h \in held'[c] : SameLease(h, i)
       \/ \E c \in Client : At(c, "lease", "err") /\ \E d \in leased[c] : SameLease(i, d)]_vars

Depth == Cardinality(ready) + Cardinality(delayed) + reserved
Unsettled ==
  Cardinality({i.id : i \in receipts} \cup {h.id : h \in UNION {held[p] : p \in Process}})

\* Concurrent Enqueue and Replay calls never take the queue past MaxDepth:
\* above it the depth grows only when leased messages come back.
DepthRespected ==
  [][MaxDepth > 0 /\ Depth' > Depth => Depth' <= MaxDepth \/ Unsettled' < Unsettled]_vars

----------------------------------------------------------------------------
\* Liveness.

\* The goroutines are scheduled, the committer serves every request, and an
\* operation that keeps retrying does not meet an I/O error every time.
Fairness ==
  /\ \A c \in Client : WF_vars(Continue(c))
  /\ WF_vars(TickStep)
  /\ \A p \in Process :
       /\ WF_vars(\E S \in SUBSET Process : p \in S /\ (CommitBatch(S) \/ FailBatch(S)))
       /\ SF_vars(\E S \in SUBSET Process : p \in S /\ CommitBatch(S))

LiveSpec == Spec /\ Fairness

\* Every call returns: no operation waits for ever, on another or on the
\* committer.
CallsReturn ==
  \A p \in Process : (op[p] # "none") ~> (op[p] = "none")

Ids == 1..MaxMsgID

\* A delayed message that is due leaves the wheel even if nobody leases, and
\* a lease past its deadline comes to an end: the message is ready again,
\* dead-lettered or acked, whoever holds the lease meanwhile and however
\* often a commit fails and the lease is restored.
DeadlinesServed ==
  \A id \in Ids :
    LET due == \E e \in delayed : e.id = id /\ e.deadline <= now
        overdue == \E l \in receipts \cup UNION {held[p] : p \in Process} :
                     l.id = id /\ l.until <= now
    IN  /\ due ~> ~due
        /\ overdue ~> ~overdue
============================================================================
