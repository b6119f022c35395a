------------------------ MODULE QueueEngineDelivery -------------------------
(***************************************************************************)
(* Proofs about the queue runtime, first part: what steps in general leave *)
(* alone, and that the steps of Enqueue and of Lease keep EngineInv.       *)
(***************************************************************************)
EXTENDS QueueEngine, FiniteSetTheorems, TLAPS

\* Most steps are first-order; those that need arithmetic or the types of
\* functions and records cite SMT.
USE Zenon

\* The part of the state that says where each message is.
places == <<idx, ready, delayed, inflight, receipts, held, dead, replaying>>

\* A step that moves no message keeps what is said of the places.
LEMMA PlacesFrame ==
  ASSUME EntriesCurrent, NothingLost, LeasedOnce, DeadOnce, UNCHANGED places
  PROVE  EntriesCurrent' /\ NothingLost' /\ LeasedOnce' /\ DeadOnce'
<1>1. EntriesCurrent'
  BY SMT DEF EntriesCurrent, Live, places
<1>2. NothingLost'
  BY DEF NothingLost, places
<1>3. LeasedOnce'
  BY DEF LeasedOnce, places
<1>4. DeadOnce'
  BY DEF DeadOnce, places
<1> QED
  BY <1>1, <1>2, <1>3, <1>4

\* A step that touches no slot of the page store keeps the ownership of slots.
LEMMA SlotsFrame ==
  ASSUME SlotsOwnedOnce, PayloadIntact, UNCHANGED <<alloc, content, idx, items>>,
         Releasing' = Releasing
  PROVE  SlotsOwnedOnce' /\ PayloadIntact'
<1>1. LivePays' = LivePays
  BY DEF LivePays
<1>2. Pending' = Pending
  BY DEF Pending
<1>3. SlotsOwnedOnce'
  BY <1>1, <1>2 DEF SlotsOwnedOnce
<1>4. PayloadIntact'
  BY <1>1, <1>2 DEF PayloadIntact
<1> QED
  BY <1>3, <1>4

LEMMA IdsFrame ==
  ASSUME IdsFresh, TypeOK, UNCHANGED <<idx, items>>, nextMsgID' \in Nat, nextMsgID <= nextMsgID'
  PROVE  IdsFresh'
BY SMT DEF IdsFresh, TypeOK

\* What a goroutine does leaves the others' local state alone.
LEMMA LocalFrame ==
  ASSUME LocalOK, NEW c \in Client, Local(c)', IsFiniteSet(dead'),
         \A d \in Client \ {c} :
           /\ op'[d] = op[d] /\ phase'[d] = phase[d] /\ held'[d] = held[d]
           /\ items'[d] = items[d] /\ replaying'[d] = replaying[d] /\ req'[d] = req[d],
         op'[Ticker] = op[Ticker], held'[Ticker] = held[Ticker]
  PROVE  LocalOK'
<1>1. ASSUME NEW d \in Client, d # c PROVE Local(d)'
  BY <1>1, SMT DEF LocalOK, Local, Size, Requests
<1> QED
  BY <1>1 DEF LocalOK


\* A step that moves no message and touches no slot: only the types and the
\* local state of the goroutines are left to show.
LEMMA ControlStep ==
  ASSUME EngineInv, TypeOK', LocalOK', UNCHANGED <<places, alloc, content, items>>,
         nextMsgID <= nextMsgID',
         \A c \in Client : At(c, "ack", "free")' <=> At(c, "ack", "free")
  PROVE  EngineInv'
<1>1. Releasing' = Releasing
  BY DEF Releasing, places
<1>2. SlotsOwnedOnce' /\ PayloadIntact'
  BY <1>1, SlotsFrame DEF EngineInv, places
<1>3. IdsFresh'
  BY IdsFrame DEF EngineInv, TypeOK, places
<1>4. EntriesCurrent' /\ NothingLost' /\ LeasedOnce' /\ DeadOnce'
  BY PlacesFrame DEF EngineInv
<1> QED
  BY <1>2, <1>3, <1>4 DEF EngineInv

\* The goroutine p moves to another point of its code.
LEMMA GotoTyped ==
  ASSUME TypeOK, NEW p \in Process, NEW o \in Ops, NEW ph \in Phases, Goto(p, o, ph)
  PROVE  /\ op' \in [Process -> Ops] /\ phase' \in [Process -> Phases]
         /\ op'[p] = o /\ phase'[p] = ph
         /\ \A q \in Process \ {p} : op'[q] = op[q] /\ phase'[q] = phase[q]
BY DEF TypeOK, Goto

LEMMA TockInv == EngineInv /\ Tock => EngineInv'
<1> SUFFICES ASSUME EngineInv, Tock PROVE EngineInv'
  OBVIOUS
<1> USE DEF Tock, store, wheels, counters, enqueueVars, leaseVars, tickVars, told, localVars
<1>1. TypeOK'
  BY SMT DEF EngineInv, TypeOK
<1>2. LocalOK'
  <2>1. \A c \in Client : Local(c)' <=> Local(c)
    BY DEF Local, Size, Requests
  <2> QED
    BY <2>1 DEF EngineInv, LocalOK
<1>3. nextMsgID <= nextMsgID'
  BY SMT DEF EngineInv, TypeOK
<1> QED
  BY <1>1, <1>2, <1>3, ControlStep DEF places, At

\* The committer answers: nobody is in the middle of freeing a slot then.
LEMMA SettleInv ==
  ASSUME EngineInv, NEW S \in SUBSET Process, NEW result \in {"ok", "err"}, Settle(S, result)
  PROVE  EngineInv'
<1> USE DEF Settle, queueVars, store, wheels, counters, enqueueVars, leaseVars, tickVars, told
<1>1. phase' \in [Process -> Phases]
  BY DEF EngineInv, TypeOK, Phases
<1>2. TypeOK'
  BY <1>1 DEF EngineInv, TypeOK
<1>3. \A c \in Client : 
        phase'[c] = phase[c] \/ (phase[c] = "commit" /\ phase'[c] \in {"ok", "err"})
  BY DEF Process
<1>4. ASSUME NEW c \in Client PROVE Local(c)'
  BY <1>3 DEF EngineInv, LocalOK, Local, Size, Requests
<1>5. LocalOK'
  BY <1>4 DEF EngineInv, LocalOK
<1>6. \A c \in Client : At(c, "ack", "free")' <=> At(c, "ack", "free")
  BY <1>3 DEF At
<1>7. nextMsgID <= nextMsgID'
  BY SMT DEF EngineInv, TypeOK
<1> QED
  BY <1>2, <1>5, <1>6, <1>7, ControlStep DEF places

----------------------------------------------------------------------------
\* Enqueue.

LEMMA EnqueueReserveInv ==
  ASSUME EngineInv, NEW c \in Client, NEW n \in BatchSizes, NEW delay \in Delays,
         EnqueueReserve(c, n, delay)
  PROVE  EngineInv'
<1> USE DEF EnqueueReserve, store, wheels, leaseVars, tickVars, told
<1>1. n \in Nat \ {0} /\ delay \in Nat
  BY EngineAssumption
<1>2. Cardinality(1..n) = n
  BY <1>1, FS_Interval, SMT
<1>3. /\ op' \in [Process -> Ops] /\ phase' \in [Process -> Phases]
      /\ op'[c] = "enqueue" /\ phase'[c] = "alloc"
      /\ \A q \in Process \ {c} : op'[q] = op[q] /\ phase'[q] = phase[q]
  BY GotoTyped DEF EngineInv, Process, Ops, Phases
<1>4. TypeOK'
  <2>1. \A i \in 1..n :
          [body |-> nextBody + i, delay |-> delay, avail |-> now + delay] \in Request
    BY <1>1, SMT DEF EngineInv, TypeOK, Request
  <2>2. DOMAIN req' = Client /\ \A d \in Client : req'[d] \in [DOMAIN req'[d] -> Request]
    BY <2>1 DEF EngineInv, TypeOK
  <2>3. reserved' \in Int /\ nextBody' \in Nat
    BY <1>1, SMT DEF EngineInv, TypeOK
  <2> QED
    BY <1>3, <2>2, <2>3 DEF EngineInv, TypeOK
<1>5. LocalOK'
  <2>1. Requests(c)' = 1..n
    BY DEF EngineInv, TypeOK, Requests
  <2>2. Local(c)'
    BY <1>1, <1>2, <1>3, <2>1 DEF EngineInv, LocalOK, Local, Size
  <2>3. \A d \in Client \ {c} : req'[d] = req[d]
    BY DEF EngineInv, TypeOK
  <2> QED
    BY <1>3, <2>2, <2>3, LocalFrame, EngineAssumption DEF EngineInv, LocalOK, Process
<1>6. \A d \in Client : At(d, "ack", "free")' <=> At(d, "ack", "free")
  BY <1>3 DEF At, Process
<1>7. nextMsgID <= nextMsgID'
  BY SMT DEF EngineInv, TypeOK
<1> QED
  BY <1>4, <1>5, <1>6, <1>7, ControlStep DEF places

LEMMA EnqueueAllocFailInv ==
  ASSUME EngineInv, NEW c \in Client, EnqueueAllocFail(c)
  PROVE  EngineInv'
<1> USE DEF EnqueueAllocFail, store, wheels, enqueueVars, leaseVars, tickVars, told
<1>1. Local(c) /\ op[c] \in {"enqueue", "replay"}
  BY DEF EngineInv, LocalOK, Local
<1>2. nextMsgID' \in Nat /\ nextMsgID <= nextMsgID'
  BY <1>1, SMT DEF EngineInv, TypeOK, Local
<1>3. /\ op' \in [Process -> Ops] /\ phase' \in [Process -> Phases]
      /\ op'[c] = op[c] /\ phase'[c] = "err"
      /\ \A q \in Process \ {c} : op'[q] = op[q] /\ phase'[q] = phase[q]
  BY <1>1, GotoTyped DEF EngineInv, Process, Ops, Phases
<1>4. TypeOK'
  BY <1>2, <1>3 DEF EngineInv, TypeOK
<1>5. Local(c)'
  BY <1>1, <1>3 DEF Local, Size, Requests
<1>6. LocalOK'
  BY <1>3, <1>5, LocalFrame, EngineAssumption DEF EngineInv, LocalOK, Process
<1> QED
  BY <1>1, <1>2, <1>3, <1>4, <1>6, ControlStep DEF EngineInv, places, At, Process

\* What Enqueue holds between the allocation and the commit is new: ids from
\* the counter, slots that were free, and its payloads in them.
LEMMA EnqueueAllocInv ==
  ASSUME EngineInv, NEW c \in Client, EnqueueAlloc(c)
  PROVE  EngineInv'
<1> USE DEF wheels, leaseVars, tickVars, told
<1> DEFINE R == Requests(c)
<1>0. /\ phase[c] = "alloc" /\ nextMsgID' = nextMsgID + Size(c) /\ Goto(c, op[c], "commit")
      /\ UNCHANGED <<now, idx, wheels, dead, reserved, nextNonce, nextBody, req,
                     replaying, leaseVars, tickVars, told>>
  BY DEF EnqueueAlloc
<1>1. /\ op[c] \in {"enqueue", "replay"} /\ items[c] = {}
      /\ Size(c) \in Nat /\ R = 1..Size(c)
  BY <1>0 DEF EngineInv, LocalOK, Local
<1>2. PICK it \in Allocations(c) :
        /\ items' = [items EXCEPT ![c] =
             {[id |-> nextMsgID + i, ref |-> it[i][1], pay |-> it[i][2],
               delay |-> req[c][i].delay, avail |-> req[c][i].avail,
               body |-> req[c][i].body] : i \in Requests(c)}]
        /\ alloc' = alloc \cup UNION {{it[i][1], it[i][2]} : i \in Requests(c)}
        /\ content' = [s \in PageSlot |->
             IF \E i \in Requests(c) : it[i][2] = s
             THEN req[c][CHOOSE i \in Requests(c) : it[i][2] = s].body
             ELSE content[s]]
  BY DEF EnqueueAlloc
<1> DEFINE item(i) == [id |-> nextMsgID + i, ref |-> it[i][1], pay |-> it[i][2],
                       delay |-> req[c][i].delay, avail |-> req[c][i].avail,
                       body |-> req[c][i].body]
           New == {item(i) : i \in R}
<1>3. \A i \in R : /\ it[i][1] \in PageSlot /\ it[i][2] \in PageSlot
                   /\ it[i][1] \notin alloc /\ it[i][2] \notin alloc /\ it[i][1] # it[i][2]
                   /\ \A j \in R \ {i} : {it[i][1], it[i][2]} \cap {it[j][1], it[j][2]} = {}
  BY <1>2 DEF Allocations
<1>4. \A i \in R : /\ req[c][i].body \in Nat /\ req[c][i].delay \in Nat
                   /\ req[c][i].avail \in Nat /\ i \in Nat \ {0} /\ i <= Size(c)
  BY <1>1, SMT DEF EngineInv, TypeOK, Requests, Request
<1>a. \A i \in R : /\ item(i).id = nextMsgID + i /\ item(i).ref = it[i][1]
                   /\ item(i).pay = it[i][2] /\ item(i).body = req[c][i].body
  OBVIOUS
<1>5. New \subseteq Item
  BY <1>3, <1>4, SMT DEF EngineInv, TypeOK, Item
<1> HIDE DEF item
<1>6. items'[c] = New /\ \A d \in Client \ {c} : items'[d] = items[d]
  BY <1>2 DEF EngineInv, TypeOK, item
<1>7. /\ op' \in [Process -> Ops] /\ phase' \in [Process -> Phases]
      /\ op'[c] = op[c] /\ phase'[c] = "commit"
      /\ \A q \in Process \ {c} : op'[q] = op[q] /\ phase'[q] = phase[q]
  BY <1>0, <1>1, GotoTyped DEF EngineInv, Process, Ops, Phases
<1>8. TypeOK'
  <2>1. items' \in [Client -> SUBSET Item]
    BY <1>2, <1>5 DEF EngineInv, TypeOK, item
  <2>2. alloc' \subseteq PageSlot
    BY <1>2, <1>3, SMT DEF EngineInv, TypeOK
  <2>3. content' \in [PageSlot -> Nat]
    BY <1>2, <1>4 DEF EngineInv, TypeOK
  <2>4. nextMsgID' \in Nat
    BY <1>0, <1>1, SMT DEF EngineInv, TypeOK
  <2> QED
    BY <1>0, <1>7, <2>1, <2>2, <2>3, <2>4 DEF EngineInv, TypeOK
<1>9. LocalOK'
  <2>1. Local(c)'
    BY <1>0, <1>1, <1>7 DEF EngineInv, LocalOK, Local, Size, Requests
  <2> QED
    BY <1>0, <1>6, <1>7, <2>1, LocalFrame, EngineAssumption DEF EngineInv, LocalOK, Process
<1>10. IdsFresh'
  <2>1. nextMsgID' = nextMsgID + Size(c) /\ nextMsgID \in Nat
    BY <1>0 DEF EngineInv, TypeOK
  <2>2. \A i \in R : nextMsgID + i \in 1..nextMsgID' /\ nextMsgID + i > nextMsgID
    BY <1>1, <1>4, <2>1, SMT
  <2>3. \A r \in DOMAIN idx' : idx'[r].id \in 1..nextMsgID /\ idx'[r].id \in 1..nextMsgID'
    BY <1>0, <1>1, <2>1, SMT DEF EngineInv, IdsFresh
  <2>4. \A d \in Client \ {c} : \A a \in items'[d] :
          a.id \in 1..nextMsgID /\ a.id \in 1..nextMsgID'
    BY <1>1, <1>6, <2>1, SMT DEF EngineInv, IdsFresh
  <2>5. \A a \in items'[c] : \E i \in R : a = item(i) /\ a.id = nextMsgID + i
    BY <1>6, <1>a
  <2>6. \A a \in items'[c] : a.id \in 1..nextMsgID' /\ a.id > nextMsgID
    BY <2>2, <2>5
  <2>7. \A a, b \in items'[c] : a.id = b.id => a = b
    BY <2>1, <2>5, <1>4, nextMsgID \in Nat, SMT
  <2>8. \A d \in Client \ {c} : \A a \in items'[d] : \A e \in Client \ {c} : \A b \in items'[e] :
          a.id = b.id => a = b /\ d = e
    BY <1>6 DEF EngineInv, IdsFresh
  <2>9. \A d \in Client \ {c} : \A a \in items'[d] : \A r \in DOMAIN idx' : idx'[r].id # a.id
    BY <1>0, <1>6 DEF EngineInv, IdsFresh
  <2> QED
    BY <1>0, <2>1, <2>3, <2>4, <2>6, <2>7, <2>8, <2>9, SMT DEF IdsFresh
<1>11. EntriesCurrent' /\ NothingLost' /\ LeasedOnce' /\ DeadOnce'
  BY <1>0, PlacesFrame DEF EngineInv, places, enqueueVars
<1>12. Releasing' = Releasing /\ LivePays' = LivePays
  BY <1>0, <1>7, SMT DEF Releasing, LivePays, At, Process
<1>13. Pending' = Pending \cup New
  BY <1>1, <1>6 DEF Pending
<1>14. SlotsOwnedOnce'
  <2>1. Refs(New) \cup Pays(New) = UNION {{it[i][1], it[i][2]} : i \in R}
    BY <1>a, SMT DEF Refs, Pays
  <2>0. Refs(Pending') = Refs(Pending) \cup Refs(New) /\ Pays(Pending') = Pays(Pending) \cup Pays(New)
    BY <1>13 DEF Refs, Pays
  <2>2. alloc' = DOMAIN idx' \cup LivePays' \cup Refs(Pending') \cup Pays(Pending')
    <3>1. alloc' = alloc \cup (Refs(New) \cup Pays(New))
      BY <1>2, <2>1
    <3>2. alloc = DOMAIN idx \cup LivePays \cup Refs(Pending) \cup Pays(Pending)
      BY DEF EngineInv, SlotsOwnedOnce
    <3> QED
      BY <1>0, <1>12, <2>0, <3>1, <3>2
  <2>3. \A a \in New : a.ref \notin alloc /\ a.pay \notin alloc /\ a.ref # a.pay
    BY <1>3, <1>a, SMT
  <2>4. \A a, b \in New : a # b => {a.ref, a.pay} \cap {b.ref, b.pay} = {}
    BY <1>3, <1>a, SMT
  <2>5. \A a \in Pending : a.ref \in alloc /\ a.pay \in alloc
    BY DEF EngineInv, SlotsOwnedOnce, Refs, Pays
  <2>6. DOMAIN idx \subseteq alloc /\ LivePays \subseteq alloc
    BY DEF EngineInv, SlotsOwnedOnce
  <2>7. \A a \in Pending' :
          /\ a.ref # a.pay
          /\ {a.ref, a.pay} \cap (DOMAIN idx' \cup LivePays') = {}
          /\ \A b \in Pending' \ {a} : {a.ref, a.pay} \cap {b.ref, b.pay} = {}
    BY <1>0, <1>12, <1>13, <2>3, <2>4, <2>5, <2>6, SMT DEF EngineInv, SlotsOwnedOnce
  <2> QED
    BY <1>0, <1>12, <2>2, <2>7 DEF EngineInv, SlotsOwnedOnce
<1>15. PayloadIntact'
  <2>1. \A s \in alloc : s \in PageSlot => content'[s] = content[s]
    BY <1>2, <1>3
  <2>2. \A r \in DOMAIN idx \ Releasing : idx[r].pay \in alloc /\ idx[r].pay \in PageSlot
    BY DEF EngineInv, SlotsOwnedOnce, LivePays, TypeOK, Slot
  <2>3. \A a \in Pending : a.pay \in alloc /\ a.pay \in PageSlot
    BY DEF EngineInv, SlotsOwnedOnce, Pending, Pays, TypeOK, Item
  <2>4. \A i, j \in R : it[i][2] = it[j][2] => i = j
    BY <1>3
  <2>5. \A i \in R : content'[it[i][2]] = req[c][i].body
    BY <1>2, <1>3, <2>4
  <2>6. \A a \in New : content'[a.pay] = a.body
    BY <2>5, <1>a, SMT
  <2> QED
    BY <1>0, <1>12, <1>13, <2>1, <2>2, <2>3, <2>6 DEF EngineInv, PayloadIntact
<1> QED
  BY <1>8, <1>9, <1>10, <1>11, <1>14, <1>15 DEF EngineInv

\* The end of an Enqueue: the goroutine holds no allocation any more.
LEMMA EnqueueReturnTyped ==
  ASSUME EngineInv, NEW c \in Client, op[c] \in {"enqueue", "replay"},
         NEW next \in {"putback", "free"}, EnqueueReturn(c, next),
         UNCHANGED <<held, replaying, dead>>
  PROVE  /\ op' \in [Process -> Ops] /\ phase' \in [Process -> Phases]
         /\ DOMAIN req' = Client /\ \A d \in Client : req'[d] \in [DOMAIN req'[d] -> Request]
         /\ items' = [items EXCEPT ![c] = {}] /\ items' \in [Client -> SUBSET Item]
         /\ \A d \in Client : At(d, "ack", "free")' <=> At(d, "ack", "free")
         /\ LocalOK'
<1>0. /\ items' = [items EXCEPT ![c] = {}] /\ req' = [req EXCEPT ![c] = << >>]
  BY DEF EnqueueReturn
<1>1. /\ op' \in [Process -> Ops] /\ phase' \in [Process -> Phases]
      /\ op'[c] \in {"none", "replay"} /\ (op[c] = "replay" => op'[c] = "replay")
      /\ phase'[c] \in {"idle", "putback", "free"}
      /\ \A q \in Process \ {c} : op'[q] = op[q] /\ phase'[q] = phase[q]
  <2>1. CASE op[c] = "replay"
    BY <2>1, GotoTyped DEF EnqueueReturn, EngineInv, Process, Ops, Phases
  <2>2. CASE op[c] # "replay"
    BY <2>2, GotoTyped DEF EnqueueReturn, EngineInv, Process, Ops, Phases
  <2> QED
    BY <2>1, <2>2
<1>2. DOMAIN req' = Client /\ \A d \in Client : req'[d] \in [DOMAIN req'[d] -> Request]
  BY <1>0, SMT DEF EngineInv, TypeOK
<1>3. items' \in [Client -> SUBSET Item]
  BY <1>0 DEF EngineInv, TypeOK
<1>4. \A d \in Client : At(d, "ack", "free")' <=> At(d, "ack", "free")
  BY <1>1 DEF At, Process
<1>5. Requests(c)' = {} /\ Size(c)' = 0 /\ items'[c] = {}
  BY <1>0, FS_EmptySet, SMT DEF EngineInv, TypeOK, Requests, Size
<1>6. Local(c)'
  BY <1>1, <1>5, SMT DEF EngineInv, LocalOK, Local
<1>7. \A d \in Client \ {c} : items'[d] = items[d] /\ req'[d] = req[d]
  BY <1>0 DEF EngineInv, TypeOK
<1>8. LocalOK'
  BY <1>1, <1>6, <1>7, LocalFrame, EngineAssumption DEF EngineInv, LocalOK, Process
<1> QED
  BY <1>0, <1>1, <1>2, <1>3, <1>4, <1>8

\* What one Enqueue call has pending belongs to no other.
LEMMA PendingApart ==
  ASSUME EngineInv, NEW c \in Client, items' = [items EXCEPT ![c] = {}]
  PROVE  Pending' = Pending \ items[c] /\ items[c] \subseteq Pending
<1>1. \A d \in Client \ {c} : items'[d] = items[d] /\ items[d] \cap items[c] = {}
  BY DEF EngineInv, IdsFresh, TypeOK
<1>2. items'[c] = {}
  BY DEF EngineInv, TypeOK
<1> QED
  BY <1>1, <1>2 DEF Pending

\* The ids of what is still pending are known fresh.
LEMMA IdsAfterReturn ==
  ASSUME EngineInv, NEW c \in Client, items' = [items EXCEPT ![c] = {}],
         nextMsgID' = nextMsgID,
         \A r \in DOMAIN idx' : \/ r \in DOMAIN idx /\ idx'[r].id = idx[r].id
                                \/ \E a \in items[c] : idx'[r].id = a.id
  PROVE  IdsFresh'
<1>1. \A d \in Client \ {c} : items'[d] = items[d]
  BY DEF EngineInv, TypeOK
<1>2. items'[c] = {}
  BY DEF EngineInv, TypeOK
<1> QED
  BY <1>1, <1>2, SMT DEF EngineInv, IdsFresh

LEMMA EnqueueUndoInv ==
  ASSUME EngineInv, NEW c \in Client, EnqueueUndo(c)
  PROVE  EngineInv'
<1> USE DEF wheels, counters, leaseVars, tickVars, told
<1>0. /\ op[c] \in {"enqueue", "replay"}
      /\ alloc' = alloc \ (Refs(items[c]) \cup Pays(items[c]))
      /\ idx' = Without(idx, Refs(items[c]))
      /\ reserved' = reserved - Size(c)
      /\ EnqueueReturn(c, "putback")
      /\ UNCHANGED <<now, content, wheels, dead, counters, replaying, leaseVars,
                     tickVars, told>>
  BY DEF EnqueueUndo
<1>1. /\ op' \in [Process -> Ops] /\ phase' \in [Process -> Phases]
      /\ DOMAIN req' = Client /\ \A d \in Client : req'[d] \in [DOMAIN req'[d] -> Request]
      /\ items' = [items EXCEPT ![c] = {}] /\ items' \in [Client -> SUBSET Item]
      /\ \A d \in Client : At(d, "ack", "free")' <=> At(d, "ack", "free")
      /\ LocalOK'
  BY <1>0, EnqueueReturnTyped
<1>2. Pending' = Pending \ items[c] /\ items[c] \subseteq Pending
  BY <1>1, PendingApart
<1>3. idx' = idx
  <2>1. DOMAIN idx \ Refs(items[c]) = DOMAIN idx
    BY <1>2 DEF EngineInv, SlotsOwnedOnce, Refs
  <2>2. idx = [r \in DOMAIN idx |-> idx[r]]
    BY DEF EngineInv, TypeOK
  <2> QED
    BY <1>0, <2>1, <2>2 DEF Without
<1>4. TypeOK'
  <2>1. alloc' \subseteq PageSlot /\ reserved' \in Int
    BY <1>0, SMT DEF EngineInv, TypeOK, LocalOK, Local
  <2> QED
    BY <1>0, <1>1, <1>3, <2>1 DEF EngineInv, TypeOK
<1>5. IdsFresh'
  BY <1>0, <1>1, <1>3, IdsAfterReturn
<1>6. EntriesCurrent' /\ NothingLost' /\ LeasedOnce' /\ DeadOnce'
  BY <1>0, <1>3, PlacesFrame DEF EngineInv, places
<1>7. Releasing' = Releasing /\ LivePays' = LivePays
  BY <1>0, <1>1, <1>3 DEF Releasing, LivePays
<1>8. SlotsOwnedOnce'
  <2>1. \A a \in items[c] : \A b \in Pending' : {a.ref, a.pay} \cap {b.ref, b.pay} = {}
    BY <1>2 DEF EngineInv, SlotsOwnedOnce
  <2>2. \A a \in items[c] : {a.ref, a.pay} \cap (DOMAIN idx \cup LivePays) = {}
    BY <1>2 DEF EngineInv, SlotsOwnedOnce
  <2>4. alloc' = DOMAIN idx \cup LivePays \cup Refs(Pending') \cup Pays(Pending')
    <3>1. \A s \in alloc' : s \in DOMAIN idx \cup LivePays \cup Refs(Pending') \cup Pays(Pending')
      BY <1>0, <1>2 DEF EngineInv, SlotsOwnedOnce, Refs, Pays
    <3>2. \A s \in DOMAIN idx \cup LivePays \cup Refs(Pending') \cup Pays(Pending') : s \in alloc
      BY <1>2 DEF EngineInv, SlotsOwnedOnce, Refs, Pays
    <3>3. \A s \in DOMAIN idx \cup LivePays \cup Refs(Pending') \cup Pays(Pending') :
            s \notin Refs(items[c]) \cup Pays(items[c])
      BY <2>1, <2>2 DEF Refs, Pays
    <3> QED
      BY <1>0, <3>1, <3>2, <3>3
  <2> QED
    BY <1>2, <1>3, <1>7, <2>4 DEF EngineInv, SlotsOwnedOnce
<1>9. PayloadIntact'
  BY <1>0, <1>2, <1>3, <1>7 DEF EngineInv, PayloadIntact
<1> QED
  BY <1>1, <1>4, <1>5, <1>6, <1>8, <1>9 DEF EngineInv

\* The lists of leases and of dead letters stay as they are.
LEMMA LeasesFrame ==
  ASSUME LeasedOnce, UNCHANGED <<inflight, receipts, held>>
  PROVE  LeasedOnce'
BY DEF LeasedOnce

LEMMA DeadFrame ==
  ASSUME DeadOnce, UNCHANGED <<dead, replaying>>
  PROVE  DeadOnce'
BY DEF DeadOnce

LEMMA HeldFewer ==
  ASSUME LeasedOnce, UNCHANGED <<inflight, receipts>>,
         \A p \in Process : \A h \in held'[p] : h \in held[p]
  PROVE  LeasedOnce'
<1>1. /\ inflight' = {[id |-> i.id, ref |-> i.ref, deadline |-> i.until,
                       nonce |-> i.nonce] : i \in receipts'}
      /\ \A i, j \in receipts' : i.id = j.id => i = j
  BY DEF LeasedOnce
<1>2. ASSUME NEW p \in Process, NEW h \in held'[p]
      PROVE  /\ \A i \in receipts' : i.id # h.id
             /\ \A q \in Process : \A k \in held'[q] : k.id = h.id => k = h /\ q = p
  <2>1. /\ \A i \in receipts : i.id # h.id
        /\ \A q \in Process : \A k \in held[q] : k.id = h.id => k = h /\ q = p
    BY DEF LeasedOnce
  <2> QED
    BY <2>1
<1> QED
  BY <1>1, <1>2 DEF LeasedOnce

\* What is said of an entry stays true while its slot does not change.
Kept(r) == r \in DOMAIN idx' /\ idx'[r] = idx[r]

LEMMA EntriesKept ==
  ASSUME EngineInv
  PROVE  /\ \A e \in ready : Kept(e.ref) => Live(e.ref, e.id, READY)'
         /\ \A e \in delayed : Kept(e.ref) =>
              Live(e.ref, e.id, DELAYED)' /\ idx'[e.ref].avail = e.deadline
         /\ \A i \in receipts : Kept(i.ref) =>
              /\ Live(i.ref, i.id, INFLIGHT)'
              /\ idx'[i.ref].nonce = i.nonce /\ idx'[i.ref].attempts = i.attempt
              /\ idx'[i.ref].until = i.until
         /\ \A p \in Process : \A h \in held[p] : Kept(h.ref) =>
              /\ Live(h.ref, h.id, INFLIGHT)' /\ idx'[h.ref] = h.slot
              /\ h.slot.nonce = h.nonce /\ h.slot.attempts = h.attempt
              /\ h.slot.until = h.until
         /\ \A m \in dead \cup UNION {replaying[c] : c \in Client} : Kept(m.ref) =>
              Live(m.ref, m.id, DEAD)' /\ idx'[m.ref].pay = m.pay /\ idx'[m.ref].body = m.body
<1>1. EntriesCurrent
  BY DEF EngineInv
<1>2. \A e \in ready : Kept(e.ref) => Live(e.ref, e.id, READY)'
  BY <1>1 DEF EntriesCurrent, Live, Kept
<1>3. \A e \in delayed : Kept(e.ref) =>
        Live(e.ref, e.id, DELAYED)' /\ idx'[e.ref].avail = e.deadline
  BY <1>1 DEF EntriesCurrent, Live, Kept
<1>4. \A i \in receipts : Kept(i.ref) =>
        /\ Live(i.ref, i.id, INFLIGHT)'
        /\ idx'[i.ref].nonce = i.nonce /\ idx'[i.ref].attempts = i.attempt
        /\ idx'[i.ref].until = i.until
  BY <1>1 DEF EntriesCurrent, Live, Kept
<1>5. \A p \in Process : \A h \in held[p] : Kept(h.ref) =>
        /\ Live(h.ref, h.id, INFLIGHT)' /\ idx'[h.ref] = h.slot
        /\ h.slot.nonce = h.nonce /\ h.slot.attempts = h.attempt
        /\ h.slot.until = h.until
  BY <1>1, SMT DEF EntriesCurrent, Live, Kept
<1>6. \A m \in dead \cup UNION {replaying[c] : c \in Client} : Kept(m.ref) =>
        Live(m.ref, m.id, DEAD)' /\ idx'[m.ref].pay = m.pay /\ idx'[m.ref].body = m.body
  BY <1>1, SMT DEF EntriesCurrent, Live, Kept
<1> QED
  BY <1>2, <1>3, <1>4, <1>5, <1>6

\* The states of the slots that entries refer to.
LEMMA EntryStates ==
  ASSUME EngineInv
  PROVE  /\ \A e \in ready : /\ e.ref \in DOMAIN idx /\ idx[e.ref].id = e.id
                             /\ idx[e.ref].state = READY
         /\ \A e \in delayed : /\ e.ref \in DOMAIN idx /\ idx[e.ref].id = e.id
                               /\ idx[e.ref].state = DELAYED
         /\ \A i \in receipts : /\ i.ref \in DOMAIN idx /\ idx[i.ref].id = i.id
                                /\ idx[i.ref].state = INFLIGHT
         /\ \A p \in Process : \A h \in held[p] :
              /\ h.ref \in DOMAIN idx /\ idx[h.ref].id = h.id
              /\ idx[h.ref].state = INFLIGHT /\ idx[h.ref] = h.slot
         /\ \A m \in dead \cup UNION {replaying[c] : c \in Client} :
              /\ m.ref \in DOMAIN idx /\ idx[m.ref].id = m.id
              /\ idx[m.ref].state = DEAD
BY DEF EngineInv, EntriesCurrent, Live

LEMMA ReceiptStates ==
  ASSUME EngineInv
  PROVE  \A i \in receipts : /\ i \in Receipt /\ i.ref \in DOMAIN idx /\ idx[i.ref].id = i.id
                             /\ idx[i.ref].state = INFLIGHT
<1>1. receipts \subseteq Receipt
  BY DEF EngineInv, TypeOK
<1> QED
  BY <1>1, EntryStates

LEMMA HeldStates ==
  ASSUME EngineInv
  PROVE  \A p \in Process : \A h \in held[p] :
           /\ h \in Held /\ h.ref \in DOMAIN idx /\ idx[h.ref].id = h.id
           /\ idx[h.ref].state = INFLIGHT /\ idx[h.ref] = h.slot
<1>1. held \in [Process -> SUBSET Held]
  BY DEF EngineInv, TypeOK
<1> QED
  BY <1>1, EntryStates

\* So what is said of the leases on record, of those taken aside, and of the
\* dead letters stays true while their slots do not change.
LEMMA ReceiptsCurrent ==
  ASSUME EngineInv, \A i \in receipts' : i \in receipts /\ Kept(i.ref)
  PROVE  \A i \in receipts' :
           /\ Live(i.ref, i.id, INFLIGHT)'
           /\ idx'[i.ref].nonce = i.nonce /\ idx'[i.ref].attempts = i.attempt
           /\ idx'[i.ref].until = i.until
BY EntriesKept

LEMMA HeldCurrent ==
  ASSUME EngineInv, \A p \in Process : \A h \in held'[p] : h \in held[p] /\ Kept(h.ref)
  PROVE  \A p \in Process : \A h \in held'[p] :
           /\ Live(h.ref, h.id, INFLIGHT)' /\ idx'[h.ref] = h.slot
           /\ h.slot.nonce = h.nonce /\ h.slot.attempts = h.attempt
           /\ h.slot.until = h.until
BY EntriesKept

LEMMA DeadCurrent ==
  ASSUME EngineInv, UNCHANGED <<dead, replaying>>,
         \A r \in DOMAIN idx : idx[r].state = DEAD => Kept(r)
  PROVE  \A m \in dead' \cup UNION {replaying'[c] : c \in Client} :
           Live(m.ref, m.id, DEAD)' /\ idx'[m.ref].pay = m.pay /\ idx'[m.ref].body = m.body
<1>1. \A m \in dead \cup UNION {replaying[c] : c \in Client} : Kept(m.ref)
  BY EntryStates
<1>2. \A m \in dead \cup UNION {replaying[c] : c \in Client} :
        Live(m.ref, m.id, DEAD)' /\ idx'[m.ref].pay = m.pay /\ idx'[m.ref].body = m.body
  BY <1>1, EntriesKept
<1>3. dead' \cup UNION {replaying'[c] : c \in Client} = dead \cup UNION {replaying[c] : c \in Client}
  OBVIOUS
<1> QED
  BY <1>2, <1>3

\* Where a message can be found.
Reached(r) ==
  \/ \E e \in ready : e.ref = r
  \/ \E e \in delayed : e.ref = r
  \/ \E i \in receipts : i.ref = r
  \/ \E p \in Process : \E h \in held[p] : h.ref = r
  \/ \E m \in dead : m.ref = r
  \/ \E d \in Client : \E m \in replaying[d] : m.ref = r

LEMMA AllReached ==
  ASSUME EngineInv
  PROVE  \A r \in DOMAIN idx : Reached(r)
BY DEF EngineInv, NothingLost, Reached

\* Publishing moves what was pending into the index, slots and payloads with it.
LEMMA EnqueueApplyInv ==
  ASSUME EngineInv, NEW c \in Client, EnqueueApply(c)
  PROVE  EngineInv'
<1> USE DEF store, counters, leaseVars, tickVars, told
<1> DEFINE I == items[c]
<1>0. /\ op[c] \in {"enqueue", "replay"}
      /\ idx' = Published(c)
      /\ ready' = ready \cup {[id |-> it.id, ref |-> it.ref] : it \in {x \in I : x.delay = 0}}
      /\ delayed' = delayed \cup {[id |-> it.id, ref |-> it.ref, deadline |-> it.avail] :
                                    it \in {x \in I : x.delay > 0}}
      /\ reserved' = reserved - Size(c)
      /\ EnqueueReturn(c, "free")
      /\ UNCHANGED <<now, store, inflight, receipts, dead, counters, replaying,
                     leaseVars, tickVars, told>>
  BY DEF EnqueueApply
<1>1. /\ op' \in [Process -> Ops] /\ phase' \in [Process -> Phases]
      /\ DOMAIN req' = Client /\ \A d \in Client : req'[d] \in [DOMAIN req'[d] -> Request]
      /\ items' = [items EXCEPT ![c] = {}] /\ items' \in [Client -> SUBSET Item]
      /\ \A d \in Client : At(d, "ack", "free")' <=> At(d, "ack", "free")
      /\ LocalOK'
  BY <1>0, EnqueueReturnTyped
<1>2. Pending' = Pending \ I /\ I \subseteq Pending
  BY <1>1, PendingApart
<1>3. \A a \in I : /\ a \in Item /\ a.ref \notin DOMAIN idx /\ a.pay \notin DOMAIN idx
                   /\ \A b \in I : a.ref = b.ref => a = b
  BY <1>2 DEF EngineInv, SlotsOwnedOnce, TypeOK
<1>4. \A a \in I : /\ a.id \in Nat /\ a.ref \in PageSlot /\ a.pay \in PageSlot
                   /\ a.avail \in Nat /\ a.delay \in Nat /\ a.body \in Nat
  BY <1>3 DEF Item
<1>5. /\ DOMAIN idx' = DOMAIN idx \cup Refs(I)
      /\ \A r \in DOMAIN idx : idx'[r] = idx[r]
  BY <1>0, <1>3 DEF Published, Refs
<1>6. \A a \in I : a.ref \in DOMAIN idx' /\ idx'[a.ref] = ItemSlot(a)
  <2> SUFFICES ASSUME NEW a \in I PROVE a.ref \in DOMAIN idx' /\ idx'[a.ref] = ItemSlot(a)
    OBVIOUS
  <2>1. a.ref \in Refs(I)
    BY DEF Refs
  <2>2. (CHOOSE it \in I : it.ref = a.ref) = a
    BY <1>3
  <2> QED
    BY <1>0, <1>5, <2>1, <2>2 DEF Published
<1>7. \A a \in I : /\ ItemSlot(a) \in Slot /\ ItemSlot(a).id = a.id
                   /\ ItemSlot(a).pay = a.pay /\ ItemSlot(a).body = a.body
                   /\ ItemSlot(a).avail = a.avail
                   /\ a.delay = 0 => ItemSlot(a).state = READY
                   /\ a.delay > 0 => ItemSlot(a).state = DELAYED
  BY <1>4, SMT DEF ItemSlot, Slot
<1>8. \A r \in DOMAIN idx' : r \in DOMAIN idx \/ \E a \in I : r = a.ref
  BY <1>5 DEF Refs
<1>9. TypeOK'
  <2>1. DOMAIN idx' \subseteq PageSlot
    <3>1. DOMAIN idx \subseteq PageSlot
      BY DEF EngineInv, TypeOK
    <3>2. \A a \in I : a.ref \in PageSlot
      BY <1>4
    <3> QED
      BY <1>8, <3>1, <3>2
  <2>2. \A r \in DOMAIN idx' : idx'[r] \in Slot
    BY <1>5, <1>6, <1>7, <1>8, SMT DEF EngineInv, TypeOK
  <2>3. idx' \in [DOMAIN idx' -> Slot]
    BY <1>0, <2>2 DEF Published
  <2>4. ready' \subseteq [id : Nat, ref : PageSlot]
    BY <1>0, <1>4, SMT DEF EngineInv, TypeOK
  <2>5. delayed' \subseteq [id : Nat, ref : PageSlot, deadline : Nat]
    BY <1>0, <1>4, SMT DEF EngineInv, TypeOK
  <2>6. reserved' \in Int
    BY <1>0, SMT DEF EngineInv, TypeOK, LocalOK, Local
  <2> QED
    BY <1>0, <1>1, <2>1, <2>3, <2>4, <2>5, <2>6 DEF EngineInv, TypeOK
<1>10. IdsFresh'
  <2>1. \A r \in DOMAIN idx' : \/ r \in DOMAIN idx /\ idx'[r].id = idx[r].id
                               \/ \E a \in items[c] : idx'[r].id = a.id
    BY <1>5, <1>6, <1>7, <1>8, SMT
  <2> QED
    BY <1>0, <1>1, <2>1, IdsAfterReturn
<1>11. EntriesCurrent'
  <2>0. \A r, id, st : Live(r, id, st) => Live(r, id, st)' /\ idx'[r] = idx[r]
    BY <1>5 DEF Live
  <2>1. \A e \in ready' : Live(e.ref, e.id, READY)'
    <3>1. \A e \in ready : Live(e.ref, e.id, READY)'
      BY <2>0 DEF EngineInv, EntriesCurrent
    <3>2. \A e \in ready' : e \in ready \/ \E a \in I : a.delay = 0 /\ e.ref = a.ref /\ e.id = a.id
      BY <1>0, SMT
    <3> QED
      BY <1>6, <1>7, <3>1, <3>2, SMT DEF Live
  <2>2. \A e \in delayed' : Live(e.ref, e.id, DELAYED)' /\ idx'[e.ref].avail = e.deadline
    <3>1. \A e \in delayed : Live(e.ref, e.id, DELAYED)' /\ idx'[e.ref].avail = e.deadline
      BY <2>0 DEF EngineInv, EntriesCurrent
    <3>2. \A e \in delayed' : \/ e \in delayed 
                              \/ \E a \in I : /\ a.delay > 0 /\ e.ref = a.ref /\ e.id = a.id
                                              /\ e.deadline = a.avail
      BY <1>0, SMT
    <3> QED
      BY <1>6, <1>7, <3>1, <3>2, SMT DEF Live
  <2>7. \A r \in DOMAIN idx : Kept(r)
    BY <1>5 DEF Kept
  <2>3. \A i \in receipts' :
          /\ Live(i.ref, i.id, INFLIGHT)'
          /\ idx'[i.ref].nonce = i.nonce /\ idx'[i.ref].attempts = i.attempt
          /\ idx'[i.ref].until = i.until
    BY <1>0, <2>7, ReceiptStates, ReceiptsCurrent
  <2>4. \A p \in Process : \A h \in held'[p] :
          /\ Live(h.ref, h.id, INFLIGHT)' /\ idx'[h.ref] = h.slot
          /\ h.slot.nonce = h.nonce /\ h.slot.attempts = h.attempt
          /\ h.slot.until = h.until
    BY <1>0, <2>7, HeldStates, HeldCurrent
  <2>5. \A m \in dead' \cup UNION {replaying'[d] : d \in Client} :
          Live(m.ref, m.id, DEAD)' /\ idx'[m.ref].pay = m.pay /\ idx'[m.ref].body = m.body
    BY <1>0, <2>7, DeadCurrent
  <2> QED
    BY <2>1, <2>2, <2>3, <2>4, <2>5 DEF EntriesCurrent
<1>12. NothingLost'
  <2>1. \A a \in I : (\E e \in ready' : e.ref = a.ref) \/ (\E e \in delayed' : e.ref = a.ref)
    <3> SUFFICES ASSUME NEW a \in I
                 PROVE  (\E e \in ready' : e.ref = a.ref) \/ (\E e \in delayed' : e.ref = a.ref)
      OBVIOUS
    <3>1. CASE a.delay = 0
      <4>1. [id |-> a.id, ref |-> a.ref] \in ready'
        BY <1>0, <3>1
      <4> QED
        BY <4>1
    <3>2. CASE a.delay > 0
      <4>1. [id |-> a.id, ref |-> a.ref, deadline |-> a.avail] \in delayed'
        BY <1>0, <3>2
      <4> QED
        BY <4>1
    <3> QED
      BY <1>4, <3>1, <3>2, SMT
  <2>2. ready \subseteq ready' /\ delayed \subseteq delayed'
    BY <1>0
  <2>3. \A r, s \in DOMAIN idx' : idx'[r].id = idx'[s].id => r = s
    <3>1. \A a \in I : \A r \in DOMAIN idx : idx[r].id # a.id
      BY DEF EngineInv, IdsFresh
    <3>2. \A a, b \in I : a.id = b.id => a = b
      BY DEF EngineInv, IdsFresh
    <3>3. \A r, s \in DOMAIN idx : idx[r].id = idx[s].id => r = s
      BY DEF EngineInv, NothingLost
    <3> QED
      BY <1>5, <1>6, <1>7, <1>8, <3>1, <3>2, <3>3, SMT
  <2> QED
    BY <1>0, <1>8, <2>1, <2>2, <2>3, SMT DEF EngineInv, NothingLost
<1>13. LeasedOnce' /\ DeadOnce'
  BY <1>0, LeasesFrame, DeadFrame DEF EngineInv
<1>14. Releasing' = Releasing /\ Releasing \subseteq DOMAIN idx
  <2>1. \A d \in Client : \A h \in held[d] : h.ref \in DOMAIN idx
    BY HeldStates DEF Process
  <2>2. Releasing \subseteq DOMAIN idx
    BY DEF Releasing
  <2>3. \A d \in Client : At(d, "ack", "free")' <=> At(d, "ack", "free")
    BY <1>1
  <2>4. held' = held /\ DOMAIN idx \subseteq DOMAIN idx'
    BY <1>0, <1>5
  <2>5. \A r : r \in Releasing' <=> r \in Releasing
    BY <2>1, <2>3, <2>4 DEF Releasing
  <2> QED
    BY <2>2, <2>5
<1>15. LivePays' = LivePays \cup Pays(I)
  <2>1. DOMAIN idx' \ Releasing' = (DOMAIN idx \ Releasing) \cup Refs(I)
    <3>1. \A r \in Refs(I) : r \notin DOMAIN idx
      BY <1>3 DEF Refs
    <3> QED
      BY <1>5, <1>14, <3>1
  <2>2. \A p : p \in LivePays' <=> \E r \in (DOMAIN idx \ Releasing) \cup Refs(I) : p = idx'[r].pay
    BY <2>1 DEF LivePays
  <2>3. \A p : (\E r \in DOMAIN idx \ Releasing : p = idx'[r].pay) <=> p \in LivePays
    BY <1>5 DEF LivePays
  <2>4. \A p : (\E r \in Refs(I) : p = idx'[r].pay) <=> p \in Pays(I)
    BY <1>6, <1>7, SMT DEF Refs, Pays
  <2> QED
    BY <2>2, <2>3, <2>4
<1>16. SlotsOwnedOnce'
  <2>1. \A a \in I : \A b \in Pending' : {a.ref, a.pay} \cap {b.ref, b.pay} = {}
    BY <1>2 DEF EngineInv, SlotsOwnedOnce
  <2>2. \A a \in I : a.ref # a.pay /\ {a.ref, a.pay} \cap (DOMAIN idx \cup LivePays) = {}
    BY <1>2 DEF EngineInv, SlotsOwnedOnce
  <2>3. \A a, b \in I : a # b => {a.ref, a.pay} \cap {b.ref, b.pay} = {}
    BY <1>2 DEF EngineInv, SlotsOwnedOnce
  <2>4. /\ Refs(Pending) = Refs(Pending') \cup Refs(I)
        /\ Pays(Pending) = Pays(Pending') \cup Pays(I)
    BY <1>2 DEF Refs, Pays
  <2>5. alloc' = DOMAIN idx' \cup LivePays' \cup Refs(Pending') \cup Pays(Pending')
    BY <1>0, <1>5, <1>15, <2>4 DEF EngineInv, SlotsOwnedOnce
  <2>6. DOMAIN idx' \cap LivePays' = {}
    <3>1. DOMAIN idx \cap LivePays = {}
      BY DEF EngineInv, SlotsOwnedOnce
    <3> QED
      BY <1>5, <1>15, <2>2, <2>3, <3>1 DEF Refs, Pays
  <2>7. \A r, s \in DOMAIN idx' \ Releasing' : idx'[r].pay = idx'[s].pay => r = s
    <3>1. \A r, s \in DOMAIN idx \ Releasing : idx[r].pay = idx[s].pay => r = s
      BY DEF EngineInv, SlotsOwnedOnce
    <3>2. \A r \in DOMAIN idx \ Releasing : idx[r].pay \in LivePays
      BY DEF LivePays
    <3>3. \A r \in DOMAIN idx' \ Releasing' :
            \/ r \in DOMAIN idx \ Releasing /\ idx'[r].pay = idx[r].pay
            \/ \E a \in I : r = a.ref /\ idx'[r].pay = a.pay
      BY <1>5, <1>6, <1>7, <1>8, <1>14, SMT
    <3>4. \A r \in DOMAIN idx \ Releasing : \A a \in I : idx[r].pay # a.pay
      BY <2>2, <3>2
    <3>5. \A a, b \in I : a.pay = b.pay => a.ref = b.ref
      BY <2>3
    <3> QED
      BY <3>1, <3>3, <3>4, <3>5, SMT
  <2>8. \A a \in Pending' :
          /\ a.ref # a.pay
          /\ {a.ref, a.pay} \cap (DOMAIN idx' \cup LivePays') = {}
          /\ \A b \in Pending' \ {a} : {a.ref, a.pay} \cap {b.ref, b.pay} = {}
    <3>1. \A a \in Pending' :
            /\ a.ref # a.pay
            /\ {a.ref, a.pay} \cap (DOMAIN idx \cup LivePays) = {}
            /\ \A b \in Pending' \ {a} : {a.ref, a.pay} \cap {b.ref, b.pay} = {}
      BY <1>2 DEF EngineInv, SlotsOwnedOnce
    <3>2. \A a \in Pending' : {a.ref, a.pay} \cap (Refs(I) \cup Pays(I)) = {}
      BY <2>1 DEF Refs, Pays
    <3> QED
      BY <1>5, <1>15, <3>1, <3>2
  <2> QED
    BY <2>5, <2>6, <2>7, <2>8 DEF SlotsOwnedOnce
<1>17. PayloadIntact'
  <2>1. \A a \in I : content[a.pay] = a.body
    BY <1>2 DEF EngineInv, PayloadIntact
  <2>2. \A r \in DOMAIN idx' \ Releasing' : content'[idx'[r].pay] = idx'[r].body
    <3>1. ASSUME NEW r \in DOMAIN idx \ Releasing
          PROVE  content[idx'[r].pay] = idx'[r].body
      BY <1>5 DEF EngineInv, PayloadIntact
    <3>2. ASSUME NEW a \in I
          PROVE  content[idx'[a.ref].pay] = idx'[a.ref].body
      <4>1. idx'[a.ref].pay = a.pay /\ idx'[a.ref].body = a.body
        BY <1>6, <1>7
      <4> QED
        BY <2>1, <4>1
    <3>3. content' = content /\ Releasing' = Releasing
      BY <1>0, <1>14
    <3> QED
      BY <1>8, <3>1, <3>2, <3>3
  <2> QED
    BY <1>0, <1>2, <2>2 DEF EngineInv, PayloadIntact
<1> QED
  BY <1>1, <1>9, <1>10, <1>11, <1>12, <1>13, <1>16, <1>17 DEF EngineInv

----------------------------------------------------------------------------
\* Lease.

\* A step that changes no id, payload slot or body keeps the ownership of ids
\* and of slots.
LEMMA SlotsKept ==
  ASSUME EngineInv, UNCHANGED <<alloc, content, items, nextMsgID>>,
         DOMAIN idx' = DOMAIN idx,
         \A r \in DOMAIN idx :
           idx'[r].id = idx[r].id /\ idx'[r].pay = idx[r].pay /\ idx'[r].body = idx[r].body,
         \A c \in Client : /\ At(c, "ack", "free")' <=> At(c, "ack", "free")
                           /\ At(c, "ack", "free") => held'[c] = held[c]
  PROVE  /\ IdsFresh' /\ SlotsOwnedOnce' /\ PayloadIntact'
         /\ \A r, s \in DOMAIN idx' : idx'[r].id = idx'[s].id => r = s
<1>1. Releasing' = Releasing
  BY DEF Releasing
<1>2. LivePays' = LivePays
  BY <1>1 DEF LivePays
<1>3. Pending' = Pending
  BY DEF Pending
<1>4. SlotsOwnedOnce'
  BY <1>1, <1>2, <1>3 DEF EngineInv, SlotsOwnedOnce
<1>5. PayloadIntact'
  BY <1>1, <1>3 DEF EngineInv, PayloadIntact
<1>6. IdsFresh'
  BY SMT DEF EngineInv, IdsFresh
<1> QED
  BY <1>4, <1>5, <1>6 DEF EngineInv, NothingLost

\* Promotion finds a live slot for whatever is due, and only makes it READY.
LEMMA Promotion ==
  ASSUME EngineInv
  PROVE  /\ PromotedIdx \in [DOMAIN idx -> Slot] /\ DOMAIN PromotedIdx = DOMAIN idx
         /\ \A r \in DOMAIN idx :
              /\ PromotedIdx[r].id = idx[r].id /\ PromotedIdx[r].pay = idx[r].pay
              /\ PromotedIdx[r].body = idx[r].body
              /\ PromotedIdx[r].attempts = idx[r].attempts
              /\ PromotedIdx[r].until = idx[r].until /\ PromotedIdx[r].nonce = idx[r].nonce
              /\ PromotedIdx[r].avail = idx[r].avail
              /\ idx[r].id # 0
         /\ \A r \in DOMAIN idx : idx[r].state # DELAYED => PromotedIdx[r] = idx[r]
         /\ \A r \in DOMAIN idx : PromotedIdx[r].state = DELAYED => PromotedIdx[r] = idx[r]
         /\ \A e \in delayed \ Due : PromotedIdx[e.ref] = idx[e.ref]
         /\ PromotedReady = ready \cup {[id |-> e.id, ref |-> e.ref] : e \in Due}
         /\ PromotedReady \subseteq [id : Nat, ref : PageSlot]
         /\ \A e \in PromotedReady :
              /\ e.ref \in DOMAIN idx /\ idx[e.ref].id = e.id
              /\ PromotedIdx[e.ref].state = READY
         /\ \A r \in DOMAIN idx : (\E e \in ready : e.ref = r) \/ (\E e \in Due : e.ref = r) =>
              \E e \in PromotedReady : e.ref = r
<1>1. \A e \in delayed : e.ref \in DOMAIN idx /\ idx[e.ref].id = e.id /\ idx[e.ref].state = DELAYED
                         /\ idx[e.ref].avail = e.deadline
  BY DEF EngineInv, EntriesCurrent, Live
<1>2. \A r \in DOMAIN idx : idx[r] \in Slot /\ idx[r].id \in Nat \ {0}
  BY SMT DEF EngineInv, TypeOK, IdsFresh
<1>3. Promoted = Due
  BY <1>1, <1>2 DEF Promoted, Due, GetByRef
<1>4. \A r \in DOMAIN idx : [idx[r] EXCEPT !.state = READY] \in Slot
  BY <1>2 DEF Slot
<1>5. PromotedIdx \in [DOMAIN idx -> Slot] /\ DOMAIN PromotedIdx = DOMAIN idx
  BY <1>2, <1>4 DEF PromotedIdx
<1>6. \A r \in DOMAIN idx :
        /\ r \in Refs(Due) => PromotedIdx[r] = [idx[r] EXCEPT !.state = READY]
        /\ r \notin Refs(Due) => PromotedIdx[r] = idx[r]
  BY <1>3 DEF PromotedIdx
<1>7. \A r \in Refs(Due) : r \in DOMAIN idx /\ idx[r].state = DELAYED
  BY <1>1 DEF Refs, Due
<1>8. \A r \in DOMAIN idx :
        /\ PromotedIdx[r].id = idx[r].id /\ PromotedIdx[r].pay = idx[r].pay
        /\ PromotedIdx[r].body = idx[r].body
        /\ PromotedIdx[r].attempts = idx[r].attempts
        /\ PromotedIdx[r].until = idx[r].until /\ PromotedIdx[r].nonce = idx[r].nonce
        /\ PromotedIdx[r].avail = idx[r].avail
        /\ r \in Refs(Due) => PromotedIdx[r].state = READY
        /\ idx[r].id # 0
  <2> SUFFICES ASSUME NEW r \in DOMAIN idx, NEW t, t = PromotedIdx[r]
               PROVE  /\ t.id = idx[r].id /\ t.pay = idx[r].pay /\ t.body = idx[r].body
                      /\ t.attempts = idx[r].attempts /\ t.until = idx[r].until
                      /\ t.nonce = idx[r].nonce /\ t.avail = idx[r].avail
                      /\ r \in Refs(Due) => t.state = READY
                      /\ idx[r].id # 0
    OBVIOUS
  <2>1. idx[r] \in Slot /\ idx[r].id # 0
    BY <1>2
  <2>2. CASE r \in Refs(Due)
    <3>1. t = [idx[r] EXCEPT !.state = READY]
      BY <1>6, <2>2
    <3> QED
      BY <2>1, <3>1 DEF Slot
  <2>3. CASE r \notin Refs(Due)
    BY <1>6, <2>1, <2>3
  <2> QED
    BY <2>2, <2>3
<1>9. \A r \in DOMAIN idx : idx[r].state # DELAYED => PromotedIdx[r] = idx[r]
  BY <1>6, <1>7
<1>10. \A r \in DOMAIN idx : PromotedIdx[r].state = DELAYED => PromotedIdx[r] = idx[r]
  BY <1>6, <1>8 DEF READY, DELAYED
<1>11. \A e \in delayed \ Due : PromotedIdx[e.ref] = idx[e.ref]
  <2> SUFFICES ASSUME NEW e \in delayed, e \notin Due PROVE e.ref \notin Refs(Due)
    BY <1>1, <1>6
  <2>1. \A f \in delayed : f.ref = e.ref => f.deadline = e.deadline
    BY <1>1
  <2>2. ASSUME NEW f \in Due, f.ref = e.ref PROVE FALSE
    <3>1. f \in delayed /\ f.deadline <= now
      BY DEF Due
    <3>2. e.deadline <= now
      BY <2>1, <2>2, <3>1
    <3> QED
      BY <3>2 DEF Due
  <2> QED
    BY <2>2 DEF Refs
<1>12. PromotedReady = ready \cup {[id |-> e.id, ref |-> e.ref] : e \in Due}
  <2>1. \A e \in Due : idx[e.ref].id = e.id
    BY <1>1 DEF Due
  <2> QED
    BY <1>3, <2>1, SMT DEF PromotedReady
<1>13. PromotedReady \subseteq [id : Nat, ref : PageSlot]
  BY <1>12, SMT DEF EngineInv, TypeOK, Due
<1>14. \A e \in PromotedReady :
         /\ e.ref \in DOMAIN idx /\ idx[e.ref].id = e.id /\ PromotedIdx[e.ref].state = READY
  <2>1. \A e \in ready : e.ref \in DOMAIN idx /\ idx[e.ref].id = e.id /\ idx[e.ref].state = READY
    BY DEF EngineInv, EntriesCurrent, Live
  <2>2. \A e \in ready : PromotedIdx[e.ref].state = READY
    BY <1>9, <2>1 DEF READY, DELAYED
  <2>3. \A e \in Due : e.ref \in DOMAIN idx /\ idx[e.ref].id = e.id /\ PromotedIdx[e.ref].state = READY
    BY <1>1, <1>8 DEF Due, Refs
  <2> QED
    BY <1>12, <2>1, <2>2, <2>3, SMT
<1>15. \A r \in DOMAIN idx : (\E e \in ready : e.ref = r) \/ (\E e \in Due : e.ref = r) =>
         \E e \in PromotedReady : e.ref = r
  <2>1. ready \subseteq PromotedReady
    BY <1>12
  <2>2. \A e \in Due : [id |-> e.id, ref |-> e.ref] \in PromotedReady
    BY <1>12
  <2>3. \A e \in Due : \E f \in PromotedReady : f.ref = e.ref
    BY <2>2
  <2> QED
    BY <2>1, <2>3
<1> QED
  BY <1>5, <1>8, <1>9, <1>10, <1>11, <1>12, <1>13, <1>14, <1>15

LEMMA PromotedSame ==
  ASSUME EngineInv, NEW r \in DOMAIN idx
  PROVE  /\ PromotedIdx[r].id = idx[r].id /\ PromotedIdx[r].pay = idx[r].pay
         /\ PromotedIdx[r].body = idx[r].body
         /\ idx[r].state # DELAYED => PromotedIdx[r] = idx[r]
BY Promotion

\* The slot of a message that is leased.
AsLeased(s, until, nonce) ==
  [s EXCEPT !.state = INFLIGHT, !.attempts = @ + 1, !.until = until, !.nonce = nonce]

LeaseOf(t, s, until, nonce) ==
  s \in Slot /\ until \in Nat /\ nonce \in Nat /\ t = AsLeased(s, until, nonce)

LeaseFields(t, s, until, nonce) ==
  /\ t \in Slot /\ t.state = INFLIGHT /\ t.until = until /\ t.nonce = nonce
  /\ t.attempts = s.attempts + 1 /\ t.id = s.id /\ t.pay = s.pay /\ t.body = s.body

LEMMA LeasedSlot ==
  ASSUME NEW s, NEW until, NEW nonce, NEW t, LeaseOf(t, s, until, nonce)
  PROVE  LeaseFields(t, s, until, nonce)
<1>1. t = [id |-> s.id, state |-> INFLIGHT, attempts |-> s.attempts + 1, until |-> until,
           nonce |-> nonce, avail |-> s.avail, pay |-> s.pay, body |-> s.body]
  BY DEF LeaseOf, AsLeased, Slot
<1>2. /\ s.id \in Nat /\ s.attempts \in Nat /\ s.avail \in Nat /\ s.pay \in PageSlot
      /\ s.body \in Nat
  BY DEF LeaseOf, Slot
<1> QED
  BY <1>1, <1>2, SMT DEF LeaseOf, LeaseFields, Slot

\* The wheel's entry of a lease.
WheelEntry(i) == [id |-> i.id, ref |-> i.ref, deadline |-> i.until, nonce |-> i.nonce]

\* What Lease does: the popped entries P are READY slots; they become the new
\* leases R, in the index, on the wheel and among the receipts, and the
\* deliveries D.
Leases(c, v, P, D, R) ==
  /\ ready' = PromotedReady \ P
  /\ idx' \in [DOMAIN idx -> Slot] /\ DOMAIN idx' = DOMAIN idx
  /\ \A r \in DOMAIN idx \ Refs(P) : idx'[r] = PromotedIdx[r]
  /\ Refs(P) \subseteq DOMAIN idx
  /\ \A r \in Refs(P) :
       /\ PromotedIdx[r].state = READY /\ idx'[r].state = INFLIGHT
       /\ idx'[r].id = idx[r].id /\ idx'[r].pay = idx[r].pay
       /\ idx'[r].body = idx[r].body
       /\ \E i \in R : i.ref = r
  /\ receipts' = {i \in receipts : \A j \in R : j.id # i.id} \cup R
  /\ inflight' = inflight \cup {WheelEntry(i) : i \in R}
  /\ \A i \in R : /\ i.ref \in Refs(P) /\ idx[i.ref].id = i.id
                  /\ idx'[i.ref].nonce = i.nonce /\ idx'[i.ref].attempts = i.attempt
                  /\ idx'[i.ref].until = i.until
  /\ leased' = [leased EXCEPT ![c] = D]
  /\ \A d \in D : /\ d.ref \in Refs(P) /\ d.id = idx[d.ref].id
                  /\ d.pay = idx[d.ref].pay /\ d.body = idx[d.ref].body
                  /\ d.nonce = nextNonce + 1 /\ d.until = now + v
                  /\ \E i \in R : i.ref = d.ref /\ SameLease(i, d) /\ i.until = d.until
  /\ \A i \in R : i.nonce = nextNonce + 1 /\ nextNonce' = nextNonce + 1

LEMMA LeaseEffect ==
  ASSUME EngineInv, NEW c \in Client, NEW max \in LeaseSizes, NEW v \in Visibility,
         Lease(c, max, v)
  PROVE  \E P \in SUBSET PromotedReady, D \in SUBSET Delivery, R \in SUBSET Receipt :
           Leases(c, v, P, D, R)
<1> DEFINE until == now + v
           nonce == nextNonce + 1
           deliv(e) == [id |-> PromotedIdx[e.ref].id, ref |-> e.ref, nonce |-> nonce,
                        attempt |-> PromotedIdx[e.ref].attempts + 1, until |-> until,
                        pay |-> PromotedIdx[e.ref].pay, body |-> PromotedIdx[e.ref].body]
           rcpt(d) == [id |-> d.id, ref |-> d.ref, nonce |-> nonce, attempt |-> d.attempt,
                       until |-> until]
<1>1. \A e \in PromotedReady : /\ e.ref \in DOMAIN idx /\ idx[e.ref].id = e.id
                              /\ PromotedIdx[e.ref].state = READY
                              /\ GetByRef(PromotedIdx, e.ref).id # 0
  BY Promotion DEF GetByRef
<1>2. PICK P \in SUBSET PromotedReady :
        LET D == {deliv(e) : e \in P}
        IN  /\ ready' = PromotedReady \ P
            /\ idx' = [r \in DOMAIN idx |-> IF r \in Refs(P) THEN AsLeased(PromotedIdx[r], until, nonce)
                                           ELSE PromotedIdx[r]]
            /\ receipts' = {i \in receipts : \A d \in D : d.id # i.id} \cup {rcpt(d) : d \in D}
            /\ inflight' = inflight \cup
                 {[id |-> d.id, ref |-> d.ref, deadline |-> until, nonce |-> nonce] : d \in D}
            /\ leased' = [leased EXCEPT ![c] = D]
            /\ D # {} => nextNonce' = nonce
  <2> DEFINE Live0(S) == {e \in S : GetByRef(PromotedIdx, e.ref).id # 0}
  <2>1. \E P \in SUBSET PromotedReady :
        LET D == {deliv(e) : e \in Live0(P)}
        IN  /\ ready' = PromotedReady \ P
            /\ idx' = [r \in DOMAIN idx |-> IF r \in Refs(Live0(P)) THEN AsLeased(PromotedIdx[r], until, nonce)
                                           ELSE PromotedIdx[r]]
            /\ receipts' = {i \in receipts : \A d \in D : d.id # i.id} \cup {rcpt(d) : d \in D}
            /\ inflight' = inflight \cup
                 {[id |-> d.id, ref |-> d.ref, deadline |-> until, nonce |-> nonce] : d \in D}
            /\ leased' = [leased EXCEPT ![c] = D]
            /\ D # {} => nextNonce' = nonce
    BY DEF Lease, AsLeased
  <2>2. \A P \in SUBSET PromotedReady : Live0(P) = P
    BY <1>1
  <2> HIDE DEF Live0, deliv, rcpt
  <2> QED
    BY <2>1, <2>2
<1>3. until \in Nat /\ nonce \in Nat /\ until = now + v /\ nonce = nextNonce + 1
  BY EngineAssumption, SMT DEF EngineInv, TypeOK
<1> HIDE DEF until, nonce
<1> DEFINE D == {deliv(e) : e \in P}
           R == {rcpt(d) : d \in D}
<1>4. \A r \in DOMAIN idx : PromotedIdx[r] \in Slot /\ r \in PageSlot
  BY Promotion DEF EngineInv, TypeOK
<1>5. \A e \in P : /\ deliv(e) \in Delivery /\ deliv(e).id = idx[e.ref].id /\ deliv(e).ref = e.ref
                   /\ deliv(e).nonce = nonce /\ deliv(e).attempt = PromotedIdx[e.ref].attempts + 1
                   /\ deliv(e).until = until /\ deliv(e).pay = idx[e.ref].pay
                   /\ deliv(e).body = idx[e.ref].body
  <2>1. \A e \in P : /\ PromotedIdx[e.ref].id \in Nat /\ PromotedIdx[e.ref].attempts \in Nat
                     /\ PromotedIdx[e.ref].pay \in PageSlot /\ PromotedIdx[e.ref].body \in Nat
                     /\ e.ref \in PageSlot
    BY <1>1, <1>4 DEF Slot
  <2>2. \A e \in P : /\ PromotedIdx[e.ref].id = idx[e.ref].id /\ PromotedIdx[e.ref].pay = idx[e.ref].pay
                     /\ PromotedIdx[e.ref].body = idx[e.ref].body
    BY <1>1, Promotion
  <2>3. ASSUME NEW e \in P PROVE deliv(e) \in Delivery
    <3>1. PICK s : s = PromotedIdx[e.ref]
      OBVIOUS
    <3>2. s.id \in Nat /\ s.attempts \in Nat /\ s.pay \in PageSlot /\ s.body \in Nat /\ e.ref \in PageSlot
      BY <2>1, <3>1
    <3>3. s.attempts + 1 \in Nat
      BY <3>2, SMT
    <3> QED
      BY <1>3, <3>1, <3>2, <3>3 DEF Delivery
  <2> QED
    BY <2>2, <2>3
<1> HIDE DEF deliv
<1>6. \A d \in Delivery : /\ rcpt(d) \in Receipt /\ rcpt(d).id = d.id /\ rcpt(d).ref = d.ref
                          /\ rcpt(d).nonce = nonce /\ rcpt(d).attempt = d.attempt
                          /\ rcpt(d).until = until
                          /\ WheelEntry(rcpt(d)) = [id |-> d.id, ref |-> d.ref,
                                                     deadline |-> until, nonce |-> nonce]
  BY <1>3 DEF Delivery, Receipt, WheelEntry
<1> HIDE DEF rcpt
<1>7. \A r \in Refs(P) : r \in DOMAIN idx /\ PromotedIdx[r].state = READY /\ idx'[r] = AsLeased(PromotedIdx[r], until, nonce)
  BY <1>1, <1>2 DEF Refs
<1>8. \A r \in Refs(P) :
        /\ idx'[r] \in Slot /\ idx'[r].state = INFLIGHT
        /\ idx'[r].id = PromotedIdx[r].id /\ idx'[r].pay = PromotedIdx[r].pay
        /\ idx'[r].body = PromotedIdx[r].body
        /\ idx'[r].nonce = nonce /\ idx'[r].until = until
        /\ idx'[r].attempts = PromotedIdx[r].attempts + 1
  <2> SUFFICES ASSUME NEW r \in Refs(P)
               PROVE  /\ idx'[r] \in Slot /\ idx'[r].state = INFLIGHT
                      /\ idx'[r].id = PromotedIdx[r].id /\ idx'[r].pay = PromotedIdx[r].pay
                      /\ idx'[r].body = PromotedIdx[r].body
                      /\ idx'[r].nonce = nonce /\ idx'[r].until = until
                      /\ idx'[r].attempts = PromotedIdx[r].attempts + 1
    OBVIOUS
  <2>0. PICK s, t : s = PromotedIdx[r] /\ t = idx'[r]
    OBVIOUS
  <2>1. s \in Slot /\ t = AsLeased(s, until, nonce)
    BY <1>4, <1>7, <2>0
  <2>2. LeaseOf(t, s, until, nonce)
    BY <1>3, <2>1 DEF LeaseOf
  <2>3. LeaseFields(t, s, until, nonce)
    BY <2>2, LeasedSlot
  <2> QED
    BY <2>0, <2>3 DEF LeaseFields
<1>9. \A r \in DOMAIN idx : /\ PromotedIdx[r].id = idx[r].id /\ PromotedIdx[r].pay = idx[r].pay
                            /\ PromotedIdx[r].body = idx[r].body
  BY Promotion
<1>10. D \in SUBSET Delivery /\ R \in SUBSET Receipt
  BY <1>5, <1>6
<1>11. \A r \in DOMAIN idx \ Refs(P) : idx'[r] = PromotedIdx[r]
  BY <1>2
<1>12. idx' \in [DOMAIN idx -> Slot] /\ DOMAIN idx' = DOMAIN idx
  <2>1. idx' = [r \in DOMAIN idx |-> idx'[r]]
    BY <1>2
  <2>2. \A r \in DOMAIN idx : idx'[r] \in Slot
    BY <1>4, <1>8, <1>11
  <2> QED
    BY <2>1, <2>2
<1>13. \A d \in D : \E e \in P : d = deliv(e) /\ d.ref = e.ref
  BY <1>5
<1>14. \A d \in D : /\ d.ref \in Refs(P) /\ d.id = idx[d.ref].id /\ d.pay = idx[d.ref].pay
                    /\ d.body = idx[d.ref].body /\ d.nonce = nonce /\ d.until = until
                    /\ d.attempt = PromotedIdx[d.ref].attempts + 1 /\ d \in Delivery
  BY <1>5, <1>13, SMT DEF Refs
<1>15. \A d \in D : rcpt(d) \in R
  OBVIOUS
<1>16. \A i \in R : \E d \in D : i = rcpt(d)
  OBVIOUS
<1>17. \A r \in Refs(P) : \E i \in R : i.ref = r
  <2>1. \A e \in P : deliv(e) \in D /\ deliv(e).ref = e.ref
    BY <1>5
  <2>2. \A d \in D : rcpt(d).ref = d.ref
    BY <1>6, <1>14
  <2> QED
    BY <1>15, <2>1, <2>2 DEF Refs
<1>18. /\ ready' = PromotedReady \ P /\ leased' = [leased EXCEPT ![c] = D]
       /\ inflight' = inflight \cup
            {[id |-> d.id, ref |-> d.ref, deadline |-> until, nonce |-> nonce] : d \in D}
       /\ receipts' = {i \in receipts : \A d \in D : d.id # i.id} \cup R
       /\ D # {} => nextNonce' = nonce
  BY <1>2
<1> HIDE DEF D, R
<1>19. inflight' = inflight \cup {WheelEntry(i) : i \in R}
  <2>1. \A d \in D : WheelEntry(rcpt(d)) = [id |-> d.id, ref |-> d.ref, deadline |-> until, nonce |-> nonce]
    BY <1>6, <1>10
  <2> QED
    BY <1>18, <2>1 DEF R
<1>20. receipts' = {i \in receipts : \A j \in R : j.id # i.id} \cup R
  <2>1. \A d \in D : rcpt(d).id = d.id
    BY <1>6, <1>10
  <2>2. \A i : (\A j \in R : j.id # i.id) <=> (\A d \in D : d.id # i.id)
    BY <1>15, <1>16, <2>1
  <2> QED
    BY <1>18, <2>2
<1>21. \A i \in R : /\ i.ref \in Refs(P) /\ idx[i.ref].id = i.id
                    /\ idx'[i.ref].nonce = i.nonce /\ idx'[i.ref].attempts = i.attempt
                    /\ idx'[i.ref].until = i.until /\ i.nonce = nonce
  <2> SUFFICES ASSUME NEW i \in R
               PROVE  /\ i.ref \in Refs(P) /\ idx[i.ref].id = i.id
                      /\ idx'[i.ref].nonce = i.nonce /\ idx'[i.ref].attempts = i.attempt
                      /\ idx'[i.ref].until = i.until /\ i.nonce = nonce
    OBVIOUS
  <2>1. PICK d \in D : i = rcpt(d)
    BY <1>16
  <2>2. /\ d.ref \in Refs(P) /\ d.id = idx[d.ref].id
        /\ d.attempt = PromotedIdx[d.ref].attempts + 1 /\ d \in Delivery
    BY <1>14
  <2>3. /\ i.id = d.id /\ i.ref = d.ref /\ i.nonce = nonce /\ i.attempt = d.attempt
        /\ i.until = until
    BY <1>6, <2>1, <2>2
  <2>4. /\ idx'[d.ref].nonce = nonce /\ idx'[d.ref].until = until
        /\ idx'[d.ref].attempts = PromotedIdx[d.ref].attempts + 1
    BY <1>8, <2>2
  <2> QED
    BY <2>2, <2>3, <2>4
<1>22. \A d \in D : \E i \in R : i.ref = d.ref /\ SameLease(i, d) /\ i.until = d.until
  <2> SUFFICES ASSUME NEW d \in D
               PROVE  \E i \in R : i.ref = d.ref /\ SameLease(i, d) /\ i.until = d.until
    OBVIOUS
  <2>1. d \in Delivery /\ d.nonce = nonce /\ d.until = until
    BY <1>14
  <2>2. PICK i \in R : i = rcpt(d)
    BY <1>15
  <2>3. /\ i.id = d.id /\ i.ref = d.ref /\ i.nonce = nonce /\ i.attempt = d.attempt
        /\ i.until = until
    BY <1>6, <2>1, <2>2
  <2> QED
    BY <2>1, <2>3 DEF SameLease
<1>23. \A i \in R : nextNonce' = nonce
  BY <1>16, <1>18
<1>24. \A r \in Refs(P) :
         /\ r \in DOMAIN idx
         /\ PromotedIdx[r].state = READY /\ idx'[r].state = INFLIGHT
         /\ idx'[r].id = idx[r].id /\ idx'[r].pay = idx[r].pay
         /\ idx'[r].body = idx[r].body
  BY <1>7, <1>8, <1>9
<1>25. \A d \in D : /\ d.nonce = nextNonce + 1 /\ d.until = now + v
  BY <1>3, <1>14
<1>26. \A i \in R : i.nonce = nextNonce + 1 /\ nextNonce' = nextNonce + 1
  BY <1>3, <1>21, <1>23
<1>27. Refs(P) \subseteq DOMAIN idx
  BY <1>24
<1>28. D \in SUBSET Delivery
  BY <1>10
<1>29. R \in SUBSET Receipt
  BY <1>10
<1> WITNESS P \in SUBSET PromotedReady, D \in SUBSET Delivery, R \in SUBSET Receipt
<1> QED
  BY <1>10, <1>11, <1>12, <1>14, <1>17, <1>18, <1>19, <1>20, <1>21, <1>22, <1>24, <1>25, <1>26, <1>27
     DEF Leases

LEMMA LeaseControl ==
  ASSUME EngineInv, NEW c \in Client, NEW max \in LeaseSizes, NEW v \in Visibility,
         Lease(c, max, v)
  PROVE  /\ op' \in [Process -> Ops] /\ phase' \in [Process -> Phases] /\ nextNonce' \in Nat
         /\ op'[c] \in {"none", "lease"} /\ phase'[c] # "alloc"
         /\ \A q \in Process \ {c} : op'[q] = op[q] /\ phase'[q] = phase[q]
<1>0. op[c] = "none"
  BY DEF Lease
<1>1. \/ nextNonce' = nextNonce /\ UNCHANGED <<op, phase>>
      \/ /\ nextNonce' = nextNonce + 1
         /\ Goto(c, "lease", IF DurableLeases THEN "commit" ELSE "ok")
  BY DEF Lease
<1>2. CASE nextNonce' = nextNonce /\ UNCHANGED <<op, phase>>
  BY <1>0, <1>2 DEF EngineInv, TypeOK, LocalOK, Local
<1>3. CASE /\ nextNonce' = nextNonce + 1
           /\ Goto(c, "lease", IF DurableLeases THEN "commit" ELSE "ok")
  <2> DEFINE ph == IF DurableLeases THEN "commit" ELSE "ok"
  <2>1. ph \in {"commit", "ok"}
    OBVIOUS
  <2>2. Goto(c, "lease", ph)
    BY <1>3
  <2> HIDE DEF ph
  <2>3. nextNonce' \in Nat
    BY <1>3, SMT DEF EngineInv, TypeOK
  <2> QED
    BY <2>1, <2>2, <2>3, GotoTyped DEF EngineInv, Process, Ops, Phases
<1> QED
  BY <1>1, <1>2, <1>3

\* A message that becomes leased was READY, so nobody has a receipt for it.
LEMMA LeaseInv ==
  ASSUME EngineInv, NEW c \in Client, NEW max \in LeaseSizes, NEW v \in Visibility,
         Lease(c, max, v)
  PROVE  EngineInv'
<1> USE DEF store, enqueueVars, tickVars, told
<1>0. /\ op[c] = "none" /\ delayed' = delayed \ Due
      /\ UNCHANGED <<now, store, dead, reserved, nextMsgID, nextBody, enqueueVars,
                     held, tickVars, told>>
  BY DEF Lease
<1>a. PICK P \in SUBSET PromotedReady, D \in SUBSET Delivery, R \in SUBSET Receipt :
        Leases(c, v, P, D, R)
  BY LeaseEffect
<1>1. /\ ready' = PromotedReady \ P
      /\ idx' \in [DOMAIN idx -> Slot] /\ DOMAIN idx' = DOMAIN idx
      /\ \A r \in DOMAIN idx \ Refs(P) : idx'[r] = PromotedIdx[r]
      /\ Refs(P) \subseteq DOMAIN idx
      /\ \A r \in Refs(P) :
           /\ PromotedIdx[r].state = READY /\ idx'[r].state = INFLIGHT
           /\ idx'[r].id = idx[r].id /\ idx'[r].pay = idx[r].pay
           /\ idx'[r].body = idx[r].body
           /\ \E i \in R : i.ref = r
      /\ receipts' = {i \in receipts : \A j \in R : j.id # i.id} \cup R
      /\ inflight' = inflight \cup {WheelEntry(i) : i \in R}
      /\ \A i \in R : /\ i.ref \in Refs(P) /\ idx[i.ref].id = i.id
                      /\ idx'[i.ref].nonce = i.nonce /\ idx'[i.ref].attempts = i.attempt
                      /\ idx'[i.ref].until = i.until
      /\ leased' = [leased EXCEPT ![c] = D]
  BY <1>a DEF Leases
<1>2. /\ op' \in [Process -> Ops] /\ phase' \in [Process -> Phases] /\ nextNonce' \in Nat
      /\ op'[c] \in {"none", "lease"} /\ phase'[c] # "alloc"
      /\ \A q \in Process \ {c} : op'[q] = op[q] /\ phase'[q] = phase[q]
  BY LeaseControl
<1>3. \A r \in DOMAIN idx : idx[r].state \in {INFLIGHT, DEAD} => r \notin Refs(P) /\ Kept(r)
  <2> SUFFICES ASSUME NEW r \in DOMAIN idx, idx[r].state \in {INFLIGHT, DEAD}
               PROVE  r \notin Refs(P) /\ Kept(r)
    OBVIOUS
  <2>1. PromotedIdx[r] = idx[r]
    BY PromotedSame DEF DELAYED, INFLIGHT, DEAD
  <2>2. r \notin Refs(P)
    BY <1>1, <2>1 DEF READY, INFLIGHT, DEAD
  <2> QED
    BY <1>1, <2>1, <2>2 DEF Kept
<1>4. \A r \in DOMAIN idx :
        idx'[r].id = idx[r].id /\ idx'[r].pay = idx[r].pay /\ idx'[r].body = idx[r].body
  <2> SUFFICES ASSUME NEW r \in DOMAIN idx
               PROVE  /\ idx'[r].id = idx[r].id /\ idx'[r].pay = idx[r].pay
                      /\ idx'[r].body = idx[r].body
    OBVIOUS
  <2>1. CASE r \in Refs(P)
    BY <1>1, <2>1
  <2>2. CASE r \notin Refs(P)
    <3>1. idx'[r] = PromotedIdx[r]
      BY <1>1, <2>2
    <3> QED
      BY <3>1, PromotedSame
  <2> QED
    BY <2>1, <2>2
<1>5. \A r, s \in DOMAIN idx : idx[r].id = idx[s].id => r = s
  BY DEF EngineInv, NothingLost
<1>6. \A j \in R : /\ j.ref \in DOMAIN idx /\ idx[j.ref].id = j.id
                   /\ idx[j.ref].state \notin {INFLIGHT, DEAD}
  BY <1>1, <1>3
<1>7. receipts' = receipts \cup R /\ \A i \in receipts : \A j \in R : j.id # i.id
  <2>1. ASSUME NEW i \in receipts, NEW j \in R, j.id = i.id
        PROVE  FALSE
    <3>1. /\ i.ref \in DOMAIN idx /\ idx[i.ref].id = i.id /\ idx[i.ref].state = INFLIGHT
      BY ReceiptStates
    <3>2. i.ref = j.ref
      BY <1>5, <1>6, <2>1, <3>1
    <3> QED
      BY <1>6, <3>1, <3>2
  <2>2. receipts' = {i \in receipts : \A j \in R : j.id # i.id} \cup R
    BY <1>1
  <2>3. \A i \in receipts : \A j \in R : j.id # i.id
    BY <2>1
  <2> QED
    BY <2>2, <2>3
<1>8. TypeOK'
  <2>1. idx' \in [DOMAIN idx' -> Slot] /\ DOMAIN idx' \subseteq PageSlot
    BY <1>1 DEF EngineInv, TypeOK
  <2>2. ready' \subseteq [id : Nat, ref : PageSlot]
    BY <1>1, Promotion
  <2>3. delayed' \subseteq [id : Nat, ref : PageSlot, deadline : Nat]
    BY <1>0 DEF EngineInv, TypeOK
  <2>4. receipts' \subseteq Receipt
    BY <1>1, <1>7 DEF EngineInv, TypeOK
  <2>5. inflight' \subseteq [id : Nat, ref : PageSlot, deadline : Nat, nonce : Nat]
    <3>1. \A i \in R : WheelEntry(i) \in [id : Nat, ref : PageSlot, deadline : Nat, nonce : Nat]
      BY DEF WheelEntry, Receipt
    <3> QED
      BY <1>1, <3>1, SMT DEF EngineInv, TypeOK
  <2>6. leased' \in [Client -> SUBSET Delivery]
    BY <1>1 DEF EngineInv, TypeOK
  <2> QED
    BY <1>0, <1>2, <2>1, <2>2, <2>3, <2>4, <2>5, <2>6 DEF EngineInv, TypeOK
<1>9. LocalOK'
  <2>1. Local(c)'
    BY <1>0, <1>2 DEF EngineInv, LocalOK, Local, Size, Requests
  <2> QED
    BY <1>0, <1>2, <2>1, LocalFrame, EngineAssumption DEF EngineInv, LocalOK, Process
<1>10. /\ IdsFresh' /\ SlotsOwnedOnce' /\ PayloadIntact'
       /\ \A r, s \in DOMAIN idx' : idx'[r].id = idx'[s].id => r = s
  <2>1. \A d \in Client : At(d, "ack", "free")' <=> At(d, "ack", "free")
    BY <1>0, <1>2 DEF At, Process
  <2> QED
    BY <1>0, <1>1, <1>4, <2>1, SlotsKept
<1>11. EntriesCurrent'
  <2>1. \A e \in ready' : Live(e.ref, e.id, READY)'
    <3> SUFFICES ASSUME NEW e \in PromotedReady, e \notin P PROVE Live(e.ref, e.id, READY)'
      BY <1>1
    <3>1. e.ref \in DOMAIN idx /\ idx[e.ref].id = e.id /\ PromotedIdx[e.ref].state = READY
      BY Promotion
    <3>2. e.ref \notin Refs(P)
      <4>1. \A f \in PromotedReady : f \in [id : Nat, ref : PageSlot] /\ idx[f.ref].id = f.id
        BY Promotion
      <4>2. \A f \in P : f.ref = e.ref => f = e
        BY <4>1, SMT
      <4> QED
        BY <4>2 DEF Refs
    <3> QED
      BY <1>1, <1>4, <3>1, <3>2 DEF Live
  <2>2. \A e \in delayed' : Live(e.ref, e.id, DELAYED)' /\ idx'[e.ref].avail = e.deadline
    <3> SUFFICES ASSUME NEW e \in delayed, e \notin Due
                 PROVE  Live(e.ref, e.id, DELAYED)' /\ idx'[e.ref].avail = e.deadline
      BY <1>0
    <3>1. e.ref \in DOMAIN idx /\ idx[e.ref].state = DELAYED /\ PromotedIdx[e.ref] = idx[e.ref]
      BY Promotion, EntryStates
    <3>2. Kept(e.ref)
      BY <1>1, <3>1 DEF Kept, READY, DELAYED
    <3> QED
      BY <3>2, EntriesKept
  <2>3. \A i \in receipts' :
          /\ Live(i.ref, i.id, INFLIGHT)'
          /\ idx'[i.ref].nonce = i.nonce /\ idx'[i.ref].attempts = i.attempt
          /\ idx'[i.ref].until = i.until
    <3>1. \A i \in receipts :
            /\ Live(i.ref, i.id, INFLIGHT)'
            /\ idx'[i.ref].nonce = i.nonce /\ idx'[i.ref].attempts = i.attempt
            /\ idx'[i.ref].until = i.until
      <4>1. \A i \in receipts : Kept(i.ref)
        BY <1>3, ReceiptStates
      <4> QED
        BY <4>1, EntriesKept
    <3>2. \A i \in R :
            /\ Live(i.ref, i.id, INFLIGHT)'
            /\ idx'[i.ref].nonce = i.nonce /\ idx'[i.ref].attempts = i.attempt
            /\ idx'[i.ref].until = i.until
      BY <1>1 DEF Live
    <3> QED
      BY <1>7, <3>1, <3>2
  <2>4. \A p \in Process : \A h \in held'[p] :
          /\ Live(h.ref, h.id, INFLIGHT)' /\ idx'[h.ref] = h.slot
          /\ h.slot.nonce = h.nonce /\ h.slot.attempts = h.attempt
          /\ h.slot.until = h.until
    <3>1. \A p \in Process : \A h \in held[p] : Kept(h.ref)
      BY <1>3, HeldStates
    <3> QED
      BY <1>0, <3>1, HeldCurrent
  <2>5. \A m \in dead' \cup UNION {replaying'[d] : d \in Client} :
          Live(m.ref, m.id, DEAD)' /\ idx'[m.ref].pay = m.pay /\ idx'[m.ref].body = m.body
    BY <1>0, <1>3, DeadCurrent
  <2> QED
    BY <2>1, <2>2, <2>3, <2>4, <2>5 DEF EntriesCurrent
<1>12. NothingLost'
  <2>1. \A e \in PromotedReady : e \in ready' \/ e.ref \in Refs(P)
    BY <1>1 DEF Refs
  <2>2. \A r \in DOMAIN idx : (\E e \in ready : e.ref = r) \/ (\E e \in delayed : e.ref = r) =>
          \/ \E e \in ready' : e.ref = r
          \/ \E e \in delayed' : e.ref = r
          \/ \E i \in receipts' : i.ref = r
    <3>1. \A e \in delayed : e \in delayed' \/ e \in Due
      BY <1>0
    <3>2. \A r \in Refs(P) : \E i \in receipts' : i.ref = r
      <4>1. \A r \in Refs(P) : \E i \in R : i.ref = r
        BY <1>1
      <4>2. R \subseteq receipts'
        BY <1>7
      <4> QED
        BY <4>1, <4>2
    <3>3. \A r \in DOMAIN idx : (\E e \in ready : e.ref = r) \/ (\E e \in Due : e.ref = r) =>
            \E e \in PromotedReady : e.ref = r
      BY Promotion
    <3> QED
      BY <2>1, <3>1, <3>2, <3>3
  <2>3. receipts \subseteq receipts'
    BY <1>7
  <2>4. ASSUME NEW r \in DOMAIN idx'
        PROVE  Reached(r)'
    <3>1. r \in DOMAIN idx
      BY <1>1
    <3>2. Reached(r)
      BY <3>1, AllReached
    <3> QED
      BY <1>0, <2>2, <2>3, <3>1, <3>2 DEF Reached
  <2>5. \A r, s \in DOMAIN idx' : idx'[r].id = idx'[s].id => r = s
    BY <1>1, <1>4, <1>5
  <2> QED
    BY <2>4, <2>5 DEF NothingLost, Reached
<1>13. LeasedOnce'
  <2>1. inflight' = {WheelEntry(i) : i \in receipts'}
    <3>1. inflight = {WheelEntry(i) : i \in receipts}
      BY DEF EngineInv, LeasedOnce, WheelEntry
    <3>2. inflight' = {WheelEntry(i) : i \in receipts} \cup {WheelEntry(i) : i \in R}
      BY <1>1, <3>1
    <3>3. receipts' = receipts \cup R
      BY <1>7
    <3> QED
      BY <3>2, <3>3
  <2>2. \A i, j \in receipts' : i.id = j.id => i = j
    <3>1. \A i, j \in R : i.id = j.id => i = j
      <4>1. \A i, j \in R : i.id = j.id => i.ref = j.ref
        BY <1>5, <1>6, SMT
      <4>2. \A i, j \in R : i.ref = j.ref => /\ i.nonce = j.nonce /\ i.attempt = j.attempt
                                             /\ i.until = j.until
        <5>1. \A i \in R : /\ idx'[i.ref].nonce = i.nonce /\ idx'[i.ref].attempts = i.attempt
                           /\ idx'[i.ref].until = i.until
          BY <1>1
        <5> QED
          BY <5>1
      <4> QED
        BY <4>1, <4>2, SMT DEF Receipt
    <3> QED
      BY <1>7, <3>1 DEF EngineInv, LeasedOnce
  <2>3. ASSUME NEW p \in Process, NEW h \in held[p], NEW j \in R, j.id = h.id
        PROVE  FALSE
    <3>1. /\ h.ref \in DOMAIN idx /\ idx[h.ref].id = h.id /\ idx[h.ref].state = INFLIGHT
      BY HeldStates
    <3>2. h.ref = j.ref
      BY <1>5, <1>6, <2>3, <3>1
    <3> QED
      BY <1>6, <3>1, <3>2
  <2>4. \A p \in Process : \A h \in held'[p] :
          /\ \A i \in receipts' : i.id # h.id
          /\ \A q \in Process : \A k \in held'[q] : k.id = h.id => k = h /\ q = p
    BY <1>0, <1>7, <2>3 DEF EngineInv, LeasedOnce
  <2> QED
    BY <2>1, <2>2, <2>4 DEF LeasedOnce, WheelEntry
<1>14. DeadOnce'
  BY <1>0, DeadFrame DEF EngineInv
<1> QED
  BY <1>8, <1>9, <1>10, <1>11, <1>12, <1>13, <1>14 DEF EngineInv

\* A call returns with nothing left in its hands.
LEMMA ReturnTyped ==
  ASSUME EngineInv, NEW c \in Client, Goto(c, "none", "idle"), UNCHANGED <<items, req>>,
         items[c] = {}, replaying'[c] = {}, held'[c] = {},
         \A d \in Client \ {c} : held'[d] = held[d] /\ replaying'[d] = replaying[d],
         held'[Ticker] = held[Ticker], IsFiniteSet(dead')
  PROVE  /\ op' \in [Process -> Ops] /\ phase' \in [Process -> Phases]
         /\ op'[c] = "none" /\ phase'[c] = "idle"
         /\ \A q \in Process \ {c} : op'[q] = op[q] /\ phase'[q] = phase[q]
         /\ LocalOK'
<1>1. /\ op' \in [Process -> Ops] /\ phase' \in [Process -> Phases]
      /\ op'[c] = "none" /\ phase'[c] = "idle"
      /\ \A q \in Process \ {c} : op'[q] = op[q] /\ phase'[q] = phase[q]
  BY GotoTyped DEF EngineInv, Process, Ops, Phases
<1>2. Local(c)'
  BY <1>1, FS_EmptySet DEF EngineInv, LocalOK, Local, Size, Requests
<1>3. LocalOK'
  BY <1>1, <1>2, LocalFrame, EngineAssumption DEF EngineInv, Process
<1> QED
  BY <1>1, <1>3

LEMMA LeaseReturnInv ==
  ASSUME EngineInv, NEW c \in Client, LeaseReturn(c)
  PROVE  EngineInv'
<1> USE DEF queueVars, store, wheels, counters, enqueueVars, tickVars
<1>0. /\ At(c, "lease", "ok") /\ leased' = [leased EXCEPT ![c] = {}]
      /\ delivered' = delivered \cup
           {[id |-> d.id, nonce |-> d.nonce, attempt |-> d.attempt, body |-> d.body,
             got |-> content[d.pay]] : d \in leased[c]}
      /\ Goto(c, "none", "idle")
      /\ UNCHANGED <<queueVars, enqueueVars, held, tickVars, acked>>
  BY DEF LeaseReturn
<1>1. items[c] = {} /\ replaying[c] = {} /\ held[c] = {} /\ IsFiniteSet(dead)
  BY <1>0 DEF EngineInv, LocalOK, Local, At
<1>2. /\ op' \in [Process -> Ops] /\ phase' \in [Process -> Phases]
      /\ op'[c] = "none" /\ phase'[c] = "idle"
      /\ \A q \in Process \ {c} : op'[q] = op[q] /\ phase'[q] = phase[q]
      /\ LocalOK'
  BY <1>0, <1>1, ReturnTyped
<1>3. TypeOK'
  <2>1. \A d \in leased[c] :
          [id |-> d.id, nonce |-> d.nonce, attempt |-> d.attempt, body |-> d.body,
           got |-> content[d.pay]]
          \in [id : Nat, nonce : Nat, attempt : Nat, body : Nat, got : Nat]
    BY SMT DEF EngineInv, TypeOK, Delivery
  <2>2. delivered' \subseteq [id : Nat, nonce : Nat, attempt : Nat, body : Nat, got : Nat]
    BY <1>0, <2>1 DEF EngineInv, TypeOK
  <2>3. leased' \in [Client -> SUBSET Delivery]
    BY <1>0 DEF EngineInv, TypeOK
  <2> QED
    BY <1>0, <1>2, <2>2, <2>3 DEF EngineInv, TypeOK
<1>4. \A d \in Client : At(d, "ack", "free")' <=> At(d, "ack", "free")
  BY <1>0, <1>2 DEF At, Process
<1>5. nextMsgID <= nextMsgID'
  BY <1>0, SMT DEF EngineInv, TypeOK
<1> QED
  BY <1>0, <1>2, <1>3, <1>4, <1>5, ControlStep DEF places

\* The slot of a lease that is rolled back.
AsRolledBack(s) ==
  [s EXCEPT !.state = READY, !.until = 0, !.nonce = 0, !.attempts = IF @ > 0 THEN @ - 1 ELSE 0]

LEMMA RolledBackSlot ==
  ASSUME NEW s \in Slot
  PROVE  LET t == AsRolledBack(s)
         IN  /\ t \in Slot /\ t.state = READY
             /\ t.id = s.id /\ t.pay = s.pay /\ t.body = s.body
<1> DEFINE n == IF s.attempts > 0 THEN s.attempts - 1 ELSE 0
<1>1. n \in Nat
  BY SMT DEF Slot
<1>2. AsRolledBack(s) = [s EXCEPT !.state = READY, !.until = 0, !.nonce = 0, !.attempts = n]
  BY DEF AsRolledBack
<1> HIDE DEF n
<1>3. ASSUME NEW t, t = AsRolledBack(s)
      PROVE  t = [id |-> s.id, state |-> READY, attempts |-> n, until |-> 0,
                  nonce |-> 0, avail |-> s.avail, pay |-> s.pay, body |-> s.body]
  BY <1>2, <1>3 DEF Slot
<1>4. /\ s.id \in Nat /\ s.avail \in Nat /\ s.pay \in PageSlot /\ s.body \in Nat
  BY DEF Slot
<1> QED
  BY <1>1, <1>3, <1>4, SMT DEF Slot

\* A rolled-back lease is still on record: its slot becomes READY again.
LEMMA LeaseRollbackInv ==
  ASSUME EngineInv, NEW c \in Client, LeaseRollback(c)
  PROVE  EngineInv'
<1> USE DEF store, counters, enqueueVars, tickVars, told
<1> DEFINE M == {i \in receipts : \E d \in leased[c] : SameLease(i, d)}
<1>1. \A i \in receipts : i \in Receipt /\ i.ref \in DOMAIN idx /\ idx[i.ref].id = i.id
                          /\ idx[i.ref].state = INFLIGHT
  BY EntryStates DEF EngineInv, TypeOK
<1>2. {i \in M : i.ref \in DOMAIN idx} = M
  BY <1>1
<1>0. /\ At(c, "lease", "err")
      /\ receipts' = receipts \ M
      /\ inflight' = {e \in inflight : \A i \in M : i.id # e.id}
      /\ idx' = [r \in DOMAIN idx |-> IF r \in Refs(M) THEN AsRolledBack(idx[r]) ELSE idx[r]]
      /\ ready' = ready \cup {[id |-> idx[i.ref].id, ref |-> i.ref] : i \in M}
      /\ leased' = [leased EXCEPT ![c] = {}]
      /\ Goto(c, "none", "idle")
      /\ UNCHANGED <<now, store, delayed, dead, reserved, counters, enqueueVars,
                     held, tickVars, told>>
  BY <1>2 DEF LeaseRollback, AsRolledBack
<1>3. M \subseteq receipts
  OBVIOUS
<1> HIDE DEF M
<1>4. items[c] = {} /\ replaying[c] = {} /\ held[c] = {} /\ IsFiniteSet(dead)
  BY <1>0 DEF EngineInv, LocalOK, Local, At
<1>5. /\ op' \in [Process -> Ops] /\ phase' \in [Process -> Phases]
      /\ op'[c] = "none" /\ phase'[c] = "idle"
      /\ \A q \in Process \ {c} : op'[q] = op[q] /\ phase'[q] = phase[q]
      /\ LocalOK'
  BY <1>0, <1>4, ReturnTyped
<1>6. \A r \in Refs(M) : r \in DOMAIN idx /\ idx[r].state = INFLIGHT
  BY <1>1, <1>3 DEF Refs
<1>7. /\ DOMAIN idx' = DOMAIN idx
      /\ \A r \in DOMAIN idx \ Refs(M) : Kept(r)
      /\ \A r \in Refs(M) : idx'[r] = AsRolledBack(idx[r])
  BY <1>0, <1>6 DEF Kept
<1>8. \A r \in DOMAIN idx : idx[r] \in Slot
  BY DEF EngineInv, TypeOK
<1>9. \A r \in Refs(M) : /\ idx'[r] \in Slot /\ idx'[r].state = READY /\ idx'[r].id = idx[r].id
                         /\ idx'[r].pay = idx[r].pay /\ idx'[r].body = idx[r].body
  BY <1>6, <1>7, <1>8, RolledBackSlot, SMT
<1>10. \A r \in DOMAIN idx :
         idx'[r].id = idx[r].id /\ idx'[r].pay = idx[r].pay /\ idx'[r].body = idx[r].body
  BY <1>7, <1>9 DEF Kept
<1>11. TypeOK'
  <2>1. idx' \in [DOMAIN idx' -> Slot]
    <3>1. \A r \in DOMAIN idx : idx'[r] \in Slot
      BY <1>7, <1>8, <1>9 DEF Kept
    <3>2. idx' = [r \in DOMAIN idx |-> idx'[r]]
      BY <1>0
    <3> QED
      BY <1>7, <3>1, <3>2
  <2>2. \A i \in M : [id |-> idx[i.ref].id, ref |-> i.ref] \in [id : Nat, ref : PageSlot]
    BY <1>1, <1>3, <1>8 DEF Receipt, Slot
  <2>3. ready' \subseteq [id : Nat, ref : PageSlot]
    <3>1. ready \subseteq [id : Nat, ref : PageSlot]
      BY DEF EngineInv, TypeOK
    <3>2. ready' = ready \cup {[id |-> idx[i.ref].id, ref |-> i.ref] : i \in M}
      BY <1>0
    <3> QED
      BY <2>2, <3>1, <3>2
  <2>4. leased' \in [Client -> SUBSET Delivery]
    BY <1>0 DEF EngineInv, TypeOK
  <2> QED
    BY <1>0, <1>5, <1>7, <2>1, <2>3, <2>4 DEF EngineInv, TypeOK
<1>12. /\ IdsFresh' /\ SlotsOwnedOnce' /\ PayloadIntact'
       /\ \A r, s \in DOMAIN idx' : idx'[r].id = idx'[s].id => r = s
  <2>1. \A d \in Client : At(d, "ack", "free")' <=> At(d, "ack", "free")
    BY <1>0, <1>5 DEF At, Process
  <2> QED
    BY <1>0, <1>7, <1>10, <2>1, SlotsKept
<1>13. \A i, j \in receipts : i.ref = j.ref => i = j
  BY <1>1, SMT DEF EngineInv, LeasedOnce
<1>14. EntriesCurrent'
  <2>1. \A r \in DOMAIN idx : idx[r].state # INFLIGHT => Kept(r)
    BY <1>6, <1>7
  <2>2. \A e \in ready' : Live(e.ref, e.id, READY)'
    <3>1. \A e \in ready : Live(e.ref, e.id, READY)'
      BY <2>1, EntriesKept, EntryStates DEF READY, INFLIGHT
    <3>2. \A e \in ready' : e \in ready \/ \E i \in M : e.ref = i.ref /\ e.id = i.id
      BY <1>0, <1>1, <1>3, SMT
    <3>3. \A i \in M : i.ref \in Refs(M)
      BY DEF Refs
    <3> QED
      BY <1>1, <1>3, <1>7, <1>9, <3>1, <3>2, <3>3, SMT DEF Live
  <2>3. \A e \in delayed' : Live(e.ref, e.id, DELAYED)' /\ idx'[e.ref].avail = e.deadline
    <3>1. \A e \in delayed : Kept(e.ref)
      BY <2>1, EntryStates DEF DELAYED, INFLIGHT
    <3> QED
      BY <1>0, <3>1, EntriesKept
  <2>4. \A i \in receipts' :
          /\ Live(i.ref, i.id, INFLIGHT)'
          /\ idx'[i.ref].nonce = i.nonce /\ idx'[i.ref].attempts = i.attempt
          /\ idx'[i.ref].until = i.until
    <3>1. \A i \in receipts' : i \in receipts /\ Kept(i.ref)
      BY <1>0, <1>1, <1>3, <1>7, <1>13 DEF Refs
    <3> QED
      BY <3>1, ReceiptsCurrent
  <2>5. \A p \in Process : \A h \in held'[p] :
          /\ Live(h.ref, h.id, INFLIGHT)' /\ idx'[h.ref] = h.slot
          /\ h.slot.nonce = h.nonce /\ h.slot.attempts = h.attempt
          /\ h.slot.until = h.until
    <3>1. \A p \in Process : \A h \in held[p] : \A i \in receipts : i.ref # h.ref
      <4>1. ASSUME NEW p \in Process, NEW h \in held[p], NEW i \in receipts, i.ref = h.ref
            PROVE  FALSE
        <5>1. i.id = h.id
          BY <1>1, <4>1, HeldStates
        <5> QED
          BY <4>1, <5>1 DEF EngineInv, LeasedOnce
      <4> QED
        BY <4>1
    <3>2. \A p \in Process : \A h \in held[p] : h.ref \in DOMAIN idx /\ h.ref \notin Refs(M)
      BY <1>3, <3>1, HeldStates DEF Refs
    <3>3. \A p \in Process : \A h \in held[p] : Kept(h.ref)
      BY <1>7, <3>2
    <3> QED
      BY <1>0, <3>3, HeldCurrent
  <2>6. \A m \in dead' \cup UNION {replaying'[d] : d \in Client} :
          Live(m.ref, m.id, DEAD)' /\ idx'[m.ref].pay = m.pay /\ idx'[m.ref].body = m.body
    <3>1. \A r \in DOMAIN idx : idx[r].state = DEAD => Kept(r)
      BY <2>1 DEF DEAD, INFLIGHT
    <3> QED
      BY <1>0, <3>1, DeadCurrent
  <2> QED
    BY <2>2, <2>3, <2>4, <2>5, <2>6 DEF EntriesCurrent
<1>15. NothingLost'
  <2>1. \A i \in receipts : i \in receipts' \/ \E e \in ready' : e.ref = i.ref
    <3>1. \A i \in M : [id |-> idx[i.ref].id, ref |-> i.ref] \in ready'
      BY <1>0
    <3> QED
      BY <1>0, <3>1
  <2>2. ready \subseteq ready'
    BY <1>0
  <2>3. ASSUME NEW r \in DOMAIN idx'
        PROVE  Reached(r)'
    <3>1. r \in DOMAIN idx
      BY <1>7
    <3>2. Reached(r)
      BY <3>1, AllReached
    <3> QED
      BY <1>0, <2>1, <2>2, <3>2 DEF Reached
  <2> QED
    BY <1>12, <2>3 DEF NothingLost, Reached
<1>16. LeasedOnce'
  <2>1. inflight' = {WheelEntry(i) : i \in receipts'}
    <3>1. inflight = {WheelEntry(i) : i \in receipts}
      BY DEF EngineInv, LeasedOnce, WheelEntry
    <3>2. \A i \in receipts : WheelEntry(i).id = i.id
      BY DEF WheelEntry
    <3>3. \A i \in receipts : i \in M <=> \E j \in M : j.id = i.id
      BY <1>3 DEF EngineInv, LeasedOnce
    <3>4. /\ inflight' = {e \in inflight : \A i \in M : i.id # e.id}
          /\ receipts' = receipts \ M
      BY <1>0
    <3>5. ASSUME NEW e \in inflight' PROVE e \in {WheelEntry(i) : i \in receipts'}
      <4>1. PICK i \in receipts : e = WheelEntry(i)
        BY <3>1, <3>4
      <4>2. i \notin M
        BY <3>2, <3>4, <4>1
      <4> QED
        BY <3>4, <4>1, <4>2
    <3>6. ASSUME NEW i \in receipts' PROVE WheelEntry(i) \in inflight'
      <4>1. i \in receipts /\ i \notin M
        BY <3>4
      <4>2. WheelEntry(i) \in inflight /\ \A j \in M : j.id # WheelEntry(i).id
        BY <3>1, <3>2, <3>3, <4>1
      <4> QED
        BY <3>4, <4>2
    <3> QED
      BY <3>5, <3>6
  <2> QED
    BY <1>0, <2>1 DEF EngineInv, LeasedOnce, WheelEntry
<1>17. DeadOnce'
  BY <1>0, DeadFrame DEF EngineInv
<1> QED
  BY <1>5, <1>11, <1>12, <1>14, <1>15, <1>16, <1>17 DEF EngineInv

=============================================================================
