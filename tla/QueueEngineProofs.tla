------------------------- MODULE QueueEngineProofs --------------------------
(***************************************************************************)
(* Proofs about the queue runtime, last part: the replay of dead letters   *)
(* keeps EngineInv, Init and Next do, and the theorems.                    *)
(***************************************************************************)
EXTENDS QueueEngineSettling

\* Most steps are first-order; those that need arithmetic or the types of
\* functions and records cite SMT.
USE Zenon

\* Replay.

LEMMA ReplayTakeInv ==
  ASSUME EngineInv, NEW c \in Client, NEW S \in SUBSET dead, NEW delay \in Delays,
         ReplayTake(c, S, delay)
  PROVE  EngineInv'
<1> USE DEF store, wheels, counters, leaseVars, tickVars, told
<1> DEFINE n == Cardinality(S)
<1>1. /\ op[c] = "none" /\ dead' = dead \ S /\ replaying' = [replaying EXCEPT ![c] = S]
      /\ Goto(c, "replay", "reserve")
      /\ UNCHANGED <<now, store, idx, wheels, reserved, counters, items, leaseVars,
                     tickVars, told>>
  BY DEF ReplayTake
<1>2. PICK f \in [1..n -> S] :
        req' = [req EXCEPT ![c] = [i \in 1..n |->
                  [body |-> f[i].body, delay |-> delay, avail |-> delay]]]
  BY DEF ReplayTake
<1>3. items[c] = {} /\ replaying[c] = {} /\ held[c] = {} /\ IsFiniteSet(dead)
  BY <1>1 DEF EngineInv, LocalOK, Local
<1>4. IsFiniteSet(S) /\ IsFiniteSet(dead') /\ n \in Nat
  BY <1>1, <1>3, FS_Subset, FS_CardinalityType
<1> HIDE DEF n
<1>5. Cardinality(1..n) = n
  BY <1>4, FS_Interval, SMT
<1>6. /\ op' \in [Process -> Ops] /\ phase' \in [Process -> Phases]
      /\ op'[c] = "replay" /\ phase'[c] = "reserve"
      /\ \A q \in Process \ {c} : op'[q] = op[q] /\ phase'[q] = phase[q]
  BY <1>1, GotoTyped DEF EngineInv, Process, Ops, Phases
<1>7. replaying'[c] = S /\ \A d \in Client \ {c} : replaying'[d] = replaying[d]
  BY <1>1 DEF EngineInv, TypeOK
<1>8. TypeOK'
  <2>1. \A i \in 1..n : [body |-> f[i].body, delay |-> delay, avail |-> delay] \in Request
    <3>1. \A i \in 1..n : f[i].body \in Nat
      BY SMT DEF EngineInv, TypeOK, DeadMessage
    <3>2. delay \in Nat
      BY EngineAssumption
    <3> QED
      BY <3>1, <3>2 DEF Request
  <2>2. DOMAIN req' = Client /\ \A d \in Client : req'[d] \in [DOMAIN req'[d] -> Request]
    BY <1>2, <2>1 DEF EngineInv, TypeOK
  <2>3. dead' \subseteq DeadMessage /\ replaying' \in [Client -> SUBSET DeadMessage]
    BY <1>1 DEF EngineInv, TypeOK
  <2> QED
    BY <1>1, <1>6, <2>2, <2>3 DEF EngineInv, TypeOK
<1>9. LocalOK'
  <2>1. Requests(c)' = 1..n
    BY <1>2 DEF EngineInv, TypeOK, Requests
  <2>2. Local(c)'
    BY <1>1, <1>3, <1>4, <1>5, <1>6, <1>7, <2>1 DEF EngineInv, LocalOK, Local, Size
  <2>3. \A d \in Client \ {c} : req'[d] = req[d]
    BY <1>2 DEF EngineInv, TypeOK
  <2> QED
    BY <1>1, <1>4, <1>6, <1>7, <2>2, <2>3, LocalFrame, EngineAssumption DEF EngineInv, Process
<1>10. /\ IdsFresh' /\ SlotsOwnedOnce' /\ PayloadIntact'
  <2>1. \A d \in Client : At(d, "ack", "free")' <=> At(d, "ack", "free")
    BY <1>1, <1>6 DEF At, Process
  <2> QED
    BY <1>1, <2>1, SlotsKept
<1>11. \A m \in (dead \cup UNION {replaying[d] : d \in Client})' :
         m \in dead \cup UNION {replaying[d] : d \in Client}
  <2>1. \A m \in dead' : m \in dead
    BY <1>1
  <2>2. \A d \in Client : \A m \in replaying'[d] : m \in dead \/ m \in replaying[d]
    BY <1>7
  <2> QED
    BY <2>1, <2>2
<1>12. EntriesCurrent'
  <2>1. \A m \in (dead \cup UNION {replaying[d] : d \in Client})' :
          Live(m.ref, m.id, DEAD)' /\ idx'[m.ref].pay = m.pay /\ idx'[m.ref].body = m.body
    BY <1>1, <1>11, SMT DEF EngineInv, EntriesCurrent, Live
  <2>2. \A r, id, st : Live(r, id, st)' <=> Live(r, id, st)
    BY <1>1 DEF Live
  <2> QED
    BY <1>1, <2>1, <2>2 DEF EngineInv, EntriesCurrent
<1>13. NothingLost'
  <2>1. \A m \in dead : m \in dead' \/ m \in replaying'[c]
    BY <1>1, <1>7
  <2>2. \A d \in Client : replaying[d] \subseteq replaying'[d]
    BY <1>3, <1>7
  <2>3. \A r, s \in DOMAIN idx' : idx'[r].id = idx'[s].id => r = s
    BY <1>1 DEF EngineInv, NothingLost
  <2> QED
    BY <1>1, <2>1, <2>2, <2>3, SMT DEF EngineInv, NothingLost
<1>14. LeasedOnce'
  BY <1>1, LeasesFrame DEF EngineInv
<1>15. DeadOnce'
  <2>1. \A m, k \in dead : m.id = k.id => m = k
    BY DEF EngineInv, DeadOnce
  <2>2. \A d \in Client \ {c} : \A m \in replaying'[d] :
          m \in replaying[d] /\ \A k \in dead : k.id # m.id
    BY <1>7 DEF EngineInv, DeadOnce
  <2>3. \A m \in S : m \in dead /\ \A k \in dead' : k.id # m.id
    BY <1>1, <2>1
  <2>4. \A d, e \in Client \ {c} : \A m \in replaying[d] : \A k \in replaying[e] :
          k.id = m.id => k = m /\ e = d
    BY DEF EngineInv, DeadOnce
  <2>5. \A d \in Client : \A m \in replaying'[d] : \A k \in dead' : k.id # m.id
    BY <1>1, <1>7, <2>2, <2>3
  <2>6. \A d \in Client : \A m \in replaying'[d] : \A e \in Client : \A k \in replaying'[e] :
          k.id = m.id => k = m /\ e = d
    BY <1>7, <2>1, <2>2, <2>3, <2>4
  <2> QED
    BY <1>1, <2>1, <2>5, <2>6 DEF DeadOnce
<1> QED
  BY <1>8, <1>9, <1>10, <1>12, <1>13, <1>14, <1>15 DEF EngineInv

LEMMA ReplayReserveInv ==
  ASSUME EngineInv, NEW c \in Client, ReplayReserve(c)
  PROVE  EngineInv'
<1> USE DEF store, wheels, counters, leaseVars, tickVars, told
<1>1. /\ op[c] = "replay" /\ phase[c] = "reserve" /\ Goto(c, "replay", "alloc")
      /\ req' = [req EXCEPT ![c] =
           [i \in Requests(c) |-> [req[c][i] EXCEPT !.avail = now + req[c][i].delay]]]
      /\ reserved' = reserved + Size(c)
      /\ UNCHANGED <<now, store, idx, wheels, dead, counters, items, replaying,
                     leaseVars, tickVars, told>>
  BY DEF ReplayReserve, At
<1>2. /\ op' \in [Process -> Ops] /\ phase' \in [Process -> Phases]
      /\ op'[c] = "replay" /\ phase'[c] = "alloc"
      /\ \A q \in Process \ {c} : op'[q] = op[q] /\ phase'[q] = phase[q]
  BY <1>1, GotoTyped DEF EngineInv, Process, Ops, Phases
<1>3. Size(c) \in Nat /\ Local(c)
  BY DEF EngineInv, LocalOK, Local
<1>4. TypeOK'
  <2>1. \A i \in Requests(c) : req[c][i] \in Request
    BY DEF EngineInv, TypeOK, Requests
  <2>2. \A i \in Requests(c) : [req[c][i] EXCEPT !.avail = now + req[c][i].delay] \in Request
    <3>1. \A i \in Requests(c) : now + req[c][i].delay \in Nat
      BY <2>1, SMT DEF EngineInv, TypeOK, Request
    <3> QED
      BY <2>1, <3>1 DEF Request
  <2>3. DOMAIN req' = Client /\ \A d \in Client : req'[d] \in [DOMAIN req'[d] -> Request]
    BY <1>1, <2>2 DEF EngineInv, TypeOK
  <2>4. reserved' \in Int
    BY <1>1, <1>3, SMT DEF EngineInv, TypeOK
  <2> QED
    BY <1>1, <1>2, <2>3, <2>4 DEF EngineInv, TypeOK
<1>5. LocalOK'
  <2>1. Requests(c)' = Requests(c)
    BY <1>1 DEF EngineInv, TypeOK, Requests
  <2>2. items[c] = {} /\ held[c] = {}
    BY <1>1, <1>3 DEF Local
  <2>3. Local(c)'
    BY <1>1, <1>2, <1>3, <2>1, <2>2 DEF Local, Size
  <2>4. \A d \in Client \ {c} : req'[d] = req[d]
    BY <1>1 DEF EngineInv, TypeOK
  <2> QED
    BY <1>1, <1>2, <2>3, <2>4, LocalFrame, EngineAssumption DEF EngineInv, LocalOK, Process
<1>6. \A d \in Client : At(d, "ack", "free")' <=> At(d, "ack", "free")
  BY <1>1, <1>2 DEF At, Process
<1>7. nextMsgID <= nextMsgID'
  BY <1>1, SMT DEF EngineInv, TypeOK
<1> QED
  BY <1>1, <1>4, <1>5, <1>6, <1>7, ControlStep DEF places

LEMMA ReplayRejectInv ==
  ASSUME EngineInv, NEW c \in Client, ReplayReject(c)
  PROVE  EngineInv'
<1> USE DEF queueVars, store, wheels, counters, leaseVars, tickVars, told
<1>1. /\ op[c] = "replay" /\ phase[c] = "reserve" /\ EnqueueReturn(c, "putback")
      /\ UNCHANGED <<queueVars, replaying, leaseVars, tickVars, told>>
  BY DEF ReplayReject, At
<1>2. /\ op' \in [Process -> Ops] /\ phase' \in [Process -> Phases]
      /\ DOMAIN req' = Client /\ \A d \in Client : req'[d] \in [DOMAIN req'[d] -> Request]
      /\ items' = [items EXCEPT ![c] = {}] /\ items' \in [Client -> SUBSET Item]
      /\ \A d \in Client : At(d, "ack", "free")' <=> At(d, "ack", "free")
      /\ LocalOK'
  <2>1. "putback" \in {"putback", "free"} /\ op[c] \in {"enqueue", "replay"}
    BY <1>1
  <2> QED
    BY <1>1, <2>1, EnqueueReturnTyped
<1>3. items[c] = {}
  BY <1>1 DEF EngineInv, LocalOK, Local
<1>4. items' = items
  BY <1>2, <1>3 DEF EngineInv, TypeOK
<1>5. TypeOK'
  BY <1>1, <1>2 DEF EngineInv, TypeOK
<1>6. nextMsgID <= nextMsgID'
  BY <1>1, SMT DEF EngineInv, TypeOK
<1> QED
  BY <1>1, <1>2, <1>4, <1>5, <1>6, ControlStep DEF places

LEMMA ReplayPutBackInv ==
  ASSUME EngineInv, NEW c \in Client, ReplayPutBack(c)
  PROVE  EngineInv'
<1> USE DEF store, wheels, counters, leaseVars, tickVars, told
<1>1. /\ op[c] = "replay" /\ phase[c] = "putback" /\ Goto(c, "none", "idle")
      /\ dead' = dead \cup replaying[c] /\ replaying' = [replaying EXCEPT ![c] = {}]
      /\ UNCHANGED <<now, store, idx, wheels, reserved, counters, req, items,
                     leaseVars, tickVars, told>>
  BY DEF ReplayPutBack, At
<1>2. items[c] = {} /\ held[c] = {} /\ IsFiniteSet(dead) /\ IsFiniteSet(replaying[c])
  BY <1>1 DEF EngineInv, LocalOK, Local
<1>3. IsFiniteSet(dead')
  BY <1>1, <1>2, FS_Union
<1>4. replaying'[c] = {} /\ \A d \in Client \ {c} : replaying'[d] = replaying[d]
  BY <1>1 DEF EngineInv, TypeOK
<1>5. /\ op' \in [Process -> Ops] /\ phase' \in [Process -> Phases]
      /\ op'[c] = "none" /\ phase'[c] = "idle"
      /\ \A q \in Process \ {c} : op'[q] = op[q] /\ phase'[q] = phase[q]
      /\ LocalOK'
  BY <1>1, <1>2, <1>3, <1>4, ReturnTyped
<1>6. TypeOK'
  <2>1. dead' \subseteq DeadMessage /\ replaying' \in [Client -> SUBSET DeadMessage]
    BY <1>1 DEF EngineInv, TypeOK
  <2> QED
    BY <1>1, <1>5, <2>1 DEF EngineInv, TypeOK
<1>7. IdsFresh' /\ SlotsOwnedOnce' /\ PayloadIntact'
  <2>1. \A d \in Client : At(d, "ack", "free")' <=> At(d, "ack", "free")
    BY <1>1, <1>5 DEF At, Process
  <2> QED
    BY <1>1, <2>1, SlotsKept
<1>8. EntriesCurrent'
  <2>1. \A m \in dead' : m \in dead \/ m \in replaying[c]
    BY <1>1
  <2>2. \A d \in Client : replaying'[d] \subseteq replaying[d]
    BY <1>4
  <2>3. \A m \in (dead \cup UNION {replaying[d] : d \in Client})' :
          m \in dead \cup UNION {replaying[d] : d \in Client}
    BY <2>1, <2>2
  <2> QED
    BY <1>1, <2>3 DEF EngineInv, EntriesCurrent, Live
<1>9. NothingLost'
  <2>1. dead \subseteq dead'
    BY <1>1
  <2>2. \A d \in Client : \A m \in replaying[d] : m \in dead' \/ m \in replaying'[d]
    BY <1>1, <1>4
  <2> QED
    BY <1>1, <2>1, <2>2, SMT DEF EngineInv, NothingLost
<1>10. LeasedOnce'
  BY <1>1, LeasesFrame DEF EngineInv
<1>11. DeadOnce'
  <2>1. \A m, k \in dead' : m.id = k.id => m = k
    BY <1>1, SMT DEF EngineInv, DeadOnce
  <2>2. \A d \in Client : \A m \in replaying'[d] : d # c /\ m \in replaying[d]
    BY <1>4
  <2>3. \A d \in Client : \A m \in replaying'[d] : \A k \in dead' : k.id # m.id
    BY <1>1, <2>2 DEF EngineInv, DeadOnce
  <2>4. \A d \in Client : \A m \in replaying'[d] : \A e \in Client : \A k \in replaying'[e] :
          k.id = m.id => k = m /\ e = d
    BY <2>2 DEF EngineInv, DeadOnce
  <2> QED
    BY <2>1, <2>3, <2>4 DEF DeadOnce
<1> QED
  BY <1>5, <1>6, <1>7, <1>8, <1>9, <1>10, <1>11 DEF EngineInv

\* The slots of a dead letter belong to nobody else.
LEMMA DeadApart ==
  ASSUME EngineInv, NEW c \in Client, NEW m \in replaying[c]
  PROVE  /\ m.ref \in DOMAIN idx /\ idx[m.ref].pay = m.pay /\ m.ref \notin Releasing
         /\ \A e \in ready : e.ref # m.ref
         /\ \A e \in delayed : e.ref # m.ref
         /\ \A i \in receipts : i.ref # m.ref
         /\ \A p \in Process : \A h \in held[p] : h.ref # m.ref
         /\ \A k \in dead : k.ref # m.ref
         /\ \A d \in Client \ {c} : \A k \in replaying[d] : k.ref # m.ref
<1>1. /\ m.ref \in DOMAIN idx /\ idx[m.ref].id = m.id /\ idx[m.ref].state = DEAD
      /\ idx[m.ref].pay = m.pay
  BY DEF EngineInv, EntriesCurrent, Live
<1>2. /\ \A e \in ready : e.ref # m.ref
      /\ \A e \in delayed : e.ref # m.ref
      /\ \A i \in receipts : i.ref # m.ref
      /\ \A p \in Process : \A h \in held[p] : h.ref # m.ref
  BY <1>1, EntryStates DEF READY, DELAYED, INFLIGHT, DEAD
<1>3. \A k \in dead : k.ref # m.ref
  BY <1>1, EntryStates, SMT DEF EngineInv, DeadOnce
<1>4. \A d \in Client \ {c} : \A k \in replaying[d] : k.ref # m.ref
  BY <1>1, EntryStates, SMT DEF EngineInv, DeadOnce
<1>5. m.ref \notin Releasing
  BY <1>2 DEF Releasing, Process
<1> QED
  BY <1>1, <1>2, <1>3, <1>4, <1>5

LEMMA ReplayFreeInv ==
  ASSUME EngineInv, NEW c \in Client, ReplayFree(c)
  PROVE  EngineInv'
<1> USE DEF wheels, counters, leaseVars, tickVars, told
<1>0. PICK D : D = replaying[c]
  OBVIOUS
<1>1. /\ op[c] = "replay" /\ phase[c] = "free" /\ Goto(c, "none", "idle")
      /\ alloc' = alloc \ (Pays(D) \cup Refs(D)) /\ idx' = Without(idx, Refs(D))
      /\ replaying' = [replaying EXCEPT ![c] = {}]
      /\ UNCHANGED <<now, content, wheels, dead, reserved, counters, req, items,
                     leaseVars, tickVars, told>>
  BY <1>0 DEF ReplayFree, At
<1>2. items[c] = {} /\ held[c] = {} /\ IsFiniteSet(dead)
  BY <1>1 DEF EngineInv, LocalOK, Local
<1>3. replaying'[c] = {} /\ \A d \in Client \ {c} : replaying'[d] = replaying[d]
  BY <1>1 DEF EngineInv, TypeOK
<1>4. /\ op' \in [Process -> Ops] /\ phase' \in [Process -> Phases]
      /\ op'[c] = "none" /\ phase'[c] = "idle"
      /\ \A q \in Process \ {c} : op'[q] = op[q] /\ phase'[q] = phase[q]
      /\ LocalOK'
  BY <1>1, <1>2, <1>3, ReturnTyped
<1>5. /\ DOMAIN idx' = DOMAIN idx \ Refs(D)
      /\ \A r \in DOMAIN idx : r \notin Refs(D) => Kept(r)
      /\ idx' = [r \in DOMAIN idx' |-> idx'[r]]
  BY <1>1 DEF Without, Kept
<1>6. TypeOK'
  <2>1. DOMAIN idx' \subseteq PageSlot /\ \A r \in DOMAIN idx' : idx'[r] \in Slot
    BY <1>5 DEF EngineInv, TypeOK, Kept
  <2>2. idx' \in [DOMAIN idx' -> Slot]
    BY <1>5, <2>1
  <2>3. alloc' \subseteq PageSlot /\ replaying' \in [Client -> SUBSET DeadMessage]
    BY <1>1 DEF EngineInv, TypeOK
  <2> QED
    BY <1>1, <1>4, <2>1, <2>2, <2>3 DEF EngineInv, TypeOK
<1>7. IdsFresh'
  BY <1>1, <1>5, SMT DEF EngineInv, IdsFresh, Kept
<1>8. /\ \A m \in D : m.ref \in DOMAIN idx /\ idx[m.ref].pay = m.pay /\ m.ref \notin Releasing
      /\ \A e \in ready : e.ref \notin Refs(D)
      /\ \A e \in delayed : e.ref \notin Refs(D)
      /\ \A i \in receipts : i.ref \notin Refs(D)
      /\ \A p \in Process : \A h \in held[p] : h.ref \notin Refs(D)
      /\ \A k \in dead : k.ref \notin Refs(D)
      /\ \A d \in Client \ {c} : \A k \in replaying[d] : k.ref \notin Refs(D)
  BY <1>0, DeadApart, SMT DEF Refs
<1>9. EntriesCurrent'
  <2>1. /\ \A e \in ready : Kept(e.ref)
        /\ \A e \in delayed : Kept(e.ref)
        /\ \A i \in receipts : Kept(i.ref)
        /\ \A p \in Process : \A h \in held[p] : Kept(h.ref)
    BY <1>5, <1>8, EntryStates
  <2>2. /\ \A m \in dead : Kept(m.ref)
        /\ \A d \in Client \ {c} : \A m \in replaying[d] : Kept(m.ref)
    BY <1>5, <1>8, EntryStates
  <2>3. \A m \in (dead \cup UNION {replaying[d] : d \in Client})' :
          Live(m.ref, m.id, DEAD)' /\ idx'[m.ref].pay = m.pay /\ idx'[m.ref].body = m.body
    <3>1. \A d \in Client : \A m \in replaying'[d] : m \in replaying[d] /\ Kept(m.ref)
      BY <1>3, <2>2
    <3>2. \A m \in (dead \cup UNION {replaying[d] : d \in Client})' :
            m \in dead \cup UNION {replaying[d] : d \in Client} /\ Kept(m.ref)
      BY <1>1, <2>2, <3>1
    <3> QED
      BY <3>2, EntriesKept
  <2>4. \A e \in ready' : Live(e.ref, e.id, READY)'
    BY <1>1, <2>1, EntriesKept
  <2>5. \A e \in delayed' : Live(e.ref, e.id, DELAYED)' /\ idx'[e.ref].avail = e.deadline
    BY <1>1, <2>1, EntriesKept
  <2>6. \A i \in receipts' :
          /\ Live(i.ref, i.id, INFLIGHT)'
          /\ idx'[i.ref].nonce = i.nonce /\ idx'[i.ref].attempts = i.attempt
          /\ idx'[i.ref].until = i.until
    BY <1>1, <2>1, EntriesKept
  <2>7. \A p \in Process : \A k \in held'[p] :
          /\ Live(k.ref, k.id, INFLIGHT)' /\ idx'[k.ref] = k.slot
          /\ k.slot.nonce = k.nonce /\ k.slot.attempts = k.attempt
          /\ k.slot.until = k.until
    BY <1>1, <2>1, EntriesKept
  <2> QED
    BY <2>3, <2>4, <2>5, <2>6, <2>7 DEF EntriesCurrent
<1>10. NothingLost'
  <2>1. \A d \in Client : \A m \in replaying[d] : m.ref \in Refs(D) \/ m \in replaying'[d]
    BY <1>0, <1>3 DEF Refs
  <2>2. \A r, s \in DOMAIN idx' : idx'[r].id = idx'[s].id => r = s
    BY <1>5 DEF EngineInv, NothingLost, Kept
  <2>3. \A r \in DOMAIN idx' : r \in DOMAIN idx /\ r \notin Refs(D)
    BY <1>5
  <2> QED
    BY <1>1, <2>1, <2>2, <2>3, SMT DEF EngineInv, NothingLost
<1>11. LeasedOnce'
  BY <1>1, LeasesFrame DEF EngineInv
<1>12. DeadOnce'
  <2>1. \A d \in Client : replaying'[d] \subseteq replaying[d]
    BY <1>3
  <2> QED
    BY <1>1, <2>1, SMT DEF EngineInv, DeadOnce
<1>13. Releasing' = Releasing
  <2>1. \A q \in Client : At(q, "ack", "free")' <=> At(q, "ack", "free")
    BY <1>1, <1>4 DEF At, Process
  <2>2. \A q \in Client : \A h \in held[q] : h.ref \in DOMAIN idx' /\ h.ref \in DOMAIN idx
    BY <1>5, <1>8, EntryStates DEF Process
  <2>3. \A r : r \in Releasing <=> \E q \in Client : At(q, "ack", "free") /\ \E h \in held[q] : h.ref = r
    BY <2>2 DEF Releasing
  <2>4. \A r : r \in Releasing' <=> \E q \in Client : At(q, "ack", "free") /\ \E h \in held[q] : h.ref = r
    BY <1>1, <2>1, <2>2 DEF Releasing
  <2> QED
    BY <2>3, <2>4
<1>14. LivePays' = LivePays \ Pays(D) /\ Pays(D) \subseteq LivePays
  <2>1. \A p : p \in LivePays <=> \E r \in DOMAIN idx \ Releasing : p = idx[r].pay
    BY DEF LivePays
  <2>2. \A p : p \in LivePays' <=> \E r \in DOMAIN idx' \ Releasing : p = idx'[r].pay
    BY <1>13 DEF LivePays
  <2>3. \A p : p \in LivePays' <=>
          \E r \in DOMAIN idx \ Releasing : r \notin Refs(D) /\ p = idx[r].pay
    BY <1>5, <2>2, SMT DEF Kept
  <2>4. \A r \in DOMAIN idx \ Releasing : idx[r].pay \in Pays(D) <=> r \in Refs(D)
    BY <1>8, SMT DEF EngineInv, SlotsOwnedOnce, Refs, Pays
  <2>5. Pays(D) \subseteq LivePays
    BY <1>8, <2>1, SMT DEF Pays
  <2> QED
    BY <2>1, <2>3, <2>4, <2>5, SMT
<1>15. Pending' = Pending
  BY <1>1 DEF Pending
<1>16. SlotsOwnedOnce'
  <2>1. (Refs(D) \cup Pays(D)) \cap (Refs(Pending) \cup Pays(Pending)) = {}
    <3>1. Refs(D) \subseteq DOMAIN idx
      BY <1>8 DEF Refs
    <3>2. (DOMAIN idx \cup LivePays) \cap (Refs(Pending) \cup Pays(Pending)) = {}
      BY DEF EngineInv, SlotsOwnedOnce, Refs, Pays
    <3> QED
      BY <1>14, <3>1, <3>2
  <2>2. /\ Refs(D) \cap LivePays = {} /\ Pays(D) \cap DOMAIN idx = {}
    BY <1>8, <1>14, SMT DEF EngineInv, SlotsOwnedOnce, Refs
  <2>3. alloc' = DOMAIN idx' \cup LivePays' \cup Refs(Pending') \cup Pays(Pending')
    BY <1>1, <1>5, <1>14, <1>15, <2>1, <2>2 DEF EngineInv, SlotsOwnedOnce
  <2>4. \A r, s \in DOMAIN idx' \ Releasing' : idx'[r].pay = idx'[s].pay => r = s
    BY <1>5, <1>13, SMT DEF EngineInv, SlotsOwnedOnce, Kept
  <2>5. DOMAIN idx' \subseteq DOMAIN idx /\ LivePays' \subseteq LivePays
    BY <1>5, <1>14
  <2> QED
    BY <1>15, <2>3, <2>4, <2>5 DEF EngineInv, SlotsOwnedOnce
<1>17. PayloadIntact'
  BY <1>1, <1>5, <1>13, <1>15 DEF EngineInv, PayloadIntact, Kept
<1> QED
  BY <1>4, <1>6, <1>7, <1>9, <1>10, <1>11, <1>12, <1>16, <1>17 DEF EngineInv

----------------------------------------------------------------------------
\* The invariant.

LEMMA InitInv == Init => EngineInv
<1> SUFFICES ASSUME Init PROVE EngineInv
  OBVIOUS
<1>1. DOMAIN idx = {} /\ idx \in [DOMAIN idx -> Slot] /\ IsFiniteSet(dead)
  BY FS_EmptySet DEF Init
<1>2. \A c \in Client : /\ items[c] = {} /\ replaying[c] = {} /\ leased[c] = {} /\ held[c] = {}
                        /\ req[c] = << >> /\ op[c] = "none" /\ phase[c] = "idle"
  BY DEF Init, Process
<1>3. \A p \in Process : held[p] = {}
  BY DEF Init
<1>4. TypeOK
  <2>1. \A c \in Client : req[c] \in [DOMAIN req[c] -> Request]
    <3>1. << >> \in [DOMAIN << >> -> Request]
      BY SMT
    <3> QED
      BY <1>2, <3>1
  <2> QED
    <3>1. op \in [Process -> Ops] /\ phase \in [Process -> Phases]
      BY DEF Init, Ops, Phases
    <3>2. /\ now \in Nat /\ reserved \in Int /\ nextMsgID \in Nat /\ nextNonce \in Nat
          /\ nextBody \in Nat /\ current \in Nat /\ content \in [PageSlot -> Nat]
      BY SMT DEF Init
    <3>3. /\ items \in [Client -> SUBSET Item] /\ replaying \in [Client -> SUBSET DeadMessage]
          /\ leased \in [Client -> SUBSET Delivery] /\ held \in [Process -> SUBSET Held]
          /\ DOMAIN req = Client
      BY DEF Init
    <3>4. /\ alloc = {} /\ ready = {} /\ delayed = {} /\ inflight = {} /\ receipts = {}
          /\ dead = {} /\ expired = {} /\ delivered = {} /\ acked = {}
      BY DEF Init
    <3> QED
      BY <1>1, <2>1, <3>1, <3>2, <3>3, <3>4 DEF TypeOK
<1>5. LocalOK
  <2>1. ASSUME NEW c \in Client PROVE Local(c)
    <3>1. Requests(c) = {} /\ Size(c) = 0
      BY <1>2, FS_EmptySet, SMT DEF Requests, Size
    <3> QED
      <4>1. Size(c) \in Nat /\ Requests(c) = 1..Size(c)
        BY <3>1, SMT
      <4>2. IsFiniteSet(replaying[c])
        BY <1>2, FS_EmptySet
      <4>3. items[c] = {} /\ replaying[c] = {} /\ held[c] = {} /\ phase[c] = "idle"
        BY <1>2
      <4> QED
        BY <4>1, <4>2, <4>3 DEF Local
  <2> QED
    BY <1>1, <1>3, <2>1 DEF LocalOK, Process
<1>6. Pending = {} /\ LivePays = {} /\ Refs({}) = {} /\ Pays({}) = {}
  BY <1>1, <1>2 DEF Pending, LivePays, Refs, Pays
<1>7. SlotsOwnedOnce /\ PayloadIntact
  BY <1>1, <1>6 DEF Init, SlotsOwnedOnce, PayloadIntact
<1>8. IdsFresh
  BY <1>1, <1>2 DEF IdsFresh
<1>9. EntriesCurrent
  BY <1>2, <1>3 DEF Init, EntriesCurrent
<1>10. NothingLost /\ LeasedOnce /\ DeadOnce
  BY <1>1, <1>2, <1>3 DEF Init, NothingLost, LeasedOnce, DeadOnce
<1> QED
  BY <1>4, <1>5, <1>7, <1>8, <1>9, <1>10 DEF EngineInv

LEMMA StutterInv == EngineInv /\ UNCHANGED vars => EngineInv'
<1> SUFFICES ASSUME EngineInv, UNCHANGED vars PROVE EngineInv'
  OBVIOUS
<1> USE DEF vars, queueVars, localVars, store, wheels, counters, enqueueVars, leaseVars,
            tickVars, told
<1>1. TypeOK'
  BY DEF EngineInv, TypeOK
<1>2. LocalOK'
  <2>1. \A c \in Client : Local(c)' <=> Local(c)
    BY DEF Local, Size, Requests
  <2> QED
    BY <2>1 DEF EngineInv, LocalOK
<1>3. nextMsgID <= nextMsgID'
  BY SMT DEF EngineInv, TypeOK
<1> QED
  BY <1>1, <1>2, <1>3, ControlStep DEF places, At

LEMMA NextInv == EngineInv /\ [Next]_vars => EngineInv'
<1> SUFFICES ASSUME EngineInv, [Next]_vars PROVE EngineInv'
  OBVIOUS
<1>1. CASE Tock
  BY <1>1, TockInv
<1>2. ASSUME NEW c \in Client, Call(c) PROVE EngineInv'
  <2>1. ASSUME NEW n \in BatchSizes, NEW delay \in Delays, EnqueueReserve(c, n, delay)
        PROVE  EngineInv'
    BY <2>1, EnqueueReserveInv
  <2>2. ASSUME NEW n \in LeaseSizes, NEW v \in Visibility, Lease(c, n, v) PROVE EngineInv'
    BY <2>2, LeaseInv
  <2>3. ASSUME NEW d \in delivered, Ack(c, d) PROVE EngineInv'
    BY <2>3, AckInv
  <2>4. ASSUME NEW d \in delivered, NEW delay \in Delays, Nack(c, d, delay) PROVE EngineInv'
    BY <2>4, NackInv
  <2>5. ASSUME NEW S \in SUBSET dead, NEW delay \in Delays, ReplayTake(c, S, delay)
        PROVE  EngineInv'
    BY <2>5, ReplayTakeInv
  <2> QED
    BY <1>2, <2>1, <2>2, <2>3, <2>4, <2>5 DEF Call
<1>3. ASSUME NEW c \in Client, Continue(c) PROVE EngineInv'
  <2>1. CASE EnqueueAlloc(c) \/ EnqueueAllocFail(c) \/ EnqueueUndo(c) \/ EnqueueApply(c)
    BY <2>1, EnqueueAllocInv, EnqueueAllocFailInv, EnqueueUndoInv, EnqueueApplyInv
  <2>2. CASE LeaseReturn(c) \/ LeaseRollback(c)
    BY <2>2, LeaseReturnInv, LeaseRollbackInv
  <2>3. CASE AckRelease(c) \/ AckFree(c) \/ GiveBack(c) \/ NackApply(c)
    BY <2>3, AckReleaseInv, AckFreeInv, GiveBackInv, NackApplyInv
  <2>4. CASE ReplayReserve(c) \/ ReplayReject(c) \/ ReplayPutBack(c) \/ ReplayFree(c)
    BY <2>4, ReplayReserveInv, ReplayRejectInv, ReplayPutBackInv, ReplayFreeInv
  <2> QED
    BY <1>3, <2>1, <2>2, <2>3, <2>4 DEF Continue
<1>4. CASE Commit
  <2>1. PICK S \in SUBSET Process : CommitBatch(S) \/ FailBatch(S)
    BY <1>4 DEF Commit
  <2>2. CASE Settle(S, "ok")
    BY <2>2, SettleInv
  <2>3. CASE Settle(S, "err")
    BY <2>3, SettleInv
  <2> QED
    BY <2>1, <2>2, <2>3 DEF CommitBatch, FailBatch
<1>5. CASE TickStep
  BY <1>5, TickInv, TickDeadInv, TickExpireInv DEF TickStep
<1>6. CASE UNCHANGED vars
  BY <1>6, StutterInv
<1> QED
  BY <1>1, <1>2, <1>3, <1>4, <1>5, <1>6 DEF Next

\* The ownership invariant of the queue runtime holds for any number of
\* clients, of slots and of messages, whatever the depth limit, the batch
\* sizes and the order in which the critical sections of Enqueue, Lease, Ack,
\* Nack, Replay and the ticker interleave with the committer.
THEOREM EngineCorrect == Spec => []EngineInv
<1>1. Init => EngineInv
  BY InitInv
<1>2. EngineInv /\ [Next]_vars => EngineInv'
  BY NextInv
<1> QED
  BY <1>1, <1>2, PTL DEF Spec

\* No live message becomes unreachable: each is ready, delayed, leased, held
\* by an operation in progress, dead-lettered or being replayed.
THEOREM MessagesReachable == Spec => []NothingLost
<1>1. EngineInv => NothingLost
  BY DEF EngineInv
<1> QED
  BY <1>1, EngineCorrect, PTL

\* No entry of the heap, the wheels, the receipts or the dead-letter list is
\* stale: each refers to the live slot of its message in the matching state.
THEOREM NoStaleEntry == Spec => []EntriesCurrent
<1>1. EngineInv => EntriesCurrent
  BY DEF EngineInv
<1> QED
  BY <1>1, EngineCorrect, PTL

\* A message is leased to one consumer at a time, and the in-flight wheel
\* carries exactly the deadlines of the leases on record.
THEOREM SingleLease == Spec => []LeasedOnce
<1>1. EngineInv => LeasedOnce
  BY DEF EngineInv
<1> QED
  BY <1>1, EngineCorrect, PTL

\* The page store leaks no slot and no slot has two owners, the failing paths
\* and the releases outside the lock included.
THEOREM NoSlotLeaked == Spec => []SlotsOwnedOnce
<1>1. EngineInv => SlotsOwnedOnce
  BY DEF EngineInv
<1> QED
  BY <1>1, EngineCorrect, PTL

----------------------------------------------------------------------------
\* Leases in time.

\* The payload of a message stays where it is, as it is.
BodiesKept ==
  \A r \in DOMAIN idx \cap DOMAIN idx' : idx'[r].pay = idx[r].pay /\ idx'[r].body = idx[r].body

\* What may take the lease i off the receipts: its deadline, the Ack or Nack
\* of a consumer that was given it, or the failure of its own LEASE record.
Ended(i) ==
  \/ i.until <= now
  \/ /\ \E c \in Client : \E h \in held'[c] : SameLease(h, i)
     /\ \E e \in delivered : SameLease(i, e)
  \/ \E c \in Client : /\ At(c, "lease", "err") /\ leased'[c] = {}
                       /\ \E d \in leased[c] : SameLease(i, d)

StepKeeps == BodiesKept /\ \A i \in receipts \ receipts' : Ended(i)

LEMMA PutKeepsBodies ==
  ASSUME EngineInv, NEW p \in Process, NEW h \in held[p], NEW s,
         s.pay = h.slot.pay, s.body = h.slot.body, idx' = Put(idx, h.ref, s)
  PROVE  BodiesKept
<1>1. h.ref \in DOMAIN idx /\ idx[h.ref] = h.slot
  BY EntryStates
<1> QED
  BY <1>1 DEF BodiesKept, Put

LEMMA WithoutKeepsBodies ==
  ASSUME NEW S, idx' = Without(idx, S)
  PROVE  BodiesKept
BY DEF BodiesKept, Without

LEMMA RestoreKeeps ==
  ASSUME EngineInv, NEW p \in Process, NEW h \in held[p], RestoreLease(h)
  PROVE  StepKeeps
<1>1. h.slot \in Slot
  BY HeldApart
<1>2. receipts \subseteq receipts'
  BY DEF RestoreLease
<1>3. CASE UNCHANGED idx
  BY <1>2, <1>3 DEF StepKeeps, BodiesKept
<1>4. CASE idx' = Put(idx, h.ref, [h.slot EXCEPT !.state = INFLIGHT,
                                     !.until = h.until, !.nonce = h.nonce])
  <2>1. PICK s : s = [h.slot EXCEPT !.state = INFLIGHT, !.until = h.until, !.nonce = h.nonce]
    OBVIOUS
  <2>2. s.pay = h.slot.pay /\ s.body = h.slot.body
    BY <1>1, <2>1 DEF Slot
  <2> QED
    BY <1>2, <1>4, <2>1, <2>2, PutKeepsBodies DEF StepKeeps
<1> QED
  BY <1>3, <1>4 DEF RestoreLease

LEMMA DeadLetterKeeps ==
  ASSUME EngineInv, NEW p \in Process, NEW h \in held[p], DeadLetter(h), UNCHANGED receipts
  PROVE  StepKeeps
<1>1. h.slot \in Slot
  BY HeldApart
<1>2. PICK s : s = [h.slot EXCEPT !.state = DEAD, !.until = 0, !.nonce = 0]
  OBVIOUS
<1>3. s.pay = h.slot.pay /\ s.body = h.slot.body
  BY <1>1, <1>2 DEF Slot
<1> QED
  BY <1>2, <1>3, PutKeepsBodies DEF StepKeeps, DeadLetter

LEMMA NackApplyKeeps ==
  ASSUME EngineInv, NEW c \in Client, NackApply(c)
  PROVE  StepKeeps
<1>1. PICK h \in held[c] :
        \/ DeadLetter(h)
        \/ \E st \in {READY, DELAYED} :
             idx' = Put(idx, h.ref, [h.slot EXCEPT !.state = st, !.until = 0,
                                       !.nonce = 0, !.avail = h.at])
  BY DEF NackApply
<1>2. UNCHANGED receipts
  BY DEF NackApply
<1>3. c \in Process /\ h.slot \in Slot
  BY HeldApart DEF Process
<1>4. ASSUME NEW st \in {READY, DELAYED},
             idx' = Put(idx, h.ref, [h.slot EXCEPT !.state = st, !.until = 0,
                                       !.nonce = 0, !.avail = h.at])
      PROVE  StepKeeps
  <2>1. PICK s : s = [h.slot EXCEPT !.state = st, !.until = 0, !.nonce = 0, !.avail = h.at]
    OBVIOUS
  <2>2. s.pay = h.slot.pay /\ s.body = h.slot.body
    BY <1>3, <2>1 DEF Slot
  <2> QED
    BY <1>2, <1>3, <1>4, <2>1, <2>2, PutKeepsBodies DEF StepKeeps
<1> QED
  BY <1>1, <1>2, <1>3, <1>4, DeadLetterKeeps

LEMMA EnqueueApplyKeeps ==
  ASSUME EngineInv, NEW c \in Client, EnqueueApply(c)
  PROVE  StepKeeps
<1>1. idx' = Published(c) /\ UNCHANGED receipts
  BY DEF EnqueueApply
<1>2. Refs(items[c]) \cap DOMAIN idx = {}
  <2>1. \A a \in items[c] : a \in Pending
    BY DEF Pending
  <2> QED
    BY <2>1 DEF EngineInv, SlotsOwnedOnce, Refs
<1>3. \A r \in DOMAIN idx : idx'[r] = idx[r]
  BY <1>1, <1>2 DEF Published
<1> QED
  BY <1>1, <1>3 DEF StepKeeps, BodiesKept

LEMMA TakeLeaseKeeps ==
  ASSUME EngineInv, NEW c \in Client, NEW d \in delivered, NEW at, TakeLease(c, d, at),
         UNCHANGED idx
  PROVE  StepKeeps
<1>1. PICK i \in receipts :
        /\ SameLease(i, d)
        /\ receipts' = {x \in receipts : x.id # i.id}
        /\ held' = [held EXCEPT ![c] =
             {[id |-> i.id, ref |-> i.ref, nonce |-> i.nonce, attempt |-> i.attempt,
               until |-> i.until, at |-> at, slot |-> GetByRef(idx, i.ref)]}]
  BY DEF TakeLease
<1>2. receipts \ receipts' = {i}
  BY <1>1 DEF EngineInv, LeasedOnce
<1>3. PICK h : h = [id |-> i.id, ref |-> i.ref, nonce |-> i.nonce, attempt |-> i.attempt,
                    until |-> i.until, at |-> at, slot |-> GetByRef(idx, i.ref)]
  OBVIOUS
<1>4. h \in held'[c] /\ SameLease(h, i)
  BY <1>1, <1>3 DEF EngineInv, TypeOK, Process, SameLease
<1> QED
  BY <1>1, <1>2, <1>4 DEF StepKeeps, BodiesKept, Ended

LEMMA LeaseKeeps ==
  ASSUME EngineInv, NEW c \in Client, NEW max \in LeaseSizes, NEW v \in Visibility,
         Lease(c, max, v)
  PROVE  StepKeeps
<1>1. PICK P \in SUBSET PromotedReady, D \in SUBSET Delivery, R \in SUBSET Receipt :
        Leases(c, v, P, D, R)
  BY LeaseEffect
<1>2. \A r \in DOMAIN idx : idx'[r].pay = idx[r].pay /\ idx'[r].body = idx[r].body
  BY <1>1, Promotion, SMT DEF Leases
<1>3. \A i \in receipts : \A j \in R : j.id # i.id
  <2>1. \A j \in R : /\ j.ref \in DOMAIN idx /\ idx[j.ref].id = j.id
                     /\ PromotedIdx[j.ref].state = READY
    BY <1>1 DEF Leases
  <2>2. \A i \in receipts : PromotedIdx[i.ref] = idx[i.ref]
    BY Promotion, EntryStates DEF INFLIGHT, DELAYED
  <2> QED
    <3>1. ASSUME NEW i \in receipts, NEW j \in R, j.id = i.id
          PROVE  FALSE
      <4>1. i.ref \in DOMAIN idx /\ idx[i.ref].id = i.id /\ idx[i.ref].state = INFLIGHT
        BY ReceiptStates
      <4>2. j.ref = i.ref
        <5>1. \A r, s \in DOMAIN idx : idx[r].id = idx[s].id => r = s
          BY DEF EngineInv, NothingLost
        <5> QED
          BY <2>1, <3>1, <4>1, <5>1
      <4> QED
        BY <2>1, <2>2, <4>1, <4>2 DEF READY, INFLIGHT
    <3> QED
      BY <3>1
<1>4. receipts \subseteq receipts'
  BY <1>1, <1>3 DEF Leases
<1> QED
  BY <1>2, <1>4 DEF StepKeeps, BodiesKept

LEMMA LeaseRollbackKeeps ==
  ASSUME EngineInv, NEW c \in Client, LeaseRollback(c)
  PROVE  StepKeeps
<1> DEFINE M == {i \in receipts : \E d \in leased[c] : SameLease(i, d)}
           back == {i \in M : i.ref \in DOMAIN idx}
<1>1. /\ At(c, "lease", "err") /\ receipts' = receipts \ M
      /\ leased' = [leased EXCEPT ![c] = {}]
      /\ idx' = [r \in DOMAIN idx |-> IF r \in Refs(back) THEN AsRolledBack(idx[r]) ELSE idx[r]]
  BY DEF LeaseRollback, AsRolledBack
<1>2. \A r \in DOMAIN idx : /\ AsRolledBack(idx[r]).pay = idx[r].pay
                            /\ AsRolledBack(idx[r]).body = idx[r].body
  BY RolledBackSlot DEF EngineInv, TypeOK
<1>3. BodiesKept
  <2> HIDE DEF back
  <2> QED
    BY <1>1, <1>2 DEF BodiesKept
<1>4. leased'[c] = {}
  BY <1>1 DEF EngineInv, TypeOK
<1> QED
  BY <1>1, <1>3, <1>4 DEF StepKeeps, Ended

LEMMA TickKeeps ==
  ASSUME EngineInv, Tick
  PROVE  StepKeeps
<1>1. PICK T \in SUBSET receipts, Y \in SUBSET receipts : Ticks(T, Y)
  BY TickEffect
<1>2. \A r \in DOMAIN idx : idx'[r].pay = idx[r].pay /\ idx'[r].body = idx[r].body
  BY <1>1, Promotion, SMT DEF Ticks
<1>3. \A i \in receipts \ receipts' : i.until <= now
  BY <1>1 DEF Ticks
<1> QED
  BY <1>2, <1>3 DEF StepKeeps, BodiesKept, Ended

LEMMA NextKeeps == EngineInv /\ [Next]_vars => StepKeeps
<1> SUFFICES ASSUME EngineInv, [Next]_vars PROVE StepKeeps
  OBVIOUS
<1>0. UNCHANGED <<idx, receipts>> => StepKeeps
  BY DEF StepKeeps, BodiesKept
<1>1. CASE Tock \/ UNCHANGED vars \/ TickExpire
  BY <1>0, <1>1 DEF Tock, TickExpire, vars, queueVars, wheels
<1>2. ASSUME NEW c \in Client, Call(c) PROVE StepKeeps
  <2>1. CASE \E n \in BatchSizes, delay \in Delays : EnqueueReserve(c, n, delay)
    BY <1>0, <2>1 DEF EnqueueReserve, wheels
  <2>2. CASE \E n \in LeaseSizes, v \in Visibility : Lease(c, n, v)
    BY <2>2, LeaseKeeps
  <2>3. CASE \E d \in delivered : Ack(c, d)
    BY <2>3, TakeLeaseKeeps DEF Ack
  <2>4. CASE \E d \in delivered, delay \in Delays : Nack(c, d, delay)
    BY <2>4, TakeLeaseKeeps DEF Nack
  <2>5. CASE \E S \in SUBSET dead, delay \in Delays : ReplayTake(c, S, delay)
    BY <1>0, <2>5 DEF ReplayTake, wheels
  <2> QED
    BY <1>2, <2>1, <2>2, <2>3, <2>4, <2>5 DEF Call
<1>3. ASSUME NEW c \in Client, Continue(c) PROVE StepKeeps
  <2>0. c \in Process
    BY DEF Process
  <2>1. CASE EnqueueAlloc(c) \/ EnqueueAllocFail(c)
    BY <1>0, <2>1 DEF EnqueueAlloc, EnqueueAllocFail, wheels
  <2>2. CASE EnqueueUndo(c)
    BY <2>2, WithoutKeepsBodies DEF EnqueueUndo, wheels, StepKeeps
  <2>3. CASE EnqueueApply(c)
    BY <2>3, EnqueueApplyKeeps
  <2>4. CASE LeaseReturn(c)
    BY <1>0, <2>4 DEF LeaseReturn, queueVars, wheels
  <2>5. CASE LeaseRollback(c)
    BY <2>5, LeaseRollbackKeeps
  <2>6. CASE AckRelease(c)
    BY <1>0, <2>6 DEF AckRelease, wheels
  <2>7. CASE AckFree(c)
    BY <2>7, WithoutKeepsBodies DEF AckFree, wheels, StepKeeps
  <2>8. CASE GiveBack(c)
    BY <2>0, <2>8, RestoreKeeps DEF GiveBack
  <2>9. CASE NackApply(c)
    BY <2>9, NackApplyKeeps
  <2>10. CASE ReplayReserve(c) \/ ReplayReject(c) \/ ReplayPutBack(c)
    BY <1>0, <2>10 DEF ReplayReserve, ReplayReject, ReplayPutBack, queueVars, wheels
  <2>11. CASE ReplayFree(c)
    BY <2>11, WithoutKeepsBodies DEF ReplayFree, wheels, StepKeeps
  <2> QED
    BY <1>3, <2>1, <2>2, <2>3, <2>4, <2>5, <2>6, <2>7, <2>8, <2>9, <2>10, <2>11 DEF Continue
<1>4. CASE Commit
  BY <1>0, <1>4 DEF Commit, CommitBatch, FailBatch, Settle, queueVars, wheels
<1>5. CASE Tick
  BY <1>5, TickKeeps
<1>6. CASE TickDead
  <2>1. PICK h \in held[Ticker] :
          \/ DeadLetter(h) /\ UNCHANGED <<receipts, inflight>>
          \/ RestoreLease(h)
    BY <1>6 DEF TickDead
  <2>2. Ticker \in Process
    BY DEF Process
  <2> QED
    BY <2>1, <2>2, DeadLetterKeeps, RestoreKeeps
<1> QED
  BY <1>1, <1>2, <1>3, <1>4, <1>5, <1>6 DEF Next, TickStep

\* The lease of the delivery d is on record, and its message where d has it.
DeliveryBacked(d) ==
  \E i \in receipts : /\ i.ref = d.ref /\ SameLease(i, d) /\ i.until = d.until
                      /\ idx[i.ref].pay = d.pay /\ idx[i.ref].body = d.body

\* While a delivery is prepared nobody else knows its nonce, so that until its
\* deadline its lease stays on record.
PreparedOK ==
  /\ \A e \in delivered : e.nonce <= nextNonce
  /\ \A c \in Client : \A d \in leased[c] :
       /\ d.nonce <= nextNonce
       /\ \A e \in delivered : e.nonce # d.nonce
       /\ \A b \in Client : \A e \in leased[b] : e.nonce = d.nonce => b = c
       /\ d.until > now => DeliveryBacked(d)

\* What a step does to the deliveries: nothing, a Lease call prepares new
\* ones, or a Lease call is over and has returned them or not.
Prepares(c, D) ==
  /\ leased' = [leased EXCEPT ![c] = D] /\ UNCHANGED delivered
  /\ D # {} => nextNonce' = nextNonce + 1
  /\ \A d \in D : d.nonce = nextNonce + 1 /\ DeliveryBacked(d)'

Returns(c) ==
  /\ leased' = [leased EXCEPT ![c] = {}] /\ UNCHANGED nextNonce
  /\ \A e \in delivered' : e \in delivered \/ \E d \in leased[c] : e.nonce = d.nonce

StepTells ==
  /\ now <= now' /\ nextNonce <= nextNonce'
  /\ \/ UNCHANGED <<leased, delivered>>
     \/ \E c \in Client : Returns(c)
     \/ \E c \in Client : \E D \in SUBSET Delivery : Prepares(c, D)

LEMMA LeaseTells ==
  ASSUME EngineInv, NEW c \in Client, NEW max \in LeaseSizes, NEW v \in Visibility,
         Lease(c, max, v)
  PROVE  StepTells
<1>0. now' = now /\ UNCHANGED delivered /\ nextNonce' \in {nextNonce, nextNonce + 1}
  BY DEF Lease, told
<1>1. PICK P \in SUBSET PromotedReady, D \in SUBSET Delivery, R \in SUBSET Receipt :
        Leases(c, v, P, D, R)
  BY LeaseEffect
<1>2. /\ leased' = [leased EXCEPT ![c] = D]
      /\ receipts' = {i \in receipts : \A j \in R : j.id # i.id} \cup R
      /\ Refs(P) \subseteq DOMAIN idx
      /\ \A d \in D : /\ d.ref \in Refs(P) /\ d.id = idx[d.ref].id
                      /\ d.pay = idx[d.ref].pay /\ d.body = idx[d.ref].body
                      /\ d.nonce = nextNonce + 1
                      /\ \E i \in R : i.ref = d.ref /\ SameLease(i, d) /\ i.until = d.until
      /\ \A r \in Refs(P) : idx'[r].pay = idx[r].pay /\ idx'[r].body = idx[r].body
      /\ \A i \in R : nextNonce' = nextNonce + 1
  BY <1>1 DEF Leases
<1>3. ASSUME NEW d \in D PROVE DeliveryBacked(d)'
  <2>1. PICK i \in R : i.ref = d.ref /\ SameLease(i, d) /\ i.until = d.until
    BY <1>2
  <2>2. i \in receipts' /\ idx'[i.ref].pay = d.pay /\ idx'[i.ref].body = d.body
    BY <1>2, <2>1
  <2> QED
    BY <2>1, <2>2 DEF DeliveryBacked, SameLease
<1>4. D # {} => nextNonce' = nextNonce + 1
  BY <1>2
<1>5. Prepares(c, D)
  BY <1>0, <1>2, <1>3, <1>4 DEF Prepares
<1>6. now <= now' /\ nextNonce <= nextNonce'
  BY <1>0, SMT DEF EngineInv, TypeOK
<1> QED
  BY <1>5, <1>6 DEF StepTells

LEMMA NextTells == EngineInv /\ [Next]_vars => StepTells
<1> SUFFICES ASSUME EngineInv, [Next]_vars PROVE StepTells
  OBVIOUS
<1> USE DEF leaseVars, told, counters
<1>0. UNCHANGED <<leased, delivered, nextNonce, now>> => StepTells
  BY SMT DEF StepTells, EngineInv, TypeOK
<1>1. CASE Tock
  <2>1. UNCHANGED <<leased, delivered, nextNonce>> /\ now' = now + 1
    BY <1>1 DEF Tock, localVars
  <2>2. now <= now' /\ nextNonce <= nextNonce'
    BY <2>1, SMT DEF EngineInv, TypeOK
  <2> QED
    BY <2>1, <2>2 DEF StepTells
<1>2. ASSUME NEW c \in Client, Call(c) PROVE StepTells
  <2>1. CASE \E n \in BatchSizes, delay \in Delays : EnqueueReserve(c, n, delay)
    BY <1>0, <2>1 DEF EnqueueReserve
  <2>2. CASE \E n \in LeaseSizes, v \in Visibility : Lease(c, n, v)
    BY <2>2, LeaseTells
  <2>3. CASE \E d \in delivered : Ack(c, d)
    BY <1>0, <2>3 DEF Ack
  <2>4. CASE \E d \in delivered, delay \in Delays : Nack(c, d, delay)
    BY <1>0, <2>4 DEF Nack
  <2>5. CASE \E S \in SUBSET dead, delay \in Delays : ReplayTake(c, S, delay)
    BY <1>0, <2>5 DEF ReplayTake
  <2> QED
    BY <1>2, <2>1, <2>2, <2>3, <2>4, <2>5 DEF Call
<1>3. ASSUME NEW c \in Client, Continue(c) PROVE StepTells
  <2>1. CASE EnqueueAlloc(c) \/ EnqueueAllocFail(c) \/ EnqueueUndo(c) \/ EnqueueApply(c)
    BY <1>0, <2>1 DEF EnqueueAlloc, EnqueueAllocFail, EnqueueUndo, EnqueueApply
  <2>2. CASE LeaseReturn(c)
    <3>1. /\ leased' = [leased EXCEPT ![c] = {}] /\ UNCHANGED <<now, nextNonce>>
          /\ delivered' = delivered \cup
               {[id |-> d.id, nonce |-> d.nonce, attempt |-> d.attempt, body |-> d.body,
                 got |-> content[d.pay]] : d \in leased[c]}
      BY <2>2 DEF LeaseReturn, queueVars
    <3>2. Returns(c)
      BY <3>1, SMT DEF Returns
    <3>3. now <= now' /\ nextNonce <= nextNonce'
      BY <3>1, SMT DEF EngineInv, TypeOK
    <3> QED
      BY <3>2, <3>3 DEF StepTells
  <2>3. CASE LeaseRollback(c)
    <3>1. /\ leased' = [leased EXCEPT ![c] = {}] /\ UNCHANGED <<now, nextNonce, delivered>>
      BY <2>3 DEF LeaseRollback
    <3>2. Returns(c)
      BY <3>1 DEF Returns
    <3>3. now <= now' /\ nextNonce <= nextNonce'
      BY <3>1, SMT DEF EngineInv, TypeOK
    <3> QED
      BY <3>2, <3>3 DEF StepTells
  <2>4. CASE AckRelease(c) \/ AckFree(c) \/ GiveBack(c) \/ NackApply(c)
    BY <1>0, <2>4 DEF AckRelease, AckFree, GiveBack, NackApply
  <2>5. CASE ReplayReserve(c) \/ ReplayReject(c) \/ ReplayPutBack(c) \/ ReplayFree(c)
    BY <1>0, <2>5 DEF ReplayReserve, ReplayReject, ReplayPutBack, ReplayFree, queueVars
  <2> QED
    BY <1>3, <2>1, <2>2, <2>3, <2>4, <2>5 DEF Continue
<1>4. CASE Commit
  BY <1>0, <1>4 DEF Commit, CommitBatch, FailBatch, Settle, queueVars
<1>5. CASE TickStep
  BY <1>0, <1>5 DEF TickStep, Tick, TickDead, TickExpire, queueVars
<1>6. CASE UNCHANGED vars
  BY <1>0, <1>6 DEF vars, queueVars, localVars
<1> QED
  BY <1>1, <1>2, <1>3, <1>4, <1>5, <1>6 DEF Next

\* The lease behind a delivery survives a step, unless it ends for a reason
\* that the delivery in preparation excludes.
LEMMA BackedKept ==
  ASSUME EngineInv, EngineInv', PreparedOK, StepKeeps, now <= now',
         NEW c \in Client, NEW d \in leased[c], d \in leased'[c], d.until > now'
  PROVE  DeliveryBacked(d)'
<1>1. d.until > now
  BY SMT DEF EngineInv, TypeOK, Delivery
<1>2. PICK i \in receipts :
        /\ i.ref = d.ref /\ SameLease(i, d) /\ i.until = d.until
        /\ idx[i.ref].pay = d.pay /\ idx[i.ref].body = d.body
  BY <1>1 DEF PreparedOK, DeliveryBacked
<1>3. i \in receipts'
  <2> SUFFICES ASSUME Ended(i) PROVE FALSE
    BY DEF StepKeeps
  <2>1. ~(i.until <= now)
    BY <1>1, <1>2, SMT DEF EngineInv, TypeOK, Delivery
  <2>2. \A e \in delivered : ~SameLease(i, e)
    BY <1>2 DEF PreparedOK, SameLease
  <2>3. \A b \in Client : \A e \in leased[b] : SameLease(i, e) => b = c
    BY <1>2 DEF PreparedOK, SameLease
  <2> QED
    BY <2>1, <2>2, <2>3 DEF Ended
<1>4. i.ref \in DOMAIN idx /\ i.ref \in DOMAIN idx'
  BY <1>3 DEF EngineInv, EntriesCurrent, Live
<1>5. idx'[i.ref].pay = d.pay /\ idx'[i.ref].body = d.body
  BY <1>2, <1>4 DEF StepKeeps, BodiesKept
<1> QED
  BY <1>2, <1>3, <1>5 DEF DeliveryBacked, SameLease

LEMMA PreparedNext ==
  ASSUME EngineInv, EngineInv', PreparedOK, StepKeeps, StepTells
  PROVE  PreparedOK'
<1>1. now <= now' /\ nextNonce <= nextNonce' /\ nextNonce \in Nat /\ nextNonce' \in Nat
  BY DEF StepTells, EngineInv, TypeOK
<1>2. /\ \A e \in delivered : e.nonce \in Nat
      /\ \A e \in delivered' : e.nonce \in Nat
      /\ \A c \in Client : \A d \in leased[c] : d.nonce \in Nat
      /\ \A c \in Client : \A d \in leased'[c] : d.nonce \in Nat
  BY SMT DEF EngineInv, TypeOK, Delivery
<1>3. CASE UNCHANGED <<leased, delivered>>
  <2>1. \A c \in Client : \A d \in leased'[c] : d.until > now' => DeliveryBacked(d)'
    BY <1>1, <1>3, BackedKept
  <2>2. \A e \in delivered' : e.nonce <= nextNonce'
    BY <1>1, <1>2, <1>3, SMT DEF PreparedOK
  <2>3. \A c \in Client : \A d \in leased'[c] : d.nonce <= nextNonce'
    BY <1>1, <1>2, <1>3, SMT DEF PreparedOK
  <2> QED
    BY <1>3, <2>1, <2>2, <2>3 DEF PreparedOK
<1>4. ASSUME NEW c \in Client, Returns(c) PROVE PreparedOK'
  <2>1. leased'[c] = {} /\ \A b \in Client \ {c} : leased'[b] = leased[b]
    BY <1>4 DEF Returns, EngineInv, TypeOK
  <2>2. \A e \in delivered' : e \in delivered \/ \E d \in leased[c] : e.nonce = d.nonce
    BY <1>4 DEF Returns
  <2>3. \A e \in delivered' : e.nonce <= nextNonce'
    BY <1>4, <2>2 DEF Returns, PreparedOK
  <2>4. ASSUME NEW b \in Client, NEW d \in leased'[b]
        PROVE  /\ d.nonce <= nextNonce'
               /\ \A e \in delivered' : e.nonce # d.nonce
               /\ \A a \in Client : \A e \in leased'[a] : e.nonce = d.nonce => a = b
    <3>1. b # c /\ d \in leased[b]
      BY <2>1
    <3>2. \A e \in delivered' : e.nonce # d.nonce
      BY <2>2, <3>1 DEF PreparedOK
    <3> QED
      BY <1>4, <2>1, <3>1, <3>2, SMT DEF Returns, PreparedOK
  <2>5. \A b \in Client : \A d \in leased'[b] : d.until > now' => DeliveryBacked(d)'
    BY <1>1, <2>1, BackedKept
  <2> QED
    BY <2>3, <2>4, <2>5 DEF PreparedOK
<1>5. ASSUME NEW c \in Client, NEW D \in SUBSET Delivery, Prepares(c, D) PROVE PreparedOK'
  <2>1. leased'[c] = D /\ \A b \in Client \ {c} : leased'[b] = leased[b]
    BY <1>5 DEF Prepares, EngineInv, TypeOK
  <2>2. /\ delivered' = delivered /\ (D # {} => nextNonce' = nextNonce + 1)
        /\ \A d \in D : d.nonce = nextNonce + 1 /\ DeliveryBacked(d)'
    BY <1>5 DEF Prepares
  <2>3. \A e \in delivered' : e.nonce <= nextNonce' /\ e.nonce # nextNonce + 1
    BY <1>1, <1>2, <2>2, SMT DEF PreparedOK
  <2>4. \A b \in Client \ {c} : \A d \in leased'[b] :
          d \in leased[b] /\ d.nonce <= nextNonce' /\ d.nonce # nextNonce + 1
    BY <1>1, <1>2, <2>1, SMT DEF PreparedOK
  <2>5. \A d \in leased'[c] : d.nonce = nextNonce + 1 /\ d.nonce <= nextNonce'
    BY <1>1, <2>1, <2>2, SMT
  <2>6. ASSUME NEW b \in Client, NEW d \in leased'[b]
        PROVE  /\ d.nonce <= nextNonce'
               /\ \A e \in delivered' : e.nonce # d.nonce
               /\ \A a \in Client : \A e \in leased'[a] : e.nonce = d.nonce => a = b
               /\ d.until > now' => DeliveryBacked(d)'
    <3>1. CASE b = c
      BY <2>1, <2>2, <2>3, <2>4, <2>5, <3>1
    <3>2. CASE b # c
      <4>1. d.until > now' => DeliveryBacked(d)'
        BY <1>1, <2>4, <3>2, BackedKept
      <4> QED
        BY <2>2, <2>4, <2>5, <3>2, <4>1, SMT DEF PreparedOK
    <3> QED
      BY <3>1, <3>2
  <2> QED
    BY <2>3, <2>6 DEF PreparedOK
<1> QED
  BY <1>3, <1>4, <1>5 DEF StepTells

LEMMA PreparedCorrect == Spec => []PreparedOK
<1>1. Init => PreparedOK
  BY DEF Init, PreparedOK
<1>2. EngineInv /\ EngineInv' /\ PreparedOK /\ [Next]_vars => PreparedOK'
  BY NextKeeps, NextTells, PreparedNext
<1> QED
  BY <1>1, <1>2, EngineCorrect, PTL DEF Spec

\* A delivery whose lease still runs is read from a payload slot that holds
\* what its producer sent, although Lease reads it after it has released the
\* lock: until the deadline the lease on record keeps the slot allocated.
THEOREM PayloadReadInTime == Spec => []DeliveredInTime
<1>1. EngineInv /\ PreparedOK => DeliveredInTime
  <2> SUFFICES ASSUME EngineInv, PreparedOK, NEW c \in Client, NEW d \in leased[c], d.until > now
               PROVE  content[d.pay] = d.body
    BY DEF DeliveredInTime
  <2>1. PICK i \in receipts : idx[i.ref].pay = d.pay /\ idx[i.ref].body = d.body
    BY DEF PreparedOK, DeliveryBacked
  <2>2. i.ref \in DOMAIN idx
    BY EntryStates
  <2>3. i.ref \notin Releasing
    BY HeldApart DEF Releasing, Process
  <2> QED
    BY <2>1, <2>2, <2>3 DEF EngineInv, PayloadIntact
<1> QED
  BY <1>1, EngineCorrect, PreparedCorrect, PTL

\* No step takes a lease away from its consumer before the deadline: it ends
\* early only by the consumer's own Ack or Nack or because its LEASE record
\* could not be committed.
THEOREM LeasesHonoured == Spec => LeaseHonoured
<1>1. EngineInv /\ [Next]_vars =>
        [\A i \in receipts \ receipts' :
           \/ i.until <= now
           \/ \E c \in Client : \E h \in held'[c] : SameLease(h, i)
           \/ \E c \in Client : At(c, "lease", "err") /\ \E d \in leased[c] : SameLease(i, d)]_vars
  BY NextKeeps DEF StepKeeps, Ended
<1> QED
  BY <1>1, EngineCorrect, PTL DEF Spec, LeaseHonoured
=============================================================================
