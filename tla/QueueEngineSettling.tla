------------------------ MODULE QueueEngineSettling -------------------------
(***************************************************************************)
(* Proofs about the queue runtime, second part: the steps that settle a    *)
(* lease (Ack, Nack, their failures, the move to the dead letters) and the *)
(* ticker, which takes back the expired ones, keep EngineInv.              *)
(***************************************************************************)
EXTENDS QueueEngineDelivery

\* Most steps are first-order; those that need arithmetic or the types of
\* functions and records cite SMT.
USE Zenon

\* Ack and Nack.

\* The lease on record becomes the lease the operation holds.
LEMMA TakeLeaseInv ==
  ASSUME EngineInv, NEW c \in Client, op[c] = "none", NEW d, NEW at \in Nat,
         TakeLease(c, d, at), NEW o \in {"ack", "nack"}, Goto(c, o, "commit"),
         UNCHANGED <<now, store, idx, ready, delayed, dead, reserved, counters,
                     enqueueVars, leased, tickVars, told>>
  PROVE  EngineInv'
<1> USE DEF store, counters, enqueueVars, tickVars, told
<1>1. PICK i \in receipts :
        /\ receipts' = {x \in receipts : x.id # i.id}
        /\ inflight' = {e \in inflight : e.id # i.id}
        /\ held' = [held EXCEPT ![c] =
             {[id |-> i.id, ref |-> i.ref, nonce |-> i.nonce, attempt |-> i.attempt,
               until |-> i.until, at |-> at, slot |-> GetByRef(idx, i.ref)]}]
  BY DEF TakeLease
<1>2. /\ i \in Receipt /\ i.ref \in DOMAIN idx /\ idx[i.ref].id = i.id
      /\ idx[i.ref].state = INFLIGHT /\ idx[i.ref] \in Slot
  BY EntryStates DEF EngineInv, TypeOK
<1>3. /\ idx[i.ref].nonce = i.nonce /\ idx[i.ref].attempts = i.attempt
      /\ idx[i.ref].until = i.until
  BY DEF EngineInv, EntriesCurrent
<1>a. PICK h : h = [id |-> i.id, ref |-> i.ref, nonce |-> i.nonce, attempt |-> i.attempt,
                    until |-> i.until, at |-> at, slot |-> idx[i.ref]]
  OBVIOUS
<1>4. /\ h \in Held /\ h.id = i.id /\ h.ref = i.ref /\ h.nonce = i.nonce
      /\ h.attempt = i.attempt /\ h.until = i.until /\ h.slot = idx[i.ref]
  BY <1>a, <1>2 DEF Held, Receipt
<1>5. held' = [held EXCEPT ![c] = {h}]
  BY <1>a, <1>1, <1>2 DEF GetByRef
<1>6. items[c] = {} /\ replaying[c] = {} /\ held[c] = {} /\ IsFiniteSet(dead)
  BY DEF EngineInv, LocalOK, Local
<1>7. /\ op' \in [Process -> Ops] /\ phase' \in [Process -> Phases]
      /\ op'[c] = o /\ phase'[c] = "commit"
      /\ \A q \in Process \ {c} : op'[q] = op[q] /\ phase'[q] = phase[q]
  BY GotoTyped DEF EngineInv, Process, Ops, Phases
<1>8. held'[c] = {h} /\ \A q \in Process \ {c} : held'[q] = held[q]
  BY <1>5 DEF EngineInv, TypeOK, Process
<1>9. TypeOK'
  <2>1. held' \in [Process -> SUBSET Held]
    BY <1>4, <1>5 DEF EngineInv, TypeOK, Process
  <2>2. receipts' \subseteq receipts /\ inflight' \subseteq inflight
    BY <1>1
  <2> QED
    BY <1>7, <2>1, <2>2 DEF EngineInv, TypeOK
<1>10. LocalOK'
  <2>1. Local(c)'
    BY <1>6, <1>7, <1>8 DEF EngineInv, LocalOK, Local, Size, Requests
  <2> QED
    BY <1>6, <1>7, <1>8, <2>1, LocalFrame, EngineAssumption DEF EngineInv, Process
<1>11. /\ IdsFresh' /\ SlotsOwnedOnce' /\ PayloadIntact'
       /\ \A r, s \in DOMAIN idx' : idx'[r].id = idx'[s].id => r = s
  <2>1. \A q \in Client : /\ At(q, "ack", "free")' <=> At(q, "ack", "free")
                          /\ At(q, "ack", "free") => held'[q] = held[q]
    BY <1>7, <1>8 DEF At, Process
  <2> QED
    BY <2>1, SlotsKept
<1>12. \A q \in Process : \A k \in held'[q] : (q = c /\ k = h) \/ (q # c /\ k \in held[q])
  BY <1>8
<1>13. receipts' = receipts \ {i}
  BY <1>1 DEF EngineInv, LeasedOnce
<1>14. EntriesCurrent'
  <2>1. \A r \in DOMAIN idx : Kept(r)
    BY DEF Kept
  <2>2. \A q \in Process : \A k \in held'[q] :
          /\ Live(k.ref, k.id, INFLIGHT)' /\ idx'[k.ref] = k.slot
          /\ k.slot.nonce = k.nonce /\ k.slot.attempts = k.attempt
          /\ k.slot.until = k.until
    <3>1. /\ Live(h.ref, h.id, INFLIGHT)' /\ idx'[h.ref] = h.slot
          /\ h.slot.nonce = h.nonce /\ h.slot.attempts = h.attempt
          /\ h.slot.until = h.until
      BY <1>2, <1>3, <1>4 DEF Live
    <3> QED
      BY <1>12, <2>1, <3>1, EntriesKept, EntryStates
  <2>3. \A j \in receipts' :
          /\ Live(j.ref, j.id, INFLIGHT)'
          /\ idx'[j.ref].nonce = j.nonce /\ idx'[j.ref].attempts = j.attempt
          /\ idx'[j.ref].until = j.until
    BY <1>13, <2>1, EntriesKept, EntryStates
  <2> QED
    BY <2>2, <2>3, SMT DEF EngineInv, EntriesCurrent, Live
<1>15. NothingLost'
  <2>1. \A j \in receipts : j \in receipts' \/ \E p \in Process : \E k \in held'[p] : k.ref = j.ref
    BY <1>4, <1>8, <1>13 DEF Process
  <2>2. \A q \in Process : held[q] \subseteq held'[q]
    BY <1>6, <1>8
  <2> QED
    BY <2>1, <2>2, SMT DEF EngineInv, NothingLost
<1>16. LeasedOnce'
  <2>1. inflight' = {WheelEntry(j) : j \in receipts'}
    <3>1. inflight = {WheelEntry(j) : j \in receipts}
      BY DEF EngineInv, LeasedOnce, WheelEntry
    <3>2. \A j \in receipts : WheelEntry(j).id = j.id
      BY DEF WheelEntry
    <3>3. ASSUME NEW e \in inflight' PROVE e \in {WheelEntry(j) : j \in receipts'}
      <4>1. PICK j \in receipts : e = WheelEntry(j)
        BY <1>1, <3>1
      <4>2. j.id # i.id
        BY <1>1, <3>2, <4>1
      <4> QED
        BY <1>1, <4>1, <4>2
    <3>4. ASSUME NEW j \in receipts' PROVE WheelEntry(j) \in inflight'
      BY <1>1, <3>1, <3>2
    <3> QED
      BY <3>3, <3>4
  <2>2. \A p \in Process : \A k \in held'[p] : \A j \in receipts' : j.id # k.id
    BY <1>1, <1>4, <1>12 DEF EngineInv, LeasedOnce
  <2>3. \A p \in Process : \A k \in held'[p] :
          \A q \in Process : \A l \in held'[q] : l.id = k.id => l = k /\ q = p
    <3>1. \A q \in Process : \A k \in held[q] : k.id # i.id
      BY DEF EngineInv, LeasedOnce
    <3> QED
      BY <1>4, <1>12, <3>1, SMT DEF EngineInv, LeasedOnce
  <2> QED
    BY <1>13, <2>1, <2>2, <2>3 DEF EngineInv, LeasedOnce, WheelEntry
<1>17. DeadOnce'
  BY DeadFrame DEF EngineInv
<1> QED
  BY <1>9, <1>10, <1>11, <1>14, <1>15, <1>16, <1>17 DEF EngineInv

LEMMA AckInv ==
  ASSUME EngineInv, NEW c \in Client, NEW d, Ack(c, d)
  PROVE  EngineInv'
BY TakeLeaseInv DEF Ack

LEMMA NackInv ==
  ASSUME EngineInv, NEW c \in Client, NEW d, NEW delay \in Delays, Nack(c, d, delay)
  PROVE  EngineInv'
<1>1. now + delay \in Nat
  BY EngineAssumption, SMT DEF EngineInv, TypeOK
<1> QED
  BY <1>1, TakeLeaseInv DEF Nack

\* A lease that one process holds is held by no other, and has no other ref.
LEMMA HeldApart ==
  ASSUME EngineInv, NEW p \in Process, NEW h \in held[p]
  PROVE  /\ h \in Held /\ h.ref \in DOMAIN idx /\ idx[h.ref].id = h.id /\ h.id \in Nat \ {0}
         /\ idx[h.ref].state = INFLIGHT /\ idx[h.ref] = h.slot /\ h.slot \in Slot
         /\ \A q \in Process : \A k \in held[q] : k.ref = h.ref => k = h /\ q = p
         /\ \A e \in ready : e.ref # h.ref
         /\ \A e \in delayed : e.ref # h.ref
         /\ \A i \in receipts : i.ref # h.ref
         /\ \A m \in dead \cup UNION {replaying[c] : c \in Client} : m.ref # h.ref
<1>1. /\ h \in Held /\ h.ref \in DOMAIN idx /\ idx[h.ref].id = h.id
      /\ idx[h.ref].state = INFLIGHT /\ idx[h.ref] = h.slot /\ h.slot \in Slot
  <2>1. h \in Held
    BY HeldStates
  <2>2. h.slot \in Slot
    BY <2>1 DEF Held
  <2> QED
    BY <2>1, <2>2, HeldStates
<1>2. h.id \in Nat \ {0}
  BY <1>1, SMT DEF EngineInv, IdsFresh
<1>3. \A q \in Process : \A k \in held[q] : k.ref = h.ref => k = h /\ q = p
  BY <1>1, EntryStates, SMT DEF EngineInv, LeasedOnce
<1>4. \A i \in receipts : i.ref # h.ref
  BY <1>1, EntryStates, SMT DEF EngineInv, LeasedOnce
<1>5. /\ \A e \in ready : e.ref # h.ref
      /\ \A e \in delayed : e.ref # h.ref
      /\ \A m \in dead \cup UNION {replaying[c] : c \in Client} : m.ref # h.ref
  BY <1>1, EntryStates DEF READY, DELAYED, INFLIGHT, DEAD
<1> QED
  BY <1>1, <1>2, <1>3, <1>4, <1>5

LEMMA NotReleasing ==
  ASSUME EngineInv, NEW p \in Process, NEW h \in held[p], ~At(p, "ack", "free")
  PROVE  h.ref \notin Releasing
<1> SUFFICES ASSUME NEW c \in Client, At(c, "ack", "free"), NEW k \in held[c], k.ref = h.ref
             PROVE  FALSE
  BY DEF Releasing
<1>1. c \in Process
  BY DEF Process
<1> QED
  BY <1>1, HeldApart

\* The payload slot is released: from now on the message owns its index slot only.
LEMMA AckReleaseInv ==
  ASSUME EngineInv, NEW c \in Client, AckRelease(c)
  PROVE  EngineInv'
<1> USE DEF wheels, counters, enqueueVars, leaseVars, tickVars
<1>1. PICK h \in held[c] :
        /\ alloc' = IF h.slot.id # 0 THEN alloc \ {h.slot.pay} ELSE alloc
        /\ acked' = acked \cup {h.id}
  BY DEF AckRelease
<1>2. /\ op[c] = "ack" /\ phase[c] = "ok" /\ Goto(c, "ack", "free")
      /\ UNCHANGED <<now, content, idx, wheels, dead, reserved, counters,
                     enqueueVars, leaseVars, tickVars, delivered>>
  BY DEF AckRelease, At
<1>3. /\ c \in Process /\ h \in Held /\ h.ref \in DOMAIN idx /\ h.slot = idx[h.ref] /\ h.id \in Nat
      /\ \A q \in Process : \A k \in held[q] : k.ref = h.ref => k = h /\ q = c
      /\ h.slot.id # 0
  BY HeldApart, SMT DEF Process
<1>4. alloc' = alloc \ {idx[h.ref].pay}
  BY <1>1, <1>3
<1>5. /\ op' \in [Process -> Ops] /\ phase' \in [Process -> Phases]
      /\ op'[c] = "ack" /\ phase'[c] = "free"
      /\ \A q \in Process \ {c} : op'[q] = op[q] /\ phase'[q] = phase[q]
  BY <1>2, GotoTyped DEF EngineInv, Process, Ops, Phases
<1>6. TypeOK'
  <2>1. alloc' \subseteq PageSlot /\ acked' \subseteq Nat
    BY <1>1, <1>3, <1>4 DEF EngineInv, TypeOK
  <2> QED
    BY <1>2, <1>5, <2>1 DEF EngineInv, TypeOK
<1>7. LocalOK'
  <2>1. Local(c)'
    BY <1>2, <1>5 DEF EngineInv, LocalOK, Local, Size, Requests
  <2> QED
    BY <1>2, <1>5, <2>1, LocalFrame, EngineAssumption DEF EngineInv, LocalOK, Process
<1>8. EntriesCurrent' /\ NothingLost' /\ LeasedOnce' /\ DeadOnce'
  BY <1>2, PlacesFrame DEF EngineInv, places
<1>9. IdsFresh'
  BY <1>2, <1>6, IdsFrame, SMT DEF EngineInv, TypeOK
<1>10. Releasing' = Releasing \cup {h.ref}
  <2>1. \A q \in Client \ {c} : At(q, "ack", "free")' <=> At(q, "ack", "free")
    BY <1>5 DEF At, Process
  <2>2. At(c, "ack", "free")' /\ ~At(c, "ack", "free")
    BY <1>2, <1>5 DEF At
  <2>3. \A k \in held[c] : k = h
    BY DEF EngineInv, LocalOK, Local
  <2> QED
    BY <1>2, <1>3, <2>1, <2>2, <2>3 DEF Releasing
<1>11. h.ref \notin Releasing
  BY <1>2, <1>3, NotReleasing DEF At
<1>12. LivePays' = LivePays \ {idx[h.ref].pay}
  <2>1. \A r \in DOMAIN idx \ Releasing : idx[r].pay = idx[h.ref].pay => r = h.ref
    BY <1>3, <1>11 DEF EngineInv, SlotsOwnedOnce
  <2>2. \A p : p \in LivePays' <=> \E r \in DOMAIN idx \ Releasing : r # h.ref /\ p = idx[r].pay
    BY <1>2, <1>10 DEF LivePays
  <2>3. \A p : p \in LivePays <=> \E r \in DOMAIN idx \ Releasing : p = idx[r].pay
    BY DEF LivePays
  <2>4. \A p : p \in LivePays' => p \in LivePays /\ p # idx[h.ref].pay
    BY <2>1, <2>2, <2>3
  <2>5. \A p : p \in LivePays /\ p # idx[h.ref].pay => p \in LivePays'
    BY <2>2, <2>3
  <2> QED
    BY <2>4, <2>5
<1>13. idx[h.ref].pay \in LivePays
  BY <1>3, <1>11 DEF LivePays
<1>14. Pending' = Pending
  BY <1>2 DEF Pending
<1>15. SlotsOwnedOnce'
  <2>1. idx[h.ref].pay \notin DOMAIN idx \cup Refs(Pending) \cup Pays(Pending)
    BY <1>13 DEF EngineInv, SlotsOwnedOnce, Refs, Pays
  <2>2. alloc' = DOMAIN idx' \cup LivePays' \cup Refs(Pending') \cup Pays(Pending')
    BY <1>2, <1>4, <1>12, <1>14, <2>1, SMT DEF EngineInv, SlotsOwnedOnce
  <2> QED
    BY <1>2, <1>10, <1>12, <1>14, <2>2 DEF EngineInv, SlotsOwnedOnce
<1>16. PayloadIntact'
  BY <1>2, <1>10, <1>14 DEF EngineInv, PayloadIntact
<1> QED
  BY <1>6, <1>7, <1>8, <1>9, <1>15, <1>16 DEF EngineInv

LEMMA AckFreeInv ==
  ASSUME EngineInv, NEW c \in Client, AckFree(c)
  PROVE  EngineInv'
<1> USE DEF wheels, counters, enqueueVars, tickVars, told
<1>1. PICK h \in held[c] : idx' = Without(idx, {h.ref}) /\ alloc' = alloc \ {h.ref}
  BY DEF AckFree
<1>2. /\ op[c] = "ack" /\ phase[c] = "free" /\ Goto(c, "none", "idle")
      /\ held' = [held EXCEPT ![c] = {}]
      /\ UNCHANGED <<now, content, wheels, dead, reserved, counters, enqueueVars,
                     leased, tickVars, told>>
  BY DEF AckFree, At
<1>3. /\ c \in Process /\ h.ref \in DOMAIN idx
      /\ \A q \in Process : \A k \in held[q] : k.ref = h.ref => k = h /\ q = c
      /\ \A e \in ready : e.ref # h.ref
      /\ \A e \in delayed : e.ref # h.ref
      /\ \A i \in receipts : i.ref # h.ref
      /\ \A m \in dead \cup UNION {replaying[d] : d \in Client} : m.ref # h.ref
  <2>1. c \in Process
    BY DEF Process
  <2> QED
    BY <2>1, HeldApart
<1>4. held'[c] = {} /\ \A q \in Process \ {c} : held'[q] = held[q]
  BY <1>2 DEF EngineInv, TypeOK, Process
<1>5. items[c] = {} /\ replaying[c] = {} /\ IsFiniteSet(dead) /\ \A k \in held[c] : k = h
  BY <1>2 DEF EngineInv, LocalOK, Local
<1>6. /\ op' \in [Process -> Ops] /\ phase' \in [Process -> Phases]
      /\ op'[c] = "none" /\ phase'[c] = "idle"
      /\ \A q \in Process \ {c} : op'[q] = op[q] /\ phase'[q] = phase[q]
      /\ LocalOK'
  BY <1>2, <1>4, <1>5, ReturnTyped, EngineAssumption DEF Process
<1>7. /\ DOMAIN idx' = DOMAIN idx \ {h.ref}
      /\ \A r \in DOMAIN idx : r # h.ref => Kept(r)
      /\ idx' = [r \in DOMAIN idx' |-> idx'[r]]
  BY <1>1 DEF Without, Kept
<1>8. TypeOK'
  <2>1. DOMAIN idx' \subseteq PageSlot /\ \A r \in DOMAIN idx' : idx'[r] \in Slot
    BY <1>7 DEF EngineInv, TypeOK, Kept
  <2>2. idx' \in [DOMAIN idx' -> Slot]
    BY <1>7, <2>1
  <2>3. alloc' \subseteq PageSlot
    BY <1>1 DEF EngineInv, TypeOK
  <2>4. held' \in [Process -> SUBSET Held]
    BY <1>2 DEF EngineInv, TypeOK, Process
  <2> QED
    BY <1>2, <1>6, <2>1, <2>2, <2>3, <2>4 DEF EngineInv, TypeOK
<1>9. IdsFresh'
  BY <1>2, <1>7, SMT DEF EngineInv, IdsFresh, Kept
<1>10. EntriesCurrent'
  <2>1. \A p \in Process : \A k \in held'[p] :
          /\ Live(k.ref, k.id, INFLIGHT)' /\ idx'[k.ref] = k.slot
          /\ k.slot.nonce = k.nonce /\ k.slot.attempts = k.attempt
          /\ k.slot.until = k.until
    <3>1. \A p \in Process : \A k \in held'[p] : k \in held[p] /\ Kept(k.ref)
      BY <1>3, <1>4, <1>7, EntryStates
    <3> QED
      BY <3>1, EntriesKept
  <2>2. /\ \A e \in ready : Kept(e.ref)
        /\ \A e \in delayed : Kept(e.ref)
        /\ \A i \in receipts : Kept(i.ref)
        /\ \A m \in dead \cup UNION {replaying[d] : d \in Client} : Kept(m.ref)
    BY <1>3, <1>7, EntryStates
  <2>3. \A e \in ready' : Live(e.ref, e.id, READY)'
    BY <1>2, <2>2, EntriesKept
  <2>4. \A e \in delayed' : Live(e.ref, e.id, DELAYED)' /\ idx'[e.ref].avail = e.deadline
    BY <1>2, <2>2, EntriesKept
  <2>5. \A i \in receipts' :
          /\ Live(i.ref, i.id, INFLIGHT)'
          /\ idx'[i.ref].nonce = i.nonce /\ idx'[i.ref].attempts = i.attempt
          /\ idx'[i.ref].until = i.until
    BY <1>2, <2>2, EntriesKept
  <2>6. \A m \in (dead \cup UNION {replaying[d] : d \in Client})' :
          Live(m.ref, m.id, DEAD)' /\ idx'[m.ref].pay = m.pay /\ idx'[m.ref].body = m.body
    BY <1>2, <2>2, EntriesKept, SMT
  <2> QED
    BY <2>1, <2>3, <2>4, <2>5, <2>6 DEF EntriesCurrent
<1>11. NothingLost'
  <2>1. \A p \in Process : \A k \in held[p] : k.ref = h.ref \/ k \in held'[p]
    BY <1>4, <1>5
  <2>2. \A r, s \in DOMAIN idx' : idx'[r].id = idx'[s].id => r = s
    BY <1>7 DEF EngineInv, NothingLost, Kept
  <2>3. \A r \in DOMAIN idx' : r \in DOMAIN idx /\ r # h.ref
    BY <1>7
  <2> QED
    BY <1>2, <2>1, <2>2, <2>3 DEF EngineInv, NothingLost
<1>12. LeasedOnce' /\ DeadOnce'
  <2>1. \A p \in Process : \A k \in held'[p] : k \in held[p]
    BY <1>4
  <2>2. LeasedOnce'
    BY <1>2, <2>1, HeldFewer DEF EngineInv
  <2>3. DeadOnce'
    BY <1>2, DeadFrame DEF EngineInv
  <2> QED
    BY <2>2, <2>3
<1>13. Releasing' = Releasing \ {h.ref} /\ h.ref \in Releasing
  <2>1. \A q \in Client \ {c} : (At(q, "ack", "free")' <=> At(q, "ack", "free")) /\ held'[q] = held[q]
    BY <1>4, <1>6 DEF At, Process
  <2>2. At(c, "ack", "free") /\ ~At(c, "ack", "free")'
    BY <1>2, <1>6 DEF At
  <2>3. h.ref \in Releasing
    BY <1>3, <2>2 DEF Releasing
  <2>4. \A r \in DOMAIN idx' : r \in Releasing' <=> r \in Releasing
    BY <1>4, <1>5, <1>7, <2>1, <2>2 DEF Releasing
  <2>5. Releasing \subseteq DOMAIN idx /\ Releasing' \subseteq DOMAIN idx'
    BY DEF Releasing
  <2> QED
    BY <1>7, <2>3, <2>4, <2>5
<1>14. DOMAIN idx' \ Releasing' = DOMAIN idx \ Releasing
  BY <1>7, <1>13
<1>15. LivePays' = LivePays
  BY <1>7, <1>13, <1>14, SMT DEF LivePays, Kept
<1>16. Pending' = Pending
  BY <1>2 DEF Pending
<1>17. SlotsOwnedOnce'
  <2>1. h.ref \notin LivePays \cup Refs(Pending) \cup Pays(Pending)
    BY <1>3 DEF EngineInv, SlotsOwnedOnce, Refs, Pays
  <2>2. alloc' = DOMAIN idx' \cup LivePays' \cup Refs(Pending') \cup Pays(Pending')
    BY <1>1, <1>7, <1>15, <1>16, <2>1, SMT DEF EngineInv, SlotsOwnedOnce
  <2>3. \A r, s \in DOMAIN idx' \ Releasing' : idx'[r].pay = idx'[s].pay => r = s
    BY <1>7, <1>13, <1>14, SMT DEF EngineInv, SlotsOwnedOnce, Kept
  <2> QED
    BY <1>7, <1>15, <1>16, <2>2, <2>3 DEF EngineInv, SlotsOwnedOnce
<1>18. PayloadIntact'
  BY <1>2, <1>7, <1>13, <1>14, <1>16 DEF EngineInv, PayloadIntact, Kept
<1> QED
  BY <1>6, <1>8, <1>9, <1>10, <1>11, <1>12, <1>17, <1>18 DEF EngineInv

\* A held lease is settled: its message moves from the hands of p to one of
\* the lists, in the state that list asks for, and nothing else moves.
Moved(p, h) ==
  /\ held' = [held EXCEPT ![p] = @ \ {h}] /\ replaying' = replaying
  /\ DOMAIN idx' = DOMAIN idx /\ \A r \in DOMAIN idx \ {h.ref} : idx'[r] = idx[r]
  /\ idx'[h.ref].id = h.id
  /\ ready \subseteq ready' /\ delayed \subseteq delayed' /\ receipts \subseteq receipts'
  /\ dead \subseteq dead'
  /\ \A e \in ready' \ ready : e.ref = h.ref /\ e.id = h.id /\ idx'[h.ref].state = READY
  /\ \A e \in delayed' \ delayed :
       /\ e.ref = h.ref /\ e.id = h.id /\ idx'[h.ref].state = DELAYED
       /\ idx'[h.ref].avail = e.deadline
  /\ \A i \in receipts' \ receipts :
       /\ i.ref = h.ref /\ i.id = h.id /\ idx'[h.ref].state = INFLIGHT
       /\ idx'[h.ref].nonce = i.nonce /\ idx'[h.ref].attempts = i.attempt
       /\ idx'[h.ref].until = i.until
  /\ \A i, j \in receipts' \ receipts : i = j
  /\ \A m \in dead' \ dead :
       /\ m.ref = h.ref /\ m.id = h.id /\ idx'[h.ref].state = DEAD
       /\ idx'[h.ref].pay = m.pay /\ idx'[h.ref].body = m.body
  /\ \A m, n \in dead' \ dead : m = n
  /\ inflight' = {WheelEntry(i) : i \in receipts'}
  /\ \/ \E e \in ready' : e.ref = h.ref
     \/ \E e \in delayed' : e.ref = h.ref
     \/ \E i \in receipts' : i.ref = h.ref
     \/ \E m \in dead' : m.ref = h.ref

LEMMA Settled ==
  ASSUME EngineInv, NEW p \in Process, NEW h \in held[p], Moved(p, h)
  PROVE  EntriesCurrent' /\ NothingLost' /\ LeasedOnce' /\ DeadOnce'
<1> USE DEF Moved
<1>1. /\ h.ref \in DOMAIN idx /\ idx[h.ref].id = h.id
      /\ \A q \in Process : \A k \in held[q] : k.ref = h.ref => k = h /\ q = p
      /\ \A e \in ready : e.ref # h.ref
      /\ \A e \in delayed : e.ref # h.ref
      /\ \A i \in receipts : i.ref # h.ref
      /\ \A m \in dead \cup UNION {replaying[c] : c \in Client} : m.ref # h.ref
  BY HeldApart, SMT
<1>2. \A r \in DOMAIN idx : r # h.ref => Kept(r)
  BY DEF Kept
<1>3. \A q \in Process : \A k \in held'[q] : k \in held[q] /\ k.ref # h.ref
  BY <1>1, SMT DEF EngineInv, TypeOK
<1>4. \A q \in Process : \A k \in held[q] : k.ref = h.ref \/ k \in held'[q]
  BY DEF EngineInv, TypeOK
<1>5. \A r \in DOMAIN idx : idx'[r].id = idx[r].id
  BY <1>1
<1>6. \A r, s \in DOMAIN idx' : idx'[r].id = idx'[s].id => r = s
  BY <1>5 DEF EngineInv, NothingLost
<1>7. EntriesCurrent'
  <2>1. \A e \in ready' : Live(e.ref, e.id, READY)'
    <3>1. \A e \in ready : Live(e.ref, e.id, READY)'
      BY <1>1, <1>2, EntriesKept, EntryStates
    <3> QED
      BY <1>1, <3>1 DEF Live
  <2>2. \A e \in delayed' : Live(e.ref, e.id, DELAYED)' /\ idx'[e.ref].avail = e.deadline
    <3>1. \A e \in delayed : Live(e.ref, e.id, DELAYED)' /\ idx'[e.ref].avail = e.deadline
      BY <1>1, <1>2, EntriesKept, EntryStates
    <3> QED
      BY <1>1, <3>1, SMT DEF Live
  <2>3. \A i \in receipts' :
          /\ Live(i.ref, i.id, INFLIGHT)'
          /\ idx'[i.ref].nonce = i.nonce /\ idx'[i.ref].attempts = i.attempt
          /\ idx'[i.ref].until = i.until
    <3>1. \A i \in receipts :
            /\ Live(i.ref, i.id, INFLIGHT)'
            /\ idx'[i.ref].nonce = i.nonce /\ idx'[i.ref].attempts = i.attempt
            /\ idx'[i.ref].until = i.until
      BY <1>1, <1>2, EntriesKept, EntryStates
    <3> QED
      BY <1>1, <3>1, SMT DEF Live
  <2>4. \A q \in Process : \A k \in held'[q] :
          /\ Live(k.ref, k.id, INFLIGHT)' /\ idx'[k.ref] = k.slot
          /\ k.slot.nonce = k.nonce /\ k.slot.attempts = k.attempt
          /\ k.slot.until = k.until
    <3>1. \A q \in Process : \A k \in held'[q] : k \in held[q] /\ Kept(k.ref)
      BY <1>2, <1>3, HeldStates
    <3> QED
      BY <3>1, HeldCurrent
  <2>5. \A m \in dead' \cup UNION {replaying'[c] : c \in Client} :
          Live(m.ref, m.id, DEAD)' /\ idx'[m.ref].pay = m.pay /\ idx'[m.ref].body = m.body
    <3>1. \A m \in dead \cup UNION {replaying[c] : c \in Client} :
            Live(m.ref, m.id, DEAD)' /\ idx'[m.ref].pay = m.pay /\ idx'[m.ref].body = m.body
      BY <1>1, <1>2, EntriesKept, EntryStates
    <3>2. \A m \in dead' \ dead :
            Live(m.ref, m.id, DEAD)' /\ idx'[m.ref].pay = m.pay /\ idx'[m.ref].body = m.body
      BY <1>1 DEF Live
    <3> QED
      BY <3>1, <3>2, SMT
  <2> QED
    BY <2>1, <2>2, <2>3, <2>4, <2>5 DEF EntriesCurrent
<1>8. NothingLost'
  <2>1. ASSUME NEW r \in DOMAIN idx, r # h.ref
        PROVE  \/ \E e \in ready' : e.ref = r
               \/ \E e \in delayed' : e.ref = r
               \/ \E i \in receipts' : i.ref = r
               \/ \E q \in Process : \E k \in held'[q] : k.ref = r
               \/ \E m \in dead' : m.ref = r
               \/ \E c \in Client : \E m \in replaying'[c] : m.ref = r
    BY <1>4, <2>1, SMT DEF EngineInv, NothingLost
  <2> QED
    BY <1>6, <2>1 DEF NothingLost
<1>9. \A q \in Process : \A k \in held'[q] : k.id # h.id
  <2>1. \A r \in DOMAIN idx : idx[r].id = h.id => r = h.ref
    BY <1>1, SMT DEF EngineInv, NothingLost
  <2> QED
    BY <1>3, <2>1, EntryStates, SMT
<1>10. LeasedOnce'
  <2>1. \A i, j \in receipts' : i.id = j.id => i = j
    <3>1. \A i \in receipts : i.id # h.id
      BY DEF EngineInv, LeasedOnce
    <3> QED
      BY <3>1, SMT DEF EngineInv, LeasedOnce
  <2>2. \A q \in Process : \A k \in held'[q] : \A i \in receipts' : i.id # k.id
    BY <1>3, <1>9, SMT DEF EngineInv, LeasedOnce
  <2>3. \A q \in Process : \A k \in held'[q] :
          \A s \in Process : \A l \in held'[s] : l.id = k.id => l = k /\ s = q
    BY <1>3, SMT DEF EngineInv, LeasedOnce
  <2> QED
    BY <2>1, <2>2, <2>3, SMT DEF LeasedOnce, WheelEntry
<1>11. DeadOnce'
  <2>1. \A m \in dead \cup UNION {replaying[c] : c \in Client} : m.id # h.id
    <3>1. \A r \in DOMAIN idx : idx[r].id = h.id => r = h.ref
      BY <1>1, SMT DEF EngineInv, NothingLost
    <3>2. \A m \in dead \cup UNION {replaying[c] : c \in Client} :
            m.ref \in DOMAIN idx /\ idx[m.ref].id = m.id
      BY EntryStates
    <3>3. \A m \in dead \cup UNION {replaying[c] : c \in Client} : m.ref # h.ref
      BY <1>1
    <3> SUFFICES ASSUME NEW m \in dead \cup UNION {replaying[c] : c \in Client}, m.id = h.id
                 PROVE  FALSE
      OBVIOUS
    <3>4. m.ref \in DOMAIN idx /\ idx[m.ref].id = h.id /\ m.ref # h.ref
      BY <3>2, <3>3
    <3> QED
      BY <3>1, <3>4
  <2>2. /\ \A m \in dead' \ dead : m.id = h.id
        /\ \A m, n \in dead' \ dead : m = n
    <3>1. \A m \in dead' \ dead : m.id = h.id
      OBVIOUS
    <3>2. \A m, n \in dead' \ dead : m = n
      OBVIOUS
    <3> QED
      BY <3>1, <3>2
  <2>3. ASSUME NEW m \in dead', NEW n \in dead', m.id = n.id
        PROVE  m = n
    <3>1. CASE m \in dead /\ n \in dead
      BY <2>3, <3>1 DEF EngineInv, DeadOnce
    <3>2. CASE m \notin dead /\ n \notin dead
      BY <2>2, <3>2
    <3>3. CASE m \in dead /\ n \notin dead
      BY <2>1, <2>2, <2>3, <3>3
    <3>4. CASE m \notin dead /\ n \in dead
      BY <2>1, <2>2, <2>3, <3>4
    <3> QED
      BY <3>1, <3>2, <3>3, <3>4
  <2>4. \A c \in Client : \A m \in replaying[c] : \A n \in dead' : n.id # m.id
    <3> SUFFICES ASSUME NEW c \in Client, NEW m \in replaying[c], NEW n \in dead'
                 PROVE  n.id # m.id
      OBVIOUS
    <3>1. m.id # h.id
      BY <2>1
    <3>2. CASE n \in dead
      BY <3>2 DEF EngineInv, DeadOnce
    <3>3. CASE n \notin dead
      BY <2>2, <3>1, <3>3
    <3> QED
      BY <3>2, <3>3
  <2> QED
    BY <2>3, <2>4, SMT DEF EngineInv, DeadOnce
<1> QED
  BY <1>7, <1>8, <1>10, <1>11

\* restoreLease finds the slot as it was and no receipt for the message.
LEMMA RestoreEffect ==
  ASSUME EngineInv, NEW p \in Process, NEW h \in held[p], RestoreLease(h)
  PROVE  /\ idx' = idx
         /\ \E i \in Receipt :
              /\ i.ref = h.ref /\ i.id = h.id /\ i.nonce = h.nonce /\ i.attempt = h.attempt
              /\ i.until = h.until
              /\ receipts' = receipts \cup {i}
              /\ inflight' = inflight \cup {WheelEntry(i)}
<1>1. /\ h \in Held /\ h.ref \in DOMAIN idx /\ idx[h.ref].id = h.id /\ h.id \in Nat \ {0}
      /\ idx[h.ref].state = INFLIGHT /\ idx[h.ref] = h.slot /\ h.slot \in Slot
  BY HeldApart
<1>2. h.slot.nonce = h.nonce /\ h.slot.attempts = h.attempt /\ h.slot.until = h.until
  BY DEF EngineInv, EntriesCurrent
<1>3. ~(h.slot.id = 0 \/ \E i \in receipts : i.id = h.slot.id)
  BY <1>1 DEF EngineInv, LeasedOnce
<1>4. ASSUME NEW t, t = [h.slot EXCEPT !.state = INFLIGHT, !.until = h.until, !.nonce = h.nonce]
      PROVE  t = h.slot
  <2>1. PICK s \in Slot : s = h.slot
    BY <1>1
  <2>2. s.state = INFLIGHT /\ s.nonce = h.nonce /\ s.until = h.until
    BY <1>1, <1>2, <2>1
  <2>3. t = [s EXCEPT !.state = INFLIGHT, !.until = h.until, !.nonce = h.nonce]
    BY <1>4, <2>1
  <2> QED
    BY <2>1, <2>2, <2>3 DEF Slot
<1>5. idx' = Put(idx, h.ref, h.slot)
  BY <1>3, <1>4 DEF RestoreLease
<1>6. idx' = idx
  <2>1. idx = [r \in DOMAIN idx |-> idx[r]]
    BY DEF EngineInv, TypeOK
  <2>2. DOMAIN idx \cup {h.ref} = DOMAIN idx
    BY <1>1
  <2>3. \A r \in DOMAIN idx : (IF r = h.ref THEN h.slot ELSE idx[r]) = idx[r]
    BY <1>1
  <2> QED
    BY <1>5, <2>1, <2>2, <2>3 DEF Put
<1>7. PICK i : i = [id |-> h.slot.id, ref |-> h.ref, nonce |-> h.nonce,
                    attempt |-> h.attempt, until |-> h.until]
  OBVIOUS
<1>8. /\ i \in Receipt /\ i.ref = h.ref /\ i.id = h.id /\ i.nonce = h.nonce
      /\ i.attempt = h.attempt /\ i.until = h.until
  BY <1>1, <1>7 DEF Receipt, Held
<1>9. /\ receipts' = receipts \cup {i}
      /\ inflight' = inflight \cup {[id |-> h.slot.id, ref |-> h.ref, deadline |-> h.until,
                                     nonce |-> h.nonce]}
  BY <1>3, <1>7 DEF RestoreLease
<1>10. WheelEntry(i) = [id |-> h.slot.id, ref |-> h.ref, deadline |-> h.until, nonce |-> h.nonce]
  BY <1>7 DEF WheelEntry
<1> QED
  BY <1>6, <1>8, <1>9, <1>10

LEMMA RestoreInv ==
  ASSUME EngineInv, NEW p \in Process, NEW h \in held[p], RestoreLease(h),
         held' = [held EXCEPT ![p] = @ \ {h}], UNCHANGED <<ready, delayed, dead, replaying>>
  PROVE  /\ EntriesCurrent' /\ NothingLost' /\ LeasedOnce' /\ DeadOnce'
         /\ idx' = idx /\ receipts' \subseteq Receipt
         /\ inflight' \subseteq [id : Nat, ref : PageSlot, deadline : Nat, nonce : Nat]
<1>1. PICK i \in Receipt :
        /\ i.ref = h.ref /\ i.id = h.id /\ i.nonce = h.nonce /\ i.attempt = h.attempt
        /\ i.until = h.until
        /\ receipts' = receipts \cup {i}
        /\ inflight' = inflight \cup {WheelEntry(i)}
  BY RestoreEffect
<1>2. idx' = idx
  BY RestoreEffect
<1>3. /\ h.ref \in DOMAIN idx /\ idx[h.ref].id = h.id /\ idx[h.ref].state = INFLIGHT
      /\ idx[h.ref] = h.slot
  BY HeldApart
<1>4. h.slot.nonce = h.nonce /\ h.slot.attempts = h.attempt /\ h.slot.until = h.until
  BY DEF EngineInv, EntriesCurrent
<1>5. inflight' = {WheelEntry(j) : j \in receipts'}
  <2>1. inflight = {WheelEntry(j) : j \in receipts}
    BY DEF EngineInv, LeasedOnce, WheelEntry
  <2>2. inflight' = {WheelEntry(j) : j \in receipts} \cup {WheelEntry(i)}
    BY <1>1, <2>1
  <2>3. receipts' = receipts \cup {i}
    BY <1>1
  <2> QED
    BY <2>2, <2>3
<1>6. \A j \in receipts' \ receipts : j = i
  BY <1>1
<1>a. Moved(p, h)
  BY <1>1, <1>2, <1>3, <1>4, <1>5, <1>6 DEF Moved
<1>7. EntriesCurrent' /\ NothingLost' /\ LeasedOnce' /\ DeadOnce'
  BY <1>a, Settled
<1>8. WheelEntry(i) \in [id : Nat, ref : PageSlot, deadline : Nat, nonce : Nat]
  BY DEF WheelEntry, Receipt
<1>9. receipts' \subseteq Receipt
  BY <1>1 DEF EngineInv, TypeOK
<1>10. inflight' \subseteq [id : Nat, ref : PageSlot, deadline : Nat, nonce : Nat]
  BY <1>1, <1>8 DEF EngineInv, TypeOK
<1> QED
  BY <1>2, <1>7, <1>9, <1>10

LEMMA GiveBackInv ==
  ASSUME EngineInv, NEW c \in Client, GiveBack(c)
  PROVE  EngineInv'
<1> USE DEF store, counters, enqueueVars, tickVars, told
<1>1. PICK h \in held[c] : RestoreLease(h)
  BY DEF GiveBack
<1>2. /\ op[c] \in {"ack", "nack"} /\ phase[c] = "err" /\ Goto(c, "none", "idle")
      /\ held' = [held EXCEPT ![c] = {}]
      /\ UNCHANGED <<now, store, ready, delayed, dead, reserved, counters,
                     enqueueVars, leased, tickVars, told>>
  BY DEF GiveBack
<1>3. items[c] = {} /\ replaying[c] = {} /\ IsFiniteSet(dead) /\ \A k \in held[c] : k = h
  BY <1>2 DEF EngineInv, LocalOK, Local
<1>4. held'[c] = {} /\ \A q \in Process \ {c} : held'[q] = held[q]
  BY <1>2 DEF EngineInv, TypeOK, Process
<1>5. /\ op' \in [Process -> Ops] /\ phase' \in [Process -> Phases]
      /\ op'[c] = "none" /\ phase'[c] = "idle"
      /\ \A q \in Process \ {c} : op'[q] = op[q] /\ phase'[q] = phase[q]
      /\ LocalOK'
  BY <1>2, <1>3, <1>4, ReturnTyped, EngineAssumption DEF Process
<1>6. held[c] \ {h} = {} /\ c \in Process
  BY <1>3 DEF Process
<1>7. held' = [held EXCEPT ![c] = @ \ {h}]
  BY <1>2, <1>6
<1>8. /\ EntriesCurrent' /\ NothingLost' /\ LeasedOnce' /\ DeadOnce'
      /\ idx' = idx /\ receipts' \subseteq Receipt
      /\ inflight' \subseteq [id : Nat, ref : PageSlot, deadline : Nat, nonce : Nat]
  BY <1>1, <1>2, <1>6, <1>7, RestoreInv
<1>9. TypeOK'
  <2>1. held' \in [Process -> SUBSET Held]
    BY <1>2 DEF EngineInv, TypeOK, Process
  <2> QED
    BY <1>2, <1>5, <1>8, <2>1 DEF EngineInv, TypeOK
<1>10. IdsFresh' /\ SlotsOwnedOnce' /\ PayloadIntact'
  <2>1. \A q \in Client : /\ At(q, "ack", "free")' <=> At(q, "ack", "free")
                          /\ At(q, "ack", "free") => held'[q] = held[q]
    BY <1>2, <1>4, <1>5 DEF At, Process
  <2> QED
    BY <1>2, <1>8, <2>1, SlotsKept
<1> QED
  BY <1>5, <1>8, <1>9, <1>10 DEF EngineInv

\* The slot of a message that is settled, in its new state.
AsSettled(s, st, avail) == [s EXCEPT !.state = st, !.until = 0, !.nonce = 0, !.avail = avail]

LEMMA SettledSlot ==
  ASSUME NEW s \in Slot, NEW st \in {READY, DELAYED, DEAD}, NEW avail \in Nat
  PROVE  LET t == AsSettled(s, st, avail)
         IN  /\ t \in Slot /\ t.state = st /\ t.avail = avail
             /\ t.id = s.id /\ t.pay = s.pay /\ t.body = s.body
<1>1. ASSUME NEW t, t = AsSettled(s, st, avail)
      PROVE  t = [id |-> s.id, state |-> st, attempts |-> s.attempts, until |-> 0,
                  nonce |-> 0, avail |-> avail, pay |-> s.pay, body |-> s.body]
  BY <1>1 DEF AsSettled, Slot
<1>2. /\ s.id \in Nat /\ s.attempts \in Nat /\ s.pay \in PageSlot /\ s.body \in Nat
  BY DEF Slot
<1> QED
  BY <1>1, <1>2, SMT DEF Slot

LEMMA PutSlot ==
  ASSUME EngineInv, NEW r \in DOMAIN idx, NEW s \in Slot, idx' = Put(idx, r, s)
  PROVE  /\ DOMAIN idx' = DOMAIN idx /\ idx' \in [DOMAIN idx -> Slot]
         /\ idx'[r] = s /\ \A x \in DOMAIN idx \ {r} : idx'[x] = idx[x]
<1>1. DOMAIN idx \cup {r} = DOMAIN idx
  OBVIOUS
<1>2. \A x \in DOMAIN idx : idx[x] \in Slot
  BY DEF EngineInv, TypeOK
<1> QED
  BY <1>1, <1>2 DEF Put

AsDead(s) == [s EXCEPT !.state = DEAD, !.until = 0, !.nonce = 0]

LEMMA DeadSlot ==
  ASSUME NEW s \in Slot
  PROVE  LET t == AsDead(s)
         IN  /\ t \in Slot /\ t.state = DEAD
             /\ t.id = s.id /\ t.pay = s.pay /\ t.body = s.body
<1>1. ASSUME NEW t, t = AsDead(s)
      PROVE  t = [id |-> s.id, state |-> DEAD, attempts |-> s.attempts, until |-> 0,
                  nonce |-> 0, avail |-> s.avail, pay |-> s.pay, body |-> s.body]
  BY <1>1 DEF AsDead, Slot
<1>2. /\ s.id \in Nat /\ s.attempts \in Nat /\ s.avail \in Nat /\ s.pay \in PageSlot
      /\ s.body \in Nat
  BY DEF Slot
<1> QED
  BY <1>1, <1>2, SMT DEF Slot

\* deadLetterLocked reads the payload of a message that still owns it, and
\* finds no dead letter of that id.
LEMMA DeadLetterInv ==
  ASSUME EngineInv, NEW p \in Process, NEW h \in held[p], ~At(p, "ack", "free"),
         DeadLetter(h), held' = [held EXCEPT ![p] = @ \ {h}],
         UNCHANGED <<ready, delayed, receipts, inflight, replaying>>
  PROVE  /\ EntriesCurrent' /\ NothingLost' /\ LeasedOnce' /\ DeadOnce'
         /\ DOMAIN idx' = DOMAIN idx /\ idx' \in [DOMAIN idx -> Slot]
         /\ \A r \in DOMAIN idx : /\ idx'[r].id = idx[r].id /\ idx'[r].pay = idx[r].pay
                                  /\ idx'[r].body = idx[r].body
         /\ dead' \subseteq DeadMessage /\ IsFiniteSet(dead')
<1>1. /\ h \in Held /\ h.ref \in DOMAIN idx /\ idx[h.ref].id = h.id /\ h.id \in Nat \ {0}
      /\ idx[h.ref] = h.slot /\ h.slot \in Slot
      /\ \A m \in dead \cup UNION {replaying[c] : c \in Client} : m.ref # h.ref
  BY HeldApart
<1>2. idx' = Put(idx, h.ref, AsDead(h.slot))
  BY DEF DeadLetter, AsDead
<1>3. LET t == AsDead(h.slot)
      IN  /\ t \in Slot /\ t.state = DEAD
          /\ t.id = h.slot.id /\ t.pay = h.slot.pay /\ t.body = h.slot.body
  BY <1>1, DeadSlot
<1>4. /\ DOMAIN idx' = DOMAIN idx /\ idx' \in [DOMAIN idx -> Slot]
      /\ idx'[h.ref] = AsDead(h.slot) /\ \A x \in DOMAIN idx \ {h.ref} : idx'[x] = idx[x]
  BY <1>1, <1>2, <1>3, PutSlot
<1>5. \A r \in DOMAIN idx : /\ idx'[r].id = idx[r].id /\ idx'[r].pay = idx[r].pay
                            /\ idx'[r].body = idx[r].body
  BY <1>1, <1>3, <1>4
<1>6. \A m \in dead : m.id # h.slot.id
  BY <1>1, EntryStates, SMT DEF EngineInv, NothingLost
<1>7. ReadPayload(h.slot) = h.slot.body
  <2>1. h.ref \notin Releasing
    BY NotReleasing
  <2>2. content[idx[h.ref].pay] = idx[h.ref].body
    BY <1>1, <2>1 DEF EngineInv, PayloadIntact
  <2> QED
    BY <1>1, <2>2 DEF ReadPayload
<1>8. PICK m : m = [id |-> h.slot.id, ref |-> h.ref, pay |-> h.slot.pay,
                    attempts |-> h.slot.attempts, body |-> h.slot.body]
  OBVIOUS
<1>9. dead' = dead \cup {m}
  BY <1>6, <1>7, <1>8 DEF DeadLetter
<1>10. /\ m \in DeadMessage /\ m.id = h.id /\ m.ref = h.ref /\ m.pay = h.slot.pay
       /\ m.body = h.slot.body
  BY <1>1, <1>8 DEF DeadMessage, Held, Slot
<1>11. IsFiniteSet(dead') /\ dead' \subseteq DeadMessage
  <2>1. IsFiniteSet(dead) /\ dead \subseteq DeadMessage
    BY DEF EngineInv, LocalOK, TypeOK
  <2>2. IsFiniteSet(dead \cup {m})
    BY <2>1, FS_AddElement
  <2> QED
    BY <1>9, <1>10, <2>1, <2>2
<1>12. Moved(p, h)
  <2>1. inflight' = {WheelEntry(i) : i \in receipts'}
    BY DEF EngineInv, LeasedOnce, WheelEntry
  <2>2. \A n \in dead' \ dead : n = m
    BY <1>9
  <2>3. /\ \A n \in dead' \ dead :
             /\ n.ref = h.ref /\ n.id = h.id /\ idx'[h.ref].state = DEAD
             /\ idx'[h.ref].pay = n.pay /\ idx'[h.ref].body = n.body
        /\ \A k, n \in dead' \ dead : k = n
    BY <1>3, <1>4, <1>10, <2>2
  <2>4. \E n \in dead' : n.ref = h.ref
    BY <1>9, <1>10
  <2>5. idx'[h.ref].id = h.id /\ dead \subseteq dead'
    BY <1>1, <1>5, <1>9
  <2> QED
    BY <1>4, <2>1, <2>3, <2>4, <2>5 DEF Moved
<1> QED
  BY <1>4, <1>5, <1>11, <1>12, Settled

LEMMA NackApplyInv ==
  ASSUME EngineInv, NEW c \in Client, NackApply(c)
  PROVE  EngineInv'
<1> USE DEF store, counters, enqueueVars, tickVars, told
<1>1. PICK h \in held[c] :
        \/ /\ DeadLetter(h) /\ UNCHANGED <<ready, delayed>>
        \/ /\ idx' = Put(idx, h.ref, AsSettled(h.slot, READY, h.at))
           /\ ready' = ready \cup {[id |-> h.slot.id, ref |-> h.ref]}
           /\ UNCHANGED <<delayed, dead>>
        \/ /\ idx' = Put(idx, h.ref, AsSettled(h.slot, DELAYED, h.at))
           /\ delayed' = delayed \cup {[id |-> h.slot.id, ref |-> h.ref, deadline |-> h.at]}
           /\ UNCHANGED <<ready, dead>>
  BY DEF NackApply, AsSettled
<1>2. /\ op[c] = "nack" /\ phase[c] = "ok" /\ Goto(c, "none", "idle")
      /\ held' = [held EXCEPT ![c] = {}]
      /\ UNCHANGED <<now, store, inflight, receipts, reserved, counters, enqueueVars,
                     leased, tickVars, told>>
  BY DEF NackApply, At
<1>3. items[c] = {} /\ replaying[c] = {} /\ IsFiniteSet(dead) /\ \A k \in held[c] : k = h
  BY <1>2 DEF EngineInv, LocalOK, Local
<1>4. held'[c] = {} /\ \A q \in Process \ {c} : held'[q] = held[q]
  BY <1>2 DEF EngineInv, TypeOK, Process
<1>5. held[c] \ {h} = {} /\ c \in Process
  BY <1>3 DEF Process
<1>6. held' = [held EXCEPT ![c] = @ \ {h}]
  BY <1>2, <1>5
<1>7. /\ h \in Held /\ h.ref \in DOMAIN idx /\ idx[h.ref].id = h.id
      /\ idx[h.ref] = h.slot /\ h.slot \in Slot
  BY <1>5, HeldApart
<1>8. h.ref \in PageSlot /\ h.at \in Nat /\ h.id \in Nat
  BY <1>7 DEF Held
<1>9. inflight' = {WheelEntry(i) : i \in receipts'}
  BY <1>2 DEF EngineInv, LeasedOnce, WheelEntry
<1>10. ASSUME NEW st \in {READY, DELAYED}, idx' = Put(idx, h.ref, AsSettled(h.slot, st, h.at))
       PROVE  /\ DOMAIN idx' = DOMAIN idx /\ idx' \in [DOMAIN idx -> Slot]
              /\ \A r \in DOMAIN idx \ {h.ref} : idx'[r] = idx[r]
              /\ idx'[h.ref].state = st /\ idx'[h.ref].avail = h.at /\ idx'[h.ref].id = h.id
              /\ \A r \in DOMAIN idx : /\ idx'[r].id = idx[r].id /\ idx'[r].pay = idx[r].pay
                                       /\ idx'[r].body = idx[r].body
  <2>1. LET t == AsSettled(h.slot, st, h.at)
        IN  /\ t \in Slot /\ t.state = st /\ t.avail = h.at
            /\ t.id = h.slot.id /\ t.pay = h.slot.pay /\ t.body = h.slot.body
    <3>1. st \in {READY, DELAYED, DEAD}
      OBVIOUS
    <3> QED
      BY <1>7, <1>8, <3>1, SettledSlot
  <2>2. /\ DOMAIN idx' = DOMAIN idx /\ idx' \in [DOMAIN idx -> Slot]
        /\ idx'[h.ref] = AsSettled(h.slot, st, h.at)
        /\ \A x \in DOMAIN idx \ {h.ref} : idx'[x] = idx[x]
    BY <1>7, <1>10, <2>1, PutSlot
  <2> QED
    BY <1>7, <2>1, <2>2
<1>11. /\ EntriesCurrent' /\ NothingLost' /\ LeasedOnce' /\ DeadOnce'
       /\ DOMAIN idx' = DOMAIN idx /\ idx' \in [DOMAIN idx -> Slot]
       /\ \A r \in DOMAIN idx : /\ idx'[r].id = idx[r].id /\ idx'[r].pay = idx[r].pay
                                /\ idx'[r].body = idx[r].body
       /\ dead' \subseteq DeadMessage /\ IsFiniteSet(dead')
       /\ ready' \subseteq [id : Nat, ref : PageSlot]
       /\ delayed' \subseteq [id : Nat, ref : PageSlot, deadline : Nat]
  <2>0. /\ dead \subseteq DeadMessage /\ IsFiniteSet(dead)
        /\ ready \subseteq [id : Nat, ref : PageSlot]
        /\ delayed \subseteq [id : Nat, ref : PageSlot, deadline : Nat]
    BY <1>3 DEF EngineInv, TypeOK
  <2>1. CASE DeadLetter(h) /\ UNCHANGED <<ready, delayed>>
    <3>1. ~At(c, "ack", "free")
      BY <1>2 DEF At
    <3> QED
      BY <1>2, <1>5, <1>6, <2>0, <2>1, <3>1, DeadLetterInv
  <2>2. CASE /\ idx' = Put(idx, h.ref, AsSettled(h.slot, READY, h.at))
             /\ ready' = ready \cup {[id |-> h.slot.id, ref |-> h.ref]}
             /\ UNCHANGED <<delayed, dead>>
    <3>1. /\ DOMAIN idx' = DOMAIN idx /\ idx' \in [DOMAIN idx -> Slot]
          /\ \A r \in DOMAIN idx \ {h.ref} : idx'[r] = idx[r]
          /\ idx'[h.ref].state = READY /\ idx'[h.ref].avail = h.at /\ idx'[h.ref].id = h.id
          /\ \A r \in DOMAIN idx : /\ idx'[r].id = idx[r].id /\ idx'[r].pay = idx[r].pay
                                   /\ idx'[r].body = idx[r].body
      BY <1>10, <2>2
    <3>2. PICK e : e = [id |-> h.slot.id, ref |-> h.ref]
      OBVIOUS
    <3>3. e.ref = h.ref /\ e.id = h.id /\ e \in [id : Nat, ref : PageSlot]
      BY <1>7, <1>8, <3>2
    <3>4. ready' = ready \cup {e}
      BY <2>2, <3>2
    <3>5. Moved(c, h)
      BY <1>2, <1>6, <1>9, <2>2, <3>1, <3>3, <3>4 DEF Moved
    <3>6. EntriesCurrent' /\ NothingLost' /\ LeasedOnce' /\ DeadOnce'
      BY <1>5, <3>5, Settled
    <3> QED
      BY <2>0, <2>2, <3>1, <3>3, <3>4, <3>6
  <2>3. CASE /\ idx' = Put(idx, h.ref, AsSettled(h.slot, DELAYED, h.at))
             /\ delayed' = delayed \cup {[id |-> h.slot.id, ref |-> h.ref, deadline |-> h.at]}
             /\ UNCHANGED <<ready, dead>>
    <3>1. /\ DOMAIN idx' = DOMAIN idx /\ idx' \in [DOMAIN idx -> Slot]
          /\ \A r \in DOMAIN idx \ {h.ref} : idx'[r] = idx[r]
          /\ idx'[h.ref].state = DELAYED /\ idx'[h.ref].avail = h.at /\ idx'[h.ref].id = h.id
          /\ \A r \in DOMAIN idx : /\ idx'[r].id = idx[r].id /\ idx'[r].pay = idx[r].pay
                                   /\ idx'[r].body = idx[r].body
      BY <1>10, <2>3
    <3>2. PICK e : e = [id |-> h.slot.id, ref |-> h.ref, deadline |-> h.at]
      OBVIOUS
    <3>3. /\ e.ref = h.ref /\ e.id = h.id /\ e.deadline = h.at
          /\ e \in [id : Nat, ref : PageSlot, deadline : Nat]
      BY <1>7, <1>8, <3>2
    <3>4. delayed' = delayed \cup {e}
      BY <2>3, <3>2
    <3>5. Moved(c, h)
      BY <1>2, <1>6, <1>9, <2>3, <3>1, <3>3, <3>4 DEF Moved
    <3>6. EntriesCurrent' /\ NothingLost' /\ LeasedOnce' /\ DeadOnce'
      BY <1>5, <3>5, Settled
    <3> QED
      BY <2>0, <2>3, <3>1, <3>3, <3>4, <3>6
  <2> QED
    BY <1>1, <2>1, <2>2, <2>3
<1>12. /\ op' \in [Process -> Ops] /\ phase' \in [Process -> Phases]
       /\ op'[c] = "none" /\ phase'[c] = "idle"
       /\ \A q \in Process \ {c} : op'[q] = op[q] /\ phase'[q] = phase[q]
       /\ LocalOK'
  BY <1>2, <1>3, <1>4, <1>11, ReturnTyped, EngineAssumption DEF Process
<1>13. TypeOK'
  <2>1. held' \in [Process -> SUBSET Held]
    BY <1>2 DEF EngineInv, TypeOK, Process
  <2> QED
    BY <1>2, <1>11, <1>12, <2>1 DEF EngineInv, TypeOK
<1>14. IdsFresh' /\ SlotsOwnedOnce' /\ PayloadIntact'
  <2>1. \A q \in Client : /\ At(q, "ack", "free")' <=> At(q, "ack", "free")
                          /\ At(q, "ack", "free") => held'[q] = held[q]
    BY <1>2, <1>4, <1>12 DEF At, Process
  <2> QED
    BY <1>2, <1>11, <2>1, SlotsKept
<1> QED
  BY <1>11, <1>12, <1>13, <1>14 DEF EngineInv

----------------------------------------------------------------------------
\* The ticker.

LEMMA TickNextTyped ==
  ASSUME EngineInv, NEW H \in SUBSET Held, NEW X \in SUBSET [id : Nat, until : Nat],
         TickNext(H, X)
  PROVE  /\ op' \in [Process -> Ops] /\ phase' \in [Process -> Phases] /\ current' \in Nat
         /\ H # {} => op'[Ticker] = "tick"
         /\ \A c \in Client : op'[c] = op[c] /\ phase'[c] = phase[c]
         /\ \A c \in Client : At(c, "ack", "free")' <=> At(c, "ack", "free")
<1>1. Ticker \in Process /\ \A c \in Client : c \in Process \ {Ticker}
  BY EngineAssumption DEF Process
<1>2. CASE H \cup X = {}
  <2>1. Goto(Ticker, "none", "idle") /\ current' = 0
    BY <1>2 DEF TickNext
  <2>2. /\ op' \in [Process -> Ops] /\ phase' \in [Process -> Phases]
        /\ \A q \in Process \ {Ticker} : op'[q] = op[q] /\ phase'[q] = phase[q]
    BY <1>1, <2>1, GotoTyped DEF EngineInv, Ops, Phases
  <2> QED
    BY <1>1, <1>2, <2>1, <2>2 DEF At
<1>3. CASE H \cup X # {}
  <2>1. Goto(Ticker, "tick", "commit") /\ \E e \in H \cup X : current' = e.id
    BY <1>3 DEF TickNext
  <2>2. \A e \in H \cup X : e.id \in Nat
    BY DEF Held
  <2>3. /\ op' \in [Process -> Ops] /\ phase' \in [Process -> Phases] /\ op'[Ticker] = "tick"
        /\ \A q \in Process \ {Ticker} : op'[q] = op[q] /\ phase'[q] = phase[q]
    BY <1>1, <2>1, GotoTyped DEF EngineInv, Ops, Phases
  <2> QED
    BY <1>1, <2>1, <2>2, <2>3 DEF At
<1> QED
  BY <1>2, <1>3

\* The ticker leaves the local state of the clients alone.
LEMMA TickLocal ==
  ASSUME LocalOK, UNCHANGED <<items, replaying, req>>,
         \A c \in Client : op'[c] = op[c] /\ phase'[c] = phase[c] /\ held'[c] = held[c],
         held'[Ticker] # {} => op'[Ticker] = "tick", IsFiniteSet(dead')
  PROVE  LocalOK'
<1>1. ASSUME NEW c \in Client PROVE Local(c)'
  BY SMT DEF LocalOK, Local, Size, Requests
<1> QED
  BY <1>1 DEF LocalOK

LEMMA TickExpireInv == EngineInv /\ TickExpire => EngineInv'
<1> SUFFICES ASSUME EngineInv, TickExpire PROVE EngineInv'
  OBVIOUS
<1> USE DEF queueVars, store, wheels, counters, enqueueVars, leaseVars, told
<1>1. PICK e \in expired : expired' = expired \ {e} /\ TickNext(held[Ticker], expired \ {e})
  BY DEF TickExpire
<1>2. UNCHANGED <<queueVars, enqueueVars, leaseVars, told>>
  BY DEF TickExpire
<1>3. held[Ticker] \in SUBSET Held /\ expired \ {e} \in SUBSET [id : Nat, until : Nat]
  BY DEF EngineInv, TypeOK, Process
<1>4. /\ op' \in [Process -> Ops] /\ phase' \in [Process -> Phases] /\ current' \in Nat
      /\ held[Ticker] # {} => op'[Ticker] = "tick"
      /\ \A c \in Client : op'[c] = op[c] /\ phase'[c] = phase[c]
      /\ \A c \in Client : At(c, "ack", "free")' <=> At(c, "ack", "free")
  BY <1>1, <1>3, TickNextTyped
<1>5. TypeOK'
  BY <1>1, <1>2, <1>3, <1>4 DEF EngineInv, TypeOK
<1>6. LocalOK'
  BY <1>2, <1>4, TickLocal DEF EngineInv, LocalOK
<1>7. nextMsgID <= nextMsgID'
  BY <1>2, SMT DEF EngineInv, TypeOK
<1> QED
  BY <1>2, <1>4, <1>5, <1>6, <1>7, ControlStep DEF places

LEMMA TickDeadInv == EngineInv /\ TickDead => EngineInv'
<1> SUFFICES ASSUME EngineInv, TickDead PROVE EngineInv'
  OBVIOUS
<1> USE DEF store, counters, enqueueVars, told
<1>1. PICK h \in held[Ticker] :
        /\ \/ DeadLetter(h) /\ UNCHANGED <<receipts, inflight>>
           \/ RestoreLease(h) /\ UNCHANGED dead
        /\ held' = [held EXCEPT ![Ticker] = @ \ {h}]
        /\ TickNext(held[Ticker] \ {h}, expired)
  BY DEF TickDead
<1>2. /\ op[Ticker] = "tick"
      /\ UNCHANGED <<now, store, ready, delayed, reserved, counters, enqueueVars,
                     leased, expired, told>>
  BY DEF TickDead
<1>3. Ticker \in Process /\ ~At(Ticker, "ack", "free")
  BY <1>2 DEF Process, At
<1>4. held[Ticker] \ {h} \in SUBSET Held /\ expired \in SUBSET [id : Nat, until : Nat]
  BY <1>3 DEF EngineInv, TypeOK
<1>5. /\ op' \in [Process -> Ops] /\ phase' \in [Process -> Phases] /\ current' \in Nat
      /\ held[Ticker] \ {h} # {} => op'[Ticker] = "tick"
      /\ \A c \in Client : op'[c] = op[c] /\ phase'[c] = phase[c]
      /\ \A c \in Client : At(c, "ack", "free")' <=> At(c, "ack", "free")
  BY <1>1, <1>4, TickNextTyped
<1>6. /\ held'[Ticker] = held[Ticker] \ {h} /\ \A c \in Client : held'[c] = held[c]
      /\ held' \in [Process -> SUBSET Held]
  BY <1>1, <1>3, EngineAssumption DEF EngineInv, TypeOK, Process
<1>7. IsFiniteSet(dead) /\ dead \subseteq DeadMessage /\ receipts \subseteq Receipt
      /\ inflight \subseteq [id : Nat, ref : PageSlot, deadline : Nat, nonce : Nat]
      /\ idx \in [DOMAIN idx -> Slot]
  BY DEF EngineInv, TypeOK, LocalOK
<1>8. /\ EntriesCurrent' /\ NothingLost' /\ LeasedOnce' /\ DeadOnce'
      /\ DOMAIN idx' = DOMAIN idx /\ idx' \in [DOMAIN idx -> Slot]
      /\ \A r \in DOMAIN idx : /\ idx'[r].id = idx[r].id /\ idx'[r].pay = idx[r].pay
                               /\ idx'[r].body = idx[r].body
      /\ dead' \subseteq DeadMessage /\ IsFiniteSet(dead') /\ receipts' \subseteq Receipt
      /\ inflight' \subseteq [id : Nat, ref : PageSlot, deadline : Nat, nonce : Nat]
  <2>1. CASE DeadLetter(h) /\ UNCHANGED <<receipts, inflight>>
    BY <1>1, <1>2, <1>3, <1>7, <2>1, DeadLetterInv
  <2>2. CASE RestoreLease(h) /\ UNCHANGED dead
    BY <1>1, <1>2, <1>3, <1>7, <2>2, RestoreInv
  <2> QED
    BY <1>1, <2>1, <2>2
<1>9. TypeOK'
  BY <1>2, <1>5, <1>6, <1>8 DEF EngineInv, TypeOK
<1>10. LocalOK'
  BY <1>2, <1>5, <1>6, <1>8, TickLocal DEF EngineInv
<1>11. IdsFresh' /\ SlotsOwnedOnce' /\ PayloadIntact'
  BY <1>2, <1>5, <1>6, <1>8, SlotsKept
<1> QED
  BY <1>8, <1>9, <1>10, <1>11 DEF EngineInv

\* The slot of a lease that has ended and is delivered again.
AsExpired(s) == [s EXCEPT !.state = READY, !.until = 0, !.nonce = 0]

LEMMA ExpiredSlot ==
  ASSUME NEW s \in Slot
  PROVE  LET t == AsExpired(s)
         IN  /\ t \in Slot /\ t.state = READY
             /\ t.id = s.id /\ t.pay = s.pay /\ t.body = s.body
<1>1. ASSUME NEW t, t = AsExpired(s)
      PROVE  t = [id |-> s.id, state |-> READY, attempts |-> s.attempts, until |-> 0,
                  nonce |-> 0, avail |-> s.avail, pay |-> s.pay, body |-> s.body]
  BY <1>1 DEF AsExpired, Slot
<1>2. /\ s.id \in Nat /\ s.attempts \in Nat /\ s.avail \in Nat /\ s.pay \in PageSlot
      /\ s.body \in Nat
  BY DEF Slot
<1> QED
  BY <1>1, <1>2, SMT DEF Slot

\* What Tick does: of the leases that have ended, T are to be dead-lettered
\* and taken aside, Y are READY again.
Ticks(T, Y) ==
  /\ T \cap Y = {} /\ \A i \in T \cup Y : i.until <= now
  /\ receipts' = receipts \ (T \cup Y)
  /\ inflight' = {WheelEntry(i) : i \in receipts'}
  /\ DOMAIN idx' = DOMAIN idx /\ idx' \in [DOMAIN idx -> Slot]
  /\ \A r \in DOMAIN idx \ Refs(Y) : idx'[r] = PromotedIdx[r]
  /\ \A r \in Refs(Y) : /\ idx'[r].state = READY /\ idx'[r].id = idx[r].id
                        /\ idx'[r].pay = idx[r].pay /\ idx'[r].body = idx[r].body
  /\ ready' = PromotedReady \cup {[id |-> i.id, ref |-> i.ref] : i \in Y}
  /\ held'[Ticker] \subseteq Held /\ \A c \in Client : held'[c] = held[c]
  /\ held' \in [Process -> SUBSET Held]
  /\ \A h \in held'[Ticker] : \E i \in T :
       /\ h.id = i.id /\ h.ref = i.ref /\ h.nonce = i.nonce /\ h.attempt = i.attempt
       /\ h.until = i.until /\ h.slot = idx[i.ref]
  /\ \A i \in T : \E h \in held'[Ticker] : h.ref = i.ref
  /\ \A h, k \in held'[Ticker] : h.id = k.id => h = k
  /\ expired' \in SUBSET [id : Nat, until : Nat]
  /\ TickNext(held'[Ticker], expired')

LEMMA TickEffect ==
  ASSUME EngineInv, Tick
  PROVE  \E T \in SUBSET receipts, Y \in SUBSET receipts : Ticks(T, Y)
<1> DEFINE E == {i \in receipts : \E e \in Overdue : e.id = i.id /\ e.nonce = i.nonce}
           T == {i \in E : Exhausted(PromotedIdx[i.ref])}
           Y == E \ T
           taken(i) == [id |-> i.id, ref |-> i.ref, nonce |-> i.nonce, attempt |-> i.attempt,
                        until |-> i.until, at |-> 0, slot |-> PromotedIdx[i.ref]]
           H == {taken(i) : i \in T}
           X == {[id |-> i.id, until |-> i.until] : i \in Y}
<1>1. \A i \in receipts : /\ i \in Receipt /\ i.ref \in DOMAIN idx /\ idx[i.ref].id = i.id
                          /\ idx[i.ref].state = INFLIGHT /\ idx[i.ref] \in Slot
  BY EntryStates DEF EngineInv, TypeOK
<1>2. \A i \in receipts : PromotedIdx[i.ref] = idx[i.ref]
  BY <1>1, Promotion DEF DELAYED, INFLIGHT
<1>3. {i \in E : i.ref \in DOMAIN idx} = E
  BY <1>1
<1>4. /\ inflight' = inflight \ Overdue /\ receipts' = receipts \ E
      /\ idx' = [r \in DOMAIN idx |->
           IF r \in Refs(Y) THEN AsExpired(PromotedIdx[r]) ELSE PromotedIdx[r]]
      /\ ready' = PromotedReady \cup {[id |-> idx[i.ref].id, ref |-> i.ref] : i \in Y}
      /\ held' = [held EXCEPT ![Ticker] = H]
      /\ expired' = X
      /\ TickNext(H, X)
  BY <1>3 DEF Tick, AsExpired
<1>5. inflight = {WheelEntry(i) : i \in receipts}
  BY DEF EngineInv, LeasedOnce, WheelEntry
<1>6. \A i \in receipts : i \in E <=> i.until <= now
  <2>1. \A i \in receipts : /\ WheelEntry(i).id = i.id /\ WheelEntry(i).nonce = i.nonce
                            /\ WheelEntry(i).deadline = i.until
    BY DEF WheelEntry
  <2>2. \A i, j \in receipts : i.id = j.id => i = j
    BY DEF EngineInv, LeasedOnce
  <2> QED
    BY <1>5, <2>1, <2>2, SMT DEF Overdue
<1>7. inflight' = {WheelEntry(i) : i \in receipts'}
  <2>1. \A i \in receipts : WheelEntry(i) \in Overdue <=> i \in E
    BY <1>5, <1>6 DEF Overdue, WheelEntry
  <2>2. inflight' = inflight \ Overdue /\ receipts' = receipts \ E
    BY <1>4
  <2> HIDE DEF E
  <2>3. ASSUME NEW e \in inflight' PROVE e \in {WheelEntry(i) : i \in receipts'}
    BY <1>5, <2>1, <2>2
  <2>4. ASSUME NEW i \in receipts' PROVE WheelEntry(i) \in inflight'
    BY <1>5, <2>1, <2>2
  <2> QED
    BY <2>3, <2>4
<1>8. T \in SUBSET receipts /\ Y \in SUBSET receipts /\ T \cap Y = {} /\ T \cup Y = E
  OBVIOUS
<1>9. \A i \in T \cup Y : i.until <= now
  BY <1>6, <1>8
<1>10. receipts' = receipts \ (T \cup Y)
  BY <1>4, <1>8
<1>11. \A i \in T : /\ taken(i) \in Held /\ taken(i).id = i.id /\ taken(i).ref = i.ref
                    /\ taken(i).nonce = i.nonce /\ taken(i).attempt = i.attempt
                    /\ taken(i).until = i.until /\ taken(i).slot = idx[i.ref]
  BY <1>1, <1>2, <1>8 DEF Held, Receipt
<1> HIDE DEF taken
<1>12. X \subseteq [id : Nat, until : Nat]
  BY <1>1, <1>8, SMT DEF Receipt
<1> HIDE DEF X, Y, T, E
<1>13. /\ DOMAIN idx' = DOMAIN idx /\ idx' \in [DOMAIN idx -> Slot]
       /\ \A r \in DOMAIN idx \ Refs(Y) : idx'[r] = PromotedIdx[r]
       /\ \A r \in Refs(Y) : /\ idx'[r].state = READY /\ idx'[r].id = idx[r].id
                             /\ idx'[r].pay = idx[r].pay /\ idx'[r].body = idx[r].body
  <2>1. \A r \in DOMAIN idx : /\ PromotedIdx[r] \in Slot /\ PromotedIdx[r].id = idx[r].id
                              /\ PromotedIdx[r].pay = idx[r].pay
                              /\ PromotedIdx[r].body = idx[r].body
    BY Promotion
  <2>2. \A r \in DOMAIN idx : /\ AsExpired(PromotedIdx[r]) \in Slot
                              /\ AsExpired(PromotedIdx[r]).state = READY
                              /\ AsExpired(PromotedIdx[r]).id = idx[r].id
                              /\ AsExpired(PromotedIdx[r]).pay = idx[r].pay
                              /\ AsExpired(PromotedIdx[r]).body = idx[r].body
    <3> SUFFICES ASSUME NEW r \in DOMAIN idx, NEW s, s = PromotedIdx[r]
                 PROVE  /\ AsExpired(s) \in Slot /\ AsExpired(s).state = READY
                        /\ AsExpired(s).id = idx[r].id /\ AsExpired(s).pay = idx[r].pay
                        /\ AsExpired(s).body = idx[r].body
      OBVIOUS
    <3>1. s \in Slot /\ s.id = idx[r].id /\ s.pay = idx[r].pay /\ s.body = idx[r].body
      BY <2>1
    <3>2. /\ AsExpired(s) \in Slot /\ AsExpired(s).state = READY
          /\ AsExpired(s).id = s.id /\ AsExpired(s).pay = s.pay /\ AsExpired(s).body = s.body
      BY <3>1, ExpiredSlot
    <3> QED
      BY <3>1, <3>2
  <2>3. Refs(Y) \subseteq DOMAIN idx
    BY <1>1, <1>8 DEF Refs
  <2> QED
    BY <1>4, <2>1, <2>2, <2>3
<1>14. ready' = PromotedReady \cup {[id |-> i.id, ref |-> i.ref] : i \in Y}
  <2>1. \A i \in Y : [id |-> idx[i.ref].id, ref |-> i.ref] = [id |-> i.id, ref |-> i.ref]
    BY <1>1, <1>8
  <2> QED
    BY <1>4, <2>1
<1>15. /\ held'[Ticker] = H /\ H \subseteq Held /\ \A c \in Client : held'[c] = held[c]
       /\ held' \in [Process -> SUBSET Held]
  <2>1. held \in [Process -> SUBSET Held] /\ Process = Client \cup {Ticker} /\ Ticker \notin Client
    BY EngineAssumption DEF EngineInv, TypeOK, Process
  <2>2. H \in SUBSET Held
    BY <1>11
  <2> HIDE DEF H
  <2> QED
    BY <1>4, <2>1, <2>2
<1>16. /\ \A h \in H : \E i \in T :
            /\ h.id = i.id /\ h.ref = i.ref /\ h.nonce = i.nonce /\ h.attempt = i.attempt
            /\ h.until = i.until /\ h.slot = idx[i.ref]
       /\ \A i \in T : \E h \in H : h.ref = i.ref
       /\ \A h, k \in H : h.id = k.id => h = k
  BY <1>8, <1>11, SMT DEF EngineInv, LeasedOnce
<1> HIDE DEF H
<1>17. Ticks(T, Y)
  BY <1>4, <1>7, <1>8, <1>9, <1>10, <1>12, <1>13, <1>14, <1>15, <1>16 DEF Ticks
<1> QED
  BY <1>8, <1>17

LEMMA TickInv == EngineInv /\ Tick => EngineInv'
<1> SUFFICES ASSUME EngineInv, Tick PROVE EngineInv'
  OBVIOUS
<1> USE DEF store, counters, enqueueVars, told
<1>0. /\ op[Ticker] = "none" /\ delayed' = delayed \ Due
      /\ UNCHANGED <<now, store, dead, reserved, counters, enqueueVars, leased, told>>
  BY DEF Tick
<1>a. PICK T \in SUBSET receipts, Y \in SUBSET receipts : Ticks(T, Y)
  BY TickEffect
<1>1. /\ T \cap Y = {} /\ receipts' = receipts \ (T \cup Y)
      /\ inflight' = {WheelEntry(i) : i \in receipts'}
      /\ DOMAIN idx' = DOMAIN idx /\ idx' \in [DOMAIN idx -> Slot]
      /\ \A r \in DOMAIN idx \ Refs(Y) : idx'[r] = PromotedIdx[r]
      /\ \A r \in Refs(Y) : /\ idx'[r].state = READY /\ idx'[r].id = idx[r].id
                            /\ idx'[r].pay = idx[r].pay /\ idx'[r].body = idx[r].body
      /\ ready' = PromotedReady \cup {[id |-> i.id, ref |-> i.ref] : i \in Y}
  BY <1>a DEF Ticks
<1>2. /\ held'[Ticker] \subseteq Held /\ \A c \in Client : held'[c] = held[c]
      /\ held' \in [Process -> SUBSET Held]
      /\ \A h \in held'[Ticker] : \E i \in T :
           /\ h.id = i.id /\ h.ref = i.ref /\ h.nonce = i.nonce /\ h.attempt = i.attempt
           /\ h.until = i.until /\ h.slot = idx[i.ref]
      /\ \A i \in T : \E h \in held'[Ticker] : h.ref = i.ref
      /\ \A h, k \in held'[Ticker] : h.id = k.id => h = k
      /\ expired' \in SUBSET [id : Nat, until : Nat]
      /\ TickNext(held'[Ticker], expired')
  BY <1>a DEF Ticks
<1>3. /\ op' \in [Process -> Ops] /\ phase' \in [Process -> Phases] /\ current' \in Nat
      /\ held'[Ticker] # {} => op'[Ticker] = "tick"
      /\ \A c \in Client : op'[c] = op[c] /\ phase'[c] = phase[c]
      /\ \A c \in Client : At(c, "ack", "free")' <=> At(c, "ack", "free")
  BY <1>2, TickNextTyped
<1>4. held[Ticker] = {} /\ IsFiniteSet(dead) /\ Process = Client \cup {Ticker}
  BY <1>0 DEF EngineInv, LocalOK, Process
<1>5. \A i \in receipts : /\ i \in Receipt /\ i.ref \in DOMAIN idx /\ idx[i.ref].id = i.id
                          /\ idx[i.ref].state = INFLIGHT /\ idx[i.ref] \in Slot
  BY EntryStates DEF EngineInv, TypeOK
<1>6. \A i, j \in receipts : i.ref = j.ref => i = j
  <2>1. \A i, j \in receipts : i.ref = j.ref => i.id = j.id
    BY <1>5
  <2> QED
    BY <2>1 DEF EngineInv, LeasedOnce
<1>7. \A r \in Refs(Y) : r \in DOMAIN idx /\ idx[r].state = INFLIGHT
  BY <1>5 DEF Refs
<1>8. \A r \in DOMAIN idx \ Refs(Y) : idx[r].state # DELAYED => Kept(r)
  BY <1>1, Promotion DEF Kept
<1>9. \A i \in receipts \ Y : Kept(i.ref)
  <2>1. \A i \in receipts \ Y : i.ref \in DOMAIN idx \ Refs(Y)
    BY <1>5, <1>6 DEF Refs
  <2> QED
    BY <1>5, <1>8, <2>1 DEF INFLIGHT, DELAYED
<1>10. \A r \in DOMAIN idx :
         idx'[r].id = idx[r].id /\ idx'[r].pay = idx[r].pay /\ idx'[r].body = idx[r].body
  BY <1>1, Promotion, SMT
<1>11. TypeOK'
  <2>1. idx' \in [DOMAIN idx' -> Slot] /\ DOMAIN idx' \subseteq PageSlot
    BY <1>1 DEF EngineInv, TypeOK
  <2>2. \A i \in Y : [id |-> i.id, ref |-> i.ref] \in [id : Nat, ref : PageSlot]
    BY <1>5 DEF Receipt
  <2>3. ready' \subseteq [id : Nat, ref : PageSlot]
    BY <1>1, <2>2, Promotion, SMT
  <2>4. receipts' \subseteq Receipt
    BY <1>1, <1>5
  <2>5. \A i \in receipts :
          WheelEntry(i) \in [id : Nat, ref : PageSlot, deadline : Nat, nonce : Nat]
    BY <1>5 DEF WheelEntry, Receipt
  <2>6. inflight' \subseteq [id : Nat, ref : PageSlot, deadline : Nat, nonce : Nat]
    BY <1>1, <2>5
  <2>7. delayed' \subseteq [id : Nat, ref : PageSlot, deadline : Nat]
    BY <1>0 DEF EngineInv, TypeOK
  <2> QED
    BY <1>0, <1>2, <1>3, <2>1, <2>3, <2>4, <2>6, <2>7 DEF EngineInv, TypeOK
<1>12. LocalOK'
  BY <1>0, <1>2, <1>3, <1>4, TickLocal DEF EngineInv
<1>13. /\ IdsFresh' /\ SlotsOwnedOnce' /\ PayloadIntact'
       /\ \A r, s \in DOMAIN idx' : idx'[r].id = idx'[s].id => r = s
  BY <1>0, <1>1, <1>2, <1>3, <1>10, SlotsKept
<1>14. \A p \in Process : \A h \in held'[p] : p = Ticker \/ (p \in Client /\ h \in held[p])
  BY <1>2, <1>4
<1>15. EntriesCurrent'
  <2>1. \A e \in ready' : Live(e.ref, e.id, READY)'
    <3>1. \A e \in PromotedReady : Live(e.ref, e.id, READY)'
      <4>1. \A e \in PromotedReady : /\ e.ref \in DOMAIN idx /\ idx[e.ref].id = e.id
                                     /\ PromotedIdx[e.ref].state = READY
        BY Promotion
      <4> QED
        BY <1>1, <1>10, <4>1 DEF Live
    <3>2. \A e \in ready' : e \in PromotedReady \/ \E i \in Y : e.ref = i.ref /\ e.id = i.id
      BY <1>1, SMT
    <3>3. \A i \in Y : i.ref \in Refs(Y)
      BY DEF Refs
    <3> QED
      BY <1>1, <1>5, <3>1, <3>2, <3>3, SMT DEF Live
  <2>2. \A e \in delayed' : Live(e.ref, e.id, DELAYED)' /\ idx'[e.ref].avail = e.deadline
    <3> SUFFICES ASSUME NEW e \in delayed, e \notin Due
                 PROVE  Live(e.ref, e.id, DELAYED)' /\ idx'[e.ref].avail = e.deadline
      BY <1>0
    <3>1. e.ref \in DOMAIN idx /\ idx[e.ref].state = DELAYED /\ PromotedIdx[e.ref] = idx[e.ref]
      BY Promotion, EntryStates
    <3>2. Kept(e.ref)
      BY <1>1, <1>7, <3>1 DEF Kept, INFLIGHT, DELAYED
    <3> QED
      BY <3>2, EntriesKept
  <2>3. \A i \in receipts' :
          /\ Live(i.ref, i.id, INFLIGHT)'
          /\ idx'[i.ref].nonce = i.nonce /\ idx'[i.ref].attempts = i.attempt
          /\ idx'[i.ref].until = i.until
    BY <1>1, <1>9, EntriesKept
  <2>4. \A p \in Process : \A h \in held'[p] :
          /\ Live(h.ref, h.id, INFLIGHT)' /\ idx'[h.ref] = h.slot
          /\ h.slot.nonce = h.nonce /\ h.slot.attempts = h.attempt
          /\ h.slot.until = h.until
    <3>1. ASSUME NEW h \in held'[Ticker]
          PROVE  /\ Live(h.ref, h.id, INFLIGHT)' /\ idx'[h.ref] = h.slot
                 /\ h.slot.nonce = h.nonce /\ h.slot.attempts = h.attempt
                 /\ h.slot.until = h.until
      <4>1. PICK i \in T :
              /\ h.id = i.id /\ h.ref = i.ref /\ h.nonce = i.nonce /\ h.attempt = i.attempt
              /\ h.until = i.until /\ h.slot = idx[i.ref]
        BY <1>2
      <4>2. i \in receipts \ Y
        BY <1>1
      <4>3. /\ Live(i.ref, i.id, INFLIGHT)'
            /\ idx'[i.ref].nonce = i.nonce /\ idx'[i.ref].attempts = i.attempt
            /\ idx'[i.ref].until = i.until /\ idx'[i.ref] = idx[i.ref]
        BY <1>9, <4>2, EntriesKept DEF Kept
      <4> QED
        BY <4>1, <4>3 DEF Live
    <3>2. \A p \in Process : \A h \in held[p] : Kept(h.ref)
      <4>1. \A p \in Process : \A h \in held[p] : \A i \in receipts : i.ref # h.ref
        BY <1>5, EntryStates, SMT DEF EngineInv, LeasedOnce
      <4>2. \A p \in Process : \A h \in held[p] : h.ref \in DOMAIN idx \ Refs(Y)
        BY <4>1, EntryStates, SMT DEF Refs
      <4> QED
        BY <1>8, <4>2, EntryStates DEF INFLIGHT, DELAYED
    <3>3. ASSUME NEW p \in Client, NEW h \in held[p]
          PROVE  /\ Live(h.ref, h.id, INFLIGHT)' /\ idx'[h.ref] = h.slot
                 /\ h.slot.nonce = h.nonce /\ h.slot.attempts = h.attempt
                 /\ h.slot.until = h.until
      BY <1>4, <3>2, EntriesKept
    <3> QED
      BY <1>14, <3>1, <3>3
  <2>5. \A m \in dead' \cup UNION {replaying'[d] : d \in Client} :
          Live(m.ref, m.id, DEAD)' /\ idx'[m.ref].pay = m.pay /\ idx'[m.ref].body = m.body
    <3>1. \A r \in DOMAIN idx : idx[r].state = DEAD => Kept(r)
      BY <1>7, <1>8 DEF DEAD, INFLIGHT, DELAYED
    <3> QED
      BY <1>0, <3>1, DeadCurrent
  <2> QED
    BY <2>1, <2>2, <2>3, <2>4, <2>5 DEF EntriesCurrent
<1>16. NothingLost'
  <2>1. \A r \in DOMAIN idx : (\E e \in ready : e.ref = r) \/ (\E e \in delayed : e.ref = r) =>
          (\E e \in ready' : e.ref = r) \/ (\E e \in delayed' : e.ref = r)
    <3>1. \A e \in delayed : e \in delayed' \/ e \in Due
      BY <1>0
    <3>2. PromotedReady \subseteq ready'
      BY <1>1
    <3> QED
      BY <3>1, <3>2, Promotion
  <2>2. \A i \in receipts : \/ i \in receipts'
                            \/ \E e \in ready' : e.ref = i.ref
                            \/ \E h \in held'[Ticker] : h.ref = i.ref
    <3>1. \A i \in Y : [id |-> i.id, ref |-> i.ref] \in ready'
      BY <1>1
    <3> QED
      BY <1>1, <1>2, <3>1
  <2>3. \A p \in Process : held[p] \subseteq held'[p]
    BY <1>2, <1>4
  <2>4. Ticker \in Process
    BY <1>4
  <2>5. ASSUME NEW r \in DOMAIN idx' PROVE Reached(r)'
    <3>1. r \in DOMAIN idx
      BY <1>1
    <3>2. Reached(r)
      BY <3>1, AllReached
    <3>3. dead' = dead /\ replaying' = replaying
      BY <1>0
    <3> QED
      BY <2>1, <2>2, <2>3, <2>4, <3>1, <3>2, <3>3 DEF Reached
  <2> QED
    BY <1>13, <2>5 DEF NothingLost, Reached
<1>17. LeasedOnce'
  <2>1. \A i, j \in receipts' : i.id = j.id => i = j
    BY <1>1 DEF EngineInv, LeasedOnce
  <2>2. \A h \in held'[Ticker] : /\ \E i \in T : i.id = h.id
                                 /\ \A i \in receipts' : i.id # h.id
                                 /\ \A p \in Client : \A k \in held[p] : k.id # h.id
    <3> SUFFICES ASSUME NEW h \in held'[Ticker]
                 PROVE  /\ \E i \in T : i.id = h.id
                        /\ \A i \in receipts' : i.id # h.id
                        /\ \A p \in Client : \A k \in held[p] : k.id # h.id
      OBVIOUS
    <3>1. PICK i \in T : h.id = i.id
      BY <1>2
    <3>2. i \in receipts /\ i \notin receipts' /\ receipts' \subseteq receipts
      BY <1>1
    <3>3. \A j \in receipts : j.id = i.id => j = i
      BY <3>2 DEF EngineInv, LeasedOnce
    <3>4. \A p \in Client : \A k \in held[p] : k.id # i.id
      BY <1>4, <3>2 DEF EngineInv, LeasedOnce
    <3> QED
      BY <3>1, <3>2, <3>3, <3>4
  <2>3. \A p \in Process : \A h \in held'[p] : \A i \in receipts' : i.id # h.id
    <3>1. \A p \in Process : \A h \in held[p] : \A i \in receipts' : i.id # h.id
      <4>1. receipts' \subseteq receipts
        BY <1>1
      <4> QED
        BY <4>1 DEF EngineInv, LeasedOnce
    <3> QED
      BY <1>4, <1>14, <2>2, <3>1
  <2>4. \A p \in Process : \A h \in held'[p] : \A q \in Process : \A k \in held'[q] :
          k.id = h.id => k = h /\ q = p
    <3>1. ASSUME NEW p \in Process, NEW h \in held'[p], NEW q \in Process, NEW k \in held'[q],
                 k.id = h.id
          PROVE  k = h /\ q = p
      <4>1. CASE p = Ticker /\ q = Ticker
        BY <1>2, <3>1, <4>1
      <4>2. CASE p \in Client /\ h \in held[p] /\ q \in Client /\ k \in held[q]
        BY <1>4, <3>1, <4>2 DEF EngineInv, LeasedOnce
      <4>3. CASE p = Ticker /\ q \in Client /\ k \in held[q]
        BY <2>2, <3>1, <4>3
      <4>4. CASE p \in Client /\ h \in held[p] /\ q = Ticker
        BY <2>2, <3>1, <4>4
      <4> QED
        BY <1>14, <4>1, <4>2, <4>3, <4>4
    <3> QED
      BY <3>1
  <2> QED
    BY <1>1, <2>1, <2>3, <2>4 DEF LeasedOnce, WheelEntry
<1>18. DeadOnce'
  BY <1>0, DeadFrame DEF EngineInv
<1> QED
  BY <1>11, <1>12, <1>13, <1>15, <1>16, <1>17, <1>18 DEF EngineInv

=============================================================================
