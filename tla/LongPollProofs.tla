-------------------------- MODULE LongPollProofs --------------------------
(***************************************************************************)
(* Proofs about long polling, for any number of consumers, messages and    *)
(* notifications.                                                          *)
(***************************************************************************)
EXTENDS LongPoll, TLAPS

\* The types of the variables.
TypeOK ==
  /\ ready \in Nat /\ delayed \in Nat /\ due \in Nat /\ leased \in Nat
  /\ token \in BOOLEAN /\ notifying \in Nat /\ sent \in Nat /\ back \in Nat
  /\ pc \in [Waiter -> {"idle", "wait", "again", "got", "empty", "timeout"}]
  /\ alone \subseteq Waiter

\* Whoever has called Lease is the only one that can still be alone: nobody
\* else takes the token that is meant for a lone consumer.
AloneCalled == \A w \in Waiter : pc[w] # "idle" => alone \subseteq {w}

Inv == TypeOK /\ AloneCalled /\ WakeupPending

\* What one call of Lease takes: nothing only if nothing is ready or due.
LEMMA LeaseTakes ==
  ASSUME TypeOK, Lease
  PROVE  /\ ready' \in Nat /\ due' \in Nat /\ leased' \in Nat
         /\ ~ (leased' > leased) => ready' = 0
BY LongPollAssumption DEF TypeOK, Lease

\* Only Poll and LeaseOnly call Lease; every other step that makes a message
\* ready leaves a notification behind it, and a token taken from a lone
\* consumer is taken by that consumer.
LEMMA InvNext == Inv /\ [Next]_vars => Inv'
<1> SUFFICES ASSUME Inv, [Next]_vars PROVE Inv'
  OBVIOUS
<1> USE DEF Inv
<1>1. ASSUME NEW n \in BatchSizes, Enqueue(n) PROVE Inv'
  BY <1>1, LongPollAssumption DEF Enqueue, TypeOK, AloneCalled, WakeupPending
<1>2. CASE Elapse
  BY <1>2 DEF Elapse, TypeOK, AloneCalled, WakeupPending
<1>3. ASSUME NEW expired \in 0..MaxMessages, Tick(expired) PROVE Inv'
  BY <1>3, LongPollAssumption DEF Tick, TypeOK, AloneCalled, WakeupPending
<1>4. CASE Nack
  BY <1>4 DEF Nack, TypeOK, AloneCalled, WakeupPending
<1>5. CASE Ack
  BY <1>5 DEF Ack, TypeOK, AloneCalled, WakeupPending
<1>6. CASE Notify
  BY <1>6 DEF Notify, messages, TypeOK, AloneCalled, WakeupPending
<1>7. CASE LeaseOnly
  BY <1>7, LeaseTakes DEF LeaseOnly, TypeOK, AloneCalled, WakeupPending
<1>8. ASSUME NEW w \in Waiter, Poll(w) PROVE Inv'
  <2>1. /\ alone' = alone \cap {w}
        /\ UNCHANGED <<delayed, token, notifying, sent, back>>
        /\ pc' = [pc EXCEPT ![w] =
             IF leased' > leased THEN "got" ELSE IF pc[w] = "idle" THEN "wait" ELSE "empty"]
    BY <1>8 DEF Poll, TypeOK
  <2>2. /\ ready' \in Nat /\ due' \in Nat /\ leased' \in Nat
        /\ ~ (leased' > leased) => ready' = 0
    BY <1>8, LeaseTakes DEF Poll
  <2>3. TypeOK'
    BY <2>1, <2>2 DEF TypeOK
  <2>4. AloneCalled'
    BY <2>1 DEF TypeOK, AloneCalled
  <2>5. WakeupPending'
    BY <2>1, <2>2 DEF TypeOK, WakeupPending
  <2> QED
    BY <2>3, <2>4, <2>5
<1>9. ASSUME NEW w \in Waiter, Wake(w) PROVE Inv'
  BY <1>9 DEF Wake, messages, TypeOK, AloneCalled, WakeupPending
<1>10. ASSUME NEW w \in Waiter, TimeOut(w) PROVE Inv'
  BY <1>10 DEF TimeOut, messages, TypeOK, AloneCalled, WakeupPending
<1>11. ASSUME NEW w \in Waiter, CallAgain(w) PROVE Inv'
  BY <1>11 DEF CallAgain, messages, TypeOK, AloneCalled, WakeupPending
<1>12. CASE UNCHANGED vars
  BY <1>12 DEF vars, messages, TypeOK, AloneCalled, WakeupPending
<1> QED
  BY <1>1, <1>2, <1>3, <1>4, <1>5, <1>6, <1>7, <1>8, <1>9, <1>10, <1>11, <1>12
  DEF Next

\* No wakeup is lost to a lone consumer of LeaseWait, whatever Enqueue, Nack,
\* the ticker and its own timeouts do in between and however many messages
\* there are.
THEOREM NoWakeupLost == Spec => []WakeupPending
<1>1. Init => Inv
  <2> SUFFICES ASSUME Init PROVE Inv
    OBVIOUS
  <2>1. token \in BOOLEAN
    BY Zenon DEF Init
  <2>2. ~ (ready > 0) /\ pc \in [Waiter -> {"idle"}]
    BY DEF Init
  <2>3. TypeOK
    BY <2>1, <2>2 DEF Init, TypeOK
  <2> QED
    BY <2>2, <2>3 DEF Inv, AloneCalled, WakeupPending
<1>2. Inv /\ [Next]_vars => Inv'
  BY InvNext
<1>3. Inv => WakeupPending
  BY DEF Inv
<1> QED
  BY <1>1, <1>2, <1>3, PTL DEF Spec
=============================================================================
