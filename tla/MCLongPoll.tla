----------------------------- MODULE MCLongPoll -----------------------------
(***************************************************************************)
(* Instances of LongPoll for TLC, and two readings of "LeaseWait is like   *)
(* Lease but blocks up to wait for a message to become ready" (queue.go)   *)
(* that the code does not meet.                                            *)
(***************************************************************************)
EXTENDS LongPoll

\* No wakeup is lost to any of several consumers: while a message is ready and
\* a call waits, a token is there or on its way, or a woken call will lease.
WakeupsShared ==
  ready > 0 /\ (\E w \in Waiter : pc[w] = "wait") =>
    token \/ notifying > 0 \/ \E w \in Waiter : pc[w] = "again"

\* A call of LeaseWait that returns nothing has waited for its timer.
NoEarlyReturn == \A w \in Waiter : pc[w] # "empty"
=============================================================================
