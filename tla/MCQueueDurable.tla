--------------------------- MODULE MCQueueDurable ---------------------------
(***************************************************************************)
(* Instances of QueueDurable for TLC, and what the documents say of the    *)
(* queue across restarts that its code does not keep.                      *)
(***************************************************************************)
EXTENDS QueueDurable, TLC

\* Page-store slots are interchangeable, and so are clients.
Symmetry == Permutations(Client) \cup Permutations(PageSlot)

\* With durable_leases a lease that was delivered, is current and has not
\* run out is brought back by a crash (TestDurableLeaseSurvivesCrash).
\* Broken: the ticker readies a message before its EXPIRE record is written,
\* and replay of EXPIRE ignores the nonce, so the EXPIRE of an old lease that
\* is logged after the LEASE of the next one cancels that one.
DurableLeaseKept ==
  \A i \in receipts :
    i.until > now /\ (\E d \in delivered : SameLease(i, d)) =>
      \A f \in Recoverable : \E r \in DOMAIN f :
        f[r].id = i.id /\ f[r].state = INFLIGHT /\ f[r].nonce = i.nonce

\* With durable_leases the attempt count is exact across a crash (design-doc,
\* section 6.4).  Broken: the LEASE record of a lease that ran out while it
\* waited for the committer may follow that of the next lease, and replay
\* sets the count back.
AttemptsSurvive ==
  \A d \in delivered, f \in Recoverable : \A r \in DOMAIN f :
    f[r].body = d.body => f[r].attempts >= d.attempt

\* msg_id is monotonic (design-doc, section 3): the counter is never below an
\* id a consumer has seen.  Broken: recovery takes the counter from the live
\* slots and the records after the checkpoint, so when all messages are acked
\* and checkpointed it starts over.
MsgIDMonotonic ==
  \A d \in delivered : d.id <= nextMsgID

\* Replay takes a dead letter off the list (README): once it is done, a crash
\* does not bring the message back both as the dead letter and as the new
\* message.  Broken: Replay writes no record for the old message.
ReplayedOnce ==
  \A f \in Recoverable : \A r, s \in DOMAIN f :
    r # s /\ f[r].body = f[s].body => \E c \in Client : op[c] = "replay"
=============================================================================
