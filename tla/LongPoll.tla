------------------------------ MODULE LongPoll ------------------------------
(***************************************************************************)
(* Long polling (internal/queue/queue.go, LeaseWait and notify): consumers *)
(* that found nothing to lease wait on notifyCh, a channel with a buffer   *)
(* of one token, and everything that makes a message ready is expected to  *)
(* put a token there.  Messages are only counted here; QueueEngine models  *)
(* what they go through.                                                   *)
(***************************************************************************)
EXTENDS Naturals, FiniteSets

CONSTANTS
  Waiter,          \* calls of LeaseWait
  BatchSizes,      \* messages per Enqueue
  LeaseMax,        \* the max argument of a lease
  MaxMessages,     \* bound: messages enqueued
  MaxReturns       \* bound: leased messages that come back

ASSUME LongPollAssumption ==
  /\ BatchSizes \subseteq Nat \ {0} /\ LeaseMax \in Nat \ {0}
  /\ MaxMessages \in Nat /\ MaxReturns \in Nat

VARIABLES
  ready, delayed, leased,   \* messages in each state
  due,             \* delayed messages whose time has come
  token,           \* notifyCh holds a token
  notifying,       \* calls that have unlocked q.mu and are about to notify
  pc,              \* "idle", "wait" or "again"; "got", "empty" or "timeout" at the end
  sent, back,
  alone            \* history: the waiters but for whom Lease was never called

messages == <<ready, delayed, due, leased>>
vars == <<messages, token, notifying, pc, sent, back, alone>>

Init ==
  /\ ready = 0 /\ delayed = 0 /\ due = 0 /\ leased = 0
  /\ token = FALSE /\ notifying = 0
  /\ pc = [w \in Waiter |-> "idle"] /\ sent = 0 /\ back = 0
  /\ alone = Waiter

----------------------------------------------------------------------------
\* What makes messages ready.

\* Enqueue notifies whether or not the messages are delayed.
Enqueue(n) ==
  /\ sent + n <= MaxMessages /\ sent' = sent + n
  /\ \/ ready' = ready + n /\ UNCHANGED delayed
     \/ delayed' = delayed + n /\ UNCHANGED ready
  /\ notifying' = notifying + 1
  /\ UNCHANGED <<due, leased, token, pc, back, alone>>

\* The time of a delayed message comes.
Elapse ==
  /\ delayed > 0 /\ delayed' = delayed - 1 /\ due' = due + 1
  /\ UNCHANGED <<ready, leased, token, notifying, pc, sent, back, alone>>

\* Mutant: the ticker notifies of expired leases only.
TickQuiet(expired) ==
  /\ expired <= leased /\ due + expired > 0 /\ back + expired <= MaxReturns
  /\ ready' = ready + due + expired /\ due' = 0 /\ leased' = leased - expired
  /\ back' = back + expired
  /\ notifying' = IF expired > 0 THEN notifying + 1 ELSE notifying
  /\ UNCHANGED <<delayed, token, pc, sent, alone>>
\* tick promotes what is due and takes back expired leases.
Tick(expired) ==
  /\ expired <= leased /\ due + expired > 0 /\ back + expired <= MaxReturns
  /\ ready' = ready + due + expired /\ due' = 0 /\ leased' = leased - expired
  /\ back' = back + expired
  /\ notifying' = notifying + 1
  /\ UNCHANGED <<delayed, token, pc, sent, alone>>

\* Mutant: a nack never notifies.
NackQuiet ==
  /\ leased > 0 /\ leased' = leased - 1 /\ back < MaxReturns /\ back' = back + 1
  /\ ready' = ready + 1
  /\ UNCHANGED <<delayed, due, token, notifying, pc, sent, alone>>

\* A nack without delay makes the message ready, one with a delay does not.
Nack ==
  /\ leased > 0 /\ leased' = leased - 1 /\ back < MaxReturns /\ back' = back + 1
  /\ \/ ready' = ready + 1 /\ notifying' = notifying + 1 /\ UNCHANGED delayed
     \/ delayed' = delayed + 1 /\ UNCHANGED <<ready, notifying>>
  /\ UNCHANGED <<due, token, pc, sent, alone>>

Ack ==
  /\ leased > 0 /\ leased' = leased - 1
  /\ UNCHANGED <<ready, delayed, due, token, notifying, pc, sent, back, alone>>

\* notify: a send that does not block.
Notify ==
  /\ notifying > 0 /\ notifying' = notifying - 1
  /\ token' = TRUE
  /\ UNCHANGED <<messages, pc, sent, back, alone>>

----------------------------------------------------------------------------
\* Lease and LeaseWait.

\* Lease promotes what is due, without notifying, and takes up to LeaseMax.
Lease ==
  LET n == IF ready + due < LeaseMax THEN ready + due ELSE LeaseMax
  IN  /\ ready' = ready + due - n /\ due' = 0
      /\ leased' = leased + n

\* A consumer that calls Lease and does not wait.
LeaseOnly ==
  /\ ready + due > 0
  /\ Lease /\ alone' = {}
  /\ UNCHANGED <<delayed, token, notifying, pc, sent, back>>

Poll(w) ==
  /\ pc[w] \in {"idle", "again"}
  /\ Lease /\ alone' = alone \cap {w}
  /\ pc' = [pc EXCEPT ![w] =
       IF leased' > leased THEN "got" ELSE IF @ = "idle" THEN "wait" ELSE "empty"]
  /\ UNCHANGED <<delayed, token, notifying, sent, back>>

Wake(w) ==
  /\ pc[w] = "wait" /\ token
  /\ token' = FALSE
  /\ pc' = [pc EXCEPT ![w] = "again"]
  /\ UNCHANGED <<messages, notifying, sent, back, alone>>

TimeOut(w) ==
  /\ pc[w] = "wait"
  /\ pc' = [pc EXCEPT ![w] = "timeout"]
  /\ UNCHANGED <<messages, token, notifying, sent, back, alone>>

\* The consumer calls LeaseWait again.
CallAgain(w) ==
  /\ pc[w] \in {"got", "empty", "timeout"}
  /\ pc' = [pc EXCEPT ![w] = "idle"]
  /\ UNCHANGED <<messages, token, notifying, sent, back, alone>>

Next ==
  \/ \E n \in BatchSizes : Enqueue(n)
  \/ Elapse \/ Nack \/ Ack \/ Notify \/ LeaseOnly
  \/ \E expired \in 0..MaxMessages : Tick(expired)
  \/ \E w \in Waiter : Poll(w) \/ Wake(w) \/ TimeOut(w) \/ CallAgain(w)

Spec == Init /\ [][Next]_vars

\* Goroutines that can go on do so, and the ticker keeps ticking; nothing is
\* assumed of timers, nor of consumers calling.
FairSpec ==
  /\ Spec
  /\ WF_vars(Notify) /\ WF_vars(\E expired \in 0..MaxMessages : Tick(expired))
  /\ \A w \in Waiter : WF_vars(pc[w] = "again" /\ Poll(w)) /\ WF_vars(Wake(w))

----------------------------------------------------------------------------
\* Properties.

\* No wakeup is lost to a lone consumer: while a message is ready and its call
\* of LeaseWait waits, a token is in the channel or on its way ("blocks up to
\* wait for a message to become ready").
WakeupPending ==
  \A w \in alone : ready > 0 /\ pc[w] = "wait" => token \/ notifying > 0

\* A message that is ready or due ends the wait of a lone consumer, without
\* the timer's help.
WaitersServed ==
  \A w \in Waiter :
    (pc[w] = "wait" /\ ready + due > 0) ~> (pc[w] # "wait" \/ ready + due = 0 \/ w \notin alone)

=============================================================================
