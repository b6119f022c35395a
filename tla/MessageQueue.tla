---------------------------- MODULE MessageQueue ----------------------------
(***************************************************************************)
(* What a queue promises its users between two restarts, with every call   *)
(* atomic: a message is waiting, leased to one consumer, dead or gone, it  *)
(* is not handed out before its time or more often than allowed, and a     *)
(* dead letter can be sent round again.  QueueEngine implements it.        *)
(***************************************************************************)
EXTENDS Integers

CONSTANTS
  Body,            \* the messages callers may create
  MaxAttempts,     \* attempts per message, 0 = unlimited
  MaxDelay,        \* the longest delay Enqueue accepts
  Delays,          \* delays callers ask for
  Visibility       \* lease durations callers ask for

VARIABLES
  clock,
  msg              \* state of each message: [st, tries, avail, until]

Unsent == [st |-> "unsent", tries |-> 0, avail |-> 0, until |-> 0]
Gone == [st |-> "gone", tries |-> 0, avail |-> 0, until |-> 0]
Waiting(tries, avail) == [st |-> "waiting", tries |-> tries, avail |-> avail, until |-> 0]

Init == clock = 0 /\ msg = [b \in Body |-> Unsent]

\* The messages in S go to the state that f gives; a batch moves as one.
Move(S, f(_)) ==
  /\ msg' = [b \in Body |-> IF b \in S THEN f(b) ELSE msg[b]]
  /\ UNCHANGED clock

InState(S, st) == S # {} /\ \A b \in S : msg[b].st = st

Spent(b) == MaxAttempts > 0 /\ msg[b].tries >= MaxAttempts

\* Delays count from the call, which may be a while ago.
Times(D) == {t + d : t \in 0..clock, d \in D}

\* New messages, and dead letters replayed as new ones.
Send(S) ==
  /\ InState(S, "unsent") \/ InState(S, "dead")
  /\ \E avail \in [S -> Times({d \in Delays : d <= MaxDelay})] :
       Move(S, LAMBDA b : Waiting(0, avail[b]))

Lease(S) ==
  /\ InState(S, "waiting") /\ \A b \in S : msg[b].avail <= clock /\ ~Spent(b)
  /\ \E v \in Visibility :
       Move(S, LAMBDA b : [st |-> "leased", tries |-> msg[b].tries + 1,
                           avail |-> msg[b].avail, until |-> clock + v])

\* The lease was never given out: it does not count as an attempt.
Cancel(S) ==
  /\ InState(S, "leased")
  /\ Move(S, LAMBDA b : Waiting(msg[b].tries - 1, msg[b].avail))

Expire(S) ==
  /\ InState(S, "leased") /\ \A b \in S : msg[b].until <= clock /\ ~Spent(b)
  /\ Move(S, LAMBDA b : Waiting(msg[b].tries, msg[b].avail))

Nack(b) ==
  /\ InState({b}, "leased") /\ ~Spent(b)
  /\ \E avail \in Times(Delays) : Move({b}, LAMBDA x : Waiting(msg[b].tries, avail))

Bury(b) ==
  /\ InState({b}, "leased") /\ Spent(b)
  /\ Move({b}, LAMBDA x : [st |-> "dead", tries |-> msg[b].tries,
                           avail |-> msg[b].avail, until |-> 0])

Ack(b) ==
  /\ InState({b}, "leased")
  /\ Move({b}, LAMBDA x : Gone)

\* A call that is refused.
Refuse == UNCHANGED <<clock, msg>>

Tock == clock' = clock + 1 /\ UNCHANGED msg

Next ==
  \/ Refuse \/ Tock
  \/ \E S \in SUBSET Body : Send(S) \/ Lease(S) \/ Cancel(S) \/ Expire(S)
  \/ \E b \in Body : Nack(b) \/ Bury(b) \/ Ack(b)

Spec == Init /\ [][Next]_<<clock, msg>>
=============================================================================
