--------------------------- MODULE CommitPipeline ---------------------------
(***************************************************************************)
(* The commit pipeline of a queue and its shutdown (internal/queue/        *)
(* queue.go: submitCommit, runCommitter, ticker, Close).  Producers hand   *)
(* their records to the committer over an unbuffered channel, so that a    *)
(* send succeeds only while the committer receives; the committer flushes  *)
(* batches and answers every producer; Close stops the committer and the   *)
(* ticker, checkpoints and closes the log.                                 *)
(***************************************************************************)
EXTENDS Naturals, Sequences

CONSTANTS
  Producer,        \* goroutines of clients that commit records
  Ticker,          \* the ticker goroutine, which commits too
  Records,         \* records of a request
  BatchSize,       \* commitBatchSize
  MaxRequests      \* bound: requests submitted

ASSUME PipelineAssumption ==
  /\ Ticker \notin Producer /\ Records \subseteq Nat
  /\ BatchSize \in Nat \ {0} /\ MaxRequests \in Nat

VARIABLES
  pc,              \* "idle", "send", "wait", "apply", or "exit" (ticker only)
  req,             \* what each process has submitted: [id, n]
  result,          \* what it was told: [first, last, ok]
  batch,           \* requests received and not flushed: <<process, ...>>
  committer,       \* "run", "drain" or "exit"
  stop,            \* stopCh is closed
  closer,          \* Close: "idle", "wait", "checkpoint", "wal" or "done"
  log,             \* the log: the request each record belongs to
  lsn,             \* last LSN assigned; a failed batch uses LSNs up
  begun,           \* the unapplied requests the apply cursor knows: [first, last]
  cut,             \* the LSN the last checkpoint covers
  requests

Process == Producer \cup {Ticker}
vars == <<pc, req, result, batch, committer, stop, closer, log, lsn, begun, cut, requests>>
clients == <<pc, req, result>>
durable == <<log, lsn, begun, cut>>

Nothing == [first |-> 0, last |-> 0, ok |-> FALSE]

Init ==
  /\ pc = [p \in Process |-> "idle"]
  /\ req = [p \in Process |-> [id |-> 0, n |-> 0]]
  /\ result = [p \in Process |-> Nothing]
  /\ batch = << >> /\ committer = "run" /\ stop = FALSE /\ closer = "idle"
  /\ log = << >> /\ lsn = 0 /\ begun = {} /\ cut = 0 /\ requests = 0

----------------------------------------------------------------------------
\* submitCommit.

Submit(p, n) ==
  /\ pc[p] = "idle" /\ requests < MaxRequests
  /\ requests' = requests + 1
  /\ pc' = [pc EXCEPT ![p] = "send"]
  /\ req' = [req EXCEPT ![p] = [id |-> requests + 1, n |-> n]]
  /\ UNCHANGED <<result, batch, committer, stop, closer, durable>>

\* Mutant: the channel is buffered, and a send succeeds without a receiver.
SendBuffered(p) ==
  /\ pc[p] = "send"
  /\ batch' = Append(batch, p)
  /\ pc' = [pc EXCEPT ![p] = "wait"]
  /\ UNCHANGED <<req, result, committer, stop, closer, durable, requests>>

\* The rendezvous of a send with the committer's receive.
Send(p) ==
  /\ pc[p] = "send" /\ committer \in {"run", "drain"}
  /\ committer = "run" => Len(batch) < BatchSize
  /\ batch' = Append(batch, p)
  /\ pc' = [pc EXCEPT ![p] = "wait"]
  /\ UNCHANGED <<req, result, committer, stop, closer, durable, requests>>

\* Instead the producer sees stopCh and returns ErrClosed.
SendClosed(p) ==
  /\ pc[p] = "send" /\ stop
  /\ pc' = [pc EXCEPT ![p] = "idle"]
  /\ UNCHANGED <<req, result, batch, committer, stop, closer, durable, requests>>

\* The caller applies its records to the index, and the cursor learns of it.
Apply(p) ==
  /\ pc[p] = "apply"
  /\ begun' = begun \ {[first |-> result[p].first, last |-> result[p].last]}
  /\ pc' = [pc EXCEPT ![p] = "idle"]
  /\ UNCHANGED <<req, result, batch, committer, stop, closer, log, lsn, cut, requests>>

----------------------------------------------------------------------------
\* runCommitter.

BatchProcs == {batch[i] : i \in DOMAIN batch}

\* The last LSN assigned after the first i requests of the batch.
assigned[i \in 0..Len(batch)] == IF i = 0 THEN lsn ELSE assigned[i - 1] + req[batch[i]].n

Total == assigned[Len(batch)] - lsn

\* allWalRecs after the first i requests: the request each record is of.
allWalRecs[i \in 0..Len(batch)] ==
  IF i = 0 THEN << >>
  ELSE allWalRecs[i - 1] \o [k \in 1..req[batch[i]].n |-> req[batch[i]].id]

\* Mutant: every request of the batch is given the LSNs of the first one.
FirstOfOne(i) == lsn + 1

\* The first LSN of the i-th request of the batch.
FirstOf(i) == assigned[i - 1] + 1

\* What the i-th request of a durable batch is told.
Answer(i) ==
  IF req[batch[i]].n = 0 THEN [first |-> 0, last |-> 0, ok |-> TRUE]
  ELSE [first |-> FirstOf(i), last |-> FirstOf(i) + req[batch[i]].n - 1, ok |-> TRUE]

\* Mutant: the cursor does not learn of the requests.
RegisterNone(answers) == begun

\* begin() for each request that has records, before anyone is told.
Register(answers) == begun \cup
  {[first |-> answers[i].first, last |-> answers[i].last] :
     i \in {j \in DOMAIN answers : answers[j].last # 0}}

\* flush: the batch is durable and everybody is answered; or the sync of the
\* pages or the append has failed.  A failed append has used its LSNs up.
FlushOk ==
  LET answers == [i \in 1..Len(batch) |-> Answer(i)]
      recs == allWalRecs[Len(batch)]
  IN  /\ log' = log \o [k \in 1..Len(recs) |-> [lsn |-> lsn + k, id |-> recs[k]]]
      /\ lsn' = lsn + Total
      /\ begun' = Register(answers)
      /\ result' = [p \in Process |->
           IF p \in BatchProcs THEN answers[CHOOSE i \in DOMAIN batch : batch[i] = p]
           ELSE result[p]]
      /\ pc' = [p \in Process |-> IF p \in BatchProcs THEN "apply" ELSE pc[p]]

FlushFail ==
  /\ lsn' \in {lsn, lsn + Total}
  /\ result' = [p \in Process |-> IF p \in BatchProcs THEN Nothing ELSE result[p]]
  /\ pc' = [p \in Process |-> IF p \in BatchProcs THEN "idle" ELSE pc[p]]
  /\ UNCHANGED <<log, begun>>

\* The batch is full or the lag timer has fired.
Flush ==
  /\ committer = "run" /\ batch # << >>
  /\ FlushOk \/ FlushFail
  /\ batch' = << >>
  /\ UNCHANGED <<req, committer, stop, closer, cut, requests>>

\* The committer sees stopCh only between two batches' receives.
Drain ==
  /\ committer = "run" /\ stop /\ Len(batch) < BatchSize
  /\ committer' = "drain"
  /\ UNCHANGED <<clients, batch, stop, closer, durable, requests>>

\* Mutant: on stopCh the committer leaves without its last flush.
ExitUnflushed ==
  /\ committer = "drain" /\ committer' = "exit"
  /\ UNCHANGED <<clients, batch, stop, closer, durable, requests>>

\* No sender is ready: the last flush, and the end of the goroutine.
Exit ==
  /\ committer = "drain" /\ committer' = "exit"
  /\ IF batch = << >> THEN UNCHANGED <<pc, result, log, lsn, begun>> ELSE FlushOk \/ FlushFail
  /\ batch' = << >>
  /\ UNCHANGED <<req, stop, closer, cut, requests>>

----------------------------------------------------------------------------
\* Close.

TickerExit ==
  /\ pc[Ticker] = "idle" /\ stop
  /\ pc' = [pc EXCEPT ![Ticker] = "exit"]
  /\ UNCHANGED <<req, result, batch, committer, stop, closer, durable, requests>>

CloseStop ==
  /\ closer = "idle" /\ closer' = "wait" /\ stop' = TRUE
  /\ UNCHANGED <<clients, batch, committer, durable, requests>>

CloseWait ==
  /\ closer = "wait" /\ pc[Ticker] = "exit" /\ committer = "exit"
  /\ closer' = "checkpoint"
  /\ UNCHANGED <<clients, batch, committer, stop, durable, requests>>

\* The watermark that applied() returns.
Applied ==
  LET below == {IF log = << >> THEN 0 ELSE log[Len(log)].lsn} \cup {r.first - 1 : r \in begun}
  IN  CHOOSE l \in below : \A k \in below : l <= k

CloseCheckpoint ==
  /\ closer = "checkpoint" /\ closer' = "wal" /\ cut' = Applied
  /\ UNCHANGED <<clients, batch, committer, stop, log, lsn, begun, requests>>

CloseWal ==
  /\ closer = "wal" /\ closer' = "done"
  /\ UNCHANGED <<clients, batch, committer, stop, durable, requests>>

Next ==
  \/ \E p \in Process :
       (\E n \in Records : Submit(p, n)) \/ Send(p) \/ SendClosed(p) \/ Apply(p)
  \/ Flush \/ Drain \/ Exit
  \/ TickerExit \/ CloseStop \/ CloseWait \/ CloseCheckpoint \/ CloseWal

Spec == Init /\ [][Next]_vars

\* Goroutines that can go on do so.  A select takes every ready case now and
\* then: the ticker sees stopCh although ticks keep coming.
FairSpec ==
  /\ Spec
  /\ WF_vars(Flush) /\ WF_vars(Drain) /\ WF_vars(Exit) /\ SF_vars(TickerExit)
  /\ WF_vars(CloseWait) /\ WF_vars(CloseCheckpoint) /\ WF_vars(CloseWal)
  /\ \A p \in Process : WF_vars(Send(p) \/ SendClosed(p)) /\ WF_vars(Apply(p))

----------------------------------------------------------------------------
\* Properties.

\* A producer waits for an answer exactly while the committer has its request:
\* nobody is left waiting when the committer has gone ("send fails closed
\* after committer exits").
WaitingHeld ==
  /\ {p \in Process : pc[p] = "wait"} = BatchProcs
  /\ committer = "exit" => batch = << >>

Logged == {log[k] : k \in DOMAIN log}

\* The LSNs a producer is told are those of its own records in the log.
RangesExact ==
  \A p \in Process : pc[p] = "apply" /\ req[p].n > 0 =>
    {e.lsn : e \in {x \in Logged : x.id = req[p].id}} = result[p].first..result[p].last

\* The checkpoint of Close covers no record whose caller has not applied it.
CloseCutsApplied ==
  \A p \in Process : pc[p] = "apply" /\ req[p].n > 0 => cut < result[p].first

\* Close completes: the ticker and the committer both leave, although calls
\* keep coming until then.
CloseCompletes == (closer = "wait") ~> (closer = "done")
=============================================================================
