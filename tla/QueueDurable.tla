---------------------------- MODULE QueueDurable ----------------------------
(***************************************************************************)
(* One queue with its durable side: the operations of QueueEngine composed *)
(* with the committer goroutine, the write-ahead log, the apply cursor,    *)
(* checkpoints (index.dat and the truncation of the log), crashes, and the *)
(* recovery that rebuilds the queue from the checkpoint and the log        *)
(* (internal/queue/queue.go, internal/index/index.go).                     *)
(*                                                                         *)
(* The log here is a function from LSN to record that loses nothing it has *)
(* made durable; Wal models the files behind it.                           *)
(***************************************************************************)
EXTENDS QueueEngine, IndexFile, Sequences

LOCAL INSTANCE SequencesExt

CONSTANTS
  WithReplay,      \* whether callers replay dead letters
  LateWrites,      \* whether records of a failed append may be on disk
  MaxLSN,          \* bound: LSNs assigned
  MaxRestarts,     \* bound: crashes
  MaxCheckpoints   \* bound: checkpoints

ASSUME DurableAssumption ==
  /\ WithReplay \in BOOLEAN /\ LateWrites \in BOOLEAN /\ MaxLSN \in Nat
  /\ MaxRestarts \in Nat /\ MaxCheckpoints \in Nat

VARIABLES
  log,             \* the records on disk: LSN -> record
  walLSN,          \* WAL.lsn, the last LSN assigned
  durableLSN,      \* WAL.durableLSN
  snapshot,        \* index.dat
  shadow,          \* earlier versions of it that a crash may bring back
  disk,            \* payload bytes known to be on disk
  group,           \* committer: the requests of the flush in progress
  batch,           \* committer: durable requests not yet woken, [p, first, last]
  lsn,             \* the LSN range each operation got from submitCommit
  pending, high, contig,   \* the apply cursor
  ckpt,            \* Checkpoint in progress: [step, lsn]
  restarts, checkpoints,
  confirmed,       \* payloads whose Enqueue returned without error
  gone             \* payloads whose ACK record is durable

cursorVars == <<pending, high, contig>>
commitVars == <<group, batch, lsn>>
logVars == <<log, walLSN, durableLSN>>
history == <<confirmed, gone>>
indexFile == <<snapshot, shadow>>
durableVars == <<logVars, indexFile, disk, commitVars, cursorVars, ckpt,
                 restarts, checkpoints, history>>
dvars == <<vars, durableVars>>

NoLSN == [first |-> 0, last |-> 0]

\* Requests begun and not yet finished, and the last LSN begun or lost: the
\* state of the apply cursor's callers.
Begun == {lsn[p] : p \in {q \in Process : lsn[q] # NoLSN}}
BegunLSN == IF batch = << >> THEN walLSN ELSE Head(batch).first - 1

Cursor == INSTANCE ApplyCursor WITH open <- Begun, walLSN <- BegunLSN

DInit ==
  /\ Init
  /\ log = [l \in {} |-> 0] /\ walLSN = 0 /\ durableLSN = 0
  /\ snapshot = encode(0, [r \in {} |-> NoSlot]) /\ shadow = {}
  /\ disk = content
  /\ group = << >> /\ batch = << >> /\ lsn = [p \in Process |-> NoLSN]
  /\ pending = {} /\ high = 0 /\ contig = 0
  /\ ckpt = [step |-> "none", lsn |-> 0]
  /\ restarts = 0 /\ checkpoints = 0
  /\ confirmed = {} /\ gone = {}

----------------------------------------------------------------------------
\* The committer: runCommitter.

ById(S) == SetToSortSeq(S, LAMBDA a, b : a.id < b.id)

\* The records of the operation p is in.
Records(p) ==
  CASE op[p] \in {"enqueue", "replay"} ->
         ById({[op |-> "ENQUEUE", id |-> it.id, ref |-> it.ref, pay |-> it.pay,
                avail |-> it.avail, body |-> it.body] : it \in items[p]})
    [] op[p] = "lease" ->
         ById({[op |-> "LEASE", id |-> d.id, nonce |-> d.nonce,
                attempt |-> d.attempt, until |-> d.until] : d \in leased[p]})
    [] op[p] = "ack" ->
         ById({[op |-> "ACK", id |-> h.id, body |-> h.slot.body] : h \in held[p]})
    [] op[p] = "nack" ->
         ById({IF Exhausted(h.slot) THEN [op |-> "DEAD", id |-> h.id]
               ELSE [op |-> "NACK", id |-> h.id, at |-> h.at] : h \in held[p]})
    [] op[p] = "tick" ->
         << [op |-> IF \E h \in held[p] : h.id = current THEN "DEAD" ELSE "EXPIRE",
             id |-> current] >>

\* The batch as it is handed to AppendBatch: the records of the requests in
\* order, and the LSN range each request will have.
Flatten ==
  FoldLeft(LAMBDA acc, p :
             [recs |-> acc.recs \o Records(p),
              ranges |-> Append(acc.ranges,
                [p |-> p, first |-> walLSN + Len(acc.recs) + 1,
                 last |-> walLSN + Len(acc.recs) + Len(Records(p))])],
           [recs |-> << >>, ranges |-> << >>], group)

Logged(recs) ==
  [l \in DOMAIN log \cup walLSN + 1 .. walLSN + Len(recs) |->
     IF l > walLSN THEN recs[l - walLSN] ELSE log[l]]

\* Collect a batch of waiting requests and sync their payload pages.
FlushSync ==
  /\ group = << >> /\ batch = << >>
  /\ \E S \in (SUBSET {p \in Process : phase[p] = "commit"}) \ {{}} :
       /\ group' \in SetToSeqs(S)
       /\ disk' = [s \in PageSlot |->
            IF \E p \in S \cap Client : s \in Pays(items[p]) THEN content[s] ELSE disk[s]]
  /\ UNCHANGED <<vars, logVars, indexFile, batch, lsn, cursorVars, ckpt, restarts,
                 checkpoints, history>>

\* Append their records and sync the log.
FlushAppend ==
  LET f == Flatten IN
  /\ group # << >> /\ walLSN + Len(f.recs) <= MaxLSN
  /\ log' = Logged(f.recs)
  /\ walLSN' = walLSN + Len(f.recs) /\ durableLSN' = walLSN'
  /\ batch' = f.ranges /\ group' = << >>
  /\ gone' = gone \cup {f.recs[i].body : i \in {j \in DOMAIN f.recs : f.recs[j].op = "ACK"}}
  /\ UNCHANGED <<vars, indexFile, disk, lsn, cursorVars, ckpt, restarts, checkpoints,
                 confirmed>>

\* The payload sync failed, or the append did after LSNs had been assigned:
\* every request of the batch gets the error.  The first records may be on
\* disk all the same.
FlushFail ==
  /\ group # << >>
  /\ walLSN' \in {l \in {walLSN, walLSN + Len(Flatten.recs)} : l <= MaxLSN}
  /\ \E k \in 0..(IF LateWrites THEN walLSN' - walLSN ELSE 0) :
       log' = Logged(SubSeq(Flatten.recs, 1, k))
  /\ FailBatch(ToSet(group))
  /\ group' = << >>
  /\ UNCHANGED <<durableLSN, indexFile, disk, batch, lsn, cursorVars, ckpt,
                 restarts, checkpoints, history>>

\* Mutant: the producer is woken without the cursor knowing of its records.
FlushWakeUnregistered ==
  /\ batch # << >>
  /\ LET b == Head(batch) IN
       /\ lsn' = [lsn EXCEPT ![b.p] = [first |-> b.first, last |-> b.last]]
       /\ CommitBatch({b.p})
  /\ batch' = Tail(batch)
  /\ UNCHANGED <<logVars, indexFile, disk, group, cursorVars, ckpt, restarts,
                 checkpoints, history>>

\* Register the next request of the batch with the cursor, then wake it.
FlushWake ==
  /\ batch # << >>
  /\ LET b == Head(batch) IN
       /\ Cursor!Begin(b.first, b.last)
       /\ lsn' = [lsn EXCEPT ![b.p] = [first |-> b.first, last |-> b.last]]
       /\ CommitBatch({b.p})
  /\ batch' = Tail(batch)
  /\ UNCHANGED <<logVars, indexFile, disk, group, ckpt, restarts, checkpoints, history>>

----------------------------------------------------------------------------
\* The operations of the engine.

\* Steps that touch neither the log nor the cursor.
Volatile(A) == A /\ UNCHANGED durableVars

\* Steps that end with apply.finish.
Finishing(p, A) ==
  /\ A
  /\ Cursor!Finish(lsn[p].first, lsn[p].last)
  /\ lsn' = [lsn EXCEPT ![p] = NoLSN]
  /\ UNCHANGED <<logVars, indexFile, disk, group, batch, ckpt, restarts, checkpoints, gone>>

DCall(c) ==
  \/ \E n \in BatchSizes, delay \in Delays : Volatile(EnqueueReserve(c, n, delay))
  \/ \E n \in LeaseSizes, v \in Visibility : Volatile(Lease(c, n, v))
  \/ \E d \in delivered : Volatile(Ack(c, d))
  \/ \E d \in delivered, delay \in Delays : Volatile(Nack(c, d, delay))
  \/ /\ WithReplay
     /\ \E S \in SUBSET dead, delay \in Delays : Volatile(ReplayTake(c, S, delay))

DContinue(c) ==
  \/ Volatile(EnqueueAlloc(c)) \/ Volatile(EnqueueAllocFail(c)) \/ Volatile(EnqueueUndo(c))
  \/ /\ Finishing(c, EnqueueApply(c))
     /\ confirmed' = confirmed \cup {it.body : it \in items[c]}
  \/ Finishing(c, LeaseReturn(c)) /\ UNCHANGED confirmed
  \/ Volatile(LeaseRollback(c))
  \/ Volatile(AckRelease(c))
  \/ Finishing(c, AckFree(c)) /\ UNCHANGED confirmed
  \/ Volatile(GiveBack(c))
  \/ Finishing(c, NackApply(c)) /\ UNCHANGED confirmed
  \/ Volatile(ReplayReserve(c)) \/ Volatile(ReplayReject(c))
  \/ Volatile(ReplayPutBack(c)) \/ Volatile(ReplayFree(c))

DTick ==
  \/ Volatile(Tick)
  \/ Finishing(Ticker, TickDead) /\ UNCHANGED confirmed
  \/ Finishing(Ticker, TickExpire) /\ UNCHANGED confirmed

----------------------------------------------------------------------------
\* Checkpoint, by the ticker, by Close or by a client of the API: at any
\* moment, one at a time (checkpointMu).

\* Mutant: the durable LSN alone, applied or not.
CheckpointLSNDurable == durableLSN

CheckpointLSN == IF contig < durableLSN THEN contig ELSE durableLSN

CheckpointRead ==
  /\ ckpt.step = "none" /\ checkpoints < MaxCheckpoints
  /\ ckpt' = [step |-> "write", lsn |-> CheckpointLSN]
  /\ checkpoints' = checkpoints + 1
  /\ UNCHANGED <<vars, logVars, indexFile, disk, commitVars, cursorVars, restarts, history>>

\* Index.Checkpoint copies the live slots under the index's own lock, so it
\* may see some of the slots an Enqueue is publishing and not others.  The
\* copy is synced as index.dat.tmp and renamed; until the directory is synced
\* a crash may bring the old file back.
CheckpointWrite ==
  /\ ckpt.step = "write"
  /\ \E seen \in SUBSET UNION {items[c] : c \in {d \in Client : phase[d] = "ok"}} :
       snapshot' = encode(ckpt.lsn,
         [r \in DOMAIN idx \cup Refs(seen) |->
            IF r \in Refs(seen) THEN ItemSlot(CHOOSE it \in seen : it.ref = r)
            ELSE idx[r]])
  /\ shadow' = shadow \cup {snapshot}
  /\ ckpt' = [ckpt EXCEPT !.step = "sync"]
  /\ UNCHANGED <<vars, logVars, disk, commitVars, cursorVars, restarts, checkpoints, history>>

\* An error of Index.Checkpoint, before the rename or after it: nothing is
\* truncated.
CheckpointFail ==
  /\ ckpt.step \in {"write", "sync"}
  /\ ckpt' = [step |-> "none", lsn |-> 0]
  /\ UNCHANGED <<vars, logVars, indexFile, disk, commitVars, cursorVars, restarts,
                 checkpoints, history>>

\* TruncatePrefix drops whole closed segments: some of the records the
\* checkpoint covers, never the last record of the log.
TruncatePrefix ==
  \E upTo \in 0..ckpt.lsn :
    log' = [l \in {k \in DOMAIN log : k > upTo \/ \A j \in DOMAIN log : j <= k} |-> log[l]]

\* Mutant: the log is truncated without waiting for the directory.
CheckpointTruncateUnsynced ==
  /\ ckpt.step = "sync"
  /\ TruncatePrefix
  /\ ckpt' = [step |-> "none", lsn |-> 0]
  /\ UNCHANGED <<vars, walLSN, durableLSN, indexFile, disk, commitVars, cursorVars,
                 restarts, checkpoints, history>>

\* The directory is synced, then the log truncated.  A crash in between, and
\* an error of TruncatePrefix, are the case in which nothing is dropped.
CheckpointTruncate ==
  /\ ckpt.step = "sync"
  /\ shadow' = {}
  /\ TruncatePrefix
  /\ ckpt' = [step |-> "none", lsn |-> 0]
  /\ UNCHANGED <<vars, walLSN, durableLSN, snapshot, disk, commitVars, cursorVars,
                 restarts, checkpoints, history>>

----------------------------------------------------------------------------
\* Recovery: recover(), as a function of the checkpoint and of the log.

RefsOf(f, id) == {r \in DOMAIN f : f[r].id = id}

\* Change the slot that findSlot finds, if there is one.
Update(st, id, change(_)) ==
  [st EXCEPT !.idx = [r \in DOMAIN st.idx |->
     IF r \in RefsOf(st.idx, id) THEN change(st.idx[r]) ELSE st.idx[r]]]

Unleased(slot, state) == [slot EXCEPT !.state = state, !.until = 0, !.nonce = 0]

\* Mutant: the index slot is left as it is.
BuryListOnly(st, S, bytes) ==
  [st EXCEPT
     !.dead = @ \cup {[id |-> st.idx[r].id, ref |-> r, pay |-> st.idx[r].pay,
                       attempts |-> st.idx[r].attempts, body |-> bytes[st.idx[r].pay]] :
                        r \in {s \in S : \A m \in st.dead : m.id # st.idx[s].id}}]

\* deadLetterLocked on the state under recovery; bytes are the payloads.
Bury(st, S, bytes) ==
  [st EXCEPT
     !.idx = [r \in DOMAIN st.idx |->
                IF r \in S THEN Unleased(st.idx[r], DEAD) ELSE st.idx[r]],
     !.dead = @ \cup {[id |-> st.idx[r].id, ref |-> r, pay |-> st.idx[r].pay,
                       attempts |-> st.idx[r].attempts, body |-> bytes[st.idx[r].pay]] :
                        r \in {s \in S : \A m \in st.dead : m.id # st.idx[s].id}}]


ReplayExpire(s) == IF s.state = INFLIGHT THEN Unleased(s, READY) ELSE s

ReplayRecord(st, rec, bytes) ==
  CASE rec.op = "ENQUEUE" ->
         [st EXCEPT !.maxID = IF rec.id > @ THEN rec.id ELSE @,
                    !.idx = Put(@, rec.ref,
            [NoSlot EXCEPT !.id = rec.id, !.avail = rec.avail, !.pay = rec.pay,
                           !.body = rec.body,
                           !.state = IF rec.avail > now THEN DELAYED ELSE READY])]
    [] rec.op = "LEASE" ->
         Update(st, rec.id, LAMBDA s :
           [s EXCEPT !.state = INFLIGHT, !.attempts = rec.attempt, !.until = rec.until,
                     !.nonce = rec.nonce])
    [] rec.op = "ACK" ->
         [st EXCEPT !.idx = Without(@, RefsOf(@, rec.id))]
    [] rec.op = "NACK" ->
         Update(st, rec.id, LAMBDA s : [Unleased(s, DELAYED) EXCEPT !.avail = rec.at])
    [] rec.op = "EXPIRE" ->
         Update(st, rec.id, ReplayExpire)
    [] rec.op = "DEAD" ->
         Bury(st, RefsOf(st.idx, rec.id), bytes)

\* Mutant: the first record after the checkpoint is skipped.
ReplayedSkipsOne(lg, from) == {l \in DOMAIN lg : l > from + 1}

Replayed(lg, from) == {l \in DOMAIN lg : l > from}

\* The records from the one after the checkpoint on, applied in LSN order to
\* what Index.Open has loaded.
ReplayLog(base, lg, bytes) ==
  FoldLeft(LAMBDA st, l : ReplayRecord(st, lg[l], bytes),
           [idx |-> base.live, dead |-> {}, maxID |-> 0],
           SelectSeq([l \in 1..MaxLSN |-> l], LAMBDA l : l \in Replayed(lg, base.lsn)))

\* Leases survive only if they are durable and unexpired.
Demote(f) ==
  [r \in DOMAIN f |->
     IF f[r].state = INFLIGHT /\ ~(DurableLeases /\ f[r].until > now /\ f[r].nonce # 0)
     THEN Unleased(f[r], READY) ELSE f[r]]

MaxOf(S) == IF S = {} THEN 0 ELSE CHOOSE m \in S : \A i \in S : i <= m

\* bumpMsgID over the log and over the live slots.
MaxMsgIDSeen(st) == MaxOf({st.maxID} \cup {st.idx[r].id : r \in DOMAIN st.idx})

\* The rest of recover(), from the state that the log leads to.
Recover(st, bytes) ==
  LET f == Demote(st.idx)
      buried == Bury([st EXCEPT !.idx = f], {r \in DOMAIN f : f[r].state = DEAD}, bytes)
  IN  [buried EXCEPT !.maxID = MaxMsgIDSeen(buried)]

\* Broker.collectRefs and RebuildVolatile: the slots in use after a start.
LiveRefs(f) == DOMAIN f \cup {f[r].pay : r \in DOMAIN f}

\* The versions of index.dat that a crash may leave.
OnDisk == {snapshot} \cup shadow

\* What a crash may leave.  Payload bytes that were not synced may or may not
\* have reached the disk, and so may the first records of an append that was
\* under way.
Surviving ==
  {[file |-> file, base |-> load(file), log |-> Logged(SubSeq(Flatten.recs, 1, k)),
    bytes |-> [s \in PageSlot |-> IF s \in W THEN content[s] ELSE disk[s]]] :
     file \in OnDisk, k \in {j \in 0..Len(Flatten.recs) : walLSN + j <= MaxLSN},
     W \in SUBSET {s \in PageSlot : content[s] # disk[s]}}

\* A crash and the next start.  Calls in progress are gone; the receipts that
\* callers hold are not.
Restart ==
  /\ restarts < MaxRestarts
  /\ \E d \in Surviving :
     \E st \in {Recover(replayed, d.bytes) : replayed \in {ReplayLog(d.base, d.log, d.bytes)}} :
       LET f == st.idx
           in(state) == {r \in DOMAIN f : f[r].state = state}
           last == MaxOf(DOMAIN d.log)
       IN  /\ log' = d.log /\ walLSN' = last /\ durableLSN' = last
           /\ content' = d.bytes /\ disk' = d.bytes
           /\ idx' = f /\ dead' = st.dead /\ nextMsgID' = st.maxID
           /\ ready' = {[id |-> f[r].id, ref |-> r] : r \in in(READY)}
           /\ delayed' = {[id |-> f[r].id, ref |-> r, deadline |-> f[r].avail] :
                            r \in in(DELAYED)}
           /\ receipts' = {[id |-> f[r].id, ref |-> r, nonce |-> f[r].nonce,
                            attempt |-> f[r].attempts, until |-> f[r].until] :
                             r \in in(INFLIGHT)}
           /\ inflight' = {[id |-> f[r].id, ref |-> r, deadline |-> f[r].until,
                            nonce |-> f[r].nonce] : r \in in(INFLIGHT)}
           /\ alloc' = LiveRefs(f)
           /\ gone' = gone \cup {d.log[l].body : l \in {m \in DOMAIN d.log : d.log[m].op = "ACK"}}
           /\ snapshot' = d.file /\ shadow' = {}
           /\ Cursor!Reset(MaxOf({last, d.base.lsn}))
  /\ reserved' = 0 /\ acked' = {}
  /\ op' = [p \in Process |-> "none"] /\ phase' = [p \in Process |-> "idle"]
  /\ req' = [c \in Client |-> << >>] /\ items' = [c \in Client |-> {}]
  /\ replaying' = [c \in Client |-> {}] /\ leased' = [c \in Client |-> {}]
  /\ held' = [p \in Process |-> {}] /\ expired' = {} /\ current' = 0
  /\ group' = << >> /\ batch' = << >> /\ lsn' = [p \in Process |-> NoLSN]
  /\ ckpt' = [step |-> "none", lsn |-> 0]
  /\ restarts' = restarts + 1
  /\ UNCHANGED <<now, nextNonce, nextBody, delivered, checkpoints, confirmed>>

----------------------------------------------------------------------------
DNext ==
  \/ Volatile(Tock)
  \/ \E c \in Client : DCall(c) \/ DContinue(c)
  \/ FlushSync \/ FlushAppend \/ FlushFail \/ FlushWake
  \/ DTick
  \/ CheckpointRead \/ CheckpointWrite \/ CheckpointFail \/ CheckpointTruncate
  \/ Restart

DSpec == DInit /\ [][DNext]_dvars

----------------------------------------------------------------------------
\* Properties.

\* What a crash at this moment may bring back, as the index after recovery.
Recoverable ==
  {Recover(st, disk).idx : st \in {ReplayLog(base, log, disk) : base \in {load(file) : file \in OnDisk}}}

\* A message whose Enqueue has returned is in what a crash would bring back,
\* with its payload, until its ACK record is durable: whatever the checkpoint
\* has snapshotted and truncated, and wherever other operations stand.
ConfirmedRecoverable ==
  \A f \in Recoverable, b \in confirmed \ gone :
    \E r \in DOMAIN f : f[r].body = b /\ disk[f[r].pay] = b

\* A message whose ACK record is durable never comes back.
AckedNotRecoverable ==
  \A f \in Recoverable : \A r \in DOMAIN f : f[r].body \notin gone


\* A message on the dead-letter list is dead in what a crash would bring
\* back: its DEAD record is durable, and "stays dead" (design-doc, section 6).
DeadStaysDead ==
  \A f \in Recoverable, m \in dead :
    \E r \in DOMAIN f : f[r].body = m.body /\ f[r].state = DEAD

\* Replay frees the old message without a record, so that a crash may bring
\* it back beside the new one; but then as a dead letter, and no consumer
\* gets the message from two places.  Once a restart has brought the old one
\* back, it may be replayed again (ReplayedOnce).
ReplayLeavesDead ==
  restarts = 0 =>
    \A f \in Recoverable : \A r, s \in DOMAIN f :
      r # s /\ f[r].body = f[s].body => DEAD \in {f[r].state, f[s].state}

\* The cursor of the running queue behaves as ApplyCursor says, a restart
\* being a new life of it.
CursorImplemented ==
  Cursor!Init /\ [][Cursor!Next \/ restarts' # restarts]_<<cursorVars, BegunLSN, Begun>>
=============================================================================
