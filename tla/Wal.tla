-------------------------------- MODULE Wal --------------------------------
(***************************************************************************)
(* The write-ahead log of a queue (internal/wal/wal.go): segment files,    *)
(* group commit, rotation, truncation, and what Open and Replay make of    *)
(* the files after a crash.                                                *)
(*                                                                         *)
(* A segment file is a sequence of cells in the format of RecordCodec.  In *)
(* memory a record is [lsn, rec], where rec is its identity across lives   *)
(* of the log, in which LSNs may be used again.                            *)
(***************************************************************************)
EXTENDS RecordCodec, FiniteSets

LOCAL INSTANCE SequencesExt
LOCAL INSTANCE FiniteSetsExt

CONSTANTS
  SegLimit,        \* cells after which a segment is rotated
  BatchSizes,      \* records per AppendBatch
  ChanCap,         \* capacity of pendingCh
  MaxRec,          \* bound: records appended
  MaxCrashes,      \* bound: crashes
  MaxTears         \* bound: incomplete records, in different segments

ASSUME WalAssumption ==
  /\ SegLimit \in Nat \ {0} /\ ChanCap \in Nat \ {0}
  /\ BatchSizes \subseteq Nat \ {0}
  /\ MaxRec \in Nat /\ MaxCrashes \in Nat /\ MaxTears \in Nat

VARIABLES
  file,            \* the files: first-LSN name -> cells
  segs,            \* names of the closed segments, ascending
  segFirst,        \* name of the active segment
  size,            \* segSize: cells written to the active segment
  lsn,             \* last LSN assigned
  durableLSN,
  pendingCh,       \* batches handed to the committer: sequences of records
  batch,           \* the batches the committer is flushing
  synced,          \* cells of the active file known to be on disk
  broken,          \* segFile is closed: every further write fails
  closed,          \* "open", "closing" (flag set) or "stopped" (stopCh closed)
  running,         \* whether the committer goroutine runs
  ckptLSN,         \* the LSN of the last checkpoint that called TruncatePrefix
  lost,            \* history: TruncatePrefix has removed the active segment
  torn,            \* history: the segments in which a write left an incomplete record
  hidden,          \* history: entries flushed behind an incomplete record
  given,           \* history: the LSN each record was given
  crashes,
  acked,           \* entries whose AppendBatch returned without error
  failed           \* entries whose AppendBatch returned an error

vars == <<file, segs, segFirst, size, lsn, durableLSN, pendingCh, batch, synced,
          broken, closed, running, ckptLSN, lost, torn, hidden, given, crashes, acked, failed>>
files == <<file, segs, segFirst, size, synced, broken>>
scars == <<torn, hidden>>
bounds == <<given, crashes>>

\* The records that callers append: one of each kind.
RecordOps == <<"ACK", "LEASE", "DEAD", "NACK", "EXPIRE", "ENQUEUE", "MOVE_REF">>
RecordOf(r) ==
  LET op == RecordOps[((r - 1) % Len(RecordOps)) + 1]
  IN  [op |-> op, flags |-> 0, body |-> [f \in ToSet(Layout[op]) |-> r]]

\* The bytes of every record under every LSN.
Frame == [l \in 1..MaxRec, r \in 1..MaxRec |-> Encode(l, RecordOf(r))]

Encoded(entries) == FoldLeft(LAMBDA data, e : data \o Frame[e.lsn, e.rec], << >>, entries)

\* Whether the scan of a file reads all of it.
Clean(cells) == Scan(cells).left = << >>

Init ==
  /\ file = [n \in {1} |-> << >>] /\ segs = << >> /\ segFirst = 1
  /\ size = 0 /\ synced = 0 /\ broken = FALSE
  /\ lsn = 0 /\ durableLSN = 0 /\ pendingCh = << >> /\ batch = << >>
  /\ closed = "open" /\ running = TRUE
  /\ ckptLSN = 0 /\ lost = FALSE /\ torn = {} /\ hidden = {} /\ given = << >>
  /\ crashes = 0 /\ acked = {} /\ failed = {}

----------------------------------------------------------------------------
\* Appending.

\* AppendBatch up to the channel send, under appendMu.  On a closed log it
\* returns ErrClosed and changes nothing; but Close may set its flag while the
\* send waits for room in the channel.
AppendBatch(n) ==
  /\ closed # "stopped" /\ Len(pendingCh) < ChanCap /\ Len(given) + n <= MaxRec
  /\ pendingCh' = Append(pendingCh,
       [i \in 1..n |-> [lsn |-> lsn + i, rec |-> Len(given) + i]])
  /\ lsn' = lsn + n /\ given' = given \o [i \in 1..n |-> lsn + i]
  /\ UNCHANGED <<files, durableLSN, batch, closed, running, ckptLSN, lost, scars,
                 crashes, acked, failed>>

\* The committer drains the channel; when stopCh is closed it does so for the
\* last time.
Drain ==
  /\ running /\ batch = << >> /\ pendingCh # << >>
  /\ batch' = FlattenSeq(pendingCh) /\ pendingCh' = << >>
  /\ UNCHANGED <<files, lsn, durableLSN, closed, running, ckptLSN, lost, scars, bounds,
                 acked, failed>>

Reply(ok) ==
  /\ batch' = << >>
  /\ acked' = IF ok THEN acked \cup ToSet(batch) ELSE acked
  /\ failed' = IF ok THEN failed ELSE failed \cup ToSet(batch)

\* maybeRotate: a full active segment is synced and closed, and the next one
\* is named after the last LSN of the batch.
Rotate ==
  /\ batch # << >> /\ size >= SegLimit /\ ~broken
  /\ Last(batch).lsn \notin DOMAIN file
  /\ segs' = Append(segs, segFirst)
  /\ segFirst' = Last(batch).lsn
  /\ file' = [n \in DOMAIN file \cup {Last(batch).lsn} |->
                IF n = Last(batch).lsn THEN << >> ELSE file[n]]
  /\ size' = 0 /\ synced' = 0
  /\ UNCHANGED <<broken, lsn, durableLSN, pendingCh, batch, closed, running,
                 ckptLSN, lost, scars, bounds, acked, failed>>

\* The sync failed, as it does on every batch once the file is closed; or the
\* file was closed and, unless close itself failed, listed, and the next one
\* could not be opened: the old segment is then a closed one and the active.
RotateFail ==
  /\ batch # << >> /\ size >= SegLimit
  /\ \/ UNCHANGED <<segs, broken, synced>>
     \/ /\ ~broken
        /\ segs' \in {segs, Append(segs, segFirst)} /\ broken' = TRUE
        /\ synced' = Len(file[segFirst])
  /\ Reply(FALSE)
  /\ UNCHANGED <<file, segFirst, size, lsn, durableLSN, pendingCh, closed, running,
                 ckptLSN, lost, scars, bounds>>

\* One write and one sync for the whole batch, then every waiter is told.
Flush ==
  /\ batch # << >> /\ size < SegLimit
  /\ Reply(TRUE)
  /\ durableLSN' = Last(batch).lsn
  /\ UNCHANGED <<segs, segFirst, broken, lsn, pendingCh, closed, running,
                 ckptLSN, lost, torn, bounds>>
  /\ \E data \in {Encoded(batch)} :
       file' = [file EXCEPT ![segFirst] = @ \o data] /\ size' = size + Len(data)
  /\ synced' = Len(file'[segFirst])
  /\ hidden' = hidden \cup (IF segFirst \in torn THEN ToSet(batch) ELSE {})

\* The write or the sync failed.  What was written stays in the file, all of
\* it or a part, and the size grows by the whole batch.
FlushFail ==
  /\ batch # << >> /\ size < SegLimit
  /\ Reply(FALSE)
  /\ UNCHANGED <<segs, segFirst, synced, broken, lsn, durableLSN, pendingCh,
                 closed, running, ckptLSN, lost, hidden, bounds>>
  /\ \E data \in {Encoded(batch)} : \E w \in {data} \cup Cut(data) :
       /\ size' = size + Len(data)
       /\ file' = [file EXCEPT ![segFirst] = @ \o w]
       /\ \/ Clean(w) /\ UNCHANGED torn
          \/ /\ segFirst \notin torn /\ Cardinality(torn) < MaxTears /\ ~Clean(w)
             /\ torn' = torn \cup {segFirst}

----------------------------------------------------------------------------
\* Close: the flag, then stopCh under appendMu, then the committer's exit.

CloseFlag ==
  /\ closed = "open" /\ closed' = "closing"
  /\ UNCHANGED <<files, lsn, durableLSN, pendingCh, batch, running, ckptLSN,
                 lost, scars, bounds, acked, failed>>

CloseStop ==
  /\ closed = "closing" /\ closed' = "stopped"
  /\ UNCHANGED <<files, lsn, durableLSN, pendingCh, batch, running, ckptLSN,
                 lost, scars, bounds, acked, failed>>

\* Mutant: the committer returns on stopCh without draining the channel.
CommitterExitUndrained ==
  /\ running /\ closed = "stopped" /\ batch = << >>
  /\ running' = FALSE
  /\ synced' = IF broken THEN synced ELSE Len(file[segFirst])
  /\ UNCHANGED <<file, segs, segFirst, size, broken, lsn, durableLSN, pendingCh,
                 batch, closed, ckptLSN, lost, scars, bounds, acked, failed>>

CommitterExit ==
  /\ running /\ closed = "stopped" /\ batch = << >> /\ pendingCh = << >>
  /\ running' = FALSE
  /\ synced' = IF broken THEN synced ELSE Len(file[segFirst])
  /\ UNCHANGED <<file, segs, segFirst, size, broken, lsn, durableLSN, pendingCh,
                 batch, closed, ckptLSN, lost, scars, bounds, acked, failed>>

----------------------------------------------------------------------------
\* Checkpoints and replay.

\* Mutant: a segment is taken for covered when it starts at or below upTo.
CoveredByName(upTo) == {i \in DOMAIN segs : segs[i] <= upTo}

\* The segments that TruncatePrefix removes: segment i ends before the name
\* of the next one.
Covered(upTo) ==
  {i \in DOMAIN segs :
     (IF i < Len(segs) THEN segs[i + 1] ELSE segFirst) - 1 <= upTo}

TruncatePrefix(upTo) ==
  /\ closed # "stopped" /\ upTo \in ckptLSN + 1 .. durableLSN
  /\ LET drop == {segs[i] : i \in Covered(upTo)} IN
       /\ segs' = SelectSeq(segs, LAMBDA n : n \notin drop)
       /\ file' = [n \in DOMAIN file \ drop |-> file[n]]
  /\ ckptLSN' = upTo /\ lost' = (lost \/ segFirst \notin DOMAIN file')
  /\ UNCHANGED <<segFirst, size, synced, broken, lsn, durableLSN, pendingCh, batch, closed,
                 running, scars, bounds, acked, failed>>

\* Replay(from): the segments in name order, from the last one named at or
\* below from.
ReplayFrom(from) ==
  LET first == Max({0} \cup {n \in DOMAIN file : n <= from})
      part(n) == IF n \in DOMAIN file /\ n >= first THEN Scan(file[n]).recs ELSE << >>
  IN  SelectSeq(FlattenSeq([n \in 1..Max({0} \cup DOMAIN file) |-> part(n)]), LAMBDA e : e.lsn >= from)

\* Whether Replay from behind the checkpoint returns a record.
Replayed(e) == [lsn |-> e.lsn, rec |-> RecordOf(e.rec)] \in ToSet(ReplayFrom(ckptLSN + 1))

\* A closed segment that does not scan to its end makes Replay, and so the
\* start, fail; an incomplete length field is taken for the end.
ReplayFails ==
  \E n \in DOMAIN file : n < Max(DOMAIN file) /\ Scan(file[n]).left \notin {<< >>, Stub}

----------------------------------------------------------------------------
\* A crash, or the end of the process after Close, and the next Open.

\* What may be left of the files: of the active one at least what was synced.
Surviving ==
  LET full == file[segFirst] \o IF size < SegLimit THEN Encoded(batch) ELSE << >>
      unsynced == SubSeq(full, synced + 1, Len(full))
  IN  IF segFirst \notin DOMAIN file THEN {file}
      ELSE {[file EXCEPT ![segFirst] = SubSeq(full, 1, synced) \o left] :
              left \in {unsynced} \cup Cut(unsynced)}

MaxLSN(cells) == Max({0} \cup {e.lsn : e \in ToSet(Scan(cells).recs)})

\* Mutant: LSNs go on from the scan alone, not from the name.
LoadSegmentsByScan(disk) ==
  LET names == SetToSortSeq(DOMAIN disk, <)
      max == MaxLSN(disk[Last(names)])
  IN  /\ file' = disk /\ segs' = Front(names) /\ segFirst' = Last(names)
      /\ size' = Len(disk[Last(names)]) /\ synced' = Len(disk[Last(names)])
      /\ lsn' = max /\ durableLSN' = max

\* loadSegments: all segments but the last are closed, and LSNs go on from
\* the highest one that a scan of the last segment sees.  Without any file
\* the first segment is created.
LoadSegments(disk) ==
  LET names == IF DOMAIN disk = {} THEN <<1>> ELSE SetToSortSeq(DOMAIN disk, <)
      active == Last(names)
      max == MaxLSN(file'[active])
  IN  /\ file' = IF DOMAIN disk = {} THEN [n \in {1} |-> << >>] ELSE disk
      /\ segs' = Front(names) /\ segFirst' = active
      /\ size' = Len(file'[active]) /\ synced' = Len(file'[active])
      /\ lsn' = IF max = 0 THEN active - 1 ELSE max
      /\ durableLSN' = max

Reopen ==
  /\ crashes < MaxCrashes
  /\ \E disk \in Surviving : LoadSegments(disk)
  /\ torn' = IF Clean(file'[segFirst']) THEN torn \ {segFirst'} ELSE torn \cup {segFirst'}
  /\ Cardinality(torn') <= MaxTears
  /\ pendingCh' = << >> /\ batch' = << >>
  /\ closed' = "open" /\ running' = TRUE /\ broken' = FALSE
  /\ crashes' = crashes + 1
  /\ UNCHANGED <<ckptLSN, lost, hidden, given, acked, failed>>

Next ==
  \/ \E n \in BatchSizes : AppendBatch(n)
  \/ Drain \/ Rotate \/ RotateFail \/ Flush \/ FlushFail
  \/ CloseFlag \/ CloseStop \/ CommitterExit
  \/ \E upTo \in 1..MaxRec : TruncatePrefix(upTo)
  \/ Reopen

Spec == Init /\ [][Next]_vars

\* A step of the committer goroutine.
Committer == Drain \/ Rotate \/ RotateFail \/ Flush \/ FlushFail \/ CommitterExit

\* The committer goroutine goes on as long as it has something to do.
FairSpec == Spec /\ WF_<<batch, running, segFirst>>(Committer)

----------------------------------------------------------------------------
\* Properties.

\* The next three hold as long as TruncatePrefix has not removed the active
\* segment, which it does after a failed rotation.

\* What Replay returns was appended, with that LSN and that content, each
\* record at most once: a record torn by a failed write or a crash, and
\* whatever a scan that has lost its place reads behind it, is never taken
\* for a record.  Records whose append failed may be among them.
OnlyAppendedReplayed ==
  LET r == ReplayFrom(0)
      id(i) == r[i].rec.body.id
  IN  ~lost => \A i \in DOMAIN r :
                 /\ id(i) \in DOMAIN given
                 /\ r[i] = [lsn |-> given[id(i)], rec |-> RecordOf(id(i))]
                 /\ \A j \in DOMAIN r : id(j) = id(i) => j = i

\* Every record whose append returned and that no checkpoint covers is
\* returned by Replay, whatever was rotated, truncated, lost in a crash or
\* failed in between, and although segments are named after the last LSN of
\* the batch that opened them.  The exceptions are the records that were
\* written behind an incomplete one, which neither a failed write nor Open
\* cuts off.  Replay itself fails only when there is an incomplete record.
AckedReplayed ==
  ~lost =>
  /\ ReplayFails => torn # {}
  /\ ~ReplayFails =>
       \A e \in acked \ hidden : e.lsn > ckptLSN => Replayed(e)

\* An LSN is used once, unless records are hidden behind an incomplete one.
\* Replay returns records in LSN order; after every start LSNs go on above
\* the checkpoint and above every record in the files, or new records would
\* be taken for covered ones; and the name that maybeRotate gives the next
\* segment, an LSN too, is not taken, or O_EXCL would leave the log unable to
\* write (it is taken when the first record of a full segment is torn).
LSNsFresh ==
  LET r == ReplayFrom(ckptLSN + 1)
  IN  ~lost /\ hidden = {} =>
      /\ \A i \in 1..Len(r) - 1 : r[i].lsn < r[i + 1].lsn
      /\ lsn >= ckptLSN /\ \A e \in ToSet(ReplayFrom(0)) : e.lsn <= lsn
      /\ batch # << >> /\ size >= SegLimit /\ ~broken /\ torn = {} => Last(batch).lsn \notin DOMAIN file

\* Every append gets an answer, also when Close or an I/O error intervenes.
AppendsAnswered ==
  LET waiting == pendingCh # << >> \/ batch # << >>
  IN  waiting ~> ~waiting

=============================================================================
