------------------------------- MODULE MCWal -------------------------------
(***************************************************************************)
(* Instances of Wal for TLC, and two statements of the repository that the *)
(* code does not meet.                                                     *)
(***************************************************************************)
EXTENDS Wal

\* A record of every kind is scanned as it was encoded, also when another one
\* follows it.
ASSUME CodecRoundTrip ==
  \A r \in DOMAIN RecordOps, q \in DOMAIN RecordOps :
    Scan(Encode(r, RecordOf(r)) \o Encode(q, RecordOf(q))) =
      [recs |-> <<[lsn |-> r, rec |-> RecordOf(r)], [lsn |-> q, rec |-> RecordOf(q)]>>,
       left |-> << >>]

\* "Reopen: should replay the 3 good records and silently drop the torn tail"
\* (TestTornTail): a tail torn by a crash costs no record that is appended and
\* acknowledged afterwards.
TornTailDropped ==
  failed = {} /\ ~lost /\ ~ReplayFails => \A e \in acked : e.lsn > ckptLSN => Replayed(e)

\* "Only closed segments are removed; the active segment is never deleted"
\* (comment on TruncatePrefix), after a failed rotation too.
ActiveNeverDeleted == segFirst \in DOMAIN file
=============================================================================
