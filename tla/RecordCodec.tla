---------------------------- MODULE RecordCodec ----------------------------
(***************************************************************************)
(* The wire format of the log (internal/wal/record.go), and the scan that  *)
(* finds the records of a segment file again (replaySegment and            *)
(* scanSegmentMaxLSN of wal.go).                                           *)
(*                                                                         *)
(* A file is a sequence of cells, one number per field of the format: the  *)
(* length, the LSN, the op, the flags, the fields of the payload, the CRC. *)
(* Cells carry no tag, so a scan that has lost its place reads whatever    *)
(* number it meets.  Lengths count cells.                                  *)
(***************************************************************************)
EXTENDS Naturals, Sequences

LOCAL INSTANCE SequencesExt

OpCode == [ENQUEUE |-> 1, LEASE |-> 2, ACK |-> 3, NACK |-> 4, EXPIRE |-> 5,
           DEAD |-> 6, MOVE_REF |-> 7]

\* The fields of each payload, in the order they are written.
Layout ==
  [ENQUEUE  |-> <<"id", "indexRef", "payloadRef", "payloadLen", "priority",
                  "enqueuedAt", "availableAt">>,
   LEASE    |-> <<"id", "nonce", "attempt", "leaseUntil">>,
   ACK      |-> <<"id", "nonce">>,
   NACK     |-> <<"id", "nonce", "requeueAt">>,
   EXPIRE   |-> <<"id", "nonce">>,
   DEAD     |-> <<"id", "reason">>,
   MOVE_REF |-> <<"id", "oldRef", "newRef">>]

HeaderLen == 4
CRCLen == 1

\* A checksum in the place of CRC-32.
CRC(cells) ==
  LET sum[c \in Seq(Nat)] == IF c = << >> THEN 1 ELSE (sum[Front(c)] * 31 + Last(c) + 7) % 65521
  IN  sum[cells]

encodePayload(rec) == [i \in DOMAIN Layout[rec.op] |-> rec.body[Layout[rec.op][i]]]

\* Encode(lsn, rec), rec being [op, flags, body].
Encode(lsn, rec) ==
  LET payload == encodePayload(rec)
      covered == <<HeaderLen + Len(payload) + CRCLen, lsn, OpCode[rec.op], rec.flags>> \o payload
  IN  Append(covered, CRC(covered))

Bad == [ok |-> FALSE]

\* decodePayload for a known op whose payload is long enough.
decodePayload(op, cells) ==
  [f \in ToSet(Layout[op]) |-> cells[CHOOSE i \in DOMAIN Layout[op] : Layout[op][i] = f]]

\* Mutant: the checksum is not compared.
DecodeUnchecked(buf) ==
  LET end == Len(buf) - CRCLen
      ops == {op \in DOMAIN OpCode : OpCode[op] = buf[3] /\ Len(Layout[op]) <= end - HeaderLen}
  IN  IF buf[1] # Len(buf) \/ ops = {} THEN Bad
      ELSE LET op == CHOOSE o \in ops : TRUE
           IN  [ok |-> TRUE, lsn |-> buf[2],
                rec |-> [op |-> op, flags |-> buf[4],
                         body |-> decodePayload(op, SubSeq(buf, HeaderLen + 1, end))]]

\* Decode of a buffer of at least HeaderLen + CRCLen cells.
Decode(buf) ==
  LET end == Len(buf) - CRCLen
      ops == {op \in DOMAIN OpCode : OpCode[op] = buf[3] /\ Len(Layout[op]) <= end - HeaderLen}
  IN  IF buf[1] # Len(buf) \/ buf[Len(buf)] # CRC(SubSeq(buf, 1, end)) \/ ops = {} THEN Bad
      ELSE LET op == CHOOSE o \in ops : TRUE
           IN  [ok |-> TRUE, lsn |-> buf[2],
                rec |-> [op |-> op, flags |-> buf[4],
                         body |-> decodePayload(op, SubSeq(buf, HeaderLen + 1, end))]]

\* The loop that replaySegment and scanSegmentMaxLSN share: the records up to
\* the first that is short, of an impossible length or undecodable, and what
\* is left of the file there.
Scan(cells) ==
  LET whole(c) == c # << >> /\ c[1] \in HeaderLen + CRCLen .. Len(c)
      scan[c \in Seq(Nat)] ==
        LET d == IF whole(c) THEN Decode(SubSeq(c, 1, c[1])) ELSE Bad
            rest == scan[SubSeq(c, c[1] + 1, Len(c))]
        IN  IF d.ok THEN [rest EXCEPT !.recs = <<[lsn |-> d.lsn, rec |-> d.rec]>> \o @]
            ELSE [recs |-> << >>, left |-> c]
  IN  scan[cells]

\* An incomplete length field.
Stub == <<0>>

\* What a write of some cells that was cut short may have left: nothing, a
\* part of them, or part of the first length field.
Cut(cells) ==
  {SubSeq(cells, 1, k) : k \in 0..Len(cells) - 1} \cup
  (IF cells = << >> THEN {} ELSE {Stub})
=============================================================================
