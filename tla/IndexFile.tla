------------------------------ MODULE IndexFile ------------------------------
(***************************************************************************)
(* The checkpoint file index.dat (internal/index/index.go): a header with  *)
(* the LSN and the number of entries, and one entry per live index slot,   *)
(* its reference and its fields under a CRC.  The entries come in the      *)
(* order of a Go map, so they are a set here; a field is one cell, and the *)
(* CRC is one that no damage deceives.                                     *)
(***************************************************************************)
EXTENDS Naturals, FiniteSets

CRC(cells) == [crc |-> cells]

\* body, the identity of the payload, stands for PayloadRef's bytes and
\* PayloadLen; EnqueuedAtMs and Priority are left out.
SlotCells(s) == <<s.id, s.avail, s.until, s.pay, s.body, s.state, s.attempts, s.nonce>>

encodeSlot(s) == [cells |-> SlotCells(s), crc |-> CRC(SlotCells(s))]

decodeSlot(raw) ==
  [id |-> raw.cells[1], avail |-> raw.cells[2], until |-> raw.cells[3],
   pay |-> raw.cells[4], body |-> raw.cells[5], state |-> raw.cells[6],
   attempts |-> raw.cells[7], nonce |-> raw.cells[8]]

encode(lsn, live) ==
  [lsn |-> lsn, count |-> Cardinality(DOMAIN live),
   entries |-> {[ref |-> r, slot |-> encodeSlot(live[r])] : r \in DOMAIN live}]

\* load's checks: the size of the file and the CRC of every entry.
Intact(data) ==
  /\ Cardinality(data.entries) = data.count
  /\ \A e \in data.entries : e.slot.crc = CRC(e.slot.cells)

\* load, and what Open makes of its error: an index without entries, as if
\* there were no checkpoint.
load(data) ==
  IF Intact(data)
  THEN [lsn |-> data.lsn,
        live |-> [r \in {e.ref : e \in data.entries} |->
                    decodeSlot((CHOOSE e \in data.entries : e.ref = r).slot)]]
  ELSE [lsn |-> 0, live |-> [r \in {} |-> 0]]
=============================================================================
