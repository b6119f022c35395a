--------------------------- MODULE MCApplyCursor ---------------------------
(***************************************************************************)
(* The apply cursor with at most MaxLSN log records.                       *)
(***************************************************************************)
EXTENDS ApplyCursor
=============================================================================
