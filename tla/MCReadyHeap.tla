---------------------------- MODULE MCReadyHeap ----------------------------
(* The ready heap on small instances. *)
EXTENDS ReadyHeap
=============================================================================
