----------------------------- MODULE MCCounters -----------------------------
(***************************************************************************)
(* Model-checking instance of Counters: two requests at a time against a   *)
(* threshold of one, and faults.                                           *)
(***************************************************************************)
EXTENDS Counters
=============================================================================
