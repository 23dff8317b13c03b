-------------------------- MODULE MCReconciliation -------------------------
(* Small instances of a close over the drain for TLC.                      *)
EXTENDS Reconciliation, TLC

CONSTANTS w1, loop, monday

OneLoop == (loop :> w1)
=============================================================================
