------------------------------ MODULE MCLimits ------------------------------
(***************************************************************************)
(* Model-checking instance of Limits: the sweep, the watchdog and a manual *)
(* run against operators who set, remove and change plans.                 *)
(***************************************************************************)
EXTENDS Limits
=============================================================================
