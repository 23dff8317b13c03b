---------------------------- MODULE MCMonthClose ----------------------------
(* Small instances of the month close for TLC.                             *)
EXTENDS MonthClose, TLC

CONSTANTS loop, ops
=============================================================================
