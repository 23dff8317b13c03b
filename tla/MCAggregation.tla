---------------------------- MODULE MCAggregation ---------------------------
(* Small instances of the aggregation for TLC.                             *)
EXTENDS Aggregation, TLC

CONSTANTS e1, e2, e3, monday, tuesday, interval, ops, close

\* Two events of one day and one of the next.
Days == (e1 :> monday) @@ (e2 :> monday) @@ (e3 :> tuesday)
=============================================================================
