------------------------------ MODULE MCDrain ------------------------------
(* Small instances of the drain for TLC.                                   *)
EXTENDS DrainLedger, TLC

CONSTANTS w1, w2, loop, close, other, monday, tuesday

\* One process whose drain loop runs beside a close's drain_until_empty.
OneProcess == (loop :> w1) @@ (close :> w1)

\* Two worker processes, each with its drain loop.
TwoProcesses == (loop :> w1) @@ (other :> w2)

\* One process with only its drain loop.
OneLoop == (loop :> w1)
=============================================================================
