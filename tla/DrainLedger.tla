---------------------------- MODULE DrainLedger ----------------------------
(***************************************************************************)
(* The drain implements the usage ledger: an event is recorded at the      *)
(* commit of the first batch that carries it, set aside when its copy      *)
(* reaches the dead-letter stream, and lost when it is gone from the       *)
(* stream and from every task's hands with neither done. Reads,            *)
(* redeliveries, marks and acknowledgements are steps the ledger does not  *)
(* see.                                                                    *)
(***************************************************************************)
EXTENDS Drain

StatusOf(id) ==
    IF id > Len(log) THEN "absent"
    ELSE IF Settled(id) THEN (IF log[id] = Malformed THEN "dead" ELSE "recorded")
    ELSE IF Lost(id) THEN "lost" ELSE "captured"

ledger == [id \in EntryId |-> StatusOf(id)]

Ledger == INSTANCE UsageLedger WITH Event <- EntryId, status <- ledger

\* Every step of the drain is a step of the ledger or invisible to it: an event
\* is recorded once, after its capture, and no crash takes a row back.
ImplementsLedger == Ledger!SafetySpec

\* The same with the ledger's liveness: under the worker's scheduling every
\* captured event is eventually recorded, set aside or lost, through crashes,
\* failed steps and trims.
ImplementsLiveLedger == Ledger!Spec
=============================================================================
