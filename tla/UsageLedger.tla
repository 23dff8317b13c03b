---------------------------- MODULE UsageLedger ----------------------------
(***************************************************************************)
(* What the capture path promises of every request it let through, with    *)
(* no stream, consumer, batch or crash in sight (ADR-0001, ADR-0005): once *)
(* captured, an event becomes a row of usage_events or is set aside in the *)
(* dead-letter stream, once, and neither is ever taken back. The buffer in *)
(* between may lose an event nobody has committed; what is lost stays      *)
(* lost, and no event waits for ever.                                      *)
(***************************************************************************)
EXTENDS Naturals

CONSTANT Event

VARIABLE status

Init == status = [e \in Event |-> "absent"]

\* The events of S go from one status to another in one step.
Move(S, from, to) ==
    /\ S # {}
    /\ \A e \in S : status[e] = from
    /\ status' = [e \in Event |-> IF e \in S THEN to ELSE status[e]]

Capture(e) == Move({e}, "absent", "captured")

\* A batch of events is committed in one transaction.
Record(S) == Move(S, "captured", "recorded")

SetAside(S) == Move(S, "captured", "dead")

Lose(S) == Move(S, "captured", "lost")

Settle(S) == Record(S) \/ SetAside(S) \/ Lose(S)

Next ==
    \/ \E e \in Event : Capture(e)
    \/ \E S \in SUBSET Event : Settle(S)

SafetySpec == Init /\ [][Next]_status

Fairness ==
    \A e \in Event : WF_status(\E S \in SUBSET Event : e \in S /\ Settle(S))

Spec == SafetySpec /\ Fairness
=============================================================================
