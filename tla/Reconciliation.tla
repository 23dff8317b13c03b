--------------------------- MODULE Reconciliation --------------------------
(***************************************************************************)
(* The close of one customer-period over the running drain: drain,         *)
(* re-aggregate the period, reconcile, until it converges (close._converge,*)
(* reconcile.reconcile, Drain.outstanding).                                *)
(*                                                                         *)
(* Every entry of the stream belongs to the one customer and month being   *)
(* closed. The hot path appends the entry and then increments the counter, *)
(* two commands other clients' commands come between; a reconciliation is  *)
(* five reads of two stores, one step each. Malformed entries are counted  *)
(* too: the hot path increments before anything parses the entry.          *)
(***************************************************************************)
EXTENDS Drain

VARIABLES
    counted, \* entries whose INCR has reached the month's usage counter
    rolled,  \* events the period's rollups count
    report,  \* the reconciliation in progress, or the last one
    seen,    \* history: the entries counted when the report read the counter
    floor    \* history: entries captured when Drain.outstanding was called

reportVars == <<rolled, report, seen, floor>>
allVars == <<vars, counted, reportVars>>

Committed == {id \in EntryId : rows[id] > 0}

\* Mutant: a lag Redis cannot compute is read as zero.
UnknownLag == 0

\* outstanding(): the pending list is read first, the group's lag after it.
Lag == Len(log) - delivered

NoReport == [step |-> "aggregate", counter |-> 0, outstanding |-> 0,
             events |-> 0, rollups |-> 0]

ReconcileInit ==
    /\ Init
    /\ counted = {}
    /\ rolled = {}
    /\ report = NoReport
    /\ seen = {}
    /\ floor = 0

DrainStep == Next /\ UNCHANGED <<counted, reportVars>>

\* _capture's second command: INCR of the month's counter.
Count(id) ==
    /\ id \in 1 .. Len(log) \ counted
    /\ counted' = counted \cup {id}
    /\ UNCHANGED <<vars, reportVars>>

\* Mutant: the counter is not compared.
DrainedAndRolled ==
    /\ report.step = "done"
    /\ report.outstanding = 0
    /\ report.events - report.rollups = 0

Converged ==
    /\ report.step = "done"
    /\ report.outstanding = 0
    /\ report.counter - report.events = 0
    /\ report.events - report.rollups = 0

\* Mutant: the period is aggregated before the polling loop, not in it.
AggregateOnce ==
    \/ /\ report.step = "aggregate"
       /\ rolled' = Committed
       /\ report' = [NoReport EXCEPT !.step = "counter"]
       /\ UNCHANGED <<vars, counted, seen, floor>>
    \/ /\ report.step = "done" /\ ~Converged
       /\ report' = [NoReport EXCEPT !.step = "counter"]
       /\ UNCHANGED <<vars, counted, rolled, seen, floor>>

\* aggregate_period: the rollups are assigned from the rows there are.
AggregatePeriod ==
    /\ \/ report.step = "aggregate"
       \/ report.step = "done" /\ ~Converged
    /\ rolled' = Committed
    /\ report' = [NoReport EXCEPT !.step = "counter"]
    /\ UNCHANGED <<vars, counted, seen, floor>>

ReadCounter ==
    /\ report.step = "counter"
    /\ report' = [report EXCEPT !.step = "pending", !.counter = Cardinality(counted)]
    /\ seen' = counted
    /\ UNCHANGED <<vars, counted, rolled, floor>>

ReadPending ==
    /\ report.step = "pending"
    /\ report' = [report EXCEPT !.step = "lag", !.outstanding = Cardinality(Pending)]
    /\ floor' = Len(log)
    /\ UNCHANGED <<vars, counted, rolled, seen>>

ReadLag ==
    /\ report.step = "lag"
    /\ report' = [report EXCEPT !.step = "events", !.outstanding = @ + Lag]
    /\ UNCHANGED <<vars, counted, rolled, seen, floor>>

CountEvents ==
    /\ report.step = "events"
    /\ report' = [report EXCEPT !.step = "rollups", !.events = Cardinality(Committed)]
    /\ UNCHANGED <<vars, counted, rolled, seen, floor>>

CountRollups ==
    /\ report.step = "rollups"
    /\ report' = [report EXCEPT !.step = "done", !.rollups = Cardinality(rolled)]
    /\ UNCHANGED <<vars, counted, rolled, seen, floor>>

CloserStep ==
    AggregatePeriod \/ ReadCounter \/ ReadPending \/ ReadLag \/ CountEvents
        \/ CountRollups

ReconcileNext == DrainStep \/ (\E id \in EntryId : Count(id)) \/ CloserStep

ReconcileSpec == ReconcileInit /\ [][ReconcileNext]_allVars

\* The drain keeps running while the closer polls.
ReconcileFairness ==
    /\ \A t \in Task :
          /\ WF_allVars(ReadOwnPending(t) /\ UNCHANGED <<counted, reportVars>>)
          /\ WF_allVars(ReadNew(t) /\ UNCHANGED <<counted, reportVars>>)
          /\ WF_allVars((\E idle \in SUBSET Pending : Reclaim(t, idle))
                           /\ UNCHANGED <<counted, reportVars>>)
          /\ WF_allVars(BatchStep(t) /\ UNCHANGED <<counted, reportVars>>)
    /\ \A w \in Worker : WF_allVars(Restart(w) /\ UNCHANGED <<counted, reportVars>>)
    /\ WF_allVars(CloserStep)

FairReconcileSpec == ReconcileSpec /\ ReconcileFairness

----------------------------------------------------------------------------

\* The month is over: every request captured was counted before the report read
\* the counter.
QuietMonth == seen = 1 .. Len(log)

\* For a month whose traffic has ended, a converged report means every captured
\* request is committed and in the rollups the invoice is built from, whatever
\* the drain was doing between the report's five reads (ADR-0010 step 2).
ConvergedIsComplete ==
    Converged /\ QuietMonth =>
        \A id \in 1 .. Len(log) : rows[id] = 1 /\ id \in rolled

\* A report that reads zero outstanding entries has at least seen every earlier
\* entry handed to a consumer.
ZeroMeansDelivered ==
    report.step \in {"events", "rollups", "done"} /\ report.outstanding = 0 =>
        floor <= delivered

\* Once the traffic has ended and every request was counted, the close converges
\* unless a request was refused by events.parse or overrun by a trim: crashes,
\* failed steps and redeliveries only delay it.
CloseConverges ==
    counted = EntryId ~>
        \/ Converged
        \/ overrun # {}
        \/ \E id \in 1 .. Len(log) : log[id] = Malformed
=============================================================================
