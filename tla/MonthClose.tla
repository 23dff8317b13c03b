----------------------------- MODULE MonthClose -----------------------------
(***************************************************************************)
(* Month close and invoicing of one customer (pipeline/close.py,           *)
(* pipeline/invoicing.py, repositories/invoices.py and periods.py).        *)
(*                                                                         *)
(* A close marks the period reconciling, polls until the rollups account   *)
(* for the usage or the grace window ends, marks the period closed, and    *)
(* generates the invoice: what the period's rollups say, plus what earlier *)
(* invoiced periods have grown by since they were billed. Closes overlap:  *)
(* the scheduler's, and those the ops API and the CLI start for any month. *)
(*                                                                         *)
(* A month's usage becomes rows, and rows rollups, any time after it was   *)
(* captured (Drain, Aggregation), and a slow statement may put an older    *)
(* count over a newer one. The Redis counter is an input of a report: it   *)
(* runs ahead of the rows, or behind what was captured when an INCR is     *)
(* late, lost or overwritten by a rebuild (Counters). One plan segment,    *)
(* one paisa a request and no fee: a total is the sum of its lines'        *)
(* quantities. Draft and issue are one transaction, so no draft is ever    *)
(* visible to another; its reads (rollups before what was billed) are      *)
(* taken at one moment, Build, as are a report's (Reconciliation).         *)
(***************************************************************************)
EXTENDS Integers, FiniteSets, Functions

CONSTANTS
    Months,     \* bound: number of calendar months
    Scheduler,  \* closes of the month that is due
    Ops,        \* closes somebody asked for
    MaxUsage,   \* bound: requests ever captured, rows or not yet
    MaxCloses,  \* bound: closes ever begun
    MaxFaults   \* bound: closes that die, rollups that go back

ASSUME BoundAssumption ==
    /\ Months \in Nat \ {0}
    /\ MaxUsage \in Nat
    /\ MaxCloses \in Nat
    /\ MaxFaults \in Nat
ASSUME CloserAssumption == Scheduler \cap Ops = {}

Month == 1 .. Months
Closer == Scheduler \cup Ops

VARIABLES
    now,         \* the current month
    stored,      \* billable rows of each month in usage_events
    rolled,      \* requests the month's rollups count
    status,      \* billing_periods.status
    discrepancy, \* billing_periods.discrepancy_requests is set
    issued,      \* months with an issued invoice
    billed,      \* the quantities it bills, by month of use
    pc,          \* where each close is
    month,       \* the month it closes
    short,       \* the deltas of its report are not zero; FALSE once recorded
    lines,       \* the lines its generate has built
    existing,    \* its generate found an issued invoice
    closes,      \* closes begun so far
    faults,      \* closes that died, rollups that went back so far
    owed,        \* history: the counter in the close's report, if the month had no
                 \* invoice then; 0 once the lines built are no fewer, or if the
                 \* rollups have gone back between the report and the build
    overtaken,   \* history: months another invoice billed since the close's build
    due,         \* history: owed, for the close that issued the month's invoice
    raced        \* history: months billed by two overlapping generates

closeVars == <<pc, month, short, lines, existing, owed, overtaken>>
periodVars == <<status, discrepancy, issued, billed>>
bounds == <<closes, faults>>
history == <<due, raced>>
vars == <<now, stored, rolled, periodVars, closeVars, bounds, history>>

Quantities == [Month -> 0 .. MaxUsage]
NoLines == [k \in Month |-> 0]

TypeOK ==
    /\ now \in Month
    /\ stored \in Quantities
    /\ rolled \in Quantities
    /\ \A m \in Month : rolled[m] <= stored[m]
    /\ status \in [Month -> {"open", "reconciling", "closed", "invoiced"}]
    /\ discrepancy \in [Month -> BOOLEAN]
    /\ issued \subseteq Month
    /\ billed \in [Month -> Quantities]
    /\ pc \in [Closer -> {"idle", "begin", "mark", "converge", "close", "build",
                          "lookup", "write"}]
    /\ month \in [Closer -> Month]
    /\ short \in [Closer -> BOOLEAN]
    /\ lines \in [Closer -> Quantities]
    /\ existing \in [Closer -> BOOLEAN]
    /\ closes \in 0 .. MaxCloses /\ faults \in 0 .. MaxFaults
    /\ overtaken \in [Closer -> SUBSET Month]
    /\ owed \in [Closer -> 0 .. MaxUsage]
    /\ due \in Quantities
    /\ raced \subseteq Month

Init ==
    /\ now = 1
    /\ stored = NoLines
    /\ rolled = NoLines
    /\ status = [m \in Month |-> "open"]
    /\ discrepancy = [m \in Month |-> FALSE]
    /\ issued = {}
    /\ billed = [m \in Month |-> NoLines]
    /\ pc = [p \in Closer |-> "idle"]
    /\ month = [p \in Closer |-> 1]
    /\ short = [p \in Closer |-> FALSE]
    /\ lines = [p \in Closer |-> NoLines]
    /\ existing = [p \in Closer |-> FALSE]
    /\ closes = 0 /\ faults = 0
    /\ overtaken = [p \in Closer |-> {}]
    /\ owed = [p \in Closer |-> 0]
    /\ due = NoLines
    /\ raced = {}

Total(q) == SumFunction(q)

\* billed_quantity_by_segment: what the issued invoices say of month k.
Billed(k) == Total([m \in Month |-> billed[m][k]])

----------------------------------------------------------------------------
(* The world                                                               *)

NextMonth ==
    /\ now < Months
    /\ now' = now + 1
    /\ UNCHANGED <<stored, rolled, periodVars, closeVars, bounds, history>>

\* The drain commits a row, of this month or, late, of an earlier one.
StoreUsage(m) ==
    /\ m <= now /\ Total(stored) < MaxUsage
    /\ stored' = [stored EXCEPT ![m] = @ + 1]
    /\ UNCHANGED <<now, rolled, periodVars, closeVars, bounds, history>>

\* Mutant: the upsert adds the rows' count to the rollup.
RollUpAgain(m) ==
    /\ \E n \in 1 .. stored[m] : rolled' = [rolled EXCEPT ![m] = @ + n]
    /\ UNCHANGED <<now, stored, periodVars, closeVars, bounds, history>>

\* An aggregation statement assigns a count of rows newer than the rollup's.
RollUp(m) ==
    /\ \E n \in rolled[m] + 1 .. stored[m] : rolled' = [rolled EXCEPT ![m] = n]
    /\ UNCHANGED <<now, stored, periodVars, closeVars, bounds, history>>

\* A statement that began before another's assigns the older count it took
\* (Aggregation!regressed): any count was the rows' once, but zero, since a cell
\* without rows is not upserted and every row is billable.
WriteOlderCount(m) ==
    /\ faults < MaxFaults
    /\ \E n \in 1 .. rolled[m] - 1 : rolled' = [rolled EXCEPT ![m] = n]
    /\ faults' = faults + 1
    /\ owed' = [p \in Closer |-> IF month[p] = m /\ pc[p] \in {"close", "build"}
                                THEN 0 ELSE owed[p]]
    /\ UNCHANGED <<now, stored, periodVars, pc, month, short, lines, existing, overtaken,
                   closes, history>>

----------------------------------------------------------------------------
(* close_customer                                                          *)

\* due_month, close_month: the previous month, if a period is not invoiced.
ListDue(p) ==
    /\ pc[p] = "idle" /\ now > 1 /\ closes < MaxCloses
    /\ status[now - 1] # "invoiced"
    /\ pc' = [pc EXCEPT ![p] = "begin"]
    /\ month' = [month EXCEPT ![p] = now - 1]
    /\ closes' = closes + 1
    /\ UNCHANGED <<now, stored, rolled, periodVars, short, lines, existing, owed,
                   overtaken, faults, history>>

\* ops_api.close_one, cli: whatever its status is.
AskFor(p, m) ==
    /\ pc[p] = "idle" /\ m <= now /\ closes < MaxCloses
    /\ pc' = [pc EXCEPT ![p] = "begin"]
    /\ month' = [month EXCEPT ![p] = m]
    /\ closes' = closes + 1
    /\ UNCHANGED <<now, stored, rolled, periodVars, short, lines, existing, owed,
                   overtaken, faults, history>>

\* ensure_period: an open period is to be marked.
Begin(p) ==
    /\ pc[p] = "begin"
    /\ pc' = [pc EXCEPT ![p] = IF status[month[p]] = "open" THEN "mark" ELSE "converge"]
    /\ UNCHANGED <<now, stored, rolled, periodVars, month, short, lines, existing, owed,
                   overtaken, bounds, history>>

\* mark_status(reconciling): the row was read without a lock, and the status is set
\* whatever another close has made of it since.
MarkReconciling(p) ==
    /\ pc[p] = "mark"
    /\ status' = [status EXCEPT ![month[p]] = "reconciling"]
    /\ pc' = [pc EXCEPT ![p] = "converge"]
    /\ UNCHANGED <<now, stored, rolled, discrepancy, issued, billed, month, short,
                   lines, existing, owed, overtaken, bounds, history>>

\* What the month's counter can say: any of its requests may not have been counted,
\* and of those that were, any may not be rows yet.
Counts(m) == 0 .. stored[m] + (MaxUsage - Total(stored))

\* _converge ends: aggregate_period has counted rows, all there are or those with
\* a plan assignment and committed when it began, and reconcile's report agrees or
\* the grace window is over. What will be recorded is the sum of the two deltas
\* (counter against rows, rows against rollups): zero when it agrees, and when
\* nothing but the backlog keeps it from agreeing.
Converge(p) ==
    LET m == month[p]
    IN  /\ pc[p] = "converge"
        /\ \E n \in rolled[m] .. stored[m], counter \in Counts(m) :
              /\ rolled' = [rolled EXCEPT ![m] = n]
              /\ short' = [short EXCEPT ![p] = counter # stored[m] \/ n # stored[m]]
              /\ owed' = [owed EXCEPT ![p] = IF m \in issued THEN 0 ELSE counter]
        /\ pc' = [pc EXCEPT ![p] = "close"]
        /\ UNCHANGED <<now, stored, periodVars, month, lines, existing, overtaken, bounds,
                       history>>

\* Mutant: the status is set and the discrepancy is only logged.
CloseQuietly(p) ==
    /\ pc[p] = "close"
    /\ status' = [status EXCEPT ![month[p]] = "closed"]
    /\ pc' = [pc EXCEPT ![p] = "build"]
    /\ UNCHANGED <<now, stored, rolled, discrepancy, issued, billed, month, short,
                   lines, existing, owed, overtaken, bounds, history>>

\* mark_status(closed): from whatever the status is by now. A discrepancy of zero
\* is written as NULL, which COALESCE leaves as what it was.
MarkClosed(p) ==
    /\ pc[p] = "close"
    /\ status' = [status EXCEPT ![month[p]] = "closed"]
    /\ discrepancy' = [discrepancy EXCEPT ![month[p]] = @ \/ short[p]]
    /\ short' = [short EXCEPT ![p] = FALSE]
    /\ pc' = [pc EXCEPT ![p] = "build"]
    /\ UNCHANGED <<now, stored, rolled, issued, billed, month, lines, existing,
                   owed, overtaken, bounds, history>>

----------------------------------------------------------------------------
(* generate                                                                *)

\* Mutant: roll-forward bills the whole of every earlier period again.
AllOfEarlier(m) ==
    [k \in Month |->
        IF k = m THEN rolled[k]
        ELSE IF k < m /\ status[k] = "invoiced" THEN rolled[k] ELSE 0]

\* build: the period's own lines, and what every earlier invoiced period has
\* grown by since it was billed.
InvoiceLines(m) ==
    [k \in Month |->
        IF k = m THEN rolled[k]
        ELSE IF k < m /\ status[k] = "invoiced" /\ rolled[k] > Billed(k)
             THEN rolled[k] - Billed(k)
             ELSE 0]

Build(p) ==
    LET m == month[p]
    IN  /\ pc[p] = "build"
        /\ lines' = [lines EXCEPT ![p] = InvoiceLines(m)]
        /\ pc' = [pc EXCEPT ![p] = "lookup"]
        /\ overtaken' = [overtaken EXCEPT ![p] = {}]
        /\ owed' = [owed EXCEPT ![p] = IF InvoiceLines(m)[m] < @ THEN @ ELSE 0]
        /\ UNCHANGED <<now, stored, rolled, periodVars, month, short, existing, bounds,
                       history>>

LookUp(p) ==
    /\ pc[p] = "lookup"
    /\ existing' = [existing EXCEPT ![p] = month[p] \in issued]
    /\ pc' = [pc EXCEPT ![p] = "write"]
    /\ UNCHANGED <<now, stored, rolled, periodVars, month, short, lines, owed, overtaken,
                   bounds, history>>

Return(p) ==
    /\ pc' = [pc EXCEPT ![p] = "idle"]
    /\ month' = [month EXCEPT ![p] = 1]
    /\ short' = [short EXCEPT ![p] = FALSE]
    /\ lines' = [lines EXCEPT ![p] = NoLines]
    /\ existing' = [existing EXCEPT ![p] = FALSE]
    /\ owed' = [owed EXCEPT ![p] = 0]

\* The months an invoice with these lines bills.
BilledBy(q) == {k \in Month : q[k] > 0}

\* create_draft, add_lines, issue, mark_status(invoiced): one transaction.
WriteInvoice(p) ==
    /\ issued' = issued \cup {month[p]}
    /\ billed' = [billed EXCEPT ![month[p]] = lines[p]]
    /\ status' = [status EXCEPT ![month[p]] = "invoiced"]
    /\ due' = [due EXCEPT ![month[p]] = owed[p]]
    /\ raced' = raced \cup (BilledBy(lines[p]) \cap overtaken[p])
    /\ overtaken' = [q \in Closer |-> IF q = p THEN {}
                                      ELSE overtaken[q] \cup BilledBy(lines[p])]
    /\ Return(p)
    /\ UNCHANGED <<now, stored, rolled, discrepancy, bounds>>

\* Mutant: no unique constraint on the period's invoice.
IssueAgain(p) == pc[p] = "write" /\ ~existing[p] /\ WriteInvoice(p)

Issue(p) == pc[p] = "write" /\ ~existing[p] /\ month[p] \notin issued /\ WriteInvoice(p)

\* uq_invoices_customer_period: the other close's invoice came first.
IssueCollides(p) ==
    /\ pc[p] = "write" /\ ~existing[p] /\ month[p] \in issued
    /\ Return(p)
    /\ UNCHANGED <<now, stored, rolled, periodVars, overtaken, bounds, history>>

\* Mutant: regenerating to the same total leaves the status the close has set.
RegenerateOnly(p) ==
    /\ pc[p] = "write" /\ existing[p]
    /\ Return(p)
    /\ UNCHANGED <<now, stored, rolled, periodVars, overtaken, bounds, history>>

\* The regenerated total against the issued one: the same restores the status,
\* a different one raises InvoiceImmutable, which close_customer reports.
Regenerate(p) ==
    LET m == month[p]
    IN  /\ pc[p] = "write" /\ existing[p]
        /\ status' = IF Total(billed[m]) = Total(lines[p])
                     THEN [status EXCEPT ![m] = "invoiced"]
                     ELSE status
        /\ Return(p)
        /\ UNCHANGED <<now, stored, rolled, discrepancy, issued, billed, overtaken,
                       bounds, history>>

\* The process dies or a statement raises: the open transaction is undone.
Abort(p) ==
    /\ pc[p] # "idle" /\ faults < MaxFaults
    /\ faults' = faults + 1
    /\ Return(p)
    /\ UNCHANGED <<now, stored, rolled, periodVars, overtaken, closes, history>>

CloseStep(p) ==
    \/ Begin(p) \/ MarkReconciling(p) \/ Converge(p) \/ MarkClosed(p)
    \/ Build(p) \/ LookUp(p) \/ Issue(p) \/ IssueCollides(p) \/ Regenerate(p)

Next ==
    \/ NextMonth
    \/ \E m \in Month : StoreUsage(m) \/ RollUp(m) \/ WriteOlderCount(m)
    \/ \E p \in Scheduler : ListDue(p)
    \/ \E p \in Ops, m \in Month : AskFor(p, m)
    \/ \E p \in Closer : CloseStep(p) \/ Abort(p)

Spec == Init /\ [][Next]_vars

----------------------------------------------------------------------------

\* An issued invoice never changes and is never withdrawn, whatever closes of its
\* month run or overlap afterwards (ADR-0013, meter_invoices_immutable).
IssuedIsFinal ==
    [][\A m \in issued : m \in issued' /\ billed'[m] = billed[m]]_vars

\* An invoice that bills its month for less than the counter of its close's report
\* has a discrepancy recorded on the period, however closes overlap or run out of
\* grace, and whatever rows and rollups do after the report (close.py, header,
\* step 5): unless the rollups went back between the report and the lines. Requests
\* the counter had not counted are no part of the report, nor of this.
ShortfallIsRecorded ==
    \A m \in issued : billed[m][m] < due[m] => discrepancy[m]

\* More requests of a month are billed than it has rows only when two generates
\* overlap: one built its roll-forward lines before the other's were issued. Usage
\* that is late, and rollups that fall behind what was billed and catch up again,
\* bill no request twice (billed_quantity_by_segment: "cannot drift").
DoubleOnlyByRace ==
    \A k \in Month : Billed(k) > stored[k] => k \in raced

\* What roll-forward promises: no request is on two invoices.
NeverBilledTwice == \A k \in Month : Billed(k) <= stored[k]

Quiet == \A p \in Closer : pc[p] = "idle"

\* With no late usage in a month or an invoiced one before it, any number of closes
\* of it, one after the other or overlapping, leave an invoiced month invoiced, if
\* none died and no rollup went back.
RerunWithoutLateUsage ==
    Quiet /\ faults = 0 =>
        \A m \in issued :
            (\A k \in issued : k <= m => rolled[k] = billed[k][k]) =>
                status[m] = "invoiced"

=============================================================================
