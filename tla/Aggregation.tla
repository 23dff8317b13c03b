----------------------------- MODULE Aggregation ----------------------------
(***************************************************************************)
(* Usage rows into rollups (src/src/meter/pipeline/aggregate.py and the    *)
(* aggregation statement of storage/repositories/rollups.py), for one      *)
(* customer-period.                                                        *)
(*                                                                         *)
(* The drain commits rows and afterwards SADDs their cells to a dirty set  *)
(* in Redis; an incremental pass copies the set, assigns each cell's count *)
(* from one statement over the rows, and only then SREMs the cells it      *)
(* copied. A close re-aggregates the whole period from the rows. Passes    *)
(* overlap: the worker's interval, the ops API and closes all start them.  *)
(*                                                                         *)
(* A cell here is one rollup row's share of a day, and an event one that   *)
(* has a plan assignment and a key: others are in no rollup, and a close   *)
(* counts them apart (rollups.unattributed_events).                        *)
(*                                                                         *)
(* A statement is two steps: READ COMMITTED fixes what it counts when it   *)
(* begins, and its upsert takes effect at the commit, after any row lock   *)
(* it waited for. Row locks order two writers of a cell; a deadlock        *)
(* between them is one of the failures.                                    *)
(***************************************************************************)
EXTENDS Integers, FiniteSets

CONSTANTS
    Event,      \* usage events of one customer-period
    Cell,       \* its local days
    CellOf,     \* the day of each event
    Pass,       \* callers of aggregate_dirty
    Closer,     \* callers of aggregate_period
    MaxFaults   \* bound: failed statements, dead passes, lost dirty sets

ASSUME CellAssumption == CellOf \in [Event -> Cell]
ASSUME EventAssumption == IsFiniteSet(Event)
ASSUME CallerAssumption == Pass \cap Closer = {}
ASSUME FaultAssumption == MaxFaults \in Nat

Caller == Pass \cup Closer

VARIABLES
    committed,   \* events with a row in usage_events
    unmarked,    \* of those, the ones whose batch has not been marked yet
    dirty,       \* the dirty set
    rollup,      \* billable_requests of each cell's rollup, 0 if none
    pc,          \* where each caller is
    cells,       \* the cells a pass took from the dirty set
    focus,       \* the cells the caller's statement covers
    todo,        \* cells a pass has still to try one at a time
    alone,       \* the pass is trying its cells one at a time
    snap,        \* what the caller's statement counted
    swallowed,   \* history: cells that lost a mark newer than the pass's count
    regressed,   \* history: cells a write took backwards
    quarantined, \* cells whose own statement failed
    faults

passVars == <<pc, cells, focus, todo, alone, snap>>
history  == <<swallowed, regressed, quarantined>>
vars == <<committed, unmarked, dirty, rollup, passVars, history, faults>>

Of(c, S)  == {e \in S : CellOf[e] = c}
Rows(c)   == Cardinality(Of(c, committed))
Marked(c) == Cardinality(Of(c, committed \ unmarked))

TypeOK ==
    /\ committed \subseteq Event /\ unmarked \subseteq committed
    /\ dirty \subseteq Cell
    /\ rollup \in [Cell -> Nat]
    /\ pc \in [Caller -> {"idle", "read", "write", "isolate", "clear"}]
    /\ cells \in [Caller -> SUBSET Cell]
    /\ focus \in [Caller -> SUBSET Cell]
    /\ todo \in [Caller -> SUBSET Cell]
    /\ alone \in [Caller -> BOOLEAN]
    /\ snap \in [Caller -> [Cell -> Nat]]
    /\ swallowed \subseteq Cell /\ regressed \subseteq Cell
    /\ quarantined \subseteq Cell
    /\ faults \in 0 .. MaxFaults

Init ==
    /\ committed = {} /\ unmarked = {}
    /\ dirty = {}
    /\ rollup = [c \in Cell |-> 0]
    /\ pc = [p \in Caller |-> "idle"]
    /\ cells = [p \in Caller |-> {}]
    /\ focus = [p \in Caller |-> {}]
    /\ todo = [p \in Caller |-> {}]
    /\ alone = [p \in Caller |-> FALSE]
    /\ snap = [p \in Caller |-> [c \in Cell |-> 0]]
    /\ swallowed = {} /\ regressed = {} /\ quarantined = {}
    /\ faults = 0

----------------------------------------------------------------------------
(* The drain, as the aggregation sees it: rows first, the mark after. A    *)
(* mark is never skipped (Drain!DoneIsMarked).                             *)

\* Mutant: the batch is queued for its mark before the transaction commits.
QueueMark(S) ==
    /\ S # {}
    /\ unmarked' = unmarked \cup S
    /\ UNCHANGED <<committed, dirty, rollup, passVars, history, faults>>

CommitRows(S) ==
    /\ S # {}
    /\ committed' = committed \cup S
    /\ unmarked' = unmarked \cup S
    /\ UNCHANGED <<dirty, rollup, passVars, history, faults>>

MarkDirty(S) ==
    /\ S # {}
    /\ dirty' = dirty \cup {CellOf[e] : e \in S}
    /\ unmarked' = unmarked \ S
    /\ UNCHANGED <<committed, rollup, passVars, history, faults>>

\* Redis restarts without the dirty set: it is not the system of record.
LoseDirtySet ==
    /\ faults < MaxFaults /\ dirty # {}
    /\ faults' = faults + 1
    /\ swallowed' = swallowed \cup dirty
    /\ dirty' = {}
    /\ UNCHANGED <<committed, unmarked, rollup, passVars, regressed, quarantined>>

----------------------------------------------------------------------------
(* aggregate_dirty                                                         *)

\* The caller is done, or dies, with nothing in its hands.
Reset(p) ==
    /\ pc' = [pc EXCEPT ![p] = "idle"]
    /\ cells' = [cells EXCEPT ![p] = {}]
    /\ focus' = [focus EXCEPT ![p] = {}]
    /\ todo' = [todo EXCEPT ![p] = {}]
    /\ alone' = [alone EXCEPT ![p] = FALSE]
    /\ snap' = [snap EXCEPT ![p] = [c \in Cell |-> 0]]

\* Mutant: the set is popped instead of copied.
PopDirtyCells(p) ==
    /\ pc[p] = "idle" /\ dirty # {}
    /\ cells' = [cells EXCEPT ![p] = dirty]
    /\ focus' = [focus EXCEPT ![p] = dirty]
    /\ dirty' = {}
    /\ pc' = [pc EXCEPT ![p] = "read"]
    /\ UNCHANGED <<committed, unmarked, rollup, todo, alone, snap, history, faults>>

\* SMEMBERS: the set is copied, not popped.
TakeDirtyCells(p) ==
    /\ pc[p] = "idle" /\ dirty # {}
    /\ cells' = [cells EXCEPT ![p] = dirty]
    /\ focus' = [focus EXCEPT ![p] = dirty]
    /\ pc' = [pc EXCEPT ![p] = "read"]
    /\ UNCHANGED <<committed, unmarked, dirty, rollup, todo, alone, snap, history,
                   faults>>

\* The aggregation statement begins: it counts the rows there are now.
ReadRows(p) ==
    /\ pc[p] = "read"
    /\ snap' = [snap EXCEPT ![p] = [c \in Cell |-> IF c \in focus[p] THEN Rows(c)
                                                   ELSE snap[p][c]]]
    /\ pc' = [pc EXCEPT ![p] = "write"]
    /\ UNCHANGED <<committed, unmarked, dirty, rollup, cells, focus, todo, alone,
                   history, faults>>

\* Where a pass goes after a statement; a close is done after its one.
AfterStatement(p) ==
    IF p \in Closer THEN "idle"
    ELSE IF alone[p] /\ todo[p] # {} THEN "isolate" ELSE "clear"

\* Mutant: DO UPDATE SET billable_requests adds instead of assigning.
AddRollup(r, p) ==
    [c \in Cell |-> IF c \in focus[p] THEN r[c] + snap[p][c] ELSE r[c]]

\* INSERT ... SELECT ... ON CONFLICT DO UPDATE SET billable_requests = EXCLUDED:
\* a cell with no rows has no group and is left alone.
AssignRollup(r, p) ==
    [c \in Cell |-> IF c \in focus[p] /\ snap[p][c] > 0 THEN snap[p][c] ELSE r[c]]

WriteRollups(p) ==
    /\ pc[p] = "write"
    /\ rollup' = AssignRollup(rollup, p)
    /\ regressed' = regressed \cup {c \in Cell : rollup'[c] < rollup[c]}
    /\ pc' = [pc EXCEPT ![p] = AfterStatement(p)]
    /\ UNCHANGED <<committed, unmarked, dirty, cells, focus, todo, alone, snap,
                   swallowed, quarantined, faults>>

\* SQLAlchemyError in the statement over every cell: try them one by one.
IsolateCells(p) ==
    /\ p \in Pass /\ pc[p] \in {"read", "write"} /\ ~alone[p]
    /\ faults < MaxFaults
    /\ faults' = faults + 1
    /\ alone' = [alone EXCEPT ![p] = TRUE]
    /\ todo' = [todo EXCEPT ![p] = cells[p]]
    /\ pc' = [pc EXCEPT ![p] = "isolate"]
    /\ UNCHANGED <<committed, unmarked, dirty, rollup, cells, focus, snap, history>>

TryOneCell(p, c) ==
    /\ pc[p] = "isolate" /\ c \in todo[p]
    /\ focus' = [focus EXCEPT ![p] = {c}]
    /\ todo' = [todo EXCEPT ![p] = @ \ {c}]
    /\ pc' = [pc EXCEPT ![p] = "read"]
    /\ UNCHANGED <<committed, unmarked, dirty, rollup, cells, alone, snap, history,
                   faults>>

\* SQLAlchemyError in a statement over one cell: the pass gives it up, and will
\* clear its mark with the others.
QuarantineCell(p) ==
    /\ p \in Pass /\ pc[p] \in {"read", "write"} /\ alone[p]
    /\ faults < MaxFaults
    /\ faults' = faults + 1
    /\ quarantined' = quarantined \cup focus[p]
    /\ pc' = [pc EXCEPT ![p] = AfterStatement(p)]
    /\ UNCHANGED <<committed, unmarked, dirty, rollup, cells, focus, todo, alone,
                   snap, swallowed, regressed>>

\* SREM of the members that were copied, whatever was marked since.
ClearDirtyCells(p) ==
    /\ pc[p] = "clear"
    /\ dirty' = dirty \ cells[p]
    /\ swallowed' = swallowed \cup {c \in cells[p] : snap[p][c] < Marked(c)}
    /\ Reset(p)
    /\ UNCHANGED <<committed, unmarked, rollup, regressed, quarantined, faults>>

\* The process dies or Redis fails: a transaction not yet committed is undone,
\* and the cells keep their marks.
AbortPass(p) ==
    /\ pc[p] # "idle"
    /\ faults < MaxFaults
    /\ faults' = faults + 1
    /\ Reset(p)
    /\ UNCHANGED <<committed, unmarked, dirty, rollup, history>>

----------------------------------------------------------------------------
(* aggregate_period, called by every round of a close's polling.           *)

\* Mutant: a close re-aggregates the cells the dirty set remembers.
AggregateMarked(p) ==
    /\ pc[p] = "idle"
    /\ focus' = [focus EXCEPT ![p] = dirty]
    /\ pc' = [pc EXCEPT ![p] = "read"]
    /\ UNCHANGED <<committed, unmarked, dirty, rollup, cells, todo, alone, snap,
                   history, faults>>

AggregatePeriod(p) ==
    /\ pc[p] = "idle"
    /\ focus' = [focus EXCEPT ![p] = Cell]
    /\ pc' = [pc EXCEPT ![p] = "read"]
    /\ UNCHANGED <<committed, unmarked, dirty, rollup, cells, todo, alone, snap,
                   history, faults>>

PassStep(p) ==
    \/ ReadRows(p) \/ WriteRollups(p) \/ ClearDirtyCells(p)
    \/ \E c \in Cell : TryOneCell(p, c)

Next ==
    \/ \E S \in SUBSET (Event \ committed) : CommitRows(S)
    \/ \E S \in SUBSET unmarked : MarkDirty(S)
    \/ LoseDirtySet
    \/ \E p \in Pass : TakeDirtyCells(p) \/ IsolateCells(p) \/ QuarantineCell(p)
    \/ \E p \in Closer : AggregatePeriod(p)
    \/ \E p \in Caller : PassStep(p) \/ AbortPass(p)

Spec == Init /\ [][Next]_vars

\* A close polls until the rollups account for the rows; a started statement
\* ends. Nothing is assumed of the incremental passes.
Fairness ==
    \A p \in Closer : WF_vars(AggregatePeriod(p)) /\ WF_vars(PassStep(p))

FairSpec == Spec /\ Fairness

----------------------------------------------------------------------------

\* However often a cell is aggregated, by however many overlapping passes, its
\* rollup never counts more requests than it has rows
\* (rollups._AGGREGATE_SQL: "re-derives a whole cell ... and assigns").
NeverOvercounts == \A c \in Cell : rollup[c] <= Rows(c)

Unmarked(c) == Of(c, unmarked) # {}

\* A rollup is behind its rows with no mark left to say so only if a pass
\* cleared a mark newer than its own count, a slower statement wrote an older
\* count over a newer one, the cell was quarantined, or Redis lost the set:
\* neither a dead pass nor a failed statement over several cells loses a mark
\* (aggregate_dirty: "A crash anywhere before the clear leaves the cells marked").
BehindIsExplained ==
    \A c \in Cell :
        rollup[c] < Rows(c) /\ c \notin dirty /\ ~Unmarked(c) =>
            c \in swallowed \cup regressed \cup quarantined

\* Whatever the dirty set lost, a close makes the period's rollups whole once
\* its rows are all there (aggregate.py: "whatever the dirty set did or did not
\* remember").
CloseMakesWhole ==
    (committed = Event) ~> \A c \in Cell : rollup[c] = Rows(c)
=============================================================================
