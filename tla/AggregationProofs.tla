-------------------------- MODULE AggregationProofs -------------------------
(***************************************************************************)
(* Proofs about the aggregation, for any finite set of events, any cells,  *)
(* passes, closes and number of faults: types, nothing counted twice, and  *)
(* the only ways a mark can be lost.                                       *)
(***************************************************************************)
EXTENDS Aggregation, FiniteSetTheorems, TLAPS

----------------------------------------------------------------------------
(* Counting events.                                                        *)

\* A set of events has a size, and no subset of it a larger one.
LEMMA CountMonotone ==
    ASSUME NEW S \in SUBSET Event, NEW T \in SUBSET S
    PROVE  /\ Cardinality(S) \in Nat /\ Cardinality(T) \in Nat
           /\ Cardinality(T) <= Cardinality(S)
  <1>1. IsFiniteSet(S)
    BY EventAssumption, FS_Subset
  <1>2. IsFiniteSet(T) /\ Cardinality(T) <= Cardinality(S)
    BY <1>1, FS_Subset
  <1>. QED  BY <1>1, <1>2, FS_CardinalityType

\* The rows of a cell, and those of them that are marked.
LEMMA RowsBound ==
    ASSUME TypeOK, NEW c \in Cell
    PROVE  Rows(c) \in Nat /\ Marked(c) \in Nat /\ Marked(c) <= Rows(c)
  <1>1. Of(c, committed) \in SUBSET Event
    BY DEF Of, TypeOK
  <1>2. Of(c, committed \ unmarked) \in SUBSET Of(c, committed)
    BY DEF Of
  <1>. QED  BY <1>1, <1>2, CountMonotone DEF Rows, Marked

----------------------------------------------------------------------------
(* Type correctness.                                                       *)

\* Init establishes the types.
LEMMA InitType == Init => TypeOK
  BY FaultAssumption DEF Init, TypeOK

\* A caller that ends leaves its own state well typed.
LEMMA ResetType ==
    ASSUME TypeOK, NEW p \in Caller, Reset(p)
    PROVE  /\ pc' \in [Caller -> {"idle", "read", "write", "isolate", "clear"}]
           /\ cells' \in [Caller -> SUBSET Cell]
           /\ focus' \in [Caller -> SUBSET Cell]
           /\ todo' \in [Caller -> SUBSET Cell]
           /\ alone' \in [Caller -> BOOLEAN]
           /\ snap' \in [Caller -> [Cell -> Nat]]
  BY DEF Reset, TypeOK

\* Every step keeps the types.
LEMMA NextType == TypeOK /\ [Next]_vars => TypeOK'
  <1> SUFFICES ASSUME TypeOK, [Next]_vars PROVE TypeOK'
    OBVIOUS
  <1> USE FaultAssumption
  <1>1. ASSUME NEW S \in SUBSET (Event \ committed), CommitRows(S) PROVE TypeOK'
    BY <1>1 DEF CommitRows, TypeOK, passVars, history
  <1>2. ASSUME NEW S \in SUBSET unmarked, MarkDirty(S) PROVE TypeOK'
    BY <1>2, CellAssumption DEF MarkDirty, TypeOK, passVars, history
  <1>3. CASE LoseDirtySet
    BY <1>3 DEF LoseDirtySet, TypeOK, passVars
  <1>4. ASSUME NEW p \in Pass, TakeDirtyCells(p) PROVE TypeOK'
    BY <1>4 DEF TakeDirtyCells, TypeOK, history, Caller
  <1>5. ASSUME NEW p \in Pass, IsolateCells(p) PROVE TypeOK'
    BY <1>5 DEF IsolateCells, TypeOK, history, Caller
  <1>6. ASSUME NEW p \in Pass, QuarantineCell(p) PROVE TypeOK'
    BY <1>6 DEF QuarantineCell, AfterStatement, TypeOK, Caller
  <1>7. ASSUME NEW p \in Closer, AggregatePeriod(p) PROVE TypeOK'
    BY <1>7 DEF AggregatePeriod, TypeOK, history, Caller
  <1>8. ASSUME NEW p \in Caller, ReadRows(p) PROVE TypeOK'
    <2>1. snap' \in [Caller -> [Cell -> Nat]]
      <3>1. [c \in Cell |-> IF c \in focus[p] THEN Rows(c) ELSE snap[p][c]]
               \in [Cell -> Nat]
        BY RowsBound DEF TypeOK
      <3>. QED  BY <1>8, <3>1 DEF ReadRows, TypeOK
    <2>. QED  BY <1>8, <2>1 DEF ReadRows, TypeOK, history
  <1>9. ASSUME NEW p \in Caller, WriteRollups(p) PROVE TypeOK'
    <2>1. rollup' \in [Cell -> Nat]
      BY <1>9 DEF WriteRollups, AssignRollup, TypeOK
    <2>2. regressed' \subseteq Cell
      BY <1>9 DEF WriteRollups, TypeOK
    <2>. QED  BY <1>9, <2>1, <2>2 DEF WriteRollups, AfterStatement, TypeOK
  <1>10. ASSUME NEW p \in Caller, ClearDirtyCells(p) PROVE TypeOK'
    <2>1. swallowed' \subseteq Cell
      BY <1>10 DEF ClearDirtyCells, TypeOK
    <2>. QED  BY <1>10, <2>1, ResetType DEF ClearDirtyCells, TypeOK
  <1>11. ASSUME NEW p \in Caller, NEW c \in Cell, TryOneCell(p, c) PROVE TypeOK'
    BY <1>11 DEF TryOneCell, TypeOK, history
  <1>12. ASSUME NEW p \in Caller, AbortPass(p) PROVE TypeOK'
    BY <1>12, ResetType DEF AbortPass, TypeOK, history
  <1>13. CASE UNCHANGED vars
    BY <1>13 DEF vars, passVars, history, TypeOK
  <1>. QED
    BY <1>1, <1>2, <1>3, <1>4, <1>5, <1>6, <1>7, <1>8, <1>9, <1>10, <1>11,
       <1>12, <1>13
       DEF Next, PassStep

\* The aggregation keeps its types in every reachable state.
THEOREM TypeCorrect == Spec => []TypeOK
  BY InitType, NextType, PTL DEF Spec

----------------------------------------------------------------------------
(***************************************************************************)
(* Nothing is counted twice: a statement counted rows that were there, and *)
(* rows are never taken back, so assigning an old count is at worst short. *)
(***************************************************************************)
SnapInv == \A p \in Caller, c \in Cell : snap[p][c] <= Rows(c)

CountInv == TypeOK /\ SnapInv /\ NeverOvercounts

\* Committed rows stay.
LEMMA RowsGrow ==
    ASSUME TypeOK, [Next]_vars, NEW c \in Cell
    PROVE  Rows(c) \in Nat /\ Rows(c)' \in Nat /\ Rows(c) <= Rows(c)'
  <1>1. committed \subseteq committed'
    BY DEF Next, vars, CommitRows, MarkDirty, LoseDirtySet, TakeDirtyCells,
           IsolateCells, QuarantineCell, AggregatePeriod, PassStep, ReadRows,
           WriteRollups, ClearDirtyCells, TryOneCell, AbortPass
  <1>2. Of(c, committed') \in SUBSET Event /\ Of(c, committed) \in SUBSET Of(c, committed')
    BY <1>1, NextType DEF Of, TypeOK
  <1>. QED  BY <1>2, CountMonotone DEF Rows, Of

\* What a caller has counted moves only when it counts again or starts over.
LEMMA SnapMoves ==
    ASSUME TypeOK, [Next]_vars, NEW p \in Caller
    PROVE  \/ snap'[p] = snap[p]
           \/ \A c \in Cell : snap'[p][c] = 0
           \/ ReadRows(p)
  <1>1. CASE UNCHANGED snap
    BY <1>1
  <1>2. ASSUME NEW q \in Caller, ReadRows(q) PROVE ReadRows(p) \/ snap'[p] = snap[p]
    BY <1>2 DEF ReadRows, TypeOK
  <1>3. ASSUME NEW q \in Caller, Reset(q)
        PROVE  snap'[p] = snap[p] \/ \A c \in Cell : snap'[p][c] = 0
    BY <1>3 DEF Reset, TypeOK
  <1>. QED
    BY <1>1, <1>2, <1>3
       DEF Next, vars, passVars, CommitRows, MarkDirty, LoseDirtySet, TakeDirtyCells,
           IsolateCells, QuarantineCell, AggregatePeriod, PassStep, WriteRollups,
           ClearDirtyCells, TryOneCell, AbortPass

\* Both parts are preserved.
LEMMA NextCount == CountInv /\ [Next]_vars => CountInv'
  <1> SUFFICES ASSUME CountInv, [Next]_vars PROVE CountInv'
    OBVIOUS
  <1> USE DEF CountInv
  <1>1. TypeOK'
    BY NextType
  <1>2. SnapInv'
    <2> SUFFICES ASSUME NEW p \in Caller, NEW c \in Cell
                 PROVE  snap'[p][c] <= Rows(c)'
      BY DEF SnapInv
    <2>1. /\ Rows(c) \in Nat /\ Rows(c)' \in Nat /\ Rows(c) <= Rows(c)'
          /\ snap[p][c] \in Nat /\ snap[p][c] <= Rows(c)
      BY RowsGrow DEF SnapInv, TypeOK
    <2>2. CASE snap'[p] = snap[p] \/ \A d \in Cell : snap'[p][d] = 0
      BY <2>1, <2>2
    <2>3. CASE ReadRows(p)
      <3>1. snap'[p] = [d \in Cell |-> IF d \in focus[p] THEN Rows(d) ELSE snap[p][d]]
        BY <2>3 DEF ReadRows, TypeOK
      <3>. QED  BY <2>1, <3>1
    <2>. QED  BY <2>2, <2>3, SnapMoves
  <1>3. NeverOvercounts'
    <2> SUFFICES ASSUME NEW c \in Cell PROVE rollup'[c] <= Rows(c)'
      BY DEF NeverOvercounts
    <2>1. /\ Rows(c) \in Nat /\ Rows(c)' \in Nat /\ Rows(c) <= Rows(c)'
          /\ rollup[c] \in Nat /\ rollup[c] <= Rows(c)
      BY RowsGrow DEF NeverOvercounts, TypeOK
    <2>2. CASE UNCHANGED rollup
      BY <2>1, <2>2
    <2>3. ASSUME NEW p \in Caller, WriteRollups(p) PROVE rollup'[c] <= Rows(c)'
      <3>1. snap[p][c] \in Nat /\ snap[p][c] <= Rows(c)
        BY DEF SnapInv, TypeOK
      <3>2. rollup'[c] = rollup[c] \/ rollup'[c] = snap[p][c]
        BY <2>3 DEF WriteRollups, AssignRollup
      <3>. QED  BY <2>1, <3>1, <3>2
    <2>. QED
      BY <2>2, <2>3
         DEF Next, vars, CommitRows, MarkDirty, LoseDirtySet, TakeDirtyCells,
             IsolateCells, QuarantineCell, AggregatePeriod, PassStep, ReadRows,
             ClearDirtyCells, TryOneCell, AbortPass
  <1>. QED  BY <1>1, <1>2, <1>3

\* However often a cell is aggregated, by however many overlapping passes and
\* closes, its rollup never counts more requests than it has rows
\* (rollups._AGGREGATE_SQL assigns a whole cell).
THEOREM NeverOvercountsHolds == Spec => []NeverOvercounts
  <1>1. Init => CountInv
    <2>1. Init => SnapInv /\ NeverOvercounts
      <3> SUFFICES ASSUME Init PROVE SnapInv /\ NeverOvercounts
        OBVIOUS
      <3>1. \A c \in Cell : Rows(c) >= 0
        BY InitType, RowsBound
      <3>. QED  BY <3>1 DEF Init, SnapInv, NeverOvercounts
    <2>. QED  BY <2>1, InitType DEF CountInv
  <1>2. CountInv => NeverOvercounts
    BY DEF CountInv
  <1>. QED  BY <1>1, <1>2, NextCount, PTL DEF Spec

----------------------------------------------------------------------------
(***************************************************************************)
(* The only ways a mark is lost. Rows that have been marked are counted, or*)
(* their cell is in the dirty set, or one of the histories names the cell  *)
(* (MarkInv). A pass that is about to clear its marks has counted each of  *)
(* its cells into the rollup, unless it still has the cell to try or in    *)
(* hand (HandledInv), and it clears only when it has neither (PassInv).    *)
(***************************************************************************)
Explained == swallowed \cup regressed \cup quarantined

MarkInv ==
    \A c \in Cell : c \in dirty \/ c \in Explained \/ Marked(c) <= rollup[c]

PassInv ==
    \A p \in Caller :
        /\ p \in Closer => ~alone[p]
        /\ ~alone[p] => todo[p] = {}
        /\ pc[p] = "idle" => ~alone[p]
        /\ pc[p] = "clear" => todo[p] = {}

HandledInv ==
    \A p \in Caller : \A c \in cells[p] :
        \/ c \in todo[p]
        \/ c \in focus[p] /\ pc[p] \in {"read", "write"}
        \/ c \in Explained
        \/ snap[p][c] <= rollup[c]

IInv == TypeOK /\ MarkInv /\ PassInv /\ HandledInv

\* A cell once explained stays so, and an unexplained rollup never goes back.
LEMMA HistoryGrows ==
    ASSUME TypeOK, [Next]_vars
    PROVE  /\ Explained \subseteq Explained'
           /\ \A c \in Cell : c \in Explained' \/ rollup[c] <= rollup'[c]
  <1>1. Explained \subseteq Explained'
    BY DEF Explained, Next, vars, history, CommitRows, MarkDirty, LoseDirtySet,
           TakeDirtyCells, IsolateCells, QuarantineCell, AggregatePeriod, PassStep,
           ReadRows, WriteRollups, ClearDirtyCells, TryOneCell, AbortPass
  <1>2. \A c \in Cell : c \in Explained' \/ rollup[c] <= rollup'[c]
    <2> SUFFICES ASSUME NEW c \in Cell PROVE c \in Explained' \/ rollup[c] <= rollup'[c]
      OBVIOUS
    <2>1. rollup[c] \in Nat /\ rollup'[c] \in Nat
      BY NextType DEF TypeOK
    <2>2. CASE UNCHANGED rollup
      BY <2>1, <2>2
    <2>3. ASSUME NEW p \in Caller, WriteRollups(p)
          PROVE  c \in Explained' \/ rollup[c] <= rollup'[c]
      BY <2>1, <2>3 DEF WriteRollups, Explained
    <2>. QED
      BY <2>2, <2>3
         DEF Next, vars, CommitRows, MarkDirty, LoseDirtySet, TakeDirtyCells,
             IsolateCells, QuarantineCell, AggregatePeriod, PassStep, ReadRows,
             ClearDirtyCells, TryOneCell, AbortPass
  <1>. QED  BY <1>1, <1>2

\* Rows become marked only by the mark of their cell.
LEMMA MarkedMoves ==
    ASSUME TypeOK, [Next]_vars, NEW c \in Cell
    PROVE  Marked(c)' = Marked(c) \/ c \in dirty'
  <1>1. CASE UNCHANGED <<committed, unmarked>>
    BY <1>1 DEF Marked, Of
  <1>2. ASSUME NEW S \in SUBSET (Event \ committed), CommitRows(S)
        PROVE  Marked(c)' = Marked(c)
    <2>1. committed' \ unmarked' = committed \ unmarked
      BY <1>2 DEF CommitRows
    <2>. QED  BY <2>1 DEF Marked, Of
  <1>3. ASSUME NEW S \in SUBSET unmarked, MarkDirty(S)
        PROVE  Marked(c)' = Marked(c) \/ c \in dirty'
    <2>1. CASE \E e \in S : CellOf[e] = c
      BY <1>3, <2>1 DEF MarkDirty
    <2>2. CASE \A e \in S : CellOf[e] # c
      <3>1. Of(c, committed' \ unmarked') = Of(c, committed \ unmarked)
        BY <1>3, <2>2 DEF MarkDirty, Of
      <3>. QED  BY <3>1 DEF Marked, Of
    <2>. QED  BY <2>1, <2>2
  <1>. QED
    BY <1>1, <1>2, <1>3
       DEF Next, vars, LoseDirtySet, TakeDirtyCells, IsolateCells, QuarantineCell,
           AggregatePeriod, PassStep, ReadRows, WriteRollups, ClearDirtyCells,
           TryOneCell, AbortPass

\* A pass clears, and leaves its isolation, only with every cell tried.
LEMMA NextPass == IInv /\ [Next]_vars => PassInv'
  <1> SUFFICES ASSUME IInv, [Next]_vars PROVE PassInv'
    OBVIOUS
  <1> USE DEF IInv, TypeOK, PassInv
  <1>1. CASE UNCHANGED passVars
    BY <1>1 DEF passVars
  <1>2. ASSUME NEW p \in Pass, TakeDirtyCells(p) PROVE PassInv'
    BY <1>2 DEF TakeDirtyCells, Caller
  <1>3. ASSUME NEW p \in Pass, IsolateCells(p) PROVE PassInv'
    BY <1>3, CallerAssumption DEF IsolateCells, Caller
  <1>4. ASSUME NEW p \in Pass, QuarantineCell(p) PROVE PassInv'
    BY <1>4, CallerAssumption DEF QuarantineCell, AfterStatement, Caller
  <1>5. ASSUME NEW p \in Closer, AggregatePeriod(p) PROVE PassInv'
    BY <1>5 DEF AggregatePeriod, Caller
  <1>6. ASSUME NEW p \in Caller, ReadRows(p) PROVE PassInv'
    BY <1>6 DEF ReadRows
  <1>7. ASSUME NEW p \in Caller, WriteRollups(p) PROVE PassInv'
    BY <1>7 DEF WriteRollups, AfterStatement
  <1>8. ASSUME NEW p \in Caller, Reset(p) PROVE PassInv'
    BY <1>8 DEF Reset
  <1>9. ASSUME NEW p \in Caller, NEW c \in Cell, TryOneCell(p, c) PROVE PassInv'
    BY <1>9 DEF TryOneCell
  <1>. QED
    BY <1>1, <1>2, <1>3, <1>4, <1>5, <1>6, <1>7, <1>8, <1>9
       DEF Next, vars, passVars, PassStep, CommitRows, MarkDirty, LoseDirtySet,
           ClearDirtyCells, AbortPass

\* Every cell a pass has neither to try nor in hand is in its rollup, or
\* explained.
LEMMA NextHandled == IInv /\ [Next]_vars => HandledInv'
  <1> SUFFICES ASSUME IInv, [Next]_vars, NEW p \in Caller, NEW c \in cells'[p]
               PROVE  \/ c \in todo'[p]
                      \/ c \in focus'[p] /\ pc'[p] \in {"read", "write"}
                      \/ c \in Explained'
                      \/ snap'[p][c] <= rollup'[c]
    BY DEF HandledInv
  <1> DEFINE Goal == \/ c \in todo'[p]
                     \/ c \in focus'[p] /\ pc'[p] \in {"read", "write"}
                     \/ c \in Explained'
                     \/ snap'[p][c] <= rollup'[c]
  <1>0. /\ c \in Cell
        /\ rollup[c] \in Nat /\ rollup'[c] \in Nat
        /\ snap[p][c] \in Nat /\ snap'[p][c] \in Nat
    BY NextType DEF IInv, TypeOK
  <1>1. (c \in Explained => c \in Explained') /\ (c \in Explained' \/ rollup[c] <= rollup'[c])
    BY <1>0, HistoryGrows DEF IInv
  <1>2. CASE /\ cells'[p] = cells[p] /\ snap'[p] = snap[p] /\ todo'[p] = todo[p]
             /\ focus'[p] = focus[p] /\ pc'[p] = pc[p]
    BY <1>0, <1>1, <1>2 DEF IInv, HandledInv
  <1>3. CASE cells'[p] = {}
    BY <1>3
  <1>4. ASSUME p \in Pass, TakeDirtyCells(p) PROVE Goal
    BY <1>4 DEF TakeDirtyCells, IInv, TypeOK
  <1>5. ASSUME p \in Pass, IsolateCells(p) PROVE Goal
    BY <1>5 DEF IsolateCells, IInv, TypeOK
  <1>6. ASSUME p \in Pass, QuarantineCell(p) PROVE Goal
    <2>1. /\ c \in cells[p] /\ todo'[p] = todo[p] /\ snap'[p] = snap[p]
          /\ quarantined' = quarantined \cup focus[p]
      BY <1>6 DEF QuarantineCell
    <2>. QED
      BY <1>0, <1>1, <2>1 DEF IInv, HandledInv, Explained
  <1>7. ASSUME p \in Closer, AggregatePeriod(p) PROVE Goal
    BY <1>0, <1>7 DEF AggregatePeriod, IInv, TypeOK
  <1>8. ASSUME ReadRows(p) PROVE Goal
    <2>1. /\ c \in cells[p] /\ todo'[p] = todo[p] /\ focus'[p] = focus[p]
          /\ pc'[p] = "write"
          /\ snap'[p] = [d \in Cell |-> IF d \in focus[p] THEN Rows(d) ELSE snap[p][d]]
      BY <1>8 DEF ReadRows, IInv, TypeOK
    <2>2. CASE c \in focus[p]
      BY <2>1, <2>2
    <2>3. CASE c \notin focus[p]
      <3>1. snap'[p][c] = snap[p][c]
        BY <1>0, <2>1, <2>3
      <3>. QED  BY <1>0, <1>1, <2>1, <2>3, <3>1 DEF IInv, HandledInv
    <2>. QED  BY <2>2, <2>3
  <1>9. ASSUME WriteRollups(p) PROVE Goal
    <2>1. /\ c \in cells[p] /\ todo'[p] = todo[p] /\ snap'[p] = snap[p]
          /\ rollup' = AssignRollup(rollup, p)
      BY <1>9 DEF WriteRollups
    <2>2. CASE c \in focus[p]
      <3>1. snap[p][c] <= rollup'[c]
        BY <1>0, <2>1, <2>2 DEF AssignRollup
      <3>. QED  BY <2>1, <3>1
    <2>3. CASE c \notin focus[p]
      BY <1>0, <1>1, <2>1, <2>3 DEF IInv, HandledInv
    <2>. QED  BY <2>2, <2>3
  <1>10. ASSUME NEW d \in Cell, TryOneCell(p, d) PROVE Goal
    <2>1. /\ c \in cells[p] /\ snap'[p] = snap[p] /\ pc[p] = "isolate"
          /\ pc'[p] = "read" /\ focus'[p] = {d} /\ todo'[p] = todo[p] \ {d}
      BY <1>10 DEF TryOneCell, IInv, TypeOK
    <2>2. c \in todo[p] \/ c \in Explained \/ snap[p][c] <= rollup[c]
      BY <2>1 DEF IInv, HandledInv
    <2>. QED  BY <1>0, <1>1, <2>1, <2>2
  <1>11. ASSUME NEW q \in Caller, q # p,
                \/ TakeDirtyCells(q) \/ IsolateCells(q) \/ QuarantineCell(q)
                \/ AggregatePeriod(q) \/ PassStep(q) \/ AbortPass(q)
         PROVE  Goal
    <2>1. /\ cells'[p] = cells[p] /\ snap'[p] = snap[p] /\ todo'[p] = todo[p]
          /\ focus'[p] = focus[p] /\ pc'[p] = pc[p]
      BY <1>11 DEF TakeDirtyCells, IsolateCells, QuarantineCell, AggregatePeriod,
         PassStep, ReadRows, WriteRollups, ClearDirtyCells, TryOneCell, AbortPass,
         Reset, IInv, TypeOK
    <2>. QED  BY <1>2, <2>1
  <1>12. ASSUME ClearDirtyCells(p) \/ AbortPass(p) PROVE Goal
    BY <1>12, <1>3 DEF ClearDirtyCells, AbortPass, Reset, IInv, TypeOK
  <1>13. CASE UNCHANGED passVars
    BY <1>2, <1>13 DEF passVars
  <1>14. ASSUME NEW q \in Pass,
                TakeDirtyCells(q) \/ IsolateCells(q) \/ QuarantineCell(q)
         PROVE  Goal
    BY <1>4, <1>5, <1>6, <1>11, <1>14 DEF Caller
  <1>15. ASSUME NEW q \in Closer, AggregatePeriod(q) PROVE Goal
    BY <1>7, <1>11, <1>15 DEF Caller
  <1>16. ASSUME NEW q \in Caller, PassStep(q) \/ AbortPass(q) PROVE Goal
    <2>1. CASE q = p
      BY <1>8, <1>9, <1>10, <1>12, <1>16, <2>1 DEF PassStep
    <2>2. CASE q # p
      BY <1>11, <1>16, <2>2
    <2>. QED  BY <2>1, <2>2
  <1>17. CASE UNCHANGED vars
    BY <1>13, <1>17 DEF vars
  <1>18. CASE LoseDirtySet
    BY <1>13, <1>18 DEF LoseDirtySet
  <1>19. ASSUME NEW S, CommitRows(S) \/ MarkDirty(S) PROVE Goal
    BY <1>13, <1>19 DEF CommitRows, MarkDirty
  <1>. QED
    BY <1>14, <1>15, <1>16, <1>17, <1>18, <1>19 DEF Next

\* A mark that goes, goes with a history that names its cell, or with a rollup
\* that has counted every marked row.
LEMMA NextMark == IInv /\ [Next]_vars => MarkInv'
  <1> SUFFICES ASSUME IInv, [Next]_vars, NEW c \in Cell,
                      c \notin dirty', c \notin Explained'
               PROVE  Marked(c)' <= rollup'[c]
    BY DEF MarkInv
  <1>0. /\ rollup[c] \in Nat /\ rollup'[c] \in Nat /\ Marked(c) \in Nat
        /\ rollup[c] <= rollup'[c] /\ c \notin Explained
    BY NextType, HistoryGrows, RowsBound DEF IInv, TypeOK
  <1>1. Marked(c)' = Marked(c)
    BY MarkedMoves DEF IInv
  <1>2. CASE c \notin dirty
    BY <1>0, <1>1, <1>2 DEF IInv, MarkInv
  <1>3. CASE c \in dirty
    <2>1. PICK p \in Caller : ClearDirtyCells(p)
      BY <1>3 DEF Next, vars, Explained, CommitRows, MarkDirty, LoseDirtySet,
         TakeDirtyCells, IsolateCells, QuarantineCell, AggregatePeriod, PassStep,
         ReadRows, WriteRollups, TryOneCell, AbortPass
    <2>2. c \in cells[p] /\ pc[p] = "clear" /\ ~(snap[p][c] < Marked(c))
      BY <1>3, <2>1 DEF ClearDirtyCells, Explained
    <2>3. todo[p] = {}
      BY <2>2 DEF IInv, PassInv
    <2>4. snap[p][c] <= rollup[c] /\ snap[p][c] \in Nat
      BY <1>0, <2>2, <2>3 DEF IInv, HandledInv, TypeOK
    <2>. QED  BY <1>0, <1>1, <2>2, <2>4
  <1>. QED  BY <1>2, <1>3

\* The invariant is inductive.
THEOREM Invariance == Spec => []IInv
  <1>1. Init => IInv
    <2> SUFFICES ASSUME Init PROVE IInv
      OBVIOUS
    <2>1. TypeOK
      BY InitType
    <2>2. PassInv /\ HandledInv
      BY DEF Init, PassInv, HandledInv
    <2>3. MarkInv
      <3>1. \A c \in Cell : Of(c, committed \ unmarked) = {}
        BY DEF Init, Of
      <3>2. \A c \in Cell : Marked(c) = 0
        BY <3>1, FS_EmptySet DEF Marked
      <3>. QED  BY <3>2 DEF Init, MarkInv
    <2>. QED  BY <2>1, <2>2, <2>3 DEF IInv
  <1>2. IInv /\ [Next]_vars => IInv'
    BY NextType, NextMark, NextPass, NextHandled DEF IInv
  <1>. QED  BY <1>1, <1>2, PTL DEF Spec

\* A cell that is behind its rows with no mark has lost it in one of four ways: a
\* clear newer than the count, an older count written over a newer one, a
\* quarantine, or the loss of the set. No dead pass and no failed statement
\* loses one (aggregate_dirty).
THEOREM BehindIsExplainedHolds == Spec => []BehindIsExplained
  <1>1. IInv => BehindIsExplained
    <2> SUFFICES ASSUME IInv, NEW c \in Cell, rollup[c] < Rows(c), c \notin dirty,
                        ~Unmarked(c)
                 PROVE  c \in Explained
      BY DEF BehindIsExplained, Explained
    <2>1. Of(c, committed \ unmarked) = Of(c, committed)
      BY DEF Unmarked, Of
    <2>2. Marked(c) = Rows(c)
      BY <2>1 DEF Marked, Rows
    <2>3. rollup[c] \in Nat /\ Rows(c) \in Nat
      BY RowsBound DEF IInv, TypeOK
    <2>. QED  BY <2>2, <2>3 DEF IInv, MarkInv
  <1>. QED  BY <1>1, Invariance, PTL
=============================================================================
