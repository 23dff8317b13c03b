-------------------------- MODULE MonthCloseProofs --------------------------
(***************************************************************************)
(* Proofs about the month close, for any number of months, closers,        *)
(* requests and faults: issued invoices are final, an invoice that is      *)
(* short has its shortfall on the period, requests are billed twice only   *)
(* by a race of two generates, and closes without late usage leave an      *)
(* issued month invoiced.                                                  *)
(***************************************************************************)
EXTENDS MonthClose, FoldProofs

----------------------------------------------------------------------------
(* An issued invoice is final: no step but Issue writes an invoice, and it *)
(* writes one for a month that has none.                                   *)

\* What the invoices are after any step.
LEMMA InvoicesMove ==
    ASSUME [Next]_vars
    PROVE  \/ UNCHANGED <<issued, billed>>
           \/ \E p \in Closer : Issue(p)
  BY DEF Next, vars, periodVars, closeVars, NextMonth, StoreUsage, RollUp, WriteOlderCount,
         ListDue, AskFor, CloseStep, Begin, MarkReconciling, Converge, MarkClosed, Build,
         LookUp, IssueCollides, Regenerate, Abort

\* Invoices are kept by month.
InvoiceType == billed = [m \in Month |-> billed[m]]

\* Every step keeps them so.
LEMMA NextInvoiceType == InvoiceType /\ [Next]_vars => InvoiceType'
  <1> SUFFICES ASSUME InvoiceType, [Next]_vars PROVE InvoiceType'
    OBVIOUS
  <1>1. CASE UNCHANGED <<issued, billed>>
    BY <1>1 DEF InvoiceType
  <1>2. ASSUME NEW p \in Closer, Issue(p) PROVE InvoiceType'
    BY <1>2 DEF InvoiceType, Issue, WriteInvoice
  <1>. QED  BY <1>1, <1>2, InvoicesMove

\* A step neither changes nor withdraws an issued invoice.
LEMMA FinalStep ==
    ASSUME InvoiceType, [Next]_vars, NEW m \in issued
    PROVE  m \in issued' /\ billed'[m] = billed[m]
  <1>1. CASE UNCHANGED <<issued, billed>>
    BY <1>1
  <1>2. ASSUME NEW p \in Closer, Issue(p)
        PROVE  m \in issued' /\ billed'[m] = billed[m]
    <2>1. m # month[p] /\ issued' = issued \cup {month[p]}
      BY <1>2 DEF Issue, WriteInvoice
    <2>2. billed' = [billed EXCEPT ![month[p]] = lines[p]]
      BY <1>2 DEF Issue, WriteInvoice
    <2>. QED  BY <2>1, <2>2
  <1>. QED  BY <1>1, <1>2, InvoicesMove

\* Whatever closes of its month run, overlap or die, an issued invoice keeps its
\* lines and is never withdrawn (meter_invoices_immutable, ADR-0013).
THEOREM IssuedIsFinalHolds == Spec => IssuedIsFinal
  <1>1. Init => InvoiceType
    BY DEF Init, InvoiceType
  <1>2. InvoiceType /\ [Next]_vars =>
            [\A m \in issued : m \in issued' /\ billed'[m] = billed[m]]_vars
    BY FinalStep
  <1>. QED
    BY <1>1, <1>2, NextInvoiceType, PTL DEF Spec, IssuedIsFinal

----------------------------------------------------------------------------
(***************************************************************************)
(* A short invoice is recorded as short. The inductive invariant follows a *)
(* close from its report on: deltas of zero mean rollups that cover what   *)
(* the counter said, as long as they do not go back; others are recorded   *)
(* when the period is closed, and a record is never cleared; so the        *)
(* period's own line, once built, is short only if that is recorded,       *)
(* whatever the other closes do to the period's status.                    *)
(***************************************************************************)
CloseTypes ==
    /\ now \in Month
    /\ stored \in [Month -> Nat] /\ rolled \in [Month -> Nat]
    /\ \A m \in Month : rolled[m] <= stored[m]
    /\ discrepancy \in [Month -> BOOLEAN]
    /\ issued \subseteq Month
    /\ pc = [p \in Closer |-> pc[p]]
    /\ month \in [Closer -> Month]
    /\ short \in [Closer -> BOOLEAN]
    /\ lines = [p \in Closer |-> lines[p]]
    /\ existing = [p \in Closer |-> existing[p]]
    /\ owed \in [Closer -> Nat]
    /\ due \in [Month -> Nat]
    /\ InvoiceType

ReportInv ==
    \A p \in Closer :
        pc[p] = "close" /\ ~short[p] => owed[p] <= rolled[month[p]]

RecordInv ==
    \A p \in Closer :
        pc[p] = "build" /\ ~discrepancy[month[p]] => owed[p] <= rolled[month[p]]

LineInv ==
    \A p \in Closer :
        pc[p] \in {"lookup", "write"} /\ lines[p][month[p]] < owed[p] =>
            discrepancy[month[p]]

(***************************************************************************)
(* Requests are billed twice only by a race. The invariant says where an   *)
(* invoice's lines come from: its own month, or late usage of an earlier   *)
(* month that has its invoice and has outgrown it. A line that is built,   *)
(* and that no other invoice has overtaken, still has room in what there   *)
(* is of its month. That is what the rollups count, and once they may have *)
(* gone back, what the rows are: neither shrinks, and a rollup is below    *)
(* both.                                                                   *)
(***************************************************************************)
Ceiling(k) == IF faults = 0 THEN rolled[k] ELSE stored[k]

Built(p) == pc[p] \in {"lookup", "write"}

LateLines(q, m) ==
    \A k \in Month : q[k] > 0 /\ k # m =>
        k < m /\ k \in issued /\ billed[k][k] < Ceiling(k)

OriginInv ==
    /\ \A m \in Month : status[m] = "invoiced" => m \in issued
    /\ \A m \in Month : m \notin issued => billed[m] = NoLines
    /\ \A m \in Month : billed[m][m] <= Ceiling(m) /\ LateLines(billed[m], m)
    /\ \A p \in Closer : Built(p) =>
          lines[p][month[p]] <= Ceiling(month[p]) /\ LateLines(lines[p], month[p])
    /\ \A p \in Closer : pc[p] = "write" /\ existing[p] => month[p] \in issued

HasRoom(p, k) ==
    lines[p][k] > 0 /\ k \notin overtaken[p] /\ (k = month[p] => k \notin issued)
        => Billed(k) + lines[p][k] <= Ceiling(k)

RoomInv == \A p \in Closer : Built(p) => \A k \in Month : HasRoom(p, k)

(***************************************************************************)
(* An issued month is left invoiced. While no close has died and no rollup *)
(* has gone back, a status that another close has set back is going to be  *)
(* restored: by a close that has not built its lines yet, or has built the *)
(* issued ones again.                                                      *)
(***************************************************************************)
Late(m) == \E k \in issued : k <= m /\ rolled[k] # billed[k][k]

Restores(p) ==
    \/ pc[p] \in {"converge", "close", "build"}
    \/ /\ pc[p] = "lookup" \/ (pc[p] = "write" /\ existing[p])
       /\ lines[p] = billed[month[p]]

RestoreInv ==
    faults = 0 =>
        \A m \in issued :
            \/ status[m] = "invoiced" \/ Late(m)
            \/ \E p \in Closer : month[p] = m /\ Restores(p)

IInv ==
    /\ TypeOK
    /\ CloseTypes
    /\ ReportInv
    /\ RecordInv
    /\ LineInv
    /\ ShortfallIsRecorded
    /\ OriginInv
    /\ RoomInv
    /\ DoubleOnlyByRace
    /\ RestoreInv

\* What TypeOK says, in the words the proofs use.
LEMMA PlainTypes == TypeOK => CloseTypes
  <1> SUFFICES ASSUME TypeOK PROVE CloseTypes
    OBVIOUS
  <1>1. \A q \in Quantities : q \in [Month -> Nat]
    BY BoundAssumption DEF Quantities
  <1>2. /\ pc = [p \in Closer |-> pc[p]] /\ lines = [p \in Closer |-> lines[p]]
        /\ existing = [p \in Closer |-> existing[p]] /\ InvoiceType
    BY DEF TypeOK, InvoiceType
  <1>3. owed \in [Closer -> Nat]
    BY BoundAssumption DEF TypeOK
  <1>. QED  BY <1>1, <1>2, <1>3 DEF TypeOK, CloseTypes

\* The same after a step.
LEMMA PlainTypesNext == TypeOK' => CloseTypes'
  BY PlainTypes, PTL

\* The months are finitely many.
LEMMA MonthsFinite == IsFiniteSet(Month)
  <1>1. 1 \in Int /\ Months \in Int
    BY BoundAssumption
  <1>. QED  BY <1>1, FS_Interval DEF Month

\* A total over months is a natural number, at least the quantity of each month.
LEMMA TotalFacts ==
    ASSUME NEW q, DOMAIN q = Month, \A m \in Month : q[m] \in Nat
    PROVE  /\ Total(q) = SumFunctionOnSet(q, Month)
           /\ Total(q) \in Nat
           /\ \A m \in Month : q[m] <= Total(q)
  <1>1. Total(q) = SumFunctionOnSet(q, Month)
    BY DEF Total, SumFunction
  <1>. QED  BY <1>1, MonthsFinite, SumOfNaturals

\* What invoices bill of a month, in all and each.
LEMMA BilledFacts ==
    ASSUME TypeOK, NEW k \in Month
    PROVE  /\ Billed(k) = SumFunctionOnSet([m \in Month |-> billed[m][k]], Month)
           /\ Billed(k) \in Nat
           /\ \A m \in Month : billed[m][k] \in Nat /\ billed[m][k] <= Billed(k)
  <1> DEFINE q == [m \in Month |-> billed[m][k]]
  <1>1. \A m \in Month : q[m] = billed[m][k] /\ q[m] \in Nat
    BY BoundAssumption DEF TypeOK, Quantities
  <1>2. DOMAIN q = Month /\ Billed(k) = Total(q)
    BY DEF Billed
  <1> HIDE DEF q
  <1>3. /\ Total(q) = SumFunctionOnSet(q, Month)
        /\ Total(q) \in Nat
        /\ \A m \in Month : q[m] <= Total(q)
    BY <1>1, <1>2, TotalFacts
  <1>4. \A m \in Month : billed[m][k] <= Billed(k) /\ billed[m][k] \in Nat
    BY <1>1, <1>2, <1>3
  <1>5. Billed(k) = SumFunctionOnSet(q, Month) /\ Billed(k) \in Nat
    BY <1>2, <1>3
  <1>. QED  BY <1>4, <1>5 DEF q

\* A month billed by no invoice, but perhaps its own, is billed what that says.
LEMMA BilledOfOne ==
    ASSUME TypeOK, NEW k \in Month, \A m \in Month \ {k} : billed[m][k] = 0
    PROVE  Billed(k) = billed[k][k]
  <1> DEFINE q == [m \in Month |-> billed[m][k]]
  <1>1. Billed(k) = SumFunctionOnSet(q, Month) /\ billed[k][k] \in Nat
    BY BilledFacts
  <1>2. q[k] = billed[k][k] /\ \A m \in Month \ {k} : q[m] = 0
    OBVIOUS
  <1> HIDE DEF q
  <1>3. SumFunctionOnSet(q, Month) = q[k]
    BY <1>1, <1>2, MonthsFinite, SumOfOne
  <1>. QED  BY <1>1, <1>2, <1>3

\* Lines, rollups and invoices are natural numbers.
LEMMA Numbers ==
    ASSUME TypeOK
    PROVE  /\ \A k \in Month : rolled[k] \in Nat /\ Billed(k) \in Nat
           /\ \A m, k \in Month : billed[m][k] \in Nat
           /\ \A p \in Closer, k \in Month : lines[p][k] \in Nat
           /\ \A p \in Closer : month[p] \in Month
  <1>1. \A k \in Month : Billed(k) \in Nat
    BY BilledFacts
  <1>2. /\ \A k \in Month : rolled[k] \in Nat
        /\ \A m, k \in Month : billed[m][k] \in Nat
        /\ \A p \in Closer, k \in Month : lines[p][k] \in Nat
        /\ \A p \in Closer : month[p] \in Month
    BY BoundAssumption DEF TypeOK, Quantities
  <1>. QED  BY <1>1, <1>2

\* The lines of an invoice are quantities the rollups can have.
LEMMA LinesType ==
    ASSUME TypeOK, NEW m \in Month
    PROVE  InvoiceLines(m) \in Quantities /\ NoLines \in Quantities
  <1>1. NoLines \in Quantities
    BY BoundAssumption DEF NoLines, Quantities
  <1>2. ASSUME NEW k \in Month
        PROVE  (IF k = m THEN rolled[k]
                ELSE IF k < m /\ status[k] = "invoiced" /\ rolled[k] > Billed(k)
                     THEN rolled[k] - Billed(k)
                     ELSE 0) \in 0 .. MaxUsage
    <2>1. Billed(k) \in Nat
      BY BilledFacts
    <2>2. rolled[k] \in 0 .. MaxUsage
      BY DEF TypeOK, Quantities
    <2>. QED  BY <2>1, <2>2, BoundAssumption
  <1>3. InvoiceLines(m) \in Quantities
    BY <1>2, Zenon DEF InvoiceLines, Quantities
  <1>. QED  BY <1>1, <1>3

\* A counter is within the bound on what there can be.
LEMMA CountsType ==
    ASSUME TypeOK, NEW m \in Month
    PROVE  Counts(m) \subseteq 0 .. MaxUsage
  <1>1. DOMAIN stored = Month /\ \A k \in Month : stored[k] \in Nat
    BY BoundAssumption DEF TypeOK, Quantities
  <1>2. Total(stored) \in Nat /\ stored[m] <= Total(stored) /\ stored[m] \in Nat
    BY <1>1, TotalFacts
  <1>. QED  BY <1>2, BoundAssumption DEF Counts

\* The invariant holds before the first request.
LEMMA InitIInv == Init => IInv
  <1> SUFFICES ASSUME Init PROVE IInv
    OBVIOUS
  <1>1. TypeOK
    BY BoundAssumption DEF Init, TypeOK, Quantities, Month, NoLines
  <1>2. CloseTypes
    BY <1>1, PlainTypes
  <1>3. ReportInv /\ RecordInv /\ LineInv /\ ShortfallIsRecorded
    BY DEF Init, ReportInv, RecordInv, LineInv, ShortfallIsRecorded
  <1>4. \A k \in Month : Billed(k) = 0
    <2> SUFFICES ASSUME NEW k \in Month PROVE Billed(k) = 0
      OBVIOUS
    <2>1. \A m \in Month : billed[m][k] = 0
      BY DEF Init, NoLines
    <2>. QED  BY <1>1, <2>1, BilledOfOne
  <1>5. RoomInv /\ RestoreInv
    BY DEF Init, RoomInv, RestoreInv, Built
  <1>6. OriginInv
    BY BoundAssumption DEF Init, OriginInv, LateLines, Ceiling, Built, NoLines, Month
  <1>7. DoubleOnlyByRace
    BY <1>4 DEF Init, DoubleOnlyByRace, NoLines
  <1>. QED  BY <1>1, <1>2, <1>3, <1>5, <1>6, <1>7 DEF IInv

\* A close that ends leaves its own state well typed.
LEMMA ReturnTypes ==
    ASSUME TypeOK, NEW p \in Closer, Return(p)
    PROVE  /\ pc' \in [Closer -> {"idle", "begin", "mark", "converge", "close", "build",
                                  "lookup", "write"}]
           /\ month' \in [Closer -> Month]
           /\ short' \in [Closer -> BOOLEAN]
           /\ lines' \in [Closer -> Quantities]
           /\ existing' \in [Closer -> BOOLEAN]
           /\ owed' \in [Closer -> 0 .. MaxUsage]
  <1>1. 1 \in Month /\ 0 \in 0 .. MaxUsage /\ NoLines \in Quantities
    BY BoundAssumption DEF Month, NoLines, Quantities
  <1>. QED  BY <1>1 DEF Return, TypeOK

\* Every step keeps the types: rollups stay within the rows, the rows within their
\* bound, and an invoice's lines within both.
LEMMA NextTypes == TypeOK /\ [Next]_vars => TypeOK'
  <1> SUFFICES ASSUME TypeOK, [Next]_vars PROVE TypeOK'
    OBVIOUS
  <1> USE BoundAssumption DEF TypeOK
  <1>1. CASE NextMonth
    <2>1. now' \in Month
      BY <1>1 DEF NextMonth, Month
    <2>. QED  BY <1>1, <2>1 DEF NextMonth, periodVars, closeVars, bounds, history
  <1>2. ASSUME NEW m \in Month, StoreUsage(m) PROVE TypeOK'
    <2>1. stored[m] \in Nat /\ stored[m] <= Total(stored) /\ Total(stored) \in Nat
      <3>1. DOMAIN stored = Month /\ \A k \in Month : stored[k] \in Nat
        BY DEF Quantities
      <3>. QED  BY <3>1, TotalFacts
    <2>2. stored[m] + 1 \in 0 .. MaxUsage /\ stored' = [stored EXCEPT ![m] = stored[m] + 1]
      BY <1>2, <2>1 DEF StoreUsage
    <2>3. stored' \in Quantities
      BY <2>2 DEF Quantities
    <2>4. \A k \in Month : rolled[k] <= stored'[k]
      BY <2>1, <2>2 DEF Quantities
    <2>. QED
      BY <1>2, <2>3, <2>4 DEF StoreUsage, periodVars, closeVars, bounds, history
  <1>3. ASSUME NEW m \in Month, RollUp(m) PROVE TypeOK'
    <2>1. PICK n \in rolled[m] + 1 .. stored[m] : rolled' = [rolled EXCEPT ![m] = n]
      BY <1>3 DEF RollUp
    <2>2. n \in 0 .. MaxUsage /\ n <= stored[m]
      BY DEF Quantities
    <2>3. rolled' \in Quantities /\ \A k \in Month : rolled'[k] <= stored[k]
      BY <2>1, <2>2 DEF Quantities
    <2>. QED  BY <1>3, <2>3 DEF RollUp, periodVars, closeVars, bounds, history
  <1>17. ASSUME NEW m \in Month, WriteOlderCount(m) PROVE TypeOK'
    <2>1. PICK n \in 1 .. rolled[m] - 1 : rolled' = [rolled EXCEPT ![m] = n]
      BY <1>17 DEF WriteOlderCount
    <2>2. n \in 0 .. MaxUsage /\ n <= stored[m]
      BY DEF Quantities
    <2>3. rolled' \in Quantities /\ \A k \in Month : rolled'[k] <= stored[k]
      BY <2>1, <2>2 DEF Quantities
    <2>4. owed' \in [Closer -> 0 .. MaxUsage] /\ faults' \in 0 .. MaxFaults
      BY <1>17 DEF WriteOlderCount
    <2>. QED  BY <1>17, <2>3, <2>4 DEF WriteOlderCount, periodVars, history
  <1>4. ASSUME NEW p \in Scheduler, ListDue(p) PROVE TypeOK'
    <2>1. now - 1 \in Month
      BY <1>4 DEF ListDue, Month
    <2>2. closes' \in 0 .. MaxCloses
      BY <1>4 DEF ListDue
    <2>. QED  BY <1>4, <2>1, <2>2 DEF ListDue, Closer, periodVars, history
  <1>5. ASSUME NEW p \in Ops, NEW m \in Month, AskFor(p, m) PROVE TypeOK'
    <2>1. closes' \in 0 .. MaxCloses
      BY <1>5 DEF AskFor
    <2>. QED  BY <1>5, <2>1 DEF AskFor, Closer, periodVars, history
  <1>6. ASSUME NEW p \in Closer, Begin(p) PROVE TypeOK'
    BY <1>6 DEF Begin, periodVars, history, bounds
  <1>7. ASSUME NEW p \in Closer, MarkReconciling(p) PROVE TypeOK'
    BY <1>7 DEF MarkReconciling, history, bounds
  <1>8. ASSUME NEW p \in Closer, Converge(p) PROVE TypeOK'
    <2>1. PICK n \in rolled[month[p]] .. stored[month[p]], counter \in Counts(month[p]) :
               /\ rolled' = [rolled EXCEPT ![month[p]] = n]
               /\ short' = [short EXCEPT ![p] = counter # stored[month[p]]
                                                \/ n # stored[month[p]]]
               /\ owed' = [owed EXCEPT ![p] = IF month[p] \in issued THEN 0
                                                  ELSE counter]
      BY <1>8 DEF Converge
    <2>2. rolled' \in Quantities /\ \A m \in Month : rolled'[m] <= stored[m]
      <3>1. month[p] \in Month /\ n \in 0 .. MaxUsage /\ n <= stored[month[p]]
        BY DEF Quantities
      <3>. QED  BY <2>1, <3>1 DEF Quantities
    <2>3. /\ pc' = [pc EXCEPT ![p] = "close"]
          /\ UNCHANGED <<now, stored, periodVars, month, lines, existing, overtaken, bounds,
                         history>>
      BY <1>8 DEF Converge
    <2>4. short' \in [Closer -> BOOLEAN]
      BY <2>1, Zenon
    <2>5. owed' \in [Closer -> 0 .. MaxUsage]
      <3>1. counter \in 0 .. MaxUsage /\ 0 \in 0 .. MaxUsage
        BY CountsType, BoundAssumption
      <3>. QED  BY <2>1, <3>1
    <2>6. pc' \in [Closer -> {"idle", "begin", "mark", "converge", "close", "build",
                              "lookup", "write"}]
      BY <2>3
    <2>. QED
      BY <2>2, <2>3, <2>4, <2>5, <2>6 DEF periodVars, history, bounds
  <1>9. ASSUME NEW p \in Closer, MarkClosed(p) PROVE TypeOK'
    BY <1>9 DEF MarkClosed, history, bounds
  <1>10. ASSUME NEW p \in Closer, Build(p) PROVE TypeOK'
    <2>1. month[p] \in Month
      OBVIOUS
    <2>2. lines' \in [Closer -> Quantities]
      <3>1. InvoiceLines(month[p]) \in Quantities
        BY <2>1, LinesType
      <3>. QED  BY <1>10, <3>1 DEF Build
    <2>. QED  BY <1>10, <2>2 DEF Build, periodVars, history, bounds
  <1>11. ASSUME NEW p \in Closer, LookUp(p) PROVE TypeOK'
    BY <1>11 DEF LookUp, periodVars, history, bounds
  <1>12. ASSUME NEW p \in Closer, Issue(p) PROVE TypeOK'
    <2>1. Return(p) /\ UNCHANGED <<now, stored, rolled, discrepancy, bounds>>
      BY <1>12 DEF Issue, WriteInvoice
    <2>2. /\ issued' \subseteq Month /\ due' \in Quantities
          /\ status' \in [Month -> {"open", "reconciling", "closed", "invoiced"}]
          /\ billed' \in [Month -> Quantities]
      BY <1>12 DEF Issue, WriteInvoice, Quantities
    <2>3. overtaken' \in [Closer -> SUBSET Month] /\ raced' \subseteq Month
      BY <1>12 DEF Issue, WriteInvoice, BilledBy
    <2>. QED  BY <2>1, <2>2, <2>3, ReturnTypes DEF bounds
  <1>13. ASSUME NEW p \in Closer, IssueCollides(p) PROVE TypeOK'
    BY <1>13, ReturnTypes DEF IssueCollides, periodVars, history, bounds
  <1>14. ASSUME NEW p \in Closer, Regenerate(p) PROVE TypeOK'
    <2>1. status' \in [Month -> {"open", "reconciling", "closed", "invoiced"}]
      BY <1>14 DEF Regenerate
    <2>. QED  BY <1>14, <2>1, ReturnTypes DEF Regenerate, history, bounds
  <1>15. ASSUME NEW p \in Closer, Abort(p) PROVE TypeOK'
    <2>1. faults' \in 0 .. MaxFaults
      BY <1>15 DEF Abort
    <2>. QED  BY <1>15, <2>1, ReturnTypes DEF Abort, periodVars, history
  <1>16. CASE UNCHANGED vars
    BY <1>16 DEF vars, periodVars, closeVars, bounds, history
  <1>. QED
    BY <1>1, <1>2, <1>3, <1>4, <1>5, <1>6, <1>7, <1>8, <1>9, <1>10, <1>11,
       <1>12, <1>13, <1>14, <1>15, <1>16, <1>17
       DEF Next, CloseStep

\* A recorded discrepancy stays recorded.
LEMMA RecordsStay ==
    ASSUME CloseTypes, [Next]_vars, NEW m \in Month, discrepancy[m]
    PROVE  discrepancy'[m]
  <1> USE DEF CloseTypes
  <1>1. CASE UNCHANGED discrepancy
    BY <1>1
  <1>2. ASSUME NEW p \in Closer, MarkClosed(p) PROVE discrepancy'[m]
    <2>1. discrepancy' = [discrepancy EXCEPT ![month[p]] =
                             discrepancy[month[p]] \/ short[p]]
      BY <1>2 DEF MarkClosed
    <2>. QED  BY <2>1
  <1>. QED
    BY <1>1, <1>2
       DEF Next, vars, periodVars, NextMonth, StoreUsage, RollUp, WriteOlderCount,
           ListDue, AskFor, CloseStep, Begin, MarkReconciling, Converge, Build, LookUp,
           Issue, WriteInvoice, IssueCollides, Regenerate, Abort

\* Rollups go back only when a slow statement writes an older count.
LEMMA RollupsMove ==
    ASSUME CloseTypes, [Next]_vars, NEW m \in Month
    PROVE  \/ rolled[m] <= rolled'[m]
           \/ WriteOlderCount(m)
  <1> USE DEF CloseTypes
  <1>1. CASE UNCHANGED rolled
    BY <1>1
  <1>2. ASSUME NEW k \in Month, RollUp(k) PROVE rolled[m] <= rolled'[m]
    <2>1. PICK n \in rolled[k] + 1 .. stored[k] : rolled' = [rolled EXCEPT ![k] = n]
      BY <1>2 DEF RollUp
    <2>. QED  BY <2>1
  <1>3. ASSUME NEW k \in Month, WriteOlderCount(k), k # m PROVE rolled[m] <= rolled'[m]
    <2>1. PICK n \in 1 .. rolled[k] - 1 : rolled' = [rolled EXCEPT ![k] = n]
      BY <1>3 DEF WriteOlderCount
    <2>. QED  BY <1>3, <2>1
  <1>4. ASSUME NEW p \in Closer, Converge(p) PROVE rolled[m] <= rolled'[m]
    <2>1. PICK n \in rolled[month[p]] .. stored[month[p]] :
               rolled' = [rolled EXCEPT ![month[p]] = n]
      BY <1>4 DEF Converge
    <2>. QED  BY <2>1
  <1>. QED
    BY <1>1, <1>2, <1>3, <1>4
       DEF Next, vars, NextMonth, StoreUsage, ListDue, AskFor, CloseStep, Begin,
           MarkReconciling, MarkClosed, Build, LookUp, Issue, WriteInvoice,
           IssueCollides, Regenerate, Abort

\* Rows stay, and faults are never taken back.
LEMMA RowsGrow ==
    ASSUME TypeOK, [Next]_vars, NEW m \in Month
    PROVE  stored[m] <= stored'[m] /\ (faults' = 0 => faults = 0)
  <1>0. stored[m] \in Nat /\ faults \in Nat
    BY BoundAssumption DEF TypeOK, Quantities
  <1>1. stored[m] <= stored'[m]
    <2>1. CASE UNCHANGED stored
      BY <1>0, <2>1
    <2>2. ASSUME NEW k \in Month, StoreUsage(k) PROVE stored[m] <= stored'[m]
      BY <1>0, <2>2 DEF StoreUsage, TypeOK, Quantities
    <2>. QED
      BY <2>1, <2>2
         DEF Next, vars, NextMonth, RollUp, WriteOlderCount, ListDue, AskFor, CloseStep,
             Begin, MarkReconciling, Converge, MarkClosed, Build, LookUp, Issue,
             WriteInvoice, IssueCollides, Regenerate, Abort
  <1>2. faults' = 0 => faults = 0
    BY <1>0
       DEF Next, vars, bounds, NextMonth, StoreUsage, RollUp, WriteOlderCount, ListDue,
           AskFor, CloseStep, Begin, MarkReconciling, Converge, MarkClosed, Build, LookUp,
           Issue, WriteInvoice, IssueCollides, Regenerate, Abort
  <1>. QED  BY <1>1, <1>2

\* The ceiling is between rollups and rows, and never sinks.
LEMMA CeilingGrows ==
    ASSUME TypeOK, [Next]_vars, TypeOK', NEW m \in Month
    PROVE  /\ rolled[m] \in Nat /\ Ceiling(m) \in Nat /\ stored[m] \in Nat
           /\ rolled[m] <= Ceiling(m) /\ Ceiling(m) <= stored[m]
           /\ Ceiling(m)' \in Nat /\ stored'[m] \in Nat
           /\ Ceiling(m) <= Ceiling(m)' /\ stored[m] <= stored'[m]
  <1>1. /\ rolled[m] \in Nat /\ stored[m] \in Nat /\ rolled[m] <= stored[m]
        /\ rolled'[m] \in Nat /\ stored'[m] \in Nat /\ rolled'[m] <= stored'[m]
        /\ faults \in Nat
    BY BoundAssumption DEF TypeOK, Quantities
  <1>2. stored[m] <= stored'[m] /\ (faults' = 0 => faults = 0)
    BY RowsGrow
  <1>3. rolled[m] <= rolled'[m] \/ faults' # 0
    <2>1. WriteOlderCount(m) => faults' # 0
      BY <1>1 DEF WriteOlderCount
    <2>. QED  BY <2>1, RollupsMove, PlainTypes
  <1>. QED  BY <1>1, <1>2, <1>3 DEF Ceiling

\* The same of the state alone.
LEMMA CeilingFacts ==
    ASSUME TypeOK, NEW m \in Month
    PROVE  /\ rolled[m] \in Nat /\ Ceiling(m) \in Nat /\ stored[m] \in Nat
           /\ rolled[m] <= Ceiling(m) /\ Ceiling(m) <= stored[m]
  BY BoundAssumption DEF TypeOK, Quantities, Ceiling

\* What one step does to the close that takes it: a report, a record, a build,
\* or nothing the invariant speaks of.
LEMMA CloserMoves ==
    ASSUME CloseTypes, [Next]_vars, NEW q \in Closer
    PROVE  \/ /\ pc'[q] = pc[q]
              /\ month'[q] = month[q] /\ short'[q] = short[q]
              /\ lines'[q] = lines[q] /\ owed'[q] \in {0, owed[q]}
              /\ existing'[q] = existing[q]
           \/ pc'[q] \in {"idle", "begin", "mark", "converge"}
           \/ Converge(q) \/ MarkClosed(q) \/ Build(q) \/ LookUp(q)
  <1> USE DEF CloseTypes
  <1> DEFINE Untouched == /\ pc'[q] = pc[q]
                          /\ month'[q] = month[q] /\ short'[q] = short[q]
                          /\ lines'[q] = lines[q] /\ owed'[q] \in {0, owed[q]}
                          /\ existing'[q] = existing[q]
             Away == pc'[q] \in {"idle", "begin", "mark", "converge"}
             Works == Converge(q) \/ MarkClosed(q) \/ Build(q) \/ LookUp(q)
  <1>1. CASE UNCHANGED closeVars
    BY <1>1 DEF closeVars
  <1>2. ASSUME NEW p \in Closer, ListDue(p) \/ \E m \in Month : AskFor(p, m)
        PROVE  Untouched \/ Away
    BY <1>2 DEF ListDue, AskFor
  <1>3. ASSUME NEW p \in Closer, Begin(p) \/ MarkReconciling(p)
        PROVE  Untouched \/ Away
    BY <1>3 DEF Begin, MarkReconciling
  <1>4. ASSUME NEW p \in Closer, Converge(p) \/ MarkClosed(p) \/ Build(p) \/ LookUp(p)
        PROVE  Untouched \/ Works
    <2>1. CASE p = q
      BY <1>4, <2>1
    <2>2. CASE p # q
      BY <1>4, <2>2 DEF Converge, MarkClosed, Build, LookUp
    <2>. QED  BY <2>1, <2>2
  <1>5. ASSUME NEW p \in Closer, Return(p)
        PROVE  Untouched \/ Away
    <2>1. CASE p = q
      BY <1>5, <2>1 DEF Return
    <2>2. CASE p # q
      BY <1>5, <2>2 DEF Return
    <2>. QED  BY <2>1, <2>2
  <1>6. ASSUME NEW m \in Month, WriteOlderCount(m) PROVE Untouched
    BY <1>6 DEF WriteOlderCount
  <1>. QED
    BY <1>1, <1>2, <1>3, <1>4, <1>5, <1>6
       DEF Next, vars, CloseStep, Closer, NextMonth, StoreUsage, RollUp, Issue,
           WriteInvoice, IssueCollides, Regenerate, Abort

\* Rollups that cover a report go on covering it until the lines are built: if they
\* go back, nothing is asked of the close any more.
LEMMA CoverStays ==
    ASSUME IInv, [Next]_vars, NEW q \in Closer, pc[q] \in {"close", "build"},
           owed[q] <= rolled[month[q]], owed'[q] \in {0, owed[q]}
    PROVE  owed'[q] <= rolled'[month[q]]
  <1> DEFINE m == month[q]
  <1>1. /\ CloseTypes /\ m \in Month /\ owed[q] \in Nat
        /\ rolled[m] \in Nat /\ rolled'[m] \in Nat
    BY NextTypes, PlainTypesNext DEF IInv, CloseTypes
  <1>2. CASE WriteOlderCount(m)
    <2>1. owed'[q] = 0
      BY <1>2 DEF WriteOlderCount
    <2>. QED  BY <1>1, <2>1
  <1>3. CASE rolled[m] <= rolled'[m]
    BY <1>1, <1>3
  <1>. QED  BY <1>1, <1>2, <1>3, RollupsMove

\* A report with deltas of zero has rollups that cover the counter.
LEMMA NextReport == IInv /\ [Next]_vars => ReportInv'
  <1> SUFFICES ASSUME IInv, [Next]_vars, NEW p \in Closer, pc'[p] = "close", ~short'[p]
               PROVE  owed'[p] <= rolled'[month'[p]]
    BY DEF ReportInv
  <1>0. /\ CloseTypes /\ month[p] \in Month /\ stored[month[p]] \in Nat
    BY DEF IInv, CloseTypes
  <1>1. CASE Converge(p)
    <2>1. PICK n \in rolled[month[p]] .. stored[month[p]], counter \in Counts(month[p]) :
               /\ rolled' = [rolled EXCEPT ![month[p]] = n]
               /\ short' = [short EXCEPT ![p] = counter # stored[month[p]]
                                                \/ n # stored[month[p]]]
               /\ owed' = [owed EXCEPT ![p] = IF month[p] \in issued THEN 0
                                                  ELSE counter]
      BY <1>1 DEF Converge
    <2>2. short'[p] = (counter # stored[month[p]] \/ n # stored[month[p]])
      BY <1>0, <2>1, Zenon DEF CloseTypes
    <2>3. counter = stored[month[p]] /\ n = stored[month[p]]
      BY <2>2, Zenon
    <2>4. /\ owed'[p] \in {0, counter}
          /\ rolled'[month[p]] = n /\ month'[p] = month[p]
      BY <1>0, <1>1, <2>1 DEF Converge, CloseTypes
    <2>. QED  BY <1>0, <2>3, <2>4
  <1>2. CASE /\ pc'[p] = pc[p] /\ month'[p] = month[p] /\ short'[p] = short[p]
             /\ owed'[p] \in {0, owed[p]}
    <2>1. owed[p] <= rolled[month[p]]
      BY <1>2 DEF IInv, ReportInv
    <2>. QED  BY <1>2, <2>1, CoverStays
  <1>3. ~MarkClosed(p) /\ ~Build(p) /\ ~LookUp(p)
    BY <1>0 DEF MarkClosed, Build, LookUp, CloseTypes
  <1>. QED  BY <1>0, <1>1, <1>2, <1>3, CloserMoves

\* Once the period is closed, a shortfall the close saw is on its row.
LEMMA NextRecord == IInv /\ [Next]_vars => RecordInv'
  <1> SUFFICES ASSUME IInv, [Next]_vars, NEW p \in Closer, pc'[p] = "build",
                      ~discrepancy'[month'[p]]
               PROVE  owed'[p] <= rolled'[month'[p]]
    BY DEF RecordInv
  <1>0. CloseTypes /\ month[p] \in Month
    BY DEF IInv, CloseTypes
  <1>1. CASE MarkClosed(p)
    <2>1. /\ pc[p] = "close" /\ month'[p] = month[p] /\ owed'[p] = owed[p]
          /\ discrepancy' = [discrepancy EXCEPT ![month[p]] =
                                discrepancy[month[p]] \/ short[p]]
      BY <1>1 DEF MarkClosed
    <2>2. ~short[p]
      BY <1>0, <2>1 DEF CloseTypes
    <2>. QED  BY <2>1, <2>2, CoverStays DEF IInv, ReportInv
  <1>2. CASE pc'[p] = pc[p] /\ month'[p] = month[p] /\ owed'[p] \in {0, owed[p]}
    <2>1. ~discrepancy[month[p]]
      BY <1>0, <1>2, RecordsStay
    <2>. QED  BY <1>2, <2>1, CoverStays DEF IInv, RecordInv
  <1>3. ~Converge(p) /\ ~Build(p) /\ ~LookUp(p)
    BY <1>0 DEF Converge, Build, LookUp, CloseTypes
  <1>. QED  BY <1>0, <1>1, <1>2, <1>3, CloserMoves

\* The line a close has built for its own month is short only of a recorded
\* shortfall.
LEMMA NextLine == IInv /\ [Next]_vars => LineInv'
  <1> SUFFICES ASSUME IInv, [Next]_vars, NEW p \in Closer,
                      pc'[p] \in {"lookup", "write"},
                      lines'[p][month'[p]] < owed'[p]
               PROVE  discrepancy'[month'[p]]
    BY DEF LineInv
  <1>0. CloseTypes /\ month[p] \in Month /\ lines[p][month[p]] \in Nat
    BY Numbers DEF IInv, CloseTypes
  <1>1. discrepancy[month[p]] => discrepancy'[month[p]]
    BY <1>0, RecordsStay
  <1>2. CASE Build(p)
    <2>1. /\ lines'[p] = InvoiceLines(month[p])
          /\ pc[p] = "build" /\ UNCHANGED month
          /\ owed'[p] = IF lines'[p][month[p]] < owed[p] THEN owed[p] ELSE 0
      BY <1>0, <1>2 DEF Build, CloseTypes
    <2>2. lines'[p][month[p]] = rolled[month[p]]
      BY <1>0, <2>1 DEF InvoiceLines
    <2>3. ~(owed[p] <= rolled[month[p]])
      <3>1. rolled[month[p]] \in Nat /\ owed[p] \in Nat
        BY <1>0 DEF CloseTypes
      <3>2. lines'[p][month[p]] < owed'[p]
        BY <2>1
      <3>. QED  BY <2>1, <2>2, <3>1, <3>2
    <2>. QED  BY <1>1, <2>1, <2>3 DEF IInv, RecordInv
  <1>3. CASE /\ pc[p] \in {"lookup", "write"} /\ month'[p] = month[p]
             /\ lines'[p] = lines[p] /\ owed'[p] \in {0, owed[p]}
    <2>1. owed'[p] = owed[p]
      BY <1>0, <1>3
    <2>. QED  BY <1>1, <1>3, <2>1 DEF IInv, LineInv
  <1>4. CASE LookUp(p)
    BY <1>0, <1>3, <1>4 DEF LookUp
  <1>5. ~Converge(p) /\ ~MarkClosed(p)
    BY <1>0 DEF Converge, MarkClosed, CloseTypes
  <1>. QED  BY <1>0, <1>2, <1>3, <1>4, <1>5, CloserMoves

\* A step that issues an invoice issues what its close has built; no other
\* touches what is issued.
LEMMA NextShortfall == IInv /\ [Next]_vars => ShortfallIsRecorded'
  <1> SUFFICES ASSUME IInv, [Next]_vars, NEW m \in issued', billed'[m][m] < due'[m]
               PROVE  discrepancy'[m]
    BY DEF ShortfallIsRecorded
  <1>1. m \in Month /\ (discrepancy[m] => discrepancy'[m])
    <2>1. m \in Month
      BY NextTypes DEF IInv, TypeOK
    <2>. QED  BY <2>1, RecordsStay DEF IInv
  <1>2. CASE m \in issued /\ billed'[m] = billed[m] /\ due'[m] = due[m]
    BY <1>1, <1>2 DEF IInv, ShortfallIsRecorded
  <1>3. CASE UNCHANGED <<issued, billed, due>>
    BY <1>2, <1>3
  <1>4. ASSUME NEW p \in Closer, Issue(p) PROVE discrepancy'[m]
    <2>1. /\ pc[p] = "write" /\ month[p] \notin issued
          /\ issued' = issued \cup {month[p]}
          /\ billed' = [billed EXCEPT ![month[p]] = lines[p]]
          /\ due' = [due EXCEPT ![month[p]] = owed[p]]
      BY <1>4 DEF Issue, WriteInvoice
    <2>2. CASE m = month[p]
      <3>1. billed'[m] = lines[p] /\ due'[m] = owed[p]
        BY <1>1, <2>1, <2>2 DEF IInv, CloseTypes, InvoiceType
      <3>. QED  BY <1>1, <2>1, <2>2, <3>1 DEF IInv, LineInv
    <2>3. CASE m # month[p]
      BY <1>1, <1>2, <2>1, <2>3 DEF IInv, CloseTypes, InvoiceType
    <2>. QED  BY <2>2, <2>3
  <1>. QED
    BY <1>3, <1>4
       DEF Next, vars, periodVars, history, NextMonth, StoreUsage, RollUp,
           WriteOlderCount, ListDue, AskFor, CloseStep, Begin, MarkReconciling, Converge,
           MarkClosed, Build, LookUp, IssueCollides, Regenerate, Abort

----------------------------------------------------------------------------
(* Where lines come from.                                                  *)

\* Late usage stays late: invoices are final and the ceiling never sinks.
LEMMA LateStays ==
    ASSUME IInv, [Next]_vars, NEW q, NEW m \in Month, LateLines(q, m)
    PROVE  \A k \in Month : q[k] > 0 /\ k # m =>
              k < m /\ k \in issued' /\ billed'[k][k] < Ceiling(k)'
  <1> SUFFICES ASSUME NEW k \in Month, q[k] > 0, k # m
               PROVE  k < m /\ k \in issued' /\ billed'[k][k] < Ceiling(k)'
    OBVIOUS
  <1>1. k < m /\ k \in issued /\ billed[k][k] < Ceiling(k)
    BY DEF LateLines
  <1>2. k \in issued' /\ billed'[k] = billed[k]
    BY <1>1, FinalStep DEF IInv, CloseTypes
  <1>3. Ceiling(k) \in Nat /\ Ceiling(k)' \in Nat /\ Ceiling(k) <= Ceiling(k)'
    BY CeilingGrows, NextTypes DEF IInv
  <1>4. billed[k][k] \in Nat
    BY Numbers DEF IInv
  <1>. QED  BY <1>1, <1>2, <1>3, <1>4

\* An invoice built now is of its month's rollups and of late usage.
LEMMA BuildsLateLines ==
    ASSUME IInv, NEW m \in Month
    PROVE  /\ LateLines(InvoiceLines(m), m)
           /\ InvoiceLines(m)[m] = rolled[m] /\ rolled[m] <= Ceiling(m)
  <1>1. ASSUME NEW k \in Month, InvoiceLines(m)[k] > 0, k # m
        PROVE  k < m /\ k \in issued /\ billed[k][k] < Ceiling(k)
    <2>1. k < m /\ status[k] = "invoiced" /\ rolled[k] > Billed(k)
      BY <1>1 DEF InvoiceLines
    <2>2. billed[k][k] \in Nat /\ Billed(k) \in Nat /\ rolled[k] \in Nat
      BY Numbers DEF IInv
    <2>3. billed[k][k] <= Billed(k)
      BY BilledFacts DEF IInv
    <2>4. Ceiling(k) \in Nat /\ rolled[k] <= Ceiling(k)
      BY CeilingFacts DEF IInv
    <2>. QED  BY <2>1, <2>2, <2>3, <2>4 DEF IInv, OriginInv
  <1>2. rolled[m] <= Ceiling(m)
    BY CeilingFacts DEF IInv
  <1>. QED  BY <1>1, <1>2 DEF LateLines, InvoiceLines

\* What becomes of a close whose lines are built: it built them now, or it had
\* them.
LEMMA BuiltMoves ==
    ASSUME IInv, [Next]_vars, NEW p \in Closer, Built(p)'
    PROVE  /\ month'[p] = month[p]
           /\ \/ Build(p)
              \/ Built(p) /\ lines'[p] = lines[p]
  <1>1. CloseTypes /\ pc'[p] \in {"lookup", "write"}
    BY DEF IInv, Built
  <1>2. CASE Build(p) \/ LookUp(p)
    BY <1>1, <1>2 DEF Build, LookUp, Built
  <1>3. ~Converge(p) /\ ~MarkClosed(p)
    BY <1>1 DEF Converge, MarkClosed, CloseTypes
  <1>4. CASE pc'[p] = pc[p] /\ month'[p] = month[p] /\ lines'[p] = lines[p]
    BY <1>1, <1>4 DEF Built
  <1>. QED  BY <1>1, <1>2, <1>3, <1>4, CloserMoves

\* The statuses and invoices of one step.
LEMMA StatusMoves ==
    ASSUME IInv, [Next]_vars, NEW m \in Month, status'[m] = "invoiced"
    PROVE  m \in issued'
  <1>1. issued \subseteq issued'
    BY InvoicesMove DEF Issue, WriteInvoice
  <1>2. CASE status'[m] = status[m]
    BY <1>1, <1>2 DEF IInv, OriginInv
  <1>3. CASE UNCHANGED status
    BY <1>2, <1>3
  <1>4. ASSUME NEW p \in Closer, MarkReconciling(p) \/ MarkClosed(p) PROVE m \in issued'
    BY <1>2, <1>4 DEF MarkReconciling, MarkClosed, IInv, TypeOK
  <1>5. ASSUME NEW p \in Closer, Issue(p) PROVE m \in issued'
    <2>1. /\ status' = [status EXCEPT ![month[p]] = "invoiced"]
          /\ issued' = issued \cup {month[p]}
      BY <1>5 DEF Issue, WriteInvoice
    <2>. QED  BY <1>2, <2>1 DEF IInv, TypeOK
  <1>6. ASSUME NEW p \in Closer, Regenerate(p) PROVE m \in issued'
    <2>1. month[p] \in issued
      BY <1>6 DEF Regenerate, IInv, OriginInv
    <2>2. \/ status' = [status EXCEPT ![month[p]] = "invoiced"]
          \/ status' = status
      BY <1>6 DEF Regenerate
    <2>. QED  BY <1>1, <1>2, <2>1, <2>2 DEF IInv, TypeOK
  <1>. QED
    BY <1>3, <1>4, <1>5, <1>6
       DEF Next, vars, periodVars, NextMonth, StoreUsage, RollUp, WriteOlderCount, ListDue,
           AskFor, CloseStep, Begin, Converge, Build, LookUp, IssueCollides, Abort

\* Lines come from their own month or from late usage.
LEMMA NextOrigin == IInv /\ [Next]_vars => OriginInv'
  <1> SUFFICES ASSUME IInv, [Next]_vars PROVE OriginInv'
    OBVIOUS
  <1>0. /\ CloseTypes /\ TypeOK /\ OriginInv /\ TypeOK' /\ CloseTypes'
        /\ \A k \in Month : Ceiling(k) <= Ceiling(k)'
        /\ \A k \in Month : Ceiling(k) \in Nat /\ Ceiling(k)' \in Nat
    BY NextTypes, PlainTypesNext, CeilingGrows DEF IInv, CloseTypes
  <1>1. \A m \in Month : status'[m] = "invoiced" => m \in issued'
    BY StatusMoves
  <1>2. ASSUME NEW m \in Month, m \notin issued' PROVE billed'[m] = NoLines
    <2>1. CASE UNCHANGED <<issued, billed>>
      BY <1>0, <1>2, <2>1 DEF OriginInv
    <2>2. ASSUME NEW p \in Closer, Issue(p) PROVE billed'[m] = NoLines
      <3>1. m # month[p] /\ m \notin issued
        BY <1>2, <2>2 DEF Issue, WriteInvoice
      <3>2. billed'[m] = billed[m]
        BY <1>0, <2>2, <3>1 DEF Issue, WriteInvoice, CloseTypes, InvoiceType
      <3>. QED  BY <1>0, <3>1, <3>2 DEF OriginInv
    <2>. QED  BY <2>1, <2>2, InvoicesMove
  <1>3. ASSUME NEW m \in Month
        PROVE  billed'[m][m] <= Ceiling(m)' /\ LateLines(billed[m], m)'
    <2>1. CASE billed'[m] = billed[m]
      <3>1. LateLines(billed[m], m) /\ billed[m][m] <= Ceiling(m) /\ billed[m][m] \in Nat
        BY <1>0, Numbers DEF OriginInv
      <3>2. billed'[m][m] <= Ceiling(m)'
        BY <1>0, <2>1, <3>1
      <3>. QED  BY <2>1, <3>1, <3>2, LateStays DEF LateLines
    <2>2. ASSUME NEW p \in Closer, Issue(p), m = month[p]
          PROVE  billed'[m][m] <= Ceiling(m)' /\ LateLines(billed[m], m)'
      <3>1. Built(p) /\ billed'[m] = lines[p] /\ lines[p][m] \in Nat
        BY <1>0, <2>2, Numbers DEF Issue, WriteInvoice, CloseTypes, InvoiceType, Built
      <3>2. lines[p][m] <= Ceiling(m) /\ LateLines(lines[p], m)
        BY <1>0, <2>2, <3>1 DEF OriginInv
      <3>3. billed'[m][m] <= Ceiling(m)'
        BY <1>0, <3>1, <3>2
      <3>. QED  BY <3>1, <3>2, <3>3, LateStays DEF LateLines
    <2>3. ASSUME NEW p \in Closer, Issue(p), m # month[p] PROVE billed'[m] = billed[m]
      BY <1>0, <2>3 DEF Issue, WriteInvoice, CloseTypes, InvoiceType
    <2>. QED  BY <2>1, <2>2, <2>3, InvoicesMove
  <1>4. ASSUME NEW p \in Closer, Built(p)'
        PROVE  /\ lines'[p][month'[p]] <= Ceiling(month[p])'
               /\ LateLines(lines[p], month[p])'
    <2>1. month'[p] = month[p] /\ month[p] \in Month
      BY <1>0, <1>4, BuiltMoves DEF CloseTypes
    <2>2. ASSUME NEW q, lines'[p] = q, LateLines(q, month[p]),
                 q[month[p]] <= Ceiling(month[p]), q[month[p]] \in Nat
          PROVE  /\ lines'[p][month'[p]] <= Ceiling(month[p])'
                 /\ LateLines(lines[p], month[p])'
      <3>1. lines'[p][month'[p]] <= Ceiling(month[p])'
        BY <1>0, <2>1, <2>2
      <3>2. LateLines(lines[p], month[p])'
        BY <2>1, <2>2, LateStays DEF LateLines
      <3>. QED  BY <3>1, <3>2
    <2>3. CASE Build(p)
      <3>1. lines'[p] = InvoiceLines(month[p])
        BY <1>0, <2>3 DEF Build, CloseTypes
      <3>2. /\ LateLines(InvoiceLines(month[p]), month[p])
            /\ InvoiceLines(month[p])[month[p]] \in Nat
            /\ InvoiceLines(month[p])[month[p]] <= Ceiling(month[p])
        BY <1>0, <2>1, BuildsLateLines DEF CloseTypes
      <3>. QED  BY <1>0, <2>1, <2>2, <3>1, <3>2
    <2>4. CASE Built(p) /\ lines'[p] = lines[p]
      <3>1. /\ lines[p][month[p]] <= Ceiling(month[p])
            /\ LateLines(lines[p], month[p])
            /\ lines[p][month[p]] \in Nat
        BY <1>0, <2>1, <2>4, Numbers DEF OriginInv
      <3>. QED  BY <2>2, <2>4, <3>1
    <2>. QED  BY <1>4, <2>3, <2>4, BuiltMoves
  <1>5. ASSUME NEW p \in Closer, pc'[p] = "write", existing'[p] PROVE month'[p] \in issued'
    <2>1. issued \subseteq issued'
      BY InvoicesMove DEF Issue, WriteInvoice
    <2>2. CASE LookUp(p)
      <3>1. existing'[p] = (month[p] \in issued) /\ month'[p] = month[p]
        BY <2>2, Zenon DEF LookUp, IInv, CloseTypes
      <3>. QED  BY <1>5, <2>1, <3>1
    <2>3. CASE pc'[p] = pc[p] /\ month'[p] = month[p] /\ existing'[p] = existing[p]
      BY <1>0, <1>5, <2>1, <2>3 DEF OriginInv
    <2>4. ~Converge(p) /\ ~MarkClosed(p) /\ ~Build(p)
      BY <1>0, <1>5 DEF Converge, MarkClosed, Build, CloseTypes
    <2>. QED  BY <1>0, <1>5, <2>2, <2>3, <2>4, CloserMoves
  <1>. QED  BY <1>1, <1>2, <1>3, <1>4, <1>5 DEF OriginInv

----------------------------------------------------------------------------
(* Room for what is built.                                                 *)

\* An invoice adds its lines to what is billed of each month.
LEMMA IssueBills ==
    ASSUME IInv, TypeOK', NEW p \in Closer, Issue(p), NEW k \in Month
    PROVE  Billed(k)' = Billed(k) + lines[p][k]
  <1> DEFINE f == [m \in Month |-> billed[m][k]]
             h == [m \in Month |-> billed'[m][k]]
             y == month[p]
  <1>1. Billed(k) = SumFunctionOnSet(f, Month) /\ Billed(k) \in Nat
    BY BilledFacts DEF IInv
  <1>2. Billed(k)' = SumFunctionOnSet(h, Month)
    BY DEF Billed, Total, SumFunction
  <1>3. /\ y \in Month /\ y \notin issued
        /\ billed' = [billed EXCEPT ![y] = lines[p]]
    BY DEF Issue, WriteInvoice, IInv, TypeOK
  <1>4. billed[y] = NoLines
    BY <1>3 DEF IInv, OriginInv
  <1>5. f[y] = 0 /\ h[y] = lines[p][k] /\ \A m \in Month \ {y} : h[m] = f[m]
    BY <1>3, <1>4 DEF NoLines, IInv, TypeOK
  <1>6. /\ \A m \in Month : f[m] \in Int
        /\ lines[p][k] \in Int
    BY Numbers DEF IInv
  <1> HIDE DEF f, h, y
  <1>7. SumFunctionOnSet(h, Month) = SumFunctionOnSet(f, Month) - f[y] + h[y]
    BY <1>3, <1>5, <1>6, MonthsFinite, SumChange
  <1>. QED  BY <1>1, <1>2, <1>5, <1>6, <1>7

\* No other step bills anything.
LEMMA BilledMoves ==
    ASSUME IInv, [Next]_vars, NEW k \in Month
    PROVE  \/ Billed(k)' = Billed(k) /\ UNCHANGED <<issued, billed>>
           \/ \E p \in Closer : Issue(p) /\ Billed(k)' = Billed(k) + lines[p][k]
  <1>1. CASE UNCHANGED <<issued, billed>>
    BY <1>1 DEF Billed
  <1>2. ASSUME NEW p \in Closer, Issue(p)
        PROVE  Billed(k)' = Billed(k) + lines[p][k]
    BY <1>2, IssueBills, NextTypes DEF IInv
  <1>. QED  BY <1>1, <1>2, InvoicesMove

\* Only a build forgets which months others have billed meanwhile, and an issue
\* tells every other close.
LEMMA OvertakenMoves ==
    ASSUME IInv, [Next]_vars, NEW q \in Closer, Built(q)', ~Build(q)
    PROVE  /\ overtaken[q] \subseteq overtaken'[q]
           /\ \A p \in Closer : Issue(p) => BilledBy(lines[p]) \subseteq overtaken'[q]
  <1>1. ASSUME NEW p \in Closer, Issue(p)
        PROVE  overtaken'[q] = overtaken[q] \cup BilledBy(lines[p])
    <2>1. p # q
      <3>1. pc' = [pc EXCEPT ![p] = "idle"]
        BY <1>1 DEF Issue, WriteInvoice, Return
      <3>. QED  BY <3>1 DEF Built, IInv, CloseTypes
    <2>. QED  BY <1>1, <2>1 DEF Issue, WriteInvoice
  <1>2. ASSUME NEW p \in Closer, Build(p) PROVE overtaken'[q] = overtaken[q]
    <2>1. p # q
      BY <1>2
    <2>. QED  BY <1>2, <2>1 DEF Build, IInv, TypeOK
  <1>3. \/ overtaken' = overtaken
        \/ \E p \in Closer : Issue(p) \/ Build(p)
    BY DEF Next, vars, closeVars, NextMonth, StoreUsage, RollUp, WriteOlderCount, ListDue,
           AskFor, CloseStep, Begin, MarkReconciling, Converge, MarkClosed, LookUp,
           IssueCollides, Regenerate, Abort
  <1>. QED  BY <1>1, <1>2, <1>3

\* The lines of an invoice built now fit under the ceiling.
LEMMA BuildFits ==
    ASSUME IInv, NEW m \in Month, NEW k \in Month, InvoiceLines(m)[k] > 0,
           k = m => k \notin issued
    PROVE  Billed(k) + InvoiceLines(m)[k] <= Ceiling(k)
  <1>1. /\ Billed(k) \in Nat /\ rolled[k] \in Nat
        /\ Ceiling(k) \in Nat /\ rolled[k] <= Ceiling(k)
    BY Numbers, CeilingFacts DEF IInv
  <1>2. CASE k = m
    <2>1. \A n \in Month : billed[n][k] = 0
      <3> SUFFICES ASSUME NEW n \in Month PROVE billed[n][k] = 0
        OBVIOUS
      <3>1. billed[n][k] \in Nat
        BY Numbers DEF IInv
      <3>2. CASE n = k
        BY <1>2, <3>2 DEF IInv, OriginInv, NoLines
      <3>3. CASE n # k
        BY <1>2, <3>1, <3>3 DEF IInv, OriginInv, LateLines
      <3>. QED  BY <3>2, <3>3
    <2>2. Billed(k) = 0
      BY <2>1, BilledOfOne DEF IInv
    <2>3. InvoiceLines(m)[k] = rolled[k]
      BY <1>2 DEF InvoiceLines
    <2>. QED  BY <1>1, <2>2, <2>3
  <1>3. CASE k # m
    <2>1. InvoiceLines(m)[k] = rolled[k] - Billed(k)
      BY <1>3 DEF InvoiceLines
    <2>. QED  BY <1>1, <2>1
  <1>. QED  BY <1>2, <1>3

\* Lines that were built and not overtaken still fit.
LEMMA NextRoomInv == IInv /\ [Next]_vars => RoomInv'
  <1> SUFFICES ASSUME IInv, [Next]_vars, NEW p \in Closer, Built(p)', NEW k \in Month,
                      lines'[p][k] > 0, k \notin overtaken'[p],
                      k = month'[p] => k \notin issued'
               PROVE  Billed(k)' + lines'[p][k] <= Ceiling(k)'
    BY DEF RoomInv, HasRoom
  <1>0. /\ CloseTypes /\ TypeOK /\ TypeOK' /\ CloseTypes' /\ month[p] \in Month
        /\ Ceiling(k) \in Nat /\ Ceiling(k)' \in Nat /\ Ceiling(k) <= Ceiling(k)'
        /\ month'[p] = month[p] /\ lines[p][k] \in Nat /\ Billed(k) \in Nat
        /\ InvoiceLines(month[p])[k] \in Nat
    <2>1. CloseTypes /\ TypeOK /\ TypeOK' /\ CloseTypes' /\ month[p] \in Month
      BY NextTypes, PlainTypesNext DEF IInv, CloseTypes
    <2>2. InvoiceLines(month[p])[k] \in Nat
      BY <2>1, LinesType, BoundAssumption DEF Quantities
    <2>. QED  BY <2>1, <2>2, CeilingGrows, BuiltMoves, Numbers
  <1>1. CASE Build(p)
    <2>1. /\ lines'[p] = InvoiceLines(month[p]) /\ UNCHANGED <<issued, billed, rolled>>
      BY <1>0, <1>1 DEF Build, periodVars, CloseTypes
    <2>2. Billed(k)' = Billed(k)
      BY <2>1 DEF Billed
    <2>. QED  BY <1>0, <2>1, <2>2, BuildFits
  <1>2. CASE ~Build(p)
    <2>1. Built(p) /\ lines'[p] = lines[p]
      BY <1>2, BuiltMoves
    <2>2. overtaken[p] \subseteq overtaken'[p] /\ issued \subseteq issued'
      BY <1>2, OvertakenMoves, InvoicesMove DEF Issue, WriteInvoice
    <2>3. Billed(k) + lines[p][k] <= Ceiling(k)
      BY <1>0, <2>1, <2>2 DEF IInv, RoomInv, HasRoom
    <2>4. Billed(k)' = Billed(k)
      <3>1. ASSUME NEW q \in Closer, Issue(q) PROVE lines[q][k] = 0
        <4>1. k \notin BilledBy(lines[q])
          BY <1>2, <3>1, OvertakenMoves
        <4>2. lines[q][k] \in Nat
          BY <1>0, Numbers
        <4>. QED  BY <4>1, <4>2 DEF BilledBy
      <3>. QED  BY <1>0, <3>1, BilledMoves
    <2>. QED  BY <1>0, <2>1, <2>3, <2>4
  <1>. QED  BY <1>1, <1>2

\* What is billed twice is what the issued lines were overtaken in.
LEMMA NextDouble == IInv /\ [Next]_vars => DoubleOnlyByRace'
  <1> SUFFICES ASSUME IInv, [Next]_vars, NEW k \in Month, Billed(k)' > stored'[k]
               PROVE  k \in raced'
    BY DEF DoubleOnlyByRace
  <1>0. /\ CloseTypes /\ TypeOK
        /\ stored[k] <= stored'[k] /\ stored[k] \in Nat /\ stored'[k] \in Nat
        /\ Ceiling(k) \in Nat /\ Ceiling(k) <= stored[k]
        /\ Billed(k) \in Nat
    BY NextTypes, CeilingGrows, Numbers DEF IInv
  <1>1. raced \subseteq raced'
    BY DEF Next, vars, history, NextMonth, StoreUsage, RollUp, WriteOlderCount, ListDue,
           AskFor, CloseStep, Begin, MarkReconciling, Converge, MarkClosed, Build, LookUp,
           Issue, WriteInvoice, IssueCollides, Regenerate, Abort
  <1>2. CASE Billed(k)' = Billed(k)
    BY <1>0, <1>1, <1>2 DEF IInv, DoubleOnlyByRace
  <1>3. ASSUME NEW p \in Closer, Issue(p), Billed(k)' = Billed(k) + lines[p][k]
        PROVE  k \in raced'
    <2>1. lines[p][k] \in Nat
      BY <1>0, Numbers
    <2>2. CASE lines[p][k] = 0
      BY <1>0, <1>2, <1>3, <2>2
    <2>3. CASE lines[p][k] > 0 /\ k \in overtaken[p]
      BY <1>3, <2>3 DEF Issue, WriteInvoice, BilledBy
    <2>4. CASE lines[p][k] > 0 /\ k \notin overtaken[p]
      <3>1. Built(p) /\ month[p] \notin issued
        BY <1>3 DEF Issue, Built
      <3>2. Billed(k) + lines[p][k] <= Ceiling(k)
        BY <2>4, <3>1 DEF IInv, RoomInv, HasRoom
      <3>. QED  BY <1>0, <1>3, <2>1, <3>2
    <2>. QED  BY <2>1, <2>2, <2>3, <2>4
  <1>. QED  BY <1>2, <1>3, BilledMoves

----------------------------------------------------------------------------
(* Statuses that are restored.                                             *)

\* Late usage does not become timely while no rollup has gone back.
LEMMA LateGrows ==
    ASSUME IInv, [Next]_vars, NEW m \in Month, Late(m), faults = 0, faults' = 0
    PROVE  Late(m)'
  <1>1. PICK k \in issued : k <= m /\ rolled[k] # billed[k][k]
    BY DEF Late
  <1>2. k \in Month /\ billed[k][k] <= rolled[k]
    BY <1>1 DEF IInv, TypeOK, OriginInv, Ceiling
  <1>3. k \in issued' /\ billed'[k] = billed[k]
    BY <1>1, FinalStep DEF IInv, CloseTypes
  <1>4. rolled[k] <= rolled'[k]
    BY <1>2, CeilingGrows, NextTypes DEF IInv, Ceiling
  <1>5. rolled[k] \in Nat /\ rolled'[k] \in Nat /\ billed[k][k] \in Nat
    BY <1>2, Numbers, NextTypes, PlainTypesNext DEF IInv, CloseTypes
  <1>. QED  BY <1>1, <1>2, <1>3, <1>4, <1>5 DEF Late

\* A month without late usage builds the lines its invoice has.
LEMMA RebuildsSame ==
    ASSUME IInv, NEW m \in issued, ~Late(m), faults = 0
    PROVE  InvoiceLines(m) = billed[m]
  <1>0. m \in Month /\ billed[m] = [k \in Month |-> billed[m][k]]
    BY DEF IInv, TypeOK, Quantities
  <1>1. ASSUME NEW k \in Month PROVE InvoiceLines(m)[k] = billed[m][k]
    <2>1. /\ Billed(k) \in Nat /\ rolled[k] \in Nat
          /\ billed[m][k] \in Nat /\ billed[k][k] \in Nat /\ billed[k][k] <= Billed(k)
      BY <1>0, Numbers, BilledFacts DEF IInv
    <2>2. k \in issued /\ k <= m => rolled[k] = billed[k][k]
      BY DEF Late
    <2>3. CASE k = m
      BY <1>0, <2>2, <2>3 DEF InvoiceLines, Month
    <2>4. CASE k # m
      <3>1. billed[m][k] = 0
        BY <1>0, <2>1, <2>2, <2>4 DEF IInv, OriginInv, LateLines, Ceiling, Month
      <3>2. ~(k < m /\ status[k] = "invoiced" /\ rolled[k] > Billed(k))
        BY <1>0, <2>1, <2>2 DEF IInv, OriginInv, Month
      <3>3. InvoiceLines(m)[k] = 0
        BY <2>4, <3>2 DEF InvoiceLines
      <3>. QED  BY <3>1, <3>3
    <2>. QED  BY <2>3, <2>4
  <1>. QED  BY <1>0, <1>1 DEF InvoiceLines

\* A close that restores the status keeps doing so, or has restored it.
LEMMA RestoresMoves ==
    ASSUME IInv, [Next]_vars, NEW p \in Closer, Restores(p), faults' = 0,
           month[p] \in issued, ~Late(month[p])
    PROVE  \/ month'[p] = month[p] /\ Restores(p)'
           \/ status'[month[p]] = "invoiced"
  <1> DEFINE m == month[p]
  <1>0. CloseTypes /\ TypeOK /\ m \in Month /\ faults = 0
    BY RowsGrow DEF IInv, CloseTypes
  <1>1. billed'[m] = billed[m] /\ m \in issued'
    BY <1>0, FinalStep DEF CloseTypes
  <1>2. CASE /\ pc'[p] = pc[p] /\ month'[p] = m
             /\ lines'[p] = lines[p] /\ existing'[p] = existing[p]
    BY <1>1, <1>2 DEF Restores
  <1>3. CASE Converge(p) \/ MarkClosed(p)
    BY <1>0, <1>3 DEF Converge, MarkClosed, Restores, CloseTypes
  <1>4. CASE Build(p)
    <2>1. pc'[p] = "lookup" /\ lines'[p] = InvoiceLines(m) /\ month'[p] = m
      BY <1>0, <1>4 DEF Build, CloseTypes
    <2>2. InvoiceLines(m) = billed[m]
      BY <1>0, RebuildsSame
    <2>. QED  BY <1>1, <2>1, <2>2 DEF Restores
  <1>5. CASE LookUp(p)
    <2>1. pc'[p] = "write" /\ month'[p] = m /\ lines'[p] = lines[p] /\ pc[p] = "lookup"
      BY <1>0, <1>5 DEF LookUp, CloseTypes
    <2>2. existing'[p]
      BY <1>0, <1>5 DEF LookUp, CloseTypes
    <2>3. lines[p] = billed[m]
      BY <2>1 DEF Restores
    <2>. QED  BY <1>1, <2>1, <2>2, <2>3 DEF Restores
  <1>6. CASE Regenerate(p)
    <2>1. lines[p] = billed[m]
      BY <1>6 DEF Regenerate, Restores
    <2>2. status' = [status EXCEPT ![m] = "invoiced"]
      BY <1>6, <2>1 DEF Regenerate
    <2>. QED  BY <1>0, <2>2 DEF TypeOK
  <1>7. ~Begin(p) /\ ~MarkReconciling(p) /\ ~Issue(p) /\ ~IssueCollides(p)
    BY DEF Begin, MarkReconciling, Issue, IssueCollides, Restores
  <1>8. ~Abort(p)
    BY DEF Abort, IInv, TypeOK
  <1>9. \/ /\ pc'[p] = pc[p] /\ month'[p] = m
           /\ lines'[p] = lines[p] /\ existing'[p] = existing[p]
        \/ CloseStep(p)
    <2>1. ASSUME NEW q \in Closer, CloseStep(q) \/ Abort(q), q # p
          PROVE  /\ pc'[p] = pc[p] /\ month'[p] = m
                 /\ lines'[p] = lines[p] /\ existing'[p] = existing[p]
      BY <1>0, <2>1
         DEF CloseStep, Begin, MarkReconciling, Converge, MarkClosed, Build, LookUp,
             Issue, WriteInvoice, IssueCollides, Regenerate, Abort, Return, CloseTypes
    <2>2. ASSUME NEW q \in Closer, ListDue(q) \/ \E n \in Month : AskFor(q, n)
          PROVE  /\ pc'[p] = pc[p] /\ month'[p] = m
                 /\ lines'[p] = lines[p] /\ existing'[p] = existing[p]
      <3>1. q # p
        BY <2>2 DEF ListDue, AskFor, Restores
      <3>. QED  BY <1>0, <2>2, <3>1 DEF ListDue, AskFor, CloseTypes
    <2>. QED
      BY <1>8, <2>1, <2>2
         DEF Next, vars, closeVars, NextMonth, StoreUsage, RollUp, WriteOlderCount, Closer
  <1>. QED  BY <1>2, <1>3, <1>4, <1>5, <1>6, <1>7, <1>9 DEF CloseStep

\* While no close has died and no rollup has gone back, an issued month without late
\* usage is invoiced or about to be.
LEMMA NextRestore == IInv /\ [Next]_vars => RestoreInv'
  <1> SUFFICES ASSUME IInv, [Next]_vars, faults' = 0, NEW m \in issued', ~Late(m)'
               PROVE  \/ status'[m] = "invoiced"
                      \/ \E p \in Closer : month'[p] = m /\ Restores(p)'
    BY DEF RestoreInv
  <1>0. CloseTypes /\ TypeOK /\ TypeOK' /\ m \in Month /\ faults = 0
    <2>1. TypeOK /\ TypeOK' /\ CloseTypes
      BY NextTypes DEF IInv
    <2>2. m \in Month
      BY <2>1 DEF TypeOK
    <2>. QED  BY <2>1, <2>2, RowsGrow
  <1>1. ~Late(m)
    BY <1>0, LateGrows
  <1>2. CASE m \notin issued
    <2>1. PICK p \in Closer : Issue(p)
      BY <1>2, InvoicesMove
    <2>2. m = month[p] /\ status' = [status EXCEPT ![m] = "invoiced"]
      BY <1>2, <2>1 DEF Issue, WriteInvoice
    <2>. QED  BY <1>0, <2>2 DEF TypeOK
  <1>3. CASE m \in issued
    <2>1. CASE status[m] # "invoiced"
      <3>1. PICK p \in Closer : month[p] = m /\ Restores(p)
        BY <1>0, <1>1, <1>3, <2>1 DEF IInv, RestoreInv
      <3>. QED  BY <1>1, <1>3, <3>1, RestoresMoves
    <2>2. CASE status'[m] = status[m]
      BY <2>1, <2>2
    <2>3. ASSUME NEW p \in Closer, MarkReconciling(p) \/ MarkClosed(p), m = month[p]
          PROVE  month'[p] = m /\ Restores(p)'
      BY <1>0, <2>3 DEF MarkReconciling, MarkClosed, Restores, CloseTypes
    <2>4. ASSUME NEW p \in Closer, MarkReconciling(p) \/ MarkClosed(p), m # month[p]
          PROVE  status'[m] = status[m]
      BY <1>0, <2>4 DEF MarkReconciling, MarkClosed, TypeOK
    <2>5. ASSUME NEW p \in Closer, Issue(p) \/ Regenerate(p)
          PROVE  status'[m] \in {status[m], "invoiced"}
      <3>1. \/ status' = [status EXCEPT ![month[p]] = "invoiced"]
            \/ status' = status
        BY <2>5 DEF Issue, WriteInvoice, Regenerate
      <3>. QED  BY <1>0, <3>1 DEF TypeOK
    <2>6. CASE status' = status
      BY <2>2, <2>6
    <2>. QED
      BY <2>2, <2>3, <2>4, <2>5, <2>6
         DEF Next, vars, periodVars, NextMonth, StoreUsage, RollUp, WriteOlderCount,
             ListDue, AskFor, CloseStep, Begin, Converge, Build, LookUp, IssueCollides,
             Abort
  <1>. QED  BY <1>2, <1>3

----------------------------------------------------------------------------
(* The theorems.                                                           *)

\* The invariant is inductive.
THEOREM Invariance == Spec => []IInv
  <1>1. IInv /\ [Next]_vars => IInv'
    BY NextTypes, PlainTypesNext, NextReport, NextRecord, NextLine, NextShortfall,
       NextOrigin, NextRoomInv, NextDouble, NextRestore
       DEF IInv
  <1>. QED  BY <1>1, InitIInv, PTL DEF Spec

\* However closes overlap, die or run out of grace, and whatever rows and rollups do
\* after the report, an invoice that bills its month for less than the counter of its
\* close's report has a discrepancy recorded on the period (close.py, header, step 5),
\* unless an older count was written between the report and the lines.
THEOREM ShortfallIsRecordedHolds == Spec => []ShortfallIsRecorded
  <1>1. IInv => ShortfallIsRecorded
    BY DEF IInv
  <1>. QED  BY <1>1, Invariance, PTL

\* Whatever the closes do, the state has its types: no rollup counts more than there
\* are rows, and no line, whatever roll-forward subtracts, is negative or larger.
THEOREM TypeCorrect == Spec => []TypeOK
  <1>1. IInv => TypeOK
    BY DEF IInv
  <1>. QED  BY <1>1, Invariance, PTL

\* More is billed of a month than it has rows only if two generates overlapped:
\* roll-forward alone never bills a request twice, however often usage arrives late
\* or rollups go back and catch up (billed_quantity_by_segment).
THEOREM DoubleOnlyByRaceHolds == Spec => []DoubleOnlyByRace
  <1>1. IInv => DoubleOnlyByRace
    BY DEF IInv
  <1>. QED  BY <1>1, Invariance, PTL

\* Any number of closes of a month without late usage, one after the other or
\* overlapping, leave it invoiced if none died and no rollup went back: the
\* regenerated total is the issued one.
THEOREM RerunWithoutLateUsageHolds == Spec => []RerunWithoutLateUsage
  <1>1. IInv => RerunWithoutLateUsage
    <2> SUFFICES ASSUME IInv, Quiet, faults = 0, NEW m \in issued,
                        \A k \in issued : k <= m => rolled[k] = billed[k][k]
                 PROVE  status[m] = "invoiced"
      BY DEF RerunWithoutLateUsage
    <2>1. ~Late(m)
      BY DEF Late
    <2>2. \A p \in Closer : ~Restores(p)
      BY DEF Quiet, Restores
    <2>. QED  BY <2>1, <2>2 DEF IInv, RestoreInv
  <1>. QED  BY <1>1, Invariance, PTL
=============================================================================
