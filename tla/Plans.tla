-------------------------------- MODULE Plans -------------------------------
(***************************************************************************)
(* One customer's plans over one billing month: provisioning, plan changes *)
(* by concurrent admin requests, and what the month's segments cost        *)
(* (meter.api.provisioning, routes/admin.py, segments.py,                  *)
(* billing_calendar.py, thresholds.compute).                               *)
(*                                                                         *)
(* Instants are whole hours of UTC, counted from UTC midnight of the first *)
(* day of the local month; a request reads the clock once and uses what it *)
(* read. A transaction's statements are steps of their own where another   *)
(* transaction can come between; its writes become visible at its commit.  *)
(***************************************************************************)
EXTENDS Rating, FiniteSets, FiniteSetsExt

CONSTANTS
    Request,        \* slots of admin requests served at the same time
    Plan,           \* names in the catalogue
    PriceListOf,    \* [Plan -> price list], the launch price lists
    DaysInMonth,
    Instants,       \* the instants the clock is seen at
    Limits,         \* spending limits that are tried
    Quantities,     \* usage of a segment that is tried
    Ladders,        \* price lists, valid or not, an operator tries to publish
    Listed,         \* plans whose price_lists row has an earlier version
    MaxAssignments  \* bound on the assignments of the customer

ASSUME PlansAssumption ==
    /\ DaysInMonth \in 28 .. 31
    /\ Instants \subseteq Int /\ \E first \in Instants : \A t \in Instants : first <= t
    /\ IsFiniteSet(Request) /\ MaxAssignments \in Nat
    /\ Limits \subseteq Nat \ {0}
    /\ Listed \subseteq Plan
    /\ Quantities \subseteq Nat /\ Ladders \subseteq PriceList
    /\ \A p \in Plan : PriceListOf[p] \in PriceList /\ ValidPriceList(PriceListOf[p])

\* catalogue.py: no launch list gives units away without a bound.
ASSUME CatalogueAssumption == \A p \in Plan : LastPrice(PriceListOf[p]) > 0

VARIABLES
    now,
    published,   \* versions committed with their bands and published
    customer,    \* the customers row is committed
    assignments, \* plan_assignments: [plan, from, to], half-open
    periods,     \* months with a billing_periods row, 0 the modelled one
    req          \* per slot: NoRequest or the request and its next step

vars == <<now, published, customer, assignments, periods, req>>

----------------------------------------------------------------------------
(* billing_calendar.py and period_bounds.                                  *)

UtcOffset == 5 \* Asia/Karachi

\* Mutant: the UTC date.
UtcDate(t) == t \div 24

LocalDate(t) == (t + UtcOffset) \div 24

PeriodStart == -UtcOffset
PeriodEnd == 24 * DaysInMonth - UtcOffset

WholeDaysBetween(start, end) ==
    IF end <= start THEN 0 ELSE LocalDate(end) - LocalDate(start)

\* _remaining_days: the day of startsAt and all after it.
RemainingDays(startsAt) ==
    LET first == IF startsAt < PeriodStart THEN PeriodStart ELSE startsAt
    IN LocalDate(PeriodEnd - 1) - LocalDate(first) + 1

InPeriod(t) == PeriodStart <= t /\ t < PeriodEnd

\* usage.period_for: the month an instant is in.
MonthOf(t) == IF t < PeriodStart THEN -1 ELSE IF InPeriod(t) THEN 0 ELSE 1

----------------------------------------------------------------------------
(* The tables.                                                             *)

Assignment == [plan : Plan, from : Instants, to : Instants \cup {Unbounded}]

InEffect(a, t) == a.from <= t /\ (a.to = Unbounded \/ t < a.to)

Overlap(a, b) ==
    /\ b.to = Unbounded \/ a.from < b.to
    /\ a.to = Unbounded \/ b.from < a.to

\* ex_plan_assignments_no_overlap and ck_plan_assignments_effective_is_half_open.
Allowed(rows) ==
    /\ \A a \in rows : a.to = Unbounded \/ a.from < a.to
    /\ \A a, b \in rows : a # b => ~Overlap(a, b)

OpenAssignments(rows) == {a \in rows : a.to = Unbounded}

----------------------------------------------------------------------------
(* segments.resolve.                                                       *)

\* The rows that overlap the period, by their start.
AssignmentsInPeriod ==
    LET rows == {a \in assignments : Overlap(a, [from |-> PeriodStart, to |-> PeriodEnd])}
    IN CHOOSE order \in [1 .. Cardinality(rows) -> rows] :
          \A i, j \in DOMAIN order : i < j => order[i].from < order[j].from

\* One segment: the assignment clipped to the period, in whole days, with the
\* usage attributed to it.
Segment(a, quantity) ==
    LET start == IF a.from < PeriodStart THEN PeriodStart ELSE a.from
        end == IF a.to = Unbounded THEN PeriodEnd
               ELSE IF a.to > PeriodEnd THEN PeriodEnd ELSE a.to
    IN [list |-> PriceListOf[a.plan], days |-> WholeDaysBetween(start, end),
        quantity |-> quantity]

Resolve(usage) ==
    [i \in DOMAIN AssignmentsInPeriod |-> Segment(AssignmentsInPeriod[i], usage[i])]

----------------------------------------------------------------------------
(* thresholds.compute and set_spending_limit.                              *)

DaysThrough(segments, i) ==
    SumFunction([j \in 1 .. i |-> segments[j].days])

\* _current_segment_index: the first segment with days whose last day is not
\* over at `at`; the last one with days when the period is.
CurrentSegmentIndex(segments, at) ==
    LET moment == IF at < PeriodStart THEN PeriodStart
                  ELSE IF at > PeriodEnd THEN PeriodEnd ELSE at
        elapsed == WholeDaysBetween(PeriodStart, moment)
        lived == {i \in DOMAIN segments : segments[i].days > 0}
        ahead == {i \in lived : elapsed < DaysThrough(segments, i)}
    IN CASE lived = {} -> 1
         [] lived # {} /\ ahead = {} -> Max(lived)
         [] OTHER -> Min(ahead)

Unsatisfiable == -1

\* Mutant: the usage charges of the other segments are not taken off.
ComputeNetOfFees(segments, at, limit) ==
    LET current == CurrentSegmentIndex(segments, at)
        prorated == [i \in DOMAIN segments |->
                        Prorate(segments[i].list, segments[i].days, DaysInMonth)]
        others == DOMAIN segments \ {current}
        fees == SumFunction([i \in others |-> prorated[i].fee])
        elsewhere == SumFunction([i \in others |-> segments[i].quantity])
    IN IF fees + prorated[current].fee > limit THEN Unsatisfiable
       ELSE elsewhere + MaxQuantityWithin(limit - fees, prorated[current])

\* compute, as the value publish SETs: the units counted in the other segments
\* plus what the rest of the limit affords in the current one, or the sentinel
\* when the fees alone exceed the limit.
Compute(segments, at, limit) ==
    LET current == CurrentSegmentIndex(segments, at)
        prorated == [i \in DOMAIN segments |->
                        Prorate(segments[i].list, segments[i].days, DaysInMonth)]
        charge(i) == Rate(segments[i].quantity, prorated[i])
        others == DOMAIN segments \ {current}
        fees == SumFunction([i \in others |-> prorated[i].fee])
        usageCharges == SumFunction([i \in others |-> charge(i) - prorated[i].fee])
        elsewhere == SumFunction([i \in others |-> segments[i].quantity])
        budget == limit - fees - usageCharges
        here == IF budget < 0 THEN 0 ELSE MaxQuantityWithin(budget, prorated[current])
    IN IF fees + prorated[current].fee > limit THEN Unsatisfiable ELSE elsewhere + here

Rejected == -2 \* 422
Deferred == -3 \* stored without a threshold

\* set_spending_limit on the assignment in effect now, in its period:
\* rejected below the prorated fee, deferred to the sweep when the period has
\* several segments.
SetThreshold(assignment, limit) ==
    LET applicable == Prorate(PriceListOf[assignment.plan],
                              RemainingDays(assignment.from), DaysInMonth)
    IN CASE limit < applicable.fee -> Rejected
         [] limit >= applicable.fee /\ Len(AssignmentsInPeriod) > 1 -> Deferred
         [] OTHER -> MaxQuantityWithin(limit, applicable)

\* limit_conflict: the new plan's fee for the rest of the month exceeds the limit.
LimitConflict(plan, at, limit) ==
    Prorate(PriceListOf[plan], RemainingDays(at), DaysInMonth).fee > limit

\* GET /v1/usage: what is counted beyond the rollups is put on the last segment.
EstimatedCost(counted, usage) ==
    LET segments == Resolve(usage)
        last == Len(segments)
        attributed == SumFunction([i \in DOMAIN segments |-> segments[i].quantity])
        tail == IF counted > attributed THEN counted - attributed ELSE 0
    IN RatePeriod([segments EXCEPT ![last].quantity = @ + tail], DaysInMonth)

----------------------------------------------------------------------------
(* The admin requests.                                                     *)

NoRequest == [step |-> "idle"]

\* A request in flight. `saw` and `closing` are its UPDATE's snapshot and lock.
Step == {"version", "insert", "customer", "assign", "period",
         "check", "close", "lock", "open"}

InFlight == [kind : {"provision", "change"}, plan : Plan, at : Instants, step : Step,
             saw : SUBSET Assignment, closing : SUBSET Assignment]

Active == {r \in Request : req[r].step # "idle"}
Quiet == Active = {}

At(r, step) == req[r].step = step
Goto(r, step) == req' = [req EXCEPT ![r].step = step]
End(r) == req' = [req EXCEPT ![r] = NoRequest]

Init ==
    /\ now = Min(Instants)
    /\ published = {}
    /\ customer = FALSE
    /\ assignments = {}
    /\ periods = {}
    /\ req = [r \in Request |-> NoRequest]

Advance ==
    /\ now' \in {t \in Instants : t > now}
    /\ UNCHANGED <<published, customer, assignments, periods, req>>

Begin(r, kind, plan) ==
    /\ At(r, "idle")
    /\ Cardinality(assignments) + Cardinality(Active) < MaxAssignments
    /\ req' = [req EXCEPT ![r] = [kind |-> kind, plan |-> plan, at |-> now,
                                  step |-> "version", saw |-> {}, closing |-> {}]]
    /\ UNCHANGED <<now, published, customer, assignments, periods>>

Provisioning == {r \in Active : req[r].kind = "provision"}

\* POST /v1/customers. A second call makes another customer: one is followed.
Provision(r, plan) ==
    /\ ~customer /\ Provisioning = {}
    /\ Begin(r, "provision", plan)

\* POST /v1/customers/{id}/plan, once the id is known.
ChangePlan(r, plan) ==
    /\ customer /\ Provisioning = {}
    /\ Begin(r, "change", plan)

AfterVersion(r) == Goto(r, IF req[r].kind = "provision" THEN "customer" ELSE "check")

\* Mutant: a list that exists is taken for its version.
FindList(r) ==
    /\ At(r, "version")
    /\ \/ /\ req[r].plan \in published \cup Listed
          /\ AfterVersion(r)
       \/ /\ req[r].plan \notin published \cup Listed
          /\ \A q \in Active : ~(At(q, "insert") /\ req[q].plan = req[r].plan)
          /\ Goto(r, "insert")
    /\ UNCHANGED <<now, published, customer, assignments, periods>>

\* ensure_price_list_version up to its look for the version. Inserting the list
\* waits for a transaction that is inserting the same name.
FindVersion(r) ==
    /\ At(r, "version")
    /\ \/ /\ req[r].plan \in published
          /\ AfterVersion(r)
       \/ /\ req[r].plan \notin published
          /\ \/ req[r].plan \in Listed
             \/ \A q \in Active : ~(At(q, "insert") /\ req[q].plan = req[r].plan)
          /\ Goto(r, "insert")
    /\ UNCHANGED <<now, published, customer, assignments, periods>>

\* The draft, its bands and the publication, committed together; a version
\* inserted by another meanwhile violates its unique constraint.
InsertVersion(r) ==
    /\ At(r, "insert")
    /\ IF req[r].plan \notin published /\ PublishAccepts(PriceListOf[req[r].plan])
       THEN published' = published \cup {req[r].plan} /\ AfterVersion(r)
       ELSE published' = published /\ End(r)
    /\ UNCHANGED <<now, customer, assignments, periods>>

\* keys_repo.create_customer.
CreateCustomer(r) ==
    /\ At(r, "customer")
    /\ customer' = TRUE
    /\ Goto(r, "assign")
    /\ UNCHANGED <<now, published, assignments, periods>>

NewAssignment(r) == [plan |-> req[r].plan, from |-> req[r].at, to |-> Unbounded]

\* What the constraints and the trigger on plan_assignments let be committed.
Accepted(rows) == Allowed(rows) /\ \A a \in rows : a.plan \in published

AssignPlan(r) ==
    LET rows == assignments \cup {NewAssignment(r)}
    IN /\ At(r, "assign")
       /\ IF Accepted(rows)
          THEN assignments' = rows /\ Goto(r, "period")
          ELSE assignments' = assignments /\ End(r)
       /\ UNCHANGED <<now, published, customer, periods>>

\* ensure_billing_period; the key is issued last (AuthCache).
EnsureBillingPeriod(r) ==
    /\ At(r, "period")
    /\ periods' = periods \cup {MonthOf(req[r].at)}
    /\ End(r)
    /\ UNCHANGED <<now, published, customer, assignments>>

\* limit_conflict: with some limit the change is refused with 409; with none, a
\* large one, or the conflict acknowledged it goes on. Limits of the neighbour
\* months are not tried.
CheckLimit(r) ==
    /\ At(r, "check")
    /\ \/ Goto(r, "close")
       \/ /\ InPeriod(req[r].at)
          /\ \E limit \in Limits : LimitConflict(req[r].plan, req[r].at, limit)
          /\ End(r)
    /\ UNCHANGED <<now, published, customer, assignments, periods>>

\* change_plan's UPDATE finds the open assignment in its snapshot.
StartClose(r) ==
    /\ At(r, "close")
    /\ req' = [req EXCEPT ![r].saw = OpenAssignments(assignments), ![r].step = "lock"]
    /\ UNCHANGED <<now, published, customer, assignments, periods>>

LockedBy(q) == IF At(q, "open") THEN req[q].closing ELSE {}

ClosedAt(a, at) == [a EXCEPT !.to = at]

\* Mutant: closing and opening are two transactions.
CloseCommitted(r) ==
    LET rows == req[r].saw \cap assignments
    IN /\ At(r, "lock")
       /\ \A q \in Active \ {r} : LockedBy(q) \cap req[r].saw = {}
       /\ IF \A a \in rows : a.from < req[r].at
          THEN /\ assignments' = (assignments \ rows)
                                   \cup {ClosedAt(a, req[r].at) : a \in rows}
               /\ req' = [req EXCEPT ![r].closing = {}, ![r].step = "open"]
          ELSE assignments' = assignments /\ End(r)
       /\ UNCHANGED <<now, published, customer, periods>>

\* It then waits for the row's lock and looks at the row again: a row closed
\* meanwhile no longer matches. An empty or inverted range aborts.
LockClose(r) ==
    LET rows == req[r].saw \cap assignments
    IN /\ At(r, "lock")
       /\ \A q \in Active \ {r} : LockedBy(q) \cap req[r].saw = {}
       /\ IF \A a \in rows : a.from < req[r].at
          THEN req' = [req EXCEPT ![r].closing = rows, ![r].step = "open"]
          ELSE End(r)
       /\ UNCHANGED <<now, published, customer, assignments, periods>>

\* The INSERT, the exclusion constraint and the commit of both.
OpenNew(r) ==
    LET closed == {ClosedAt(a, req[r].at) : a \in req[r].closing}
        rows == (assignments \ req[r].closing) \cup closed \cup {NewAssignment(r)}
    IN /\ At(r, "open")
       /\ assignments' = IF Accepted(rows) THEN rows ELSE assignments
       /\ End(r)
       /\ UNCHANGED <<now, published, customer, periods>>

\* The process dies or a statement fails: the open transaction is rolled back,
\* what earlier transactions of the request committed stays.
Fail(r) ==
    /\ r \in Active
    /\ End(r)
    /\ UNCHANGED <<now, published, customer, assignments, periods>>

Handle(r) ==
    \/ FindVersion(r) \/ InsertVersion(r) \/ CreateCustomer(r) \/ AssignPlan(r)
    \/ EnsureBillingPeriod(r) \/ CheckLimit(r) \/ StartClose(r) \/ LockClose(r)
    \/ OpenNew(r) \/ Fail(r)

Next ==
    \/ Advance
    \/ \E r \in Request, plan \in Plan : Provision(r, plan) \/ ChangePlan(r, plan)
    \/ \E r \in Request : Handle(r)

Spec == Init /\ [][Next]_vars

----------------------------------------------------------------------------
(* Properties.                                                             *)

\* The state has its types, and a request past its version step, like every
\* assignment, refers to a published version: nothing ever references a draft.
TypeOK ==
    /\ now \in Instants
    /\ published \subseteq Plan
    /\ customer \in BOOLEAN
    /\ assignments \subseteq Assignment
    /\ Cardinality(assignments) <= MaxAssignments
    /\ periods \subseteq {-1, 0, 1}
    /\ req \in [Request -> InFlight \cup {NoRequest}]
    /\ \A r \in Active : req[r].step \in {"version", "insert"} \/ req[r].plan \in published
    /\ \A a \in assignments : a.plan \in published

\* From its first assignment on, the customer is on exactly one plan at every
\* instant, whatever plan changes run at the same time, fail or die half way:
\* no instant is priced twice and none falls between two plans (change_plan's
\* one transaction, the row lock and ex_plan_assignments_no_overlap).
OnePlanSinceSignup ==
    \A t \in Instants :
        (\E a \in assignments : a.from <= t)
            => Cardinality({a \in assignments : InEffect(a, t)}) = 1

\* The last hour of a day of the month.
EndOfDay(day) == 24 * (day + 1) - UtcOffset - 1

\* A segment has the local days at whose end its plan is the one in effect: a
\* change gives its whole day to the new plan, in the customer's calendar, and
\* no day is counted twice. rate_period therefore never refuses a month.
DaysGoToTheLastPlan ==
    Quiet =>
        LET order == AssignmentsInPeriod
            segments == Resolve([i \in DOMAIN order |-> 0])
        IN /\ \A i \in DOMAIN order :
                 segments[i].days = Cardinality({day \in 0 .. DaysInMonth - 1 :
                                                    InEffect(order[i], EndOfDay(day))})
           /\ order # <<>> => SegmentsFit(segments, DaysInMonth)

\* The price of the k-th unit beyond the included ones.
UnitPrice(list, k) ==
    LET covers == {i \in DOMAIN list.bands : list.bands[i].upTo = Unbounded
                                              \/ k <= list.bands[i].upTo}
    IN list.bands[Min(covers)].price

\* Its price in a segment of these days, by exact shares of the month: that of the
\* first band the unit begins in, a band ending after upTo * days / DaysInMonth units.
SharePrice(list, days, k) ==
    LET covers == {i \in DOMAIN list.bands :
                     \/ list.bands[i].upTo = Unbounded
                     \/ (k - 1) * DaysInMonth < list.bands[i].upTo * days}
    IN list.bands[Min(covers)].price

\* Splitting a month between segments never charges more fee, and never grants
\* less allowance, than the days' exact share of the month, and is off by less
\* than one unit a segment. A unit has the price of the first band whose exact
\* share it begins in: rounding a bound up gives a band the unit its share ends
\* within, and a dropped band is one in which no unit begins. What is left of the
\* ladder is itself a valid price list, and a whole month is the list itself.
ProrationIsBounded ==
    Quiet =>
        LET order == AssignmentsInPeriod
            segments == Resolve([i \in DOMAIN order |-> 0])
            part(list, i) == Prorate(list, segments[i].days, DaysInMonth)
            days == SumFunction([i \in DOMAIN order |-> segments[i].days])
        IN \A list \in {l \in Ladders : ValidPriceList(l)} :
             LET fees == SumFunction([i \in DOMAIN order |-> part(list, i).fee])
                 included == SumFunction([i \in DOMAIN order |-> part(list, i).included])
                 owed == list.fee * days
                 granted == list.included * days
             IN /\ fees * DaysInMonth <= owed
                /\ owed < (fees + Len(order)) * DaysInMonth \/ order = <<>>
                /\ granted <= included * DaysInMonth
                /\ (included - Len(order)) * DaysInMonth < granted \/ order = <<>>
                /\ \A i \in DOMAIN order : ValidPriceList(part(list, i))
                /\ \A i \in DOMAIN order, quantity \in Quantities : \A k \in 1 .. quantity :
                     UnitPrice(part(list, i), k) = SharePrice(list, segments[i].days, k)
                /\ Prorate(list, DaysInMonth, DaysInMonth) = list

\* The database publishes exactly the ladders the rating code accepts, and
\* rating one is the same as pricing every unit by the band it falls in: the
\* lines add up to the chargeable quantity and their sum to the unit prices.
\* Checked for the ladders as published and as prorated by today's segments.
RateIsUnitByUnit ==
    Quiet =>
        LET order == AssignmentsInPeriod
            segments == Resolve([i \in DOMAIN order |-> 0])
            days == {DaysInMonth} \cup {segments[i].days : i \in DOMAIN order}
        IN \A ladder \in Ladders :
            /\ PublishAccepts(ladder) <=> ValidPriceList(ladder)
            /\ PublishAccepts(ladder) =>
                \A d \in days, quantity \in Quantities :
                    LET list == Prorate(ladder, d, DaysInMonth)
                        chargeable == quantity - IncludedUsed(quantity, list)
                    IN /\ LinesQuantity(UsageLines(quantity, list)) = chargeable
                       /\ Rate(quantity, list) =
                            list.fee + SumFunction([k \in 1 .. chargeable |-> UnitPrice(list, k)])

\* The threshold stops a customer at the right request: with any usage of the
\* segments, the next request is served (the gate's count < threshold) exactly
\* when the bill that includes it, as GET /v1/usage would show it, is within the
\* limit. Setting a limit refuses none that can be met, and in a month of one
\* segment computes the sweep's number. Compute inverts the ladder of the segment
\* in effect only, so the other segments' bills must be taken off exactly.
ThresholdIsExact ==
    (Quiet /\ now >= PeriodStart /\ AssignmentsInPeriod # <<>>) =>
        LET order == AssignmentsInPeriod
        IN \A usage \in [DOMAIN order -> Quantities], limit \in Limits :
            LET segments == Resolve(usage)
                threshold == Compute(segments, now, limit)
                attributed == SumFunction([i \in DOMAIN segments |-> segments[i].quantity])
                tried == {c \in {attributed, threshold - 1, threshold, threshold + 1} :
                            c >= attributed}
            IN /\ \A counted \in tried :
                    counted < threshold <=> EstimatedCost(counted + 1, usage) <= limit
               /\ InPeriod(now) =>
                    LET set == SetThreshold(order[Len(order)], limit)
                    IN /\ set = Rejected => threshold = Unsatisfiable
                       /\ Len(order) = 1 =>
                            set = (IF threshold = Unsatisfiable THEN Rejected ELSE threshold)
=============================================================================
