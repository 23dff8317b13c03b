------------------------------- MODULE Limits -------------------------------
(***************************************************************************)
(* One customer's spending limit for the current month: the row in         *)
(* Postgres, the request threshold the gate enforces in Redis, and everyone *)
(* who writes them - the operator's set and remove (provisioning.py), plan *)
(* changes, the sweep (thresholds.py) and the counter rebuild (counters.py, *)
(* run by the watchdog when Redis lost its marker, or by hand).            *)
(*                                                                         *)
(* A threshold is what it was computed from: the limit and the number of   *)
(* plans the month has had (Plans shows that the number computed from them *)
(* is exact). Redis commands, the statements of a transaction and its      *)
(* commit are steps of their own; now() is the start of a transaction.     *)
(* `now` counts the transactions of operators, so that times compare as in *)
(* the code; that a threshold is older than the maximal age is a flag.     *)
(***************************************************************************)
EXTENDS Integers, FiniteSets

CONSTANTS
    Operator,   \* slots of operator requests in flight
    MaxPlans,   \* bound on the plans of the month
    MaxChanges, \* bound on operator requests
    MaxIncidents, \* bound on crashes, errors, Redis restarts and manual runs
    NoRow, NoThreshold

Never == -1

\* Limits are numbered in the order they are asked for.
Limit == 1 .. MaxChanges

Threshold == [limit : Limit, plan : 1 .. MaxPlans]

Row == [limit : Limit, computed : Nat \cup {Never}, updated : Nat]

ASSUME LimitsAssumption ==
    /\ MaxPlans \in Nat \ {0} /\ MaxChanges \in Nat /\ MaxIncidents \in Nat
    /\ NoRow \notin Row /\ NoThreshold \notin Threshold

\* Two passes are in flight at a time: the worker's two loops, or one run by
\* hand while that loop waits for its tick.
Publisher == {"sweep", "watchdog"}

VARIABLES
    row,           \* spending_limits: NoRow or [limit, computed, updated]
    aged,          \* threshold_computed_at is older than the maximal age
    plan,          \* plans of the month so far
    planChangedAt, \* max(plan_assignments.created_at)
    threshold,     \* the Redis key the gate reads
    marker,        \* counters-authoritative
    now,
    op,            \* per operator slot: the request in flight
    pub,           \* per publisher: the pass in flight
    left,          \* what is left of the bounds
    disturbed,     \* history: two of them overlapped, or one failed
    orphaned       \* history: the threshold was set against a removal

vars == <<row, aged, plan, planChangedAt, threshold, marker, now, op, pub, left,
          disturbed, orphaned>>

Idle == [step |-> "idle"]

Busy(o) == op[o].step # "idle"
\* Slots are alike: a request takes a fixed free one.
Free(o) == ~Busy(o) /\ o = CHOOSE q \in Operator : ~Busy(q)
Running(p) == pub[p].step # "idle"
Quiet == ~(\E o \in Operator : Busy(o)) /\ ~(\E p \in Publisher : Running(p))

\* Mutant: each statement commits by itself.
NoLock == TRUE

\* A publisher that has updated the row holds its lock until it commits.
LockFree == \A p \in Publisher : ~(pub[p].step = "commit" /\ pub[p].had)

\* The threshold that should be enforced.
Wanted == IF row = NoRow THEN NoThreshold ELSE [limit |-> row.limit, plan |-> plan]

Init ==
    /\ row = NoRow /\ aged = FALSE
    /\ plan = 1 /\ planChangedAt = 0
    /\ threshold = NoThreshold /\ marker = TRUE
    /\ now = 0
    /\ op = [o \in Operator |-> Idle]
    /\ pub = [p \in Publisher |-> Idle]
    /\ left = [changes |-> MaxChanges, incidents |-> MaxIncidents]
    /\ disturbed = FALSE /\ orphaned = FALSE

Spend(what) == left[what] > 0 /\ left' = [left EXCEPT ![what] = @ - 1]

\* Whoever begins while another is in flight disturbs the history.
Begin == disturbed' = (disturbed \/ ~Quiet)

\* Setting the key after a removal has cleared it, or for a row that is gone.
SetAgainstRemoval(isPublisher) ==
    \/ \E o \in Operator : op[o].step = "delete"
    \/ isPublisher /\ row = NoRow

----------------------------------------------------------------------------
(* PUT .../spending-limit: set_spending_limit.                             *)

\* Inverted on the spot in a month of one plan, deferred to the sweep otherwise.
BeginSet(o) ==
    LET limit == MaxChanges - left.changes + 1
    IN /\ Free(o) /\ Spend("changes") /\ Begin
       /\ op' = [op EXCEPT ![o] = [step |-> "redis", limit |-> limit,
                       value |-> IF plan = 1 THEN [limit |-> limit, plan |-> plan]
                                 ELSE NoThreshold]]
       /\ UNCHANGED <<row, aged, plan, planChangedAt, threshold, marker, now, pub, orphaned>>

\* Redis first: SET, or DEL when deferred.
SetRedis(o) ==
    /\ op[o].step = "redis"
    /\ threshold' = op[o].value
    /\ orphaned' = (op[o].value # NoThreshold /\ (orphaned \/ SetAgainstRemoval(FALSE)))
    /\ op' = [op EXCEPT ![o].step = "begin"]
    /\ UNCHANGED <<row, aged, plan, planChangedAt, marker, now, pub, left, disturbed>>

BeginUpsert(o) ==
    /\ op[o].step = "begin"
    /\ now' = now + 1
    /\ op' = [op EXCEPT ![o] = [step |-> "upsert", limit |-> op[o].limit,
                                value |-> op[o].value, at |-> now']]
    /\ UNCHANGED <<row, aged, plan, planChangedAt, threshold, marker, pub, left,
                   disturbed, orphaned>>

\* Mutant: a deferred threshold is stamped as computed.
UpsertStamped(o) ==
    /\ op[o].step = "upsert" /\ LockFree
    /\ row' = [limit |-> op[o].limit, updated |-> op[o].at, computed |-> op[o].at]
    /\ aged' = FALSE
    /\ op' = [op EXCEPT ![o] = Idle]
    /\ UNCHANGED <<plan, planChangedAt, threshold, marker, now, pub, left, disturbed, orphaned>>

\* _UPSERT_LIMIT and its commit.
Upsert(o) ==
    /\ op[o].step = "upsert" /\ LockFree
    /\ row' = [limit |-> op[o].limit, updated |-> op[o].at,
               computed |-> IF op[o].value = NoThreshold THEN Never ELSE op[o].at]
    /\ aged' = FALSE
    /\ op' = [op EXCEPT ![o] = Idle]
    /\ UNCHANGED <<plan, planChangedAt, threshold, marker, now, pub, left, disturbed, orphaned>>

----------------------------------------------------------------------------
(* DELETE .../spending-limit: remove_spending_limit.                       *)

BeginRemove(o) ==
    /\ Free(o) /\ Spend("changes") /\ Begin
    /\ op' = [op EXCEPT ![o] = [step |-> "clear"]]
    /\ UNCHANGED <<row, aged, plan, planChangedAt, threshold, marker, now, pub, orphaned>>

ClearRedis(o) ==
    /\ op[o].step = "clear"
    /\ threshold' = NoThreshold /\ orphaned' = FALSE
    /\ op' = [op EXCEPT ![o] = [step |-> "delete"]]
    /\ UNCHANGED <<row, aged, plan, planChangedAt, marker, now, pub, left, disturbed>>

DeleteRow(o) ==
    /\ op[o].step = "delete" /\ LockFree
    /\ row' = NoRow /\ aged' = FALSE
    /\ op' = [op EXCEPT ![o] = Idle]
    /\ UNCHANGED <<plan, planChangedAt, threshold, marker, now, pub, left, disturbed, orphaned>>

----------------------------------------------------------------------------
(* POST .../plan: change_plan's transaction (Plans has the whole request). *)

BeginChange(o) ==
    /\ Free(o) /\ Spend("changes") /\ Begin
    /\ plan < MaxPlans /\ \A q \in Operator : op[q].step # "assign"
    /\ now' = now + 1
    /\ op' = [op EXCEPT ![o] = [step |-> "assign", at |-> now']]
    /\ UNCHANGED <<row, aged, plan, planChangedAt, threshold, marker, pub, orphaned>>

CommitChange(o) ==
    /\ op[o].step = "assign"
    /\ plan' = plan + 1 /\ planChangedAt' = op[o].at
    /\ op' = [op EXCEPT ![o] = Idle]
    /\ UNCHANGED <<row, aged, threshold, marker, now, pub, left, disturbed, orphaned>>

\* An operator's request dies between two steps; what it wrote stays.
OperatorDies(o) ==
    /\ Busy(o) /\ Spend("incidents")
    /\ op' = [op EXCEPT ![o] = Idle]
    /\ disturbed' = TRUE
    /\ orphaned' = \/ orphaned
                   \/ /\ op[o].step \in {"begin", "upsert"}
                      /\ row = NoRow /\ threshold # NoThreshold
    /\ UNCHANGED <<row, aged, plan, planChangedAt, threshold, marker, now, pub>>

----------------------------------------------------------------------------
(* The sweep, the rebuild of thresholds and recompute_for: read the row,   *)
(* compute, publish, commit.                                               *)

\* Mutant: no maximal age.
NeedsRecomputeAgeless ==
    /\ row # NoRow
    /\ \/ row.computed = Never
       \/ row.computed < row.updated
       \/ row.computed < planChangedAt

\* _needs_recompute.
NeedsRecompute ==
    /\ row # NoRow
    /\ \/ row.computed = Never
       \/ row.computed < row.updated
       \/ row.computed < planChangedAt
       \/ aged

\* Time passes.
Age ==
    /\ row # NoRow /\ row.computed # Never /\ ~aged
    /\ aged' = TRUE
    /\ UNCHANGED <<row, plan, planChangedAt, threshold, marker, now, op, pub, left,
                   disturbed, orphaned>>

\* The transaction's start and its SELECT; a rebuild without rows goes on to mark.
Read(p, rebuild) ==
    /\ ~Running(p) /\ Begin
    /\ pub' = [pub EXCEPT ![p] =
                IF row = NoRow THEN [step |-> "mark"]
                ELSE [step |-> "compute", limit |-> row.limit, at |-> now,
                      rebuild |-> rebuild]]
    /\ UNCHANGED <<row, aged, plan, planChangedAt, threshold, marker, now, op, orphaned>>

\* A pass that finds nothing to recompute changes nothing and is not a step.
BeginSweep(p) ==
    /\ NeedsRecompute
    /\ Read(p, FALSE)

\* sweep by its loop; the rebuild by the watchdog (ensure_authoritative).
Tick(p) ==
    /\ \/ p = "sweep" /\ BeginSweep(p)
       \/ p = "watchdog" /\ ~marker /\ Read(p, TRUE)
    /\ left' = left

\* POST /thresholds, POST /rebuild-counters and recompute_for.
RunByHand(p) ==
    /\ Spend("incidents")
    /\ \/ BeginSweep(p)
       \/ Read(p, TRUE)
       \/ row # NoRow /\ Read(p, FALSE)

\* compute: the plans as they are now, the limit as it was read.
Compute(p) ==
    /\ pub[p].step = "compute"
    /\ pub' = [pub EXCEPT ![p] = [step |-> "publish", at |-> @.at, rebuild |-> @.rebuild,
                                  value |-> [limit |-> @.limit, plan |-> plan]]]
    /\ UNCHANGED <<row, aged, plan, planChangedAt, threshold, marker, now, op, left,
                   disturbed, orphaned>>

\* publish: Redis first.
Publish(p) ==
    /\ pub[p].step = "publish"
    /\ threshold' = pub[p].value
    /\ orphaned' = (orphaned \/ SetAgainstRemoval(TRUE))
    /\ pub' = [pub EXCEPT ![p] = [step |-> "update", at |-> @.at, rebuild |-> @.rebuild]]
    /\ UNCHANGED <<row, aged, plan, planChangedAt, marker, now, op, left, disturbed>>

\* publish: the UPDATE waits for the row and may find none.
Update(p) ==
    /\ pub[p].step = "update" /\ LockFree
    /\ pub' = [pub EXCEPT ![p] = [step |-> "commit", at |-> @.at, rebuild |-> @.rebuild,
                                  had |-> row # NoRow]]
    /\ UNCHANGED <<row, aged, plan, planChangedAt, threshold, marker, now, op, left,
                   disturbed, orphaned>>

\* computed_at is now() and the touch trigger gives updated_at the same value.
Commit(p) ==
    /\ pub[p].step = "commit"
    /\ IF pub[p].had
       THEN /\ row' = [row EXCEPT !.computed = pub[p].at, !.updated = pub[p].at]
            /\ aged' = FALSE
       ELSE UNCHANGED <<row, aged>>
    /\ pub' = [pub EXCEPT ![p] = IF @.rebuild THEN [step |-> "mark"] ELSE Idle]
    /\ UNCHANGED <<plan, planChangedAt, threshold, marker, now, op, left, disturbed, orphaned>>

Mark(p) ==
    /\ pub[p].step = "mark"
    /\ marker' = TRUE
    /\ pub' = [pub EXCEPT ![p] = Idle]
    /\ UNCHANGED <<row, aged, plan, planChangedAt, threshold, now, op, left, disturbed, orphaned>>

\* An error (Redis, a query, another customer's row) or a crash rolls the
\* transaction back; the loop goes on at its next tick.
PublisherFails(p) ==
    /\ Running(p) /\ Spend("incidents")
    /\ pub' = [pub EXCEPT ![p] = Idle]
    /\ disturbed' = TRUE
    /\ UNCHANGED <<row, aged, plan, planChangedAt, threshold, marker, now, op, orphaned>>

\* Redis comes back empty.
RedisRestarts ==
    /\ Spend("incidents")
    /\ threshold' = NoThreshold /\ marker' = FALSE
    /\ orphaned' = FALSE
    /\ disturbed' = (disturbed \/ ~Quiet)
    /\ UNCHANGED <<row, aged, plan, planChangedAt, now, op, pub>>

----------------------------------------------------------------------------
OperatorStep(o) ==
    \/ SetRedis(o) \/ BeginUpsert(o) \/ Upsert(o)
    \/ ClearRedis(o) \/ DeleteRow(o) \/ CommitChange(o)

PublisherStep(p) == Compute(p) \/ Publish(p) \/ Update(p) \/ Commit(p) \/ Mark(p)

Next ==
    \/ \E o \in Operator :
        \/ BeginSet(o) \/ BeginRemove(o) \/ BeginChange(o) \/ OperatorStep(o) \/ OperatorDies(o)
    \/ \E p \in Publisher :
        Tick(p) \/ RunByHand(p) \/ PublisherStep(p) \/ PublisherFails(p)
    \/ Age
    \/ RedisRestarts

\* The loops tick, what is begun goes on, time passes, and Postgres hands a row
\* lock to its waiters in turn (hence strong fairness).
Fairness ==
    /\ WF_vars(Age)
    /\ \A p \in Publisher : SF_vars(Tick(p) \/ PublisherStep(p))
    /\ \A o \in Operator : SF_vars(OperatorStep(o))

Spec == Init /\ [][Next]_vars /\ Fairness

----------------------------------------------------------------------------
(* Properties.                                                             *)

OpInFlight ==
    [step : {"redis", "begin"}, limit : Limit, value : Threshold \cup {NoThreshold}]
    \cup [step : {"upsert"}, limit : Limit, value : Threshold \cup {NoThreshold}, at : Nat]
    \cup [step : {"clear", "delete"}] \cup [step : {"assign"}, at : Nat]

PassInFlight ==
    [step : {"compute"}, limit : Limit, at : Nat, rebuild : BOOLEAN]
    \cup [step : {"publish"}, value : Threshold, at : Nat, rebuild : BOOLEAN]
    \cup [step : {"update"}, at : Nat, rebuild : BOOLEAN]
    \cup [step : {"commit"}, at : Nat, rebuild : BOOLEAN, had : BOOLEAN]
    \cup [step : {"mark"}]

\* The state has its types, no row is stamped later than the clock, and a row a
\* publisher has locked is not deleted under it.
TypeOK ==
    /\ row \in Row \cup {NoRow}
    /\ row # NoRow => row.computed <= now /\ row.updated <= now
    /\ now \in Nat
    /\ plan \in 1 .. MaxPlans /\ planChangedAt \in 0 .. now
    /\ threshold \in Threshold \cup {NoThreshold}
    /\ op \in [Operator -> OpInFlight \cup {Idle}]
    /\ pub \in [Publisher -> PassInFlight \cup {Idle}]
    /\ left \in [changes : 0 .. MaxChanges, incidents : 0 .. MaxIncidents]
    /\ \A p, q \in Publisher :
        (pub[p].step = "commit" /\ pub[p].had) =>
            /\ row # NoRow
            /\ (pub[q].step = "commit" /\ pub[q].had) => p = q
    /\ aged \in BOOLEAN /\ marker \in BOOLEAN
    /\ disturbed \in BOOLEAN /\ orphaned \in BOOLEAN

\* When nothing is in flight and Redis does not enforce what the row and the
\* plans ask for, there is a reason the code knows: the sweep's own test sees it
\* (never computed, plan changed, too old), or the marker is gone. Otherwise two
\* writers overlapped or one died; and a threshold whose limit is gone was
\* published against a removal, or by a first set that died before its row.
WrongIsExplained ==
    (Quiet /\ threshold # Wanted) =>
        IF row = NoRow THEN orphaned ELSE ~marker \/ NeedsRecompute \/ disturbed

\* Once operators and faults stop, the gate enforces the limit on record for the
\* plans on record, for good: whatever races, crashes, rollbacks and Redis
\* restarts left behind, the sweep's maximal age and the watchdog repair it.
EventuallyEnforced == <>[](marker /\ (row # NoRow => threshold = Wanted))

\* remove_spending_limit's promise: a threshold the sweep re-publishes between
\* the two statements leaves the limit visibly on, never a threshold without a
\* limit.
RemovalIsVisible == (Quiet /\ row = NoRow) => threshold = NoThreshold
=============================================================================
