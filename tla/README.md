# Metered billing API: TLA+ models, checks and proofs

This directory holds the specification of the metering and billing pipeline in
`src/src/meter`: TLA+ modules that model its parts, TLC configurations that check
them on small instances, and proofs that the TLA+ proof system (`tlapm`) checks for
every instance. Source references are `file.py:line` under `src/src/meter`.

    tlc -workers 2 -config MCDrain_process.cfg MCDrain     # one run
    tlapm DrainProofs.tla                                  # one set of proofs

## 1. The system

A FastAPI application meters every request of a customer; Redis holds the counters the
hot path reads and a stream of usage entries; a worker process moves the stream into
Postgres, aggregates it, recomputes spending thresholds, closes months and issues
invoices.

| Component | State it keeps | Operations | Modelled in |
|---|---|---|---|
| Capture, the end of the hot path (`api/metering.py`) | usage stream, month counters (Redis) | XADD then INCR, one non-transactional pipeline | `Drain` (Capture), `Reconciliation` (Count) |
| Hot-path gates (`api/metering.py`) | none: reads key, marker, stream depth, counter, threshold | refuse 401/402/503 | `AuthCache` (key), `Counters` (the rest) |
| Drain (`pipeline/drain.py`, `pipeline/events.py`) | consumer group: last-delivered-id, pending list; `usage_events`; dead-letter stream; dirty set | `run_once` (re-read own pending, XAUTOCLAIM, read new; parse, dead-letter, commit, mark, ack), `trim_drained`, `outstanding` | `Drain`, `DrainLedger`, `UsageLedger` |
| Aggregation (`pipeline/aggregate.py`, `repositories/rollups.py`) | `usage_rollups`, dirty set | `aggregate_dirty` with isolation and quarantine, `aggregate_period` | `Aggregation` |
| Reconciliation (`pipeline/reconcile.py`) and the polling loop of a close | none: five reads of two stores | `reconcile`, `_converge` | `Reconciliation` |
| Month close and invoicing (`pipeline/close.py`, `pipeline/invoicing.py`, `repositories/invoices.py`, `periods.py`) | `billing_periods.status` and discrepancy, `invoices`, `invoice_lines` | `close_customer`, `generate`, regenerate, roll-forward, `due_month` | `MonthClose` |
| Counters rebuild and watchdog (`pipeline/counters.py`) | counters, authority marker | `rebuild`, `ensure_authoritative` | `Counters`; its thresholds in `Limits` |
| Limits and thresholds (`pipeline/thresholds.py`, `api/provisioning.py`) | `spending_limits`, threshold keys | set, remove, sweep, publish, `recompute_for`, `compute` | `Limits`; what is computed in `Plans` |
| Authentication cache (`api/auth.py`, `repositories/keys.py`) | `api_keys`, cached positive and negative entries | resolve, issue, revoke, stale-while-error | `AuthCache` |
| Rating, proration, segments (`domain/`, `segments.py`, `billing_calendar.py`) | none: pure functions | `rate`, `max_quantity_within`, `prorate`, `rate_period`, `resolve` | `Rating`, `Plans` |
| Plan changes and provisioning (`api/provisioning.py`, `api/routes/admin.py`) | `customers`, `price_list_versions`, `plan_assignments`, `billing_periods` | `provision_customer`, `ensure_price_list_version`, `change_plan`, `limit_conflict` | `Plans`; keys in `AuthCache` |
| Worker loops (`pipeline/worker.py`), ops API, CLI | none | start the above | the tasks, passes and closers of the modules |
| Account endpoints | none | reads | the estimate of `GET /v1/usage` in `Plans` |
| Echo, health, settings, load test | none | reads, wiring | not modelled |

How they interact. The hot path and the drain share only the stream. The drain and the
aggregation share `usage_events` and the dirty set: rows are committed first, the mark is
set after, in another store. Aggregation and close share `usage_rollups`. The close calls
the drain and the aggregation itself (`_converge`, close.py:165) while the worker's own
loops keep running: every asyncio task of the worker shares one `Drain` object, and more
tasks are started by the ops API. Counters are compared with rows by reconciliation and
overwritten from rows by a rebuild, which the watchdog starts when Redis has lost the
authority marker. A threshold key has four writers (set, remove, sweep, rebuild) and the
gate as its only reader; the limit row and the plan assignments it depends on live in
Postgres and change without it.

What is hard. Nothing spans Redis and Postgres, so each operation is a sequence of steps
with other tasks, other processes and crashes in between: at-least-once delivery with
redelivery and reclaiming; decisions taken on one command's answer and applied by a later
one (`trim_drained`, `outstanding`, SREM of copied marks, roll-forward lines); reports
made of numbers read at five moments; statuses written without a lock; a grace window
that ends before the pipeline caught up. PROJECT.json lists these as hazards, each at
its line with the properties that cover it.

What makes each part correct:

- Drain: a captured request becomes exactly one row, or one dead letter if it cannot be
  parsed; nothing is acknowledged before that; its cell is marked before it is
  acknowledged; no trim takes what is not finished; everything captured finishes.
- Aggregation: a rollup never counts more than there is; a rollup that is behind is
  marked; a close repairs whatever the marks missed.
- Reconciliation: a converged report means completeness; a healthy pipeline converges.
- Close: an issued invoice is final; what its report found missing is on the period if the
  invoice is short of it; late usage is billed later and once; closing again changes nothing.
- Limits: a threshold that is enforced belongs to the limit and plans on record, or the
  sweep will notice that it does not.
- Counters: while the gate serves, the counter is the number of billable requests.
- Plans: one plan at every instant; every local day to one segment; a price list that is
  referenced is published and can be rated.
- Authentication: a revoked key stops being served within the stated time.
- Rating: proration adds up and moves no unit to another price; the threshold stops exactly
  the first request that the bill could not bear, over all the month's segments.

## 2. Plan

1. `Drain`, its abstract specification `UsageLedger` and the refinement `DrainLedger`,
   with proofs in `DrainProofs`.
2. `Reconciliation`, which extends `Drain` with the close's polling.
3. `Aggregation`, with proofs in `AggregationProofs`.
4. `MonthClose`, with proofs in `MonthCloseProofs`.
5. `AuthCache`: lookup, revocation, cache writes, expiry with an explicit clock, with
   proofs in `AuthCacheProofs`.
6. `Rating` (pure) and `Plans`: provisioning, plan changes and what a month's segments
   cost and afford.
7. `Limits`: the writers of a threshold against each other.
8. `Counters`: gate, capture, drain, restarts and rebuild around one counter.
9. The proofs: `DrainProofs` (with those about `Reconciliation`, on top of the drain's
   invariant), `LimitsProofs`, `CountersProofs`; `FoldProofs`, induction over numbers and
   finite sets, on which `MonthCloseProofs` and `PlansProofs` (with all of `Rating`) rest.

All of these are written and checked. What is left out, and why, is in section 7.

## 3. Modules

### UsageLedger, Drain, DrainLedger

`UsageLedger` is what the pipeline promises of one event: absent, captured, then once and
for ever recorded, dead-lettered or lost. `Drain` is the code. Its state is Redis's
(`log`, `stream`, `delivered`, `pel`), each process's (`recovering`, `up`), each task's
(`pc`, `batch`, `got`) and what the drain writes (`rows`, `dead`, `dirty`). An entry is
identified with its event, since the hot path mints one event id per request.

| Action | Code |
|---|---|
| Capture | `_capture`'s XADD, metering.py:186 |
| ReadOwnPending | XREADGROUP 0 while `_recovering`, drain.py:192 |
| Reclaim | XAUTOCLAIM, drain.py:205: any set of pending entries may have been idle long enough, the process's own included |
| ReadNew | XREADGROUP >, drain.py:164 |
| DeadLetter, Commit, MarkProgress, Acknowledge | the four awaits of `run_once`, drain.py:238, in order |
| Fail | any of them raises: `run_forever` logs it and goes on, the batch stays pending |
| TrimPending, TrimGroups, TrimStream | XPENDING, XINFO GROUPS, XTRIM MINID of `trim_drained`, drain.py:410 |
| Crash, Restart | the process is killed; a new one has `_recovering = True` |

`got` is the part of the batch whose fields were still in the stream when it was read: a
trimmed pending entry is redelivered without fields and acknowledged (drain.py:247).
`overrun` is a history variable: entries removed from the stream while pending.
A command whose reply is lost is a `Fail` at the next step: the command took effect.

`DrainLedger` maps the drain's state to the ledger's and states the refinement, with and
without liveness.

### Reconciliation

Extends `Drain` with the counter (`counted`: the INCR is a step after the XADD), the
rollups of the one period being closed, and a report that is read one number at a time:
counter, XPENDING, lag, rows, rollups, as in reconcile.py:113 and drain.py:375. In this
module the rollups are written by the closer alone; the races of the aggregation are
`Aggregation`'s subject.

### Aggregation

For one customer-period: `committed` and `unmarked` events stand for the drain (rows first,
the mark after: `Drain`'s DoneIsMarked is what says no mark is skipped), passes copy the
dirty set, count, assign and clear; closes aggregate the period. A statement is two
steps, ReadRows (READ COMMITTED fixes what it sees) and WriteRollups (the upsert
commits). Failing statements lead to isolation and quarantine as in aggregate.py:67-134;
a pass may die anywhere and Redis may restart without the set. `swallowed`, `regressed`
and `quarantined` are history: the ways a cell can be left behind without a mark.

### MonthClose

One customer, several months, several closes at once: the scheduler's, of the month
`due_month` names, and those started by the ops API or CLI, of any month. The steps are
close.py's transactions: Begin and MarkReconciling (read, then set, without a lock),
Converge (all of `_converge`, whose report either agrees or is what the grace window left),
MarkClosed, and in `generate` Build, LookUp and then Issue, IssueCollides or
Regenerate. A month has billable rows (`stored`) and what its rollups count (`rolled`):
StoreUsage commits a row at any time, RollUp assigns a count of the rows, and WriteOlderCount lets a slower statement put an older count over a newer one,
as `regressed` in `Aggregation` shows it can: also between a close's report and its lines,
and also below what an invoice has billed, which `_prior_period_lines` meets at
invoicing.py:229. The counter of a report is an input: ahead of the rows by what is still
in the stream or was malformed, or behind what was captured when an INCR is late, dropped
or overwritten. What
Converge hands to MarkClosed is close.py:103: whether the two deltas sum to more than zero.
A report that only the stream's backlog keeps from converging has a sum of zero, which is
written as NULL, and an earlier close's number stays (COALESCE, periods.py).

ShortfallIsRecorded is stated against that counter, `owed` until the lines cover it and,
once issued, `due`. It
holds whatever rows, rollups and other closes do after the report, with one exception that
the history makes explicit: when an older count is written between report and lines, `owed`
is reset. That case is real: Converge, WriteOlderCount, MarkClosed, Build, Issue leaves
a short invoice and no record. What the counter never counted is outside the report and
so outside the property.

`billed[m][k]` is the quantity that month m's invoice bills for month k: the
period's own lines and the `prior_period_usage` lines. One segment at one paisa a request,
so totals are quantities; bands, fees and proration belong to `Rating`. Since draft and
issue are one transaction, the draft-replacement branch of `generate` is unreachable in
the model as in the code. The rollups' invoice stamps are left out: nothing reads them
but a report.

### AuthCache

One API key (keys have digests, rows and entries of their own), any number of requests
and a clock in fractions of a second. A request goes through the awaits of the code:
Fetch (the GET of metering.py:239), ResolveFresh or ResolveMiss (`resolve` reads the
clock, then looks at the entry it was handed), LookupByHash or LookupFails (Postgres, with
its timeout; stale-while-error), Store or StoreFails (the SET; a lost reply leaves it
done). `NewEntry` keeps the code's two ages: a positive entry's freshness counts from
before the lookup and is floored to a second, its expiry from the write; a negative entry
has only the short expiry. RevokeKey changes the row and nothing else. The clock cannot
pass a request's `Deadline`: the timeouts of the code for the lookup, and for a cache
command the assumption that one sent takes effect within `CacheTimeout` or never. Redis
may restart with the entry of its last fsync. `known` and `after` are history.

`since` is the commit of the revoking UPDATE; the row's revoked_at is its transaction's
start, a moment earlier. The request with no key header, and which of a customer's keys
it presents, have no bearing on the cache.

### Rating

The arithmetic of `meter.domain` as operators: no state. The loops over bands (`rate`,
`max_quantity_within`, `_prorated_bands`, the publish trigger) are left folds whose state
is the loop's variables, so a step operator is a loop body. A price list is a record of
fee, included units and bands. `PublishAccepts` is what the database lets be published
(the CHECKs and `meter_validate_price_bands_on_publish`), `ValidPriceList` what the code
constructs (`PriceList.__post_init__`); they are separate translations, which a run
compares and a theorem shows to agree. Totals are sums over a function's domain, in no
particular order; what the code adds up in a loop of its own (`rate`'s lines, the segments)
is the same sum.

### Plans

One customer and one month, over `Rating`. Time is the hour in UTC; the local date is that
hour plus the zone's offset, divided by the day. The state is what is committed
(`published`, `customer`, `assignments`, `periods`) and the requests in flight: `req[r]`
has the request's one reading of the clock, its snapshot (`saw`) and the rows it has
locked (`closing`).

| Action | Code |
|---|---|
| Provision, CreateCustomer, AssignPlan, EnsureBillingPeriod | the transactions of `provision_customer`, provisioning.py:499, each committed alone |
| FindVersion, InsertVersion | `ensure_price_list_version`, :138: find or insert draft, bands, publication, in one transaction; two at once wait on the list's name or collide on the version |
| ChangePlan, CheckLimit | admin.py:156 and `limit_conflict`: 409, or on with `acknowledge_limit_conflict` |
| StartClose, LockClose, OpenNew | `change_plan`, :401: the UPDATE's snapshot, its row lock and re-check (READ COMMITTED), the INSERT and the commit, with the exclusion constraint and the trigger on drafts |
| Fail | a request dies: its open transaction is undone, earlier ones stay |

`Segment`, `Resolve`, `Compute`, `SetThreshold` and `EstimatedCost` are `segments.resolve`,
`thresholds.compute`, the inversion of `set_spending_limit` and the cost of `GET
/v1/usage`; the properties evaluate them in every reachable state with every usage, limit
and ladder of the instance. The clock moves on freely, so an assignment may begin before,
in and after the modelled month.

### Limits

One customer's limit in one month. A threshold is abstracted to what it was computed from,
the limit and how many plans the month has had: `ThresholdIsExact` of `Plans` is what
justifies that. Redis commands, statements that take a row lock and commits are steps.
Postgres's `now()` is the start of a transaction, so `threshold_computed_at`,
`updated_at` and `created_at` are values of a clock that only operators' transactions
advance, which orders them as the code compares them.

| Action | Code |
|---|---|
| BeginSet, SetRedis, BeginUpsert, Upsert | `set_spending_limit`, provisioning.py:543; with several segments the key is deleted and the row left uncomputed |
| BeginRemove, ClearRedis, DeleteRow | `remove_spending_limit`, :310 |
| BeginChange, CommitChange | the transaction of `change_plan`; the rest of the request is in `Plans` |
| Tick, RunByHand, Read, Compute, Publish, Update, Commit | `sweep`, `_rebuild_thresholds`, `recompute_for`; a pass in which nothing needs recomputing is no step |
| Mark | the rebuild's last SET |
| OperatorDies, PublisherFails, RedisRestarts, Age | faults, and `threshold_max_age_seconds` passing |

`disturbed` and `orphaned` are history. Slots of operators are alike, so a request takes
one fixed free slot, and limits are numbered in the order in which they are asked for:
both only remove states that differ by names.

### Counters

One counter, the requests that read and increment it, and everything that moves usage
under it. A request is Admit (round trip 1), Compare (round trip 2), the handler, then
CaptureEvent and CountEvent, two commands of one pipeline. `redis` is what Redis holds,
`saved` what its append-only file holds: RestartFromFile loses the last second and keeps
the marker, RestartEmpty loses all. CountRows, SetCount, RebuildThresholds and
MarkAuthoritative are `counters.rebuild`, by the watchdog (EnsureAuthoritative) or by
hand. An event's billing is abstracted to its being in `usage_events`, in the stream or in
a batch read from it.

`suspect` is history: it names, and so limits, what may put the counter out of step - a
pipeline broken between XADD and INCR; a restart from a file that is behind; a restart
that loses everything while a request is past its gate, the drain holds a batch or a
rebuild is running; a rebuild by hand while the gate serves.

## 4. Runs

Every bound is a constant of the configuration.

| Run | Instance | Shows |
|---|---|---|
| drain_process | 1 process with two tasks (drain loop and a close's `drain_until_empty`) and the trimming watchdog; 3 entries, good or malformed; batches of 2; 1 crash or failed step | types; one row per event; nothing done before it is settled and marked; loss only by a trim of pending entries; undelivered entries stay; trims to a pending id spare pending entries; refinement of the ledger |
| drain_live | 1 process, its loop and watchdog; 3 entries, batches of 2, 2 faults | under the worker's scheduling: every entry finishes, the stream is trimmed, the ledger's liveness |
| drain_trim (violation) | as drain_process | a trim can remove pending entries |
| reconcile | 1 process, 2 entries, 1 fault, one close | a converged report of a quiet month is complete; zero outstanding means delivered; the close converges |
| aggregation | 3 events in 2 cells, one pass, one close, 3 faults | never over-counts; a cell is behind and unmarked only in the named ways; a close makes the period whole |
| close | 3 months, scheduler and one asked-for close at a time, 2 requests (rows, or only counted, or not even that), 3 closes, 1 fault (a close that dies or a rollup that goes back) | issued invoices are final; an invoice short of its report's counter has a discrepancy on its period unless the rollups went back between report and lines; double billing needs overlapping generates; re-closing is harmless while nothing is late |
| close_twice (violation) | as close, no fault | overlapping closes of two months bill the same late request twice |
| auth | 2 requests at a time, any number in turn; TTL one second and ceiling two, in half seconds; timeouts of half a second; 3.5 seconds; 1 restart of Redis | a revoked key's window and its stale extension; a new key's delay; a revocation the cache was told of stays |
| plans | 2 admin requests at a time, 2 plans of which one's price list exists unpublished, 3 assignments, 5 instants from the month before to the month after; 11 ladders, 7 of them not publishable, 4 limits, 3 quantities a segment | one plan at every instant; local days to the last plan; prorated shares bounded, and each unit at the price of its exact share; code and database agree on ladders and rating is unit by unit; the threshold is exact |
| limits | 2 operators, the sweep's and the watchdog's pass, 3 operator requests, 2 plans, 1 incident (crash, error, Redis restart or run by hand) | a wrong threshold is explained; the limit is enforced in the end |
| limits_orphan (violation) | 1 operator, no incident | a sweep can leave a threshold without a limit |
| counters | 2 requests at a time, threshold 1, stream bound 1, 3 events, 2 faults | the counter is exact or explained; the overshoot is bounded; the gate serves again |

Why the bounds are enough to be interesting. Three entries with batches of two give a full
and a partial batch, a batch that mixes good and malformed entries, and a new delivery
while one is pending, which is what the trim race needs; two tasks over one `_recovering`
flag give double delivery, and `Reclaim` lets a process take back its own entries. Two
cells with three events give a cell that is behind beside one that is not. Three months
are needed for two later invoices to roll one month's usage forward, and two rows
for one on time and one late, or for an older count to be below a newer one. Half-second ticks make the floor of a deadline matter, and
3.5 seconds pass the stale window of a key revoked at the start; one request may hold a
row read before the revocation while others come and go. The instants of `plans` are on both
sides of a local midnight within one UTC day and of a UTC midnight within one local day,
so that calendars disagree; two changes fall on one local day (a segment of no days) and
on two. The ladders have free bands, one-unit bands and bands that proration merges.
`limits` needs three requests for a set, a plan change and a removal, and two publishers
for a rebuild that overtakes a sweep; the incident is shared, since one is enough for each
way to go wrong. `counters` needs two requests to overshoot, three events to pass the
threshold after that, and two faults for a restart during the repair of the first. Deadlock is checked except where the system really stops:
a converged close, a world whose months and closes are used up, a clock at its bound, and
requests and events used up.

Each property has a mutant in PROJECT.json: a change of the modelled code (a dropped
guard, a swapped order, an accumulating upsert, ...) under which TLC finds it violated.

Three findings are runs of their own: the trim race (`drain_trim`, drain.py:431), double
roll-forward (`close_twice`, invoicing.py:312) and the threshold without a limit
(`limits_orphan`, provisioning.py:337).

Other places where the models do what the code does and a comment or docstring says
something else. None of them has a run; where a property bounds the effect it is named.

- drain.py:384: `outstanding` reads the pending list, then the lag; a batch delivered in
  between is in neither, so it can answer zero for an entry nobody committed.
  ConvergedIsComplete: a close of a month whose traffic has ended is not misled, since the
  counter is compared too.
- aggregate.py:91: SREM removes marks set after the pass's count; the cell stays behind
  unmarked (BehindIsExplained's `swallowed`) until a close (CloseMakesWhole).
- aggregate.py:142 says an invoice's numbers "were derived from `usage_events` moments
  earlier"; a statement that began before can overwrite them after the report, and the
  invoice is then short with no discrepancy (the exception of ShortfallIsRecorded). What
  it left out a later invoice may bill, and only once (DoubleOnlyByRace).
- close.py:103: the header promises a recorded shortfall for every close that did not
  converge; with both deltas zero and only a backlog, NULL is recorded.
- close.py:120: re-closing a month whose usage grew after its invoice leaves its period
  `closed`, and roll-forward skips it.
- segments.py:104 and proration.py:163 say usage on a segment of no days is lost, or
  should not be; `Prorate` with zero days keeps the unbounded band, so it is charged at that price.
- provisioning.py:598, admin.py:175: `set_spending_limit` and `limit_conflict` look at the
  current or new segment only; with earlier segments' fees a limit can be accepted, or a
  change pass without a 409, and the sweep then publishes the unsatisfiable sentinel.
- provisioning.py:607 says a threshold whose row was not written will be recomputed; for a
  limit set for the first time there is no row to recompute it from (`orphaned`).
- provisioning.py:329: the effect of `limits_orphan`; until the next set or removal.
- thresholds.py:236: `computed_at` is the transaction's start, so a plan change whose
  transaction began before the sweep's and committed after its read is not seen as newer:
  the threshold is wrong until its maximal age (EventuallyEnforced needs Age).
- counters.py:85: "safe to run at any time" and "not safe while the hot path is serving"
  stand next to each other; CounterIsExact holds for neither a rebuild by hand nor one
  that overlaps a request admitted before the marker was lost.
- metering.py:374: a 503 for a failed capture says `billed: False`, but the XADD may have
  reached the stream: the event is billed and the counter stays one behind.

## 5. Fairness

- Drain: weak fairness of each read, of a held batch's next step and of the watchdog's
  steps: the drain loop calls `run_once` again after every outcome (drain.py:469) and
  `_every` (worker.py:42) ticks on after a failed pass. XREADGROUP returns at once when
  there are entries. Reclaim is fair because an entry nobody works on keeps getting
  idler until it passes `drain_reclaim_idle_ms`. Restart is fair: an assumption about
  the operator or orchestrator, as docker-compose.yml sets no restart policy. No
  fairness of captures or faults; the number of faults is bounded, so a batch that fails
  every time is outside.
- Reconciliation: the drain's, and the closer's next step (its loop has no early exit
  but convergence and the grace window; the run looks at the case where the window does
  not end first).
- Aggregation: the close keeps polling. Nothing of the incremental passes.
- Limits: strong fairness of each publisher's tick-or-step and of each operator's next
  step, since a row lock may be taken and released for ever by others and Postgres queues
  its waiters; weak fairness of Age, which is time. Operators' requests and incidents are
  bounded and not fair.
- Counters: weak fairness of the watchdog, whose loop ticks every few seconds and goes on
  after a failed pass (worker.py:42). No fairness of requests, drain or the append-only file.
- MonthClose, AuthCache, Plans: no liveness is stated, so none.

## 6. Proofs

`DrainProofs` proves for any number of workers, tasks, cells, entries, batch size and
faults, from the assumptions named in `Drain` only: TypeCorrect, RowOncePerEventHolds,
DoneIsSettledHolds, DoneIsMarkedHolds, LostOnlyByOverrunHolds, UndeliveredStaysHolds,
PendingBranchSparesHolds and LedgerRefinement.

The argument. None of the properties is inductive: that an acknowledged entry is settled
depends on what the task that acknowledges it has done before. The invariant `IInv`
therefore says what each `pc` value implies for the entries in the task's hands
(`StepInv`: after the insert the parsed ones have rows, before the ack everything is
finished), that a task holds only delivered entries and holds without a payload only
those gone from the stream (`HeldInv`), that undelivered entries are in the stream and
in no pending list (`FreshInv`), that entries out of the pending list or out of the
stream are finished or overrun (`FinishedInv`), and that a trim point taken from the
pending list stays at or below every pending entry (`TrimInv`: later deliveries are
above it, acknowledgements only remove). Even the types need `HeldInv`: what is marked
dirty is a cell because a held entry's payload is in the log. LedgerRefinement adds that
a step settles or loses a set of captured events and never touches a settled or lost one.

`AggregationProofs` proves for any finite set of events and any cells, passes, closes and
faults TypeCorrect, NeverOvercountsHolds and BehindIsExplainedHolds. The first rests on
`SnapInv`: a statement counted rows that were there, and rows stay, so assigning an old
count can only be short. The second on three parts: a marked row is counted, or its cell
is in the dirty set, or a history names the cell (`MarkInv`); a pass has each of its
cells still to try, in hand, counted into the rollup, or explained (`HandledInv`); and it
clears only with none left to try (`PassInv`), which is what the isolation of
aggregate.py:112 must not get wrong.

`FoldProofs` has what the prover lacks for data: a set of naturals has a least element
(from the library's well-foundedness of `<`), so a *set* of numbers, or of subsets of a
finite set, that is closed under one more element is all of them. Stated with a set
instead of a predicate, the provers can use it. From it follow that a fold over a finite
set has the recursion of its definition, and for sums (`SumFunctionOnSet`): any element
may be split off (SumStep), equal values give equal sums, one changed value changes the
sum by the difference, sums of sums, monotonicity.

`MonthCloseProofs` proves for any number of months, closers, rows, closes and faults
TypeCorrect, IssuedIsFinalHolds, ShortfallIsRecordedHolds, DoubleOnlyByRaceHolds and
RerunWithoutLateUsageHolds. ShortfallIsRecordedHolds follows one close from its report: a report
whose deltas are zero leaves rollups that cover its counter (`ReportInv`), any other
leaves the record on the period once it is closed (`RecordInv`), and the line built for
the month is short of the counter only with a record (`LineInv`). Records stay, and
rollups shrink only in WriteOlderCount, which resets the `owed` of the closes it reaches
before their lines (once they are built, `owed` is what they do not cover): so no other close and no other statement can undo this, and once the
lines are built the rollups play no part. DoubleOnlyByRaceHolds compares a sum over all
invoices with the rows: the lines a closer has built leave room for what they bill as
long as no other invoice was issued since (`RoomInv`), which rests on where lines come from
(`OriginInv`), and issuing adds exactly the built line to the sum. The room is below
`Ceiling`: the rollups while nothing has gone back, which RerunWithoutLateUsageHolds needs,
and the rows afterwards; neither shrinks. RerunWithoutLateUsageHolds needs of each step of a re-close what it
will restore (`RestoreInv`). Even the types need the sum: a roll-forward line is a difference.

`AuthCacheProofs` proves for any number of requests and any timeouts, TTL, ceiling and
restarts TypeCorrect and all four properties of the run. `WindowInv` bounds every entry,
in the cache, on disk and in a request's hands, by the last moment the key was live
(`EntryBound`): a positive one is written from a row read then, by a request whose
clock reading is older still, and the timeouts bound how much later the write lands; and
it ties each request to its clock reading (`RequestBound`). `KnownInv` says that
once the cache was told of the revocation and no lookup that read the key live is left,
nothing can write a positive entry. The properties hold of answers, the invariant of
entries: it is needed because an answer is given from an entry other requests wrote.

The second half of `DrainProofs` proves ConvergedIsCompleteHolds and ZeroMeansDeliveredHolds from
the drain's `IInv` and what the report's reads still say after the drain has moved on
(`ReadInv`, `RolledInv`): rows only grow, so a count of rows read later is at least the
one compared; the counter equals the entries, so as many rows as the counter are all of
them; rollups come from rows, so as many rolled up are all of those. What was read as not
outstanding plays no part in the first: it is needed only for the second, which orders the
pending list before the lag.

`PlansProofs` proves every property of the run for any catalogue, instants, limits,
quantities, ladders and finite set of requests; `Limits`, `Quantities` and `Ladders` may be
infinite. It has three parts.

First `Rating`, by induction over the bands. A left fold is a walk with one state per band
(the `...Walk` lemmas), and what the loop has done after i bands is an assertion over the
units below the i-th bound (`Charged`, `Walked`, `SeenSoFar`, `LadderAfter`). The common
measure is `PriceUpTo`, the price of the first m chargeable units, each by the band it
falls in. RateIsUnitPrices: `rate` computes it. MaxQuantityIsExact: `max_quantity_within`
inverts it, so a quantity is within the budget exactly when it is at most the answer; it
has no answer only when the last band is free and every quantity is within the budget.
PublishAcceptsTheValid: the trigger and the CHECKs accept what `PriceList.__post_init__`
accepts. ProratedIsValid, WholeMonthIsTheList, FeeRoundsDown, AllowanceRoundsUp: proration
keeps a list valid, also over zero days, is the identity for a whole month and rounds each
amount by less than one unit in the customer's favour. ProratedPrices: the k-th unit of the
prorated ladder has the price of the first band whose exact share it begins in. A bound
rounded up reaches a unit exactly when the unit begins in the share (`RoundedUpReaches`),
and the walk that drops bands keeps the first one that does (`Reaches`, `KeptReaches`). A
band's width is not bounded from below by its share: (2, 6, 7) over 19 of 30 days has the
bounds 2, 4, 5, and a second band of two units for a share of 2.53.

Then a month. The assignments in it can be ordered by start, and in one way
(`OrderExists`, `PeriodInOrder`: they do not overlap). A segment's days are the local
days at whose end its row is in effect (`DaysAreDayEnds`), which are disjoint, so they fit
the month. The threshold: since the rows leave no gap and none starts later than now, the
last segment goes on to the month's end and is the current one (`LastGoesOn`,
`EarlierDaysOver`, `CurrentIsLast`); `Compute` and the bill then differ only in the last
segment, the others' charges being the same sums (`OtherSums`, `Bill`), and there
MaxQuantityIsExact decides.

Last, the state machine. The invariant has the exclusion constraint (`Allowed`), no gap
(`Covered`), nothing in the future (`Past`), the rows an UPDATE saw and locked (`LockInv`),
published references (`PublishedInv`, `Referenced`) and room under the bound (`RoomInv`).
One plan at every instant needs of the code only that closing and opening commit in one
transaction and that the constraint refuses an overlap; the row lock and the re-check are
what make the closed rows still open ones. `Past` and `Covered` are what make the threshold
exact: with an assignment in the future, or a gap, the current segment would not be the
last, and the estimate of `GET /v1/usage` puts what is not rolled up on the last.

`LimitsProofs` proves TypeCorrect and WrongIsExplainedHolds for any number of operators,
plans, changes and incidents. `Calm` says, while nobody has overlapped or died (`Alone`),
what each actor's step leaves behind: a set has published what it will write, a change
starts after the row was computed, a pass read what is still on record. `OrphanInv` and
the locks (`LockInv`: a locked row stays) hold always. TypeCorrect needs the lock and the
order of the clock's stamps too.

`CountersProofs` proves CounterIsExactHolds and OvershootIsBoundedHolds for any finite set
of requests, events and faults. While the marker is there the counter is exact and nobody
rebuilds (`ServingInv`); while it is not, only rows are left, they do not change, and the
counter is zero or their number (`OutageInv`); a request past the gate holds one of the
places below the threshold plus the requests there are (`PlacesInv`). `suspect` releases
these, which is what the property says.

The assumptions: bounds are naturals, sets of actors and requests finite where they are
counted, `NoRow` and `NoThreshold` outside the sets they are added to; in `Plans` a first
instant, months of 28 to 31 days, positive limits (`ck_spending_limits_limit_positive`), quantities that are
naturals, and a catalogue of valid price lists (they are `PriceList` objects, catalogue.py)
whose last band is not free (CatalogueAssumption; true of the three launch lists, and
needed: `compute` raises for another). Ladders an operator tries to publish are any
records with integers. Each is named in its module and evaluated by its run.

Model-checked only: the seven liveness properties (EveryEntryFinishes, StreamIsTrimmed,
ImplementsLiveLedger, CloseConverges, CloseMakesWhole, EventuallyEnforced, ServesAgain).
Fairness and ENABLED are beyond the prover. Every other property of the passing runs is a
theorem.

## 7. Not modelled

- Creation and loss of the consumer group (`ensure_group`, NOGROUP), partitions of
  `usage_events`, the lag metric and `check_stream_bound`, which only read or create
  structure.
- Entries with ids that are not UUIDs: `events.parse` accepts them and the insert then
  fails for the whole batch, again and again. The capture path cannot write one.
- Lost INCRs and older snapshots of Redis are steps of `Counters` and `AuthCache` only: in
  the drain's modules the counter does not lose increments and the stream does not go back.
  `MonthClose` takes a counter that is ahead or behind in a report, but what that counter missed, and a rollup
  that goes back between a report and the lines, are outside ShortfallIsRecorded.
- Clocks of the API instances that differ: a window then grows by the difference.
- More than one customer: the stream is shared, so `outstanding` of a busy system is
  rarely zero; the effect on one close is the grace window, which is modelled.
- A customer with a limit and no plan (`NoPlanForLimit` skips the row), and a price list
  whose last band is free, on which `compute` raises and the sweep's transaction fails for
  every customer: `Plans` rates such a list nowhere, `Limits` has the failing sweep.
- The month's end for thresholds and counters: each month has keys and rows of its own.
- The components listed as not modelled in PROJECT.json.
