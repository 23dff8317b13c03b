------------------------------ MODULE Counters ------------------------------
(***************************************************************************)
(* One customer's live counter: the gate that compares it with the         *)
(* threshold and the capture that increments it (metering.py), the drain   *)
(* that carries the captured events to Postgres, Redis losing some or all  *)
(* of its memory, and the rebuild from usage_events that lets the gate     *)
(* serve again (counters.py).                                              *)
(*                                                                         *)
(* Requests are to billable paths, of a customer with a spending limit, in *)
(* one period. Every Redis command or round trip and every transaction is  *)
(* a step. Drain has the drain's own steps and Limits has how thresholds   *)
(* are computed; here they are present or lost.                            *)
(***************************************************************************)
EXTENDS Integers, FiniteSets

CONSTANTS
    Request,    \* requests served at the same time
    Threshold,  \* what the gate compares the counter with
    StreamMax,  \* settings.usage_stream_max_entries
    MaxEvents,  \* bound on captured events
    MaxFaults   \* bound on crashes, errors and rebuilds by hand

ASSUME CountersAssumption ==
    /\ IsFiniteSet(Request) /\ Request # {}
    /\ Threshold \in Nat /\ StreamMax \in Nat
    /\ MaxEvents \in Nat /\ MaxFaults \in Nat

Event == 1 .. MaxEvents

\* Who rebuilds: the worker's watchdog, and POST /rebuild-counters.
Rebuilder == {"watchdog", "hand"}

VARIABLES
    redis,   \* [counter, enforced, marker, stream]: what Redis holds
    saved,   \* what its append-only file holds, fsynced every second
    rows,    \* usage_events
    req,     \* per slot: where the request is
    batch,   \* entries the drain has read and not yet inserted
    rebuild, \* per rebuilder: where it is, and the count it read
    minted,  \* events captured so far
    faults,
    suspect  \* history: something may have put the counter out of step

vars == <<redis, saved, rows, req, batch, rebuild, minted, faults, suspect>>

EmptyRedis == [counter |-> 0, enforced |-> FALSE, marker |-> FALSE, stream |-> {}]

NoRequest == [step |-> "idle", event |-> 0]
NoRebuild == [step |-> "idle", count |-> 0]

Init ==
    /\ redis = [EmptyRedis EXCEPT !.marker = TRUE, !.enforced = TRUE]
    /\ saved = redis
    /\ rows = {} /\ batch = {}
    /\ req = [r \in Request |-> NoRequest]
    /\ rebuild = [w \in Rebuilder |-> NoRebuild]
    /\ minted = 0 /\ faults = 0
    /\ suspect = FALSE

Suspect(reason) == suspect' = (suspect \/ reason)
Fault == faults < MaxFaults /\ faults' = faults + 1

InFlight == {r \in Request : req[r].step # "idle"}
Rebuilding == \E w \in Rebuilder : rebuild[w].step # "idle"

----------------------------------------------------------------------------
(* The hot path.                                                           *)

\* Round trip 1: 503 without the marker or with the stream past its bound.
Admit(r) ==
    /\ req[r].step = "idle"
    /\ redis.marker
    /\ Cardinality(redis.stream) <= StreamMax
    /\ req' = [req EXCEPT ![r].step = "admitted"]
    /\ UNCHANGED <<redis, saved, rows, batch, rebuild, minted, faults, suspect>>

\* Mutant: the request that reaches the threshold is the last one served twice.
CompareLoosely(r) ==
    /\ req[r].step = "admitted"
    /\ req' = [req EXCEPT ![r].step =
                IF redis.enforced /\ redis.counter > Threshold THEN "idle" ELSE "served"]
    /\ UNCHANGED <<redis, saved, rows, batch, rebuild, minted, faults, suspect>>

\* Round trip 2: 402 at the threshold; a lost threshold refuses nobody.
Compare(r) ==
    /\ req[r].step = "admitted"
    /\ req' = [req EXCEPT ![r].step =
                IF redis.enforced /\ redis.counter >= Threshold THEN "idle" ELSE "served"]
    /\ UNCHANGED <<redis, saved, rows, batch, rebuild, minted, faults, suspect>>

\* classify: an outcome nobody pays for, or the capture failing as a whole (503).
NotBilled(r) ==
    /\ req[r].step = "served"
    /\ req' = [req EXCEPT ![r] = NoRequest]
    /\ UNCHANGED <<redis, saved, rows, batch, rebuild, minted, faults, suspect>>

\* _capture's XADD.
CaptureEvent(r) ==
    /\ req[r].step = "served" /\ minted < MaxEvents
    /\ minted' = minted + 1
    /\ redis' = [redis EXCEPT !.stream = @ \cup {minted'}]
    /\ req' = [req EXCEPT ![r] = [step |-> "captured", event |-> minted']]
    /\ UNCHANGED <<saved, rows, batch, rebuild, faults, suspect>>

\* _capture's INCR, in the same pipeline; then the response is released.
CountEvent(r) ==
    /\ req[r].step = "captured"
    /\ redis' = [redis EXCEPT !.counter = @ + 1]
    /\ req' = [req EXCEPT ![r] = NoRequest]
    /\ UNCHANGED <<saved, rows, batch, rebuild, minted, faults, suspect>>

\* The connection breaks between the two commands: 503, the event stays.
CaptureBreaks(r) ==
    /\ req[r].step = "captured" /\ Fault
    /\ req' = [req EXCEPT ![r] = NoRequest]
    /\ Suspect(TRUE)
    /\ UNCHANGED <<redis, saved, rows, batch, rebuild, minted>>

----------------------------------------------------------------------------
(* The drain and Redis.                                                    *)

ReadBatch ==
    /\ batch = {}
    /\ batch' = redis.stream \ rows
    /\ batch' # {}
    /\ UNCHANGED <<redis, saved, rows, req, rebuild, minted, faults, suspect>>

\* The insert commits; the entries leave the stream once acked and trimmed.
InsertBatch ==
    /\ batch # {}
    /\ rows' = rows \cup batch /\ batch' = {}
    /\ redis' = [redis EXCEPT !.stream = @ \ batch]
    /\ UNCHANGED <<saved, req, rebuild, minted, faults, suspect>>

\* Its append-only file is fsynced once a second.
Fsync ==
    /\ saved # redis
    /\ saved' = redis
    /\ UNCHANGED <<redis, rows, req, batch, rebuild, minted, faults, suspect>>

\* A restart breaks the pipelines that are half through. Other requests, the
\* drain's batch and a rebuild go on against the restarted Redis.
Broken == {r \in Request : req[r].step = "captured"}

BreakPipelines ==
    req' = [r \in Request |-> IF r \in Broken THEN NoRequest ELSE req[r]]

\* Redis loses its data, and the marker with it.
RestartEmpty ==
    /\ Fault
    /\ redis' = EmptyRedis /\ saved' = EmptyRedis
    /\ BreakPipelines
    /\ Suspect(InFlight \ Broken # {} \/ batch # {} \/ Rebuilding)
    /\ UNCHANGED <<rows, batch, rebuild, minted>>

\* Redis comes back from its file: the last second is gone, the marker is not.
RestartFromFile ==
    /\ Fault
    /\ redis' = saved
    /\ BreakPipelines
    /\ Suspect(saved # redis \/ Broken # {})
    /\ UNCHANGED <<saved, rows, batch, rebuild, minted>>

----------------------------------------------------------------------------
(* counters.rebuild.                                                       *)

CountRows(w) ==
    /\ rebuild[w].step = "idle"
    /\ rebuild' = [rebuild EXCEPT ![w] = [step |-> "set", count |-> Cardinality(rows)]]
    /\ UNCHANGED <<redis, saved, rows, req, batch, minted>>

\* Mutant: a counter that moved is taken for a primed Redis.
EnsureCounted ==
    /\ ~redis.marker /\ redis.counter = 0
    /\ CountRows("watchdog")
    /\ UNCHANGED <<faults, suspect>>

\* ensure_authoritative, every tick.
EnsureAuthoritative ==
    /\ ~redis.marker
    /\ CountRows("watchdog")
    /\ UNCHANGED <<faults, suspect>>

\* POST /rebuild-counters, at any time.
RebuildByHand ==
    /\ Fault
    /\ CountRows("hand")
    /\ Suspect(TRUE)

\* Mutant: the count is added.
AddCount(w) ==
    /\ rebuild[w].step = "set"
    /\ redis' = [redis EXCEPT !.counter = @ + rebuild[w].count]
    /\ rebuild' = [rebuild EXCEPT ![w] = [step |-> "thresholds", count |-> 0]]
    /\ UNCHANGED <<saved, rows, req, batch, minted, faults, suspect>>

\* An absolute SET; a customer without rows is not in the result and gets none.
SetCount(w) ==
    /\ rebuild[w].step = "set"
    /\ redis' = IF rebuild[w].count = 0 THEN redis
                ELSE [redis EXCEPT !.counter = rebuild[w].count]
    /\ rebuild' = [rebuild EXCEPT ![w] = [step |-> "thresholds", count |-> 0]]
    /\ UNCHANGED <<saved, rows, req, batch, minted, faults, suspect>>

\* _rebuild_thresholds (its steps are in Limits).
RebuildThresholds(w) ==
    /\ rebuild[w].step = "thresholds"
    /\ redis' = [redis EXCEPT !.enforced = TRUE]
    /\ rebuild' = [rebuild EXCEPT ![w].step = "mark"]
    /\ UNCHANGED <<saved, rows, req, batch, minted, faults, suspect>>

\* Last: the marker.
MarkAuthoritative(w) ==
    /\ rebuild[w].step = "mark"
    /\ redis' = [redis EXCEPT !.marker = TRUE]
    /\ rebuild' = [rebuild EXCEPT ![w] = NoRebuild]
    /\ UNCHANGED <<saved, rows, req, batch, minted, faults, suspect>>

RebuildStep(w) == SetCount(w) \/ RebuildThresholds(w) \/ MarkAuthoritative(w)

\* An error ends the pass, or the worker dies with what it holds in memory.
WorkerFails ==
    /\ Rebuilding \/ batch # {}
    /\ Fault
    /\ rebuild' = [w \in Rebuilder |-> NoRebuild]
    /\ batch' = {}
    /\ UNCHANGED <<redis, saved, rows, req, minted, suspect>>

----------------------------------------------------------------------------
ServeStep(r) ==
    \/ Compare(r) \/ NotBilled(r) \/ CaptureEvent(r) \/ CountEvent(r)

Next ==
    \/ \E r \in Request : Admit(r) \/ ServeStep(r) \/ CaptureBreaks(r)
    \/ ReadBatch \/ InsertBatch
    \/ Fsync \/ RestartEmpty \/ RestartFromFile
    \/ EnsureAuthoritative \/ RebuildByHand
    \/ \E w \in Rebuilder : RebuildStep(w)
    \/ WorkerFails

\* The watchdog ticks and its pass goes on.
Spec == Init /\ [][Next]_vars /\ WF_vars(EnsureAuthoritative \/ RebuildStep("watchdog"))

----------------------------------------------------------------------------
(* Properties.                                                             *)

\* The events that will be billed: in Postgres, on their way, or in the hands of
\* the drain.
Billable == rows \cup redis.stream \cup batch

\* While the gate serves, the counter is the number of billable events, apart
\* from a capture that is half through - after any number of crashes, rebuilds
\* and restarts that lose everything, unless one of the named things happened: a
\* restart from a file behind the memory, a pipeline broken half way, a restart
\* while a request was past its gate, the drain held a batch or a rebuild was
\* running, or a rebuild by hand.
CounterIsExact ==
    (redis.marker /\ ~suspect) =>
        redis.counter + Cardinality(Broken) = Cardinality(Billable)

\* A customer passes its limit by less than the number of requests in flight: the
\* gate compares before the request is counted, and nothing else lets it through
\* (unless the counter was put out of step).
OvershootIsBounded ==
    ~suspect => Cardinality(Billable) < Threshold + Cardinality(Request)

\* Whatever interrupts the rebuild, the outage ends: the watchdog restores the
\* marker.
ServesAgain == ~redis.marker ~> redis.marker
=============================================================================
