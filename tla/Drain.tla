------------------------------- MODULE Drain -------------------------------
(***************************************************************************)
(* The usage drain: Redis stream -> usage_events, at least once into the   *)
(* database and exactly once in it (src/src/meter/pipeline/drain.py).      *)
(*                                                                         *)
(* Every await of run_once and of trim_drained is a step of its own, so    *)
(* that the tasks of one worker process (the drain loop, drain_until_empty *)
(* called by a close or by the ops API, the watchdog that trims) and the   *)
(* tasks of other workers interleave between them. A worker may be killed  *)
(* between any two steps and a step may fail, which raises out of run_once *)
(* and leaves the batch pending.                                           *)
(*                                                                         *)
(* A stream entry is its position in the log of XADDs. The hot path mints  *)
(* one event_id per request, so an entry is also the event it carries.     *)
(***************************************************************************)
EXTENDS Integers, Sequences, FiniteSets

CONSTANTS
    Worker,      \* consumer names: one per worker process (its hostname)
    Task,        \* asyncio tasks that call run_once
    Home,        \* the worker process each task runs in
    Watchdog,    \* the workers whose watchdog trims the stream
    Cell,        \* (customer, local day) cells
    Malformed,   \* the payload of an entry that events.parse refuses
    NoWorker,    \* "no consumer": the entry is not in the pending list
    BatchSize,   \* settings.drain_batch_size
    MaxEntries,  \* bound: entries ever added
    MaxFaults    \* bound: crashes and failed steps, together

ASSUME HomeAssumption == Home \in [Task -> Worker]
ASSUME WatchdogAssumption == Watchdog \subseteq Worker
ASSUME SentinelAssumption == NoWorker \notin Worker /\ Malformed \notin Cell
ASSUME BoundAssumption ==
    /\ BatchSize \in Nat \ {0}
    /\ MaxEntries \in Nat
    /\ MaxFaults \in Nat

EntryId == 1 .. MaxEntries
Payload == Cell \cup {Malformed}

VARIABLES
    log,        \* the payload of every entry XADD ever appended, by id
    stream,     \* ids still in the stream: XTRIM removes some
    delivered,  \* the group's last-delivered-id
    pel,        \* the group's pending list: consumer holding each id
    recovering, \* Drain._recovering of each worker
    up,         \* the worker process is running
    pc,         \* where each task is in run_once
    batch,      \* _Batch.ids of each task
    got,        \* the ids of the batch whose fields were there when read
    rows,       \* rows of usage_events per event
    dead,       \* entries copied to the dead-letter stream
    dirty,      \* cells SADDed to the dirty set (Aggregation removes them)
    trim,       \* each watchdog's trim_drained call
    overrun,    \* history: entries an XTRIM removed while pending
    faults      \* crashes and failed steps so far

redisVars == <<log, stream, delivered, pel>>
taskVars  == <<pc, batch, got>>
sinkVars  == <<rows, dead, dirty>>
vars == <<redisVars, recovering, up, taskVars, sinkVars, trim, overrun, faults>>

Step == {"idle", "letter", "insert", "mark", "ack"}

NoTrim == [step |-> "idle", min |-> 0, by |-> "pending"]

TrimState ==
    [step : {"idle", "groups", "cut"}, min : 0 .. MaxEntries,
     by : {"pending", "delivered"}]

TypeOK ==
    /\ log \in Seq(Payload) /\ Len(log) <= MaxEntries
    /\ stream \subseteq 1 .. Len(log)
    /\ delivered \in 0 .. Len(log)
    /\ pel \in [EntryId -> Worker \cup {NoWorker}]
    /\ recovering \in [Worker -> BOOLEAN]
    /\ up \in [Worker -> BOOLEAN]
    /\ pc \in [Task -> Step]
    /\ batch \in [Task -> SUBSET EntryId]
    /\ got \in [Task -> SUBSET EntryId]
    /\ rows \in [EntryId -> Nat]
    /\ dead \subseteq EntryId
    /\ dirty \subseteq Cell
    /\ trim \in [Watchdog -> TrimState]
    /\ overrun \subseteq EntryId
    /\ faults \in 0 .. MaxFaults

Init ==
    /\ log = << >>
    /\ stream = {}
    /\ delivered = 0
    /\ pel = [id \in EntryId |-> NoWorker]
    /\ recovering = [w \in Worker |-> TRUE]
    /\ up = [w \in Worker |-> TRUE]
    /\ pc = [t \in Task |-> "idle"]
    /\ batch = [t \in Task |-> {}]
    /\ got = [t \in Task |-> {}]
    /\ rows = [id \in EntryId |-> 0]
    /\ dead = {}
    /\ dirty = {}
    /\ trim = [w \in Watchdog |-> NoTrim]
    /\ overrun = {}
    /\ faults = 0

----------------------------------------------------------------------------
(* Helpers                                                                 *)

Pending == {id \in EntryId : pel[id] # NoWorker}

Undelivered == {id \in stream : id > delivered}

\* B is what COUNT BatchSize returns from S: its oldest entries.
IsOldest(B, S) ==
    /\ B \subseteq S
    /\ \/ B = S /\ Cardinality(B) <= BatchSize
       \/ Cardinality(B) = BatchSize
    /\ \A b \in B, s \in S \ B : b < s

Refused(S) == {id \in S : log[id] = Malformed}
Parsed(S)  == {id \in S : log[id] # Malformed}

\* The first step of run_once that a batch with these payloads needs.
FirstStep(S) ==
    IF Refused(S) # {} THEN "letter"
    ELSE IF Parsed(S) # {} THEN "insert" ELSE "ack"

CanRead(t) == up[Home[t]] /\ pc[t] = "idle"

\* Task t leaves _read holding the ids B, the payloads of those in G.
Hold(t, B, G) ==
    /\ batch' = [batch EXCEPT ![t] = B]
    /\ got' = [got EXCEPT ![t] = G]
    /\ pc' = [pc EXCEPT ![t] = FirstStep(G)]

----------------------------------------------------------------------------
(* The hot path's XADD.                                                    *)

Capture(p) ==
    /\ Len(log) < MaxEntries
    /\ log' = Append(log, p)
    /\ stream' = stream \cup {Len(log) + 1}
    /\ UNCHANGED <<delivered, pel, recovering, up, taskVars, sinkVars, trim,
                   overrun, faults>>

----------------------------------------------------------------------------
(* _read: own pending entries first, then abandoned ones, then new ones.   *)

\* XREADGROUP 0. A vanished entry comes back without fields.
ReadOwnPending(t) ==
    LET w == Home[t]
        own == {id \in EntryId : pel[id] = w}
    IN  /\ CanRead(t)
        /\ recovering[w]
        /\ \E B \in SUBSET own :
              /\ IsOldest(B, own)
              /\ IF B = {}
                 THEN /\ recovering' = [recovering EXCEPT ![w] = FALSE]
                      /\ UNCHANGED taskVars
                 ELSE /\ Hold(t, B, B \cap stream)
                      /\ UNCHANGED recovering
        /\ UNCHANGED <<redisVars, up, sinkVars, trim, overrun, faults>>

\* Mutant: a worker reclaims only what other consumers abandoned.
ReclaimFromOthers(t, idle) ==
    /\ CanRead(t)
    /\ ~recovering[Home[t]]
    /\ \E B \in SUBSET {id \in idle \cap stream : pel[id] # Home[t]} \ {{}} :
          /\ pel' = [id \in EntryId |-> IF id \in B THEN Home[t] ELSE pel[id]]
          /\ Hold(t, B, B)
    /\ UNCHANGED <<log, stream, delivered, recovering, up, sinkVars, trim,
                   overrun, faults>>

\* XAUTOCLAIM: the entries in idle have been pending longer than
\* drain_reclaim_idle_ms. Redis drops the vanished ones from the pending list
\* and hands over the oldest of the others.
Reclaim(t, idle) ==
    /\ CanRead(t)
    /\ ~recovering[Home[t]]
    /\ idle # {}
    /\ \E B \in SUBSET (idle \cap stream) :
          /\ IsOldest(B, idle \cap stream)
          /\ pel' = [id \in EntryId |-> IF id \in B THEN Home[t]
                                        ELSE IF id \in idle \ stream THEN NoWorker
                                        ELSE pel[id]]
          /\ IF B = {} THEN UNCHANGED taskVars ELSE Hold(t, B, B)
    /\ UNCHANGED <<log, stream, delivered, recovering, up, sinkVars, trim,
                   overrun, faults>>

\* XREADGROUP >
ReadNew(t) ==
    /\ CanRead(t)
    /\ ~recovering[Home[t]]
    /\ \E B \in SUBSET Undelivered \ {{}} :
          /\ IsOldest(B, Undelivered)
          /\ \E last \in B : /\ \A b \in B : b <= last
                             /\ delivered' = last
          /\ pel' = [id \in EntryId |-> IF id \in B THEN Home[t] ELSE pel[id]]
          /\ Hold(t, B, B)
    /\ UNCHANGED <<log, stream, recovering, up, sinkVars, trim, overrun, faults>>

----------------------------------------------------------------------------
(* run_once: dead-letter, commit, mark, and only then acknowledge.         *)

\* Mutant: refused entries are skipped, not copied.
SkipRefused(t) ==
    /\ pc[t] = "letter"
    /\ pc' = [pc EXCEPT ![t] = IF Parsed(got[t]) # {} THEN "insert" ELSE "ack"]
    /\ UNCHANGED <<redisVars, recovering, up, batch, got, sinkVars, trim,
                   overrun, faults>>

DeadLetter(t) ==
    /\ pc[t] = "letter"
    /\ dead' = dead \cup Refused(got[t])
    /\ pc' = [pc EXCEPT ![t] = IF Parsed(got[t]) # {} THEN "insert" ELSE "ack"]
    /\ UNCHANGED <<redisVars, recovering, up, batch, got, rows, dirty, trim,
                   overrun, faults>>

\* Mutant: a plain INSERT into a table without the unique constraint.
InsertAlways(S, r) == [id \in EntryId |-> IF id \in S THEN r[id] + 1 ELSE r[id]]

\* INSERT ... ON CONFLICT DO NOTHING, one transaction.
InsertUsageEvents(S, r) ==
    [id \in EntryId |-> IF id \in S /\ r[id] = 0 THEN 1 ELSE r[id]]

\* Mutant: the commit is acknowledged without the mark.
CommitUnmarked(t) ==
    /\ pc[t] = "insert"
    /\ rows' = InsertUsageEvents(Parsed(got[t]), rows)
    /\ pc' = [pc EXCEPT ![t] = "ack"]
    /\ UNCHANGED <<redisVars, recovering, up, batch, got, dead, dirty, trim,
                   overrun, faults>>

Commit(t) ==
    /\ pc[t] = "insert"
    /\ rows' = InsertUsageEvents(Parsed(got[t]), rows)
    /\ pc' = [pc EXCEPT ![t] = "mark"]
    /\ UNCHANGED <<redisVars, recovering, up, batch, got, dead, dirty, trim,
                   overrun, faults>>

\* Mutant: the refused entries of the batch are marked too.
MarkWholeBatch(t) ==
    /\ pc[t] = "mark"
    /\ dirty' = dirty \cup {log[id] : id \in got[t]}
    /\ pc' = [pc EXCEPT ![t] = "ack"]
    /\ UNCHANGED <<redisVars, recovering, up, batch, got, rows, dead, trim,
                   overrun, faults>>

MarkProgress(t) ==
    /\ pc[t] = "mark"
    /\ dirty' = dirty \cup {log[id] : id \in Parsed(got[t])}
    /\ pc' = [pc EXCEPT ![t] = "ack"]
    /\ UNCHANGED <<redisVars, recovering, up, batch, got, rows, dead, trim,
                   overrun, faults>>

\* XACK takes the ids off the pending list whoever holds them by now.
Acknowledge(t) ==
    /\ pc[t] = "ack"
    /\ pel' = [id \in EntryId |-> IF id \in batch[t] THEN NoWorker ELSE pel[id]]
    /\ pc' = [pc EXCEPT ![t] = "idle"]
    /\ batch' = [batch EXCEPT ![t] = {}]
    /\ got' = [got EXCEPT ![t] = {}]
    /\ UNCHANGED <<log, stream, delivered, recovering, up, sinkVars, trim,
                   overrun, faults>>

\* Mutant: the batch is acknowledged in a finally clause, whatever was raised.
FailAcknowledged(t) ==
    /\ pc[t] # "idle"
    /\ faults < MaxFaults
    /\ faults' = faults + 1
    /\ pel' = [id \in EntryId |-> IF id \in batch[t] THEN NoWorker ELSE pel[id]]
    /\ pc' = [pc EXCEPT ![t] = "idle"]
    /\ batch' = [batch EXCEPT ![t] = {}]
    /\ got' = [got EXCEPT ![t] = {}]
    /\ UNCHANGED <<log, stream, delivered, recovering, up, sinkVars, trim, overrun>>

\* Any step of run_once raises: the batch is dropped from memory, unacked.
Fail(t) ==
    /\ pc[t] # "idle"
    /\ faults < MaxFaults
    /\ faults' = faults + 1
    /\ pc' = [pc EXCEPT ![t] = "idle"]
    /\ batch' = [batch EXCEPT ![t] = {}]
    /\ got' = [got EXCEPT ![t] = {}]
    /\ UNCHANGED <<redisVars, recovering, up, sinkVars, trim, overrun>>

----------------------------------------------------------------------------
(* trim_drained: XPENDING, perhaps XINFO GROUPS, then XTRIM MINID.         *)

\* Mutant: the newest pending id is the trim point.
TrimToNewest(w) ==
    /\ up[w]
    /\ trim[w].step = "idle"
    /\ \E m \in Pending :
          /\ \A id \in Pending : id <= m
          /\ trim' = [trim EXCEPT ![w] = [step |-> "cut", min |-> m, by |-> "pending"]]
    /\ UNCHANGED <<redisVars, recovering, up, taskVars, sinkVars, overrun, faults>>

TrimPending(w) ==
    /\ up[w]
    /\ trim[w].step = "idle"
    /\ IF Pending = {}
       THEN trim' = [trim EXCEPT ![w] =
                        [step |-> "groups", min |-> 0, by |-> "delivered"]]
       ELSE \E m \in Pending :
               /\ \A id \in Pending : m <= id
               /\ trim' = [trim EXCEPT ![w] =
                              [step |-> "cut", min |-> m, by |-> "pending"]]
    /\ UNCHANGED <<redisVars, recovering, up, taskVars, sinkVars, overrun, faults>>

\* Mutant: the stream's last id is the trim point, not the group's.
TrimToLast(w) ==
    /\ trim[w].step = "groups"
    /\ trim' = [trim EXCEPT ![w] =
                   IF delivered = 0 THEN NoTrim
                   ELSE [step |-> "cut", min |-> Len(log), by |-> "delivered"]]
    /\ UNCHANGED <<redisVars, recovering, up, taskVars, sinkVars, overrun, faults>>

\* Mutant: nothing is trimmed when nothing is pending.
TrimNothing(w) ==
    /\ trim[w].step = "groups"
    /\ trim' = [trim EXCEPT ![w] = NoTrim]
    /\ UNCHANGED <<redisVars, recovering, up, taskVars, sinkVars, overrun, faults>>

TrimGroups(w) ==
    /\ trim[w].step = "groups"
    /\ trim' = [trim EXCEPT ![w] =
                   IF delivered = 0 THEN NoTrim
                   ELSE [step |-> "cut", min |-> delivered, by |-> "delivered"]]
    /\ UNCHANGED <<redisVars, recovering, up, taskVars, sinkVars, overrun, faults>>

TrimStream(w) ==
    LET cut == {id \in stream : id < trim[w].min}
    IN  /\ trim[w].step = "cut"
        /\ stream' = stream \ cut
        /\ overrun' = overrun \cup (cut \cap Pending)
        /\ trim' = [trim EXCEPT ![w] = NoTrim]
        /\ UNCHANGED <<log, delivered, pel, recovering, up, taskVars, sinkVars,
                       faults>>

----------------------------------------------------------------------------
(* The process is killed; a restarted one keeps its consumer name.         *)

Crash(w) ==
    /\ up[w]
    /\ faults < MaxFaults
    /\ faults' = faults + 1
    /\ up' = [up EXCEPT ![w] = FALSE]
    /\ pc' = [t \in Task |-> IF Home[t] = w THEN "idle" ELSE pc[t]]
    /\ batch' = [t \in Task |-> IF Home[t] = w THEN {} ELSE batch[t]]
    /\ got' = [t \in Task |-> IF Home[t] = w THEN {} ELSE got[t]]
    /\ trim' = [v \in Watchdog |-> IF v = w THEN NoTrim ELSE trim[v]]
    /\ UNCHANGED <<redisVars, recovering, sinkVars, overrun>>

Restart(w) ==
    /\ ~up[w]
    /\ up' = [up EXCEPT ![w] = TRUE]
    /\ recovering' = [recovering EXCEPT ![w] = TRUE]
    /\ UNCHANGED <<redisVars, taskVars, sinkVars, trim, overrun, faults>>

----------------------------------------------------------------------------

ReadPass(t) ==
    ReadOwnPending(t) \/ ReadNew(t) \/ \E idle \in SUBSET Pending : Reclaim(t, idle)

BatchStep(t) == DeadLetter(t) \/ Commit(t) \/ MarkProgress(t) \/ Acknowledge(t)

TrimStep(w) == TrimPending(w) \/ TrimGroups(w) \/ TrimStream(w)

Next ==
    \/ \E p \in Payload : Capture(p)
    \/ \E t \in Task : ReadPass(t) \/ BatchStep(t) \/ Fail(t)
    \/ \E w \in Watchdog : TrimStep(w)
    \/ \E w \in Worker : Crash(w) \/ Restart(w)

Spec == Init /\ [][Next]_vars

(***************************************************************************)
(* The drain loop keeps calling run_once and the watchdog keeps ticking    *)
(* (worker.py: both loops survive a failed pass), and someone starts a     *)
(* killed worker again. Nothing is assumed of captures, failures or        *)
(* crashes.                                                                *)
(***************************************************************************)
Fairness ==
    /\ \A t \in Task :
          /\ WF_vars(ReadOwnPending(t)) /\ WF_vars(ReadNew(t))
          /\ WF_vars(\E idle \in SUBSET Pending : Reclaim(t, idle))
          /\ WF_vars(BatchStep(t))
    /\ \A w \in Watchdog : WF_vars(TrimStep(w))
    /\ \A w \in Worker : WF_vars(Restart(w))

FairSpec == Spec /\ Fairness

----------------------------------------------------------------------------
(* What the drain owes.                                                    *)

Settled(id) == IF log[id] = Malformed THEN id \in dead ELSE rows[id] = 1

Done(id) == id <= delivered /\ pel[id] = NoWorker

\* Nobody can record the entry any more: gone from the stream, in no hands.
Lost(id) ==
    /\ id \notin stream
    /\ ~Settled(id)
    /\ \A t \in Task : id \notin got[t]

\* Redelivery, reclaiming and two tasks holding the same batch never make two
\* rows of one event, and a malformed entry never makes one
\* (rollups.INSERT_USAGE_SQL: ON CONFLICT DO NOTHING).
RowOncePerEvent ==
    \A id \in EntryId :
        /\ rows[id] <= 1
        /\ rows[id] = 1 => id <= delivered /\ log[id] # Malformed

\* An entry leaves the pending list only when its row is committed or it is in
\* the dead-letter stream, through every crash, failed step, reclaim and
\* double delivery; the one exception is an entry trimmed while it was pending
\* (run_once: "Only now. Everything above is either durable in Postgres or safely
\* repeatable.").
DoneIsSettled ==
    \A id \in 1 .. Len(log) : Done(id) => Settled(id) \/ id \in overrun

\* A committed event's cell is in the dirty set before its entry is
\* acknowledged, so a crash between the two replays the mark
\* (_mark_progress: "Before the XACK, so a crash here replays").
DoneIsMarked ==
    \A id \in 1 .. Len(log) :
        Done(id) /\ log[id] # Malformed => log[id] \in dirty \/ id \in overrun

\* A request captured in the stream can be lost only by the trim that removes
\* a pending entry: no crash, failure, reclaim or trim of finished entries
\* loses one (ADR-0018, run_once, trim_drained).
LostOnlyByOverrun == \A id \in 1 .. Len(log) : Lost(id) => id \in overrun

\* An entry nobody was handed yet is never trimmed.
UndeliveredStays == \A id \in 1 .. Len(log) : id > delivered => id \in stream

\* A trim whose point is the oldest pending id never removes a pending entry,
\* whatever is delivered, claimed or acked between XPENDING and XTRIM
\* (trim_drained: "a pending batch is never trimmed out from under a crashed
\* worker", on the branch that saw one pending).
PendingBranchSpares ==
    [][\A w \in Watchdog :
          TrimStream(w) /\ trim[w].by = "pending" => overrun' = overrun]_vars

\* What run_once's comment (drain.py:250) and trim_drained's docstring claim of
\* every trim: no pending entry is ever removed from the stream.
TrimSparesPending == overrun = {}

\* Every captured entry is eventually committed or dead-lettered and
\* acknowledged: a batch whose step failed in a live process, or whose process
\* died, is redelivered (run_forever, _read_own_pending, _reclaim_abandoned).
EveryEntryFinishes ==
    \A id \in EntryId : (id <= Len(log)) ~> Done(id)

\* Once captures stop, trim_drained brings the stream down to the single last
\* delivered entry: acknowledged business does not fill the stream bound.
StreamIsTrimmed == (Len(log) = MaxEntries) ~> (stream = {MaxEntries})
=============================================================================
