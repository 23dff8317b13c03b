----------------------------- MODULE AuthCache -----------------------------
(***************************************************************************)
(* Resolution of one API key through the shared authentication cache       *)
(* (api/auth.py, api/metering.py, repositories/keys.py).                   *)
(*                                                                         *)
(* A request reads the key's Redis entry, decides by the entry while it is *)
(* fresh, and otherwise looks the key up in Postgres and writes what it    *)
(* found back: a positive entry carries the second its freshness ends and  *)
(* outlives it, to be served stale when a lookup fails; a negative entry   *)
(* is fresh while it exists. Revocation only sets revoked_at: no entry is  *)
(* deleted.                                                                *)
(*                                                                         *)
(* Keys have different digests, hence different rows and entries: one key  *)
(* stands for each. Time is counted in ticks of 1/Second s on one clock,   *)
(* which the API instances and Redis share. Redis keeps its entries across *)
(* a restart up to its last fsync (--appendonly yes).                      *)
(***************************************************************************)
EXTENDS Integers

CONSTANTS
    Requests,     \* requests in progress, on any instance
    Second,       \* ticks in a second
    TTL,          \* auth_cache_ttl_seconds, in ticks
    Ceiling,      \* auth_stale_ceiling_seconds, in ticks
    DbTimeout,    \* db_timeout_seconds, in ticks
    CacheTimeout, \* the longest a cache command or its reply is under way
    MaxTime,      \* bound: ticks
    MaxRestarts   \* bound: restarts of Redis

ASSUME TimeAssumption ==
    /\ Second \in Nat \ {0}
    /\ TTL \in Nat \ {0}
    /\ Ceiling \in Nat /\ TTL <= Ceiling
    /\ DbTimeout \in Nat /\ CacheTimeout \in Nat
    /\ MaxTime \in Nat /\ MaxRestarts \in Nat

VARIABLES
    clock,
    key,        \* the api_keys row: absent, live or revoked
    since,      \* when it became that: created_at, or revoked_at
    cache,      \* the entry Redis holds
    saved,      \* the entry as Redis last wrote it to disk
    restarts,   \* restarts of Redis so far
    pc,         \* where each request is
    at,         \* the request's latest reading of the clock
    seen,       \* the entry it read
    found,      \* the row it read
    answer,     \* what it was told
    known,      \* history: Redis was told of the revocation when no older
                \* lookup was left to contradict it, and has not restarted
    after       \* history: the request read the cache when that was so

keyVars == <<key, since>>
cacheVars == <<cache, saved, restarts>>
requestVars == <<pc, at, seen, found, answer, after>>
vars == <<clock, keyVars, cacheVars, requestVars, known>>

Entry == [kind : {"none", "unknown", "positive"}, fresh : Nat, expires : Nat]
NoEntry == [kind |-> "none", fresh |-> 0, expires |-> 0]

TypeOK ==
    /\ clock \in 0 .. MaxTime
    /\ key \in {"absent", "live", "revoked"}
    /\ since \in 0 .. clock
    /\ cache \in Entry
    /\ saved \in Entry
    /\ restarts \in 0 .. MaxRestarts
    /\ pc \in [Requests -> {"idle", "resolve", "lookup", "store", "done"}]
    /\ at \in [Requests -> 0 .. MaxTime]
    /\ seen \in [Requests -> Entry]
    /\ found \in [Requests -> {"absent", "live", "revoked"}]
    /\ answer \in [Requests -> {"none", "admitted", "stale", "refused",
                                "unavailable"}]
    /\ known \in BOOLEAN
    /\ after \in [Requests -> BOOLEAN]
    /\ cache.fresh % Second = 0 /\ saved.fresh % Second = 0

Init ==
    /\ clock = 0
    /\ key = "absent" /\ since = 0
    /\ cache = NoEntry /\ saved = NoEntry /\ restarts = 0
    /\ pc = [r \in Requests |-> "idle"]
    /\ at = [r \in Requests |-> 0]
    /\ seen = [r \in Requests |-> NoEntry]
    /\ found = [r \in Requests |-> "absent"]
    /\ answer = [r \in Requests |-> "none"]
    /\ known = FALSE
    /\ after = [r \in Requests |-> FALSE]

----------------------------------------------------------------------------
(* Entries                                                                 *)

\* A mutant of Visible: entries written without EX.
NoExpiry(e, t) == e

\* What is left of an entry at time t.
Visible(e, t) == IF t < e.expires THEN e ELSE NoEntry

\* A mutant of FreshUntil: the deadline rounded up.
RoundUp(t) == ((t + TTL + Second - 1) \div Second) * Second

\* encode: int() floors the deadline to a whole second.
FreshUntil(t) == ((t + TTL) \div Second) * Second

\* A negative entry is fresh while it exists; a positive one has a deadline.
IsFresh(e, t) == \/ e.kind = "unknown"
                 \/ e.kind = "positive" /\ t < e.fresh

\* A mutant of NewEntry: negative entries live to the stale ceiling as well.
KeepNegative(row, s, t) ==
    IF row = "live"
    THEN [kind |-> "positive", fresh |-> FreshUntil(s), expires |-> t + Ceiling]
    ELSE [kind |-> "unknown", fresh |-> 0, expires |-> t + Ceiling]

\* A mutant of NewEntry: an entry's deadlines never floored.
Unfloored(row, s, t) ==
    IF row = "live"
    THEN [kind |-> "positive", fresh |-> s + TTL, expires |-> t + Ceiling]
    ELSE [kind |-> "unknown", fresh |-> 0, expires |-> t + TTL]

\* The value resolve writes at time t for a row, looked up at time s.
NewEntry(row, s, t) ==
    IF row = "live"
    THEN [kind |-> "positive", fresh |-> FreshUntil(s), expires |-> t + Ceiling]
    ELSE [kind |-> "unknown", fresh |-> 0, expires |-> t + TTL]

Decode(e) == IF e.kind = "positive" THEN "admitted" ELSE "refused"

\* The end of the request's present wait: every call has its timeout.
Deadline(r) ==
    CASE pc[r] = "resolve" -> at[r] + CacheTimeout
      [] pc[r] = "lookup" -> at[r] + DbTimeout
      [] pc[r] = "store" -> at[r] + DbTimeout + CacheTimeout
      [] OTHER -> MaxTime

\* The request is over: of its locals, only the clock it read is kept.
Answered(r, what) ==
    /\ pc' = [pc EXCEPT ![r] = "done"]
    /\ answer' = [answer EXCEPT ![r] = what]
    /\ seen' = [seen EXCEPT ![r] = NoEntry]
    /\ found' = [found EXCEPT ![r] = "absent"]

----------------------------------------------------------------------------
(* Administration                                                          *)

\* A key that exists already is adopted as it is: no change.
IssueKey ==
    /\ key = "absent"
    /\ key' = "live"
    /\ since' = clock
    /\ UNCHANGED <<clock, cacheVars, requestVars, known>>

RevokeKey ==
    /\ key = "live"
    /\ key' = "revoked"
    /\ since' = clock
    /\ UNCHANGED <<clock, cacheVars, requestVars, known>>

----------------------------------------------------------------------------
(* A request                                                               *)

Fetch(r) ==
    /\ pc[r] = "idle"
    /\ pc' = [pc EXCEPT ![r] = "resolve"]
    /\ at' = [at EXCEPT ![r] = clock]
    /\ seen' = [seen EXCEPT ![r] = cache]
    /\ after' = [after EXCEPT ![r] = known]
    /\ UNCHANGED <<clock, keyVars, cacheVars, found, answer, known>>

FetchFails(r) ==
    /\ pc[r] = "idle"
    /\ Answered(r, "unavailable")
    /\ UNCHANGED <<clock, keyVars, cacheVars, at, known, after>>

\* resolve reads the clock before it looks at the entry.
ResolveFresh(r) ==
    /\ pc[r] = "resolve"
    /\ IsFresh(seen[r], clock)
    /\ at' = [at EXCEPT ![r] = clock]
    /\ Answered(r, Decode(seen[r]))
    /\ UNCHANGED <<clock, keyVars, cacheVars, known, after>>

ResolveMiss(r) ==
    /\ pc[r] = "resolve"
    /\ ~ IsFresh(seen[r], clock)
    /\ at' = [at EXCEPT ![r] = clock]
    /\ pc' = [pc EXCEPT ![r] = "lookup"]
    /\ UNCHANGED <<clock, keyVars, cacheVars, seen, found, answer, known, after>>

LookupByHash(r) ==
    /\ pc[r] = "lookup"
    /\ found' = [found EXCEPT ![r] = key]
    /\ seen' = [seen EXCEPT ![r] = NoEntry]
    /\ pc' = [pc EXCEPT ![r] = "store"]
    /\ UNCHANGED <<clock, keyVars, cacheVars, at, answer, known, after>>

\* Postgres unreachable or too slow: stale-while-error, or 503.
LookupFails(r) ==
    /\ pc[r] = "lookup"
    /\ Answered(r, IF seen[r].kind = "positive" THEN "stale" ELSE "unavailable")
    /\ UNCHANGED <<clock, keyVars, cacheVars, at, known, after>>

\* A mutant of Write: a row that is not live is not cached.
WriteLive(r) ==
    /\ pc[r] = "store"
    /\ cache' = IF found[r] = "live" THEN NewEntry("live", at[r], clock) ELSE cache
    /\ known' = \/ known
                \/ /\ found[r] = "revoked"
                   /\ \A q \in Requests : pc[q] = "store" => found[q] = "revoked"

\* The SET takes effect.
Write(r) ==
    /\ pc[r] = "store"
    /\ cache' = NewEntry(found[r], at[r], clock)
    /\ known' = \/ known
                \/ /\ found[r] = "revoked"
                   /\ \A q \in Requests : pc[q] = "store" => found[q] = "revoked"

Store(r) ==
    /\ Write(r)
    /\ Answered(r, IF found[r] = "live" THEN "admitted" ELSE "refused")
    /\ UNCHANGED <<clock, keyVars, saved, restarts, at, after>>

\* A RedisError on the SET: it may have taken effect all the same.
StoreFails(r) ==
    /\ pc[r] = "store"
    /\ Write(r) \/ UNCHANGED <<cache, known>>
    /\ Answered(r, "unavailable")
    /\ UNCHANGED <<clock, keyVars, saved, restarts, at, after>>

\* The response is sent and another request begins.
Finish(r) ==
    /\ pc[r] = "done"
    /\ pc' = [pc EXCEPT ![r] = "idle"]
    /\ at' = [at EXCEPT ![r] = 0]
    /\ answer' = [answer EXCEPT ![r] = "none"]
    /\ after' = [after EXCEPT ![r] = FALSE]
    /\ UNCHANGED <<clock, keyVars, cacheVars, seen, found, known>>

----------------------------------------------------------------------------
(* Redis and time                                                          *)

Fsync ==
    /\ saved # cache
    /\ saved' = cache
    /\ UNCHANGED <<clock, keyVars, cache, restarts, requestVars, known>>

Restart ==
    /\ restarts < MaxRestarts
    /\ restarts' = restarts + 1
    /\ cache' = saved
    /\ known' = FALSE
    /\ UNCHANGED <<clock, keyVars, saved, requestVars>>

Tick ==
    /\ clock < MaxTime
    /\ \A r \in Requests : clock < Deadline(r)
    /\ clock' = clock + 1
    /\ cache' = Visible(cache, clock')
    /\ saved' = Visible(saved, clock')
    /\ UNCHANGED <<keyVars, restarts, requestVars, known>>

RequestStep(r) ==
    \/ Fetch(r) \/ FetchFails(r)
    \/ ResolveFresh(r) \/ ResolveMiss(r)
    \/ LookupByHash(r) \/ LookupFails(r)
    \/ Store(r) \/ StoreFails(r)
    \/ Finish(r)

Next ==
    \/ IssueKey \/ RevokeKey
    \/ \E r \in Requests : RequestStep(r)
    \/ Fsync \/ Restart \/ Tick

Spec == Init /\ [][Next]_vars

----------------------------------------------------------------------------
(* Properties                                                              *)

\* A revoked key is admitted on a fresh entry or a lookup only by requests that
\* read the clock less than TTL after the revocation: on every instance, with
\* lookups that were under way when it was revoked, with writes that arrive
\* late, and with the entries a restarted Redis comes back with.
RevokedWithinWindow ==
    \A r \in Requests :
        answer[r] = "admitted" /\ key = "revoked" => at[r] < since + TTL

\* Failing lookups stretch that to the stale ceiling and no further: the
\* ceiling counts from the last write of a lookup that began before the
\* revocation, which the timeouts bound.
StaleWithinCeiling ==
    \A r \in Requests :
        answer[r] = "stale" =>
            /\ key # "absent"
            /\ key = "revoked" =>
                 at[r] < since + Ceiling + DbTimeout + 2 * CacheTimeout

\* A negative entry delays a key issued after it, or during the lookup that
\* writes it, by no more than the short TTL and the timeouts.
IssuedWithinWindow ==
    \A r \in Requests :
        answer[r] = "refused" /\ key = "live" =>
            at[r] < since + TTL + DbTimeout + 2 * CacheTimeout

\* Staleness answers not knowing, never a known answer: once Redis was told of
\* the revocation and no older lookup was left to contradict it, every request
\* that reads the cache later is turned away, whatever lookups fail.
KnownRevokedStaysRefused ==
    \A r \in Requests : after[r] => answer[r] \notin {"admitted", "stale"}

=============================================================================
