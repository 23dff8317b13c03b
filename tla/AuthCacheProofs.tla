-------------------------- MODULE AuthCacheProofs --------------------------
(* Proofs about the authentication cache: types, and the windows in which  *)
(* a revoked key may still be served.                                      *)
EXTENDS AuthCache, TLAPS

\* The last moment at which the key was live, or may have been.
LastLive == IF key = "revoked" THEN since ELSE clock

\* A positive entry speaks for the key up to a bound after LastLive, whoever
\* wrote it; a negative one against it up to a bound after the key's issue.
EntryBound(e) ==
    /\ e.kind = "positive" =>
         /\ key # "absent"
         /\ e.fresh <= LastLive + TTL
         /\ e.expires <= LastLive + Ceiling + DbTimeout + CacheTimeout
    /\ e.kind = "unknown" =>
         /\ key = "absent" => e.expires <= clock + TTL
         /\ key = "live" => e.expires <= since + TTL + DbTimeout + CacheTimeout

Existing(e) == e.kind # "none" => clock < e.expires

\* What a request carries from step to step.
RequestBound(r) ==
    /\ at[r] <= clock
    /\ pc[r] # "done" => answer[r] = "none"
    /\ pc[r] \in {"idle", "store", "done"} => seen[r].kind = "none"
    /\ EntryBound(seen[r])
    /\ pc[r] = "resolve" =>
         /\ clock <= at[r] + CacheTimeout
         /\ seen[r].kind # "none" => at[r] < seen[r].expires
    /\ pc[r] = "lookup" =>
         /\ clock <= at[r] + DbTimeout
         /\ seen[r].kind # "none" => at[r] < seen[r].expires + CacheTimeout
    /\ pc[r] = "store" =>
         /\ clock <= at[r] + DbTimeout + CacheTimeout
         /\ found[r] = "live" => key # "absent" /\ at[r] <= LastLive
         /\ found[r] = "absent" /\ key = "live" => at[r] <= since
         /\ found[r] = "revoked" => key = "revoked"

AnswerBound(r) ==
    /\ answer[r] = "admitted" /\ key = "revoked" => at[r] < since + TTL
    /\ answer[r] = "stale" =>
         /\ key # "absent"
         /\ key = "revoked" =>
              at[r] < since + Ceiling + DbTimeout + 2 * CacheTimeout
    /\ answer[r] = "refused" /\ key = "live" =>
         at[r] < since + TTL + DbTimeout + 2 * CacheTimeout

WindowInv ==
    /\ TypeOK
    /\ EntryBound(cache) /\ EntryBound(saved)
    /\ Existing(cache) /\ Existing(saved)
    /\ \A r \in Requests : RequestBound(r) /\ AnswerBound(r)

\* A request that can no longer find the key live.
TurnsAway(r) ==
    /\ seen[r].kind # "positive"
    /\ pc[r] = "store" => found[r] = "revoked"
    /\ answer[r] \notin {"admitted", "stale"}

KnownInv ==
    /\ known =>
         /\ key = "revoked"
         /\ cache.kind # "positive"
         /\ \A r \in Requests : pc[r] = "store" => found[r] = "revoked"
    /\ \A r \in Requests : after[r] => key = "revoked" /\ TurnsAway(r)

----------------------------------------------------------------------------
(* Deadlines                                                               *)

\* A deadline floored to a second is a whole second and never late.
LEMMA Floored ==
    ASSUME NEW t \in Nat
    PROVE  /\ FreshUntil(t) \in Nat
           /\ FreshUntil(t) <= t + TTL
           /\ FreshUntil(t) % Second = 0
<1>1. Second \in Nat \ {0} /\ TTL \in Nat
  BY TimeAssumption
<1>2. ASSUME NEW x \in Nat
      PROVE  /\ (x \div Second) * Second \in Nat
             /\ (x \div Second) * Second <= x
             /\ ((x \div Second) * Second) % Second = 0
  BY <1>1, SMTT(30)
<1>3. t + TTL \in Nat
  BY <1>1
<1>. QED  BY <1>2, <1>3 DEF FreshUntil

\* What a request writes is an entry with such a deadline.
LEMMA NewEntryType ==
    ASSUME NEW row \in {"absent", "live", "revoked"}, NEW s \in Nat, NEW t \in Nat
    PROVE  NewEntry(row, s, t) \in Entry /\ NewEntry(row, s, t).fresh % Second = 0
<1>1. t + Ceiling \in Nat /\ t + TTL \in Nat /\ 0 % Second = 0
  BY TimeAssumption
<1>2. FreshUntil(s) \in Nat /\ FreshUntil(s) % Second = 0
  BY Floored
<1>. QED  BY <1>1, <1>2 DEF NewEntry, Entry

\* So is what Redis has when it has nothing.
LEMMA NoEntryType == NoEntry \in Entry /\ NoEntry.fresh % Second = 0
  BY TimeAssumption DEF NoEntry, Entry

----------------------------------------------------------------------------
(* Types                                                                   *)

\* The types at the start.
LEMMA InitType == Init => TypeOK
<1> SUFFICES ASSUME Init PROVE TypeOK
  OBVIOUS
<1>1. known \in BOOLEAN /\ after \in [Requests -> BOOLEAN]
  BY Zenon DEF Init
<1>2. /\ cache \in Entry /\ cache.fresh % Second = 0
      /\ saved \in Entry /\ saved.fresh % Second = 0
      /\ seen \in [Requests -> Entry]
  BY NoEntryType DEF Init
<1>. QED  BY <1>1, <1>2, TimeAssumption DEF Init, TypeOK

\* Every step keeps them.
LEMMA NextType == TypeOK /\ [Next]_vars => TypeOK'
<1> SUFFICES ASSUME TypeOK, [Next]_vars PROVE TypeOK'
  OBVIOUS
<1> USE DEF TypeOK, keyVars, cacheVars, requestVars
<1>1. CASE IssueKey \/ RevokeKey
  BY <1>1 DEF IssueKey, RevokeKey
<1>2. ASSUME NEW r \in Requests, RequestStep(r) PROVE TypeOK'
  <2>1. CASE Fetch(r)
    BY <2>1 DEF Fetch
  <2>5. CASE FetchFails(r)
    BY <2>5, NoEntryType DEF FetchFails, Answered
  <2>6. CASE Finish(r)
    <3>1. after' \in [Requests -> BOOLEAN]
      BY <2>6, Zenon DEF Finish
    <3>2. 0 \in 0 .. MaxTime
      BY TimeAssumption
    <3>. QED  BY <2>6, <3>1, <3>2 DEF Finish
  <2>2. CASE ResolveFresh(r) \/ ResolveMiss(r)
    BY <2>2, NoEntryType DEF ResolveFresh, ResolveMiss, Answered, Decode
  <2>3. CASE LookupByHash(r) \/ LookupFails(r)
    BY <2>3, NoEntryType DEF LookupByHash, LookupFails, Answered
  <2>4. CASE Store(r) \/ StoreFails(r)
    <3>1. at[r] \in Nat /\ clock \in Nat /\ found[r] \in {"absent", "live", "revoked"}
      OBVIOUS
    <3>2. /\ NewEntry(found[r], at[r], clock) \in Entry
          /\ NewEntry(found[r], at[r], clock).fresh % Second = 0
      BY <3>1, NewEntryType
    <3>3. cache' \in Entry /\ cache'.fresh % Second = 0 /\ known' \in BOOLEAN
      BY <2>4, <3>2 DEF Store, StoreFails, Write
    <3>. QED  BY <2>4, <3>3, NoEntryType DEF Store, StoreFails, Answered
  <2>. QED  BY <1>2, <2>1, <2>2, <2>3, <2>4, <2>5, <2>6 DEF RequestStep
<1>3. CASE Fsync \/ Restart
  <2>1. known' \in BOOLEAN
    BY <1>3, Zenon DEF Fsync, Restart
  <2>. QED  BY <1>3, <2>1, TimeAssumption DEF Fsync, Restart
<1>4. CASE Tick
  BY <1>4, TimeAssumption, NoEntryType DEF Tick, Visible
<1>5. CASE UNCHANGED vars
  BY <1>5 DEF vars
<1>. QED  BY <1>1, <1>2, <1>3, <1>4, <1>5 DEF Next

\* Every variable keeps its type, and every deadline is a whole second.
THEOREM TypeCorrect == Spec => []TypeOK
<1>1. Init => TypeOK
  BY InitType
<1>2. TypeOK /\ [Next]_vars => TypeOK'
  BY NextType
<1>. QED  BY <1>1, <1>2, PTL DEF Spec

----------------------------------------------------------------------------
(* The windows                                                             *)

\* The entry a request writes is within the bounds: the row it read was so at a
\* moment between its clock reading and now, which the timeouts keep close.
LEMMA WrittenBound ==
    ASSUME TypeOK, NEW r \in Requests, RequestBound(r), pc[r] = "store"
    PROVE  LET e == NewEntry(found[r], at[r], clock)
           IN  EntryBound(e) /\ Existing(e)
<1>1. /\ clock \in Nat /\ at[r] \in Nat /\ since \in Nat /\ since <= clock
      /\ found[r] \in {"absent", "live", "revoked"}
      /\ key \in {"absent", "live", "revoked"}
  BY DEF TypeOK
<1>2. FreshUntil(at[r]) \in Nat /\ FreshUntil(at[r]) <= at[r] + TTL
  BY <1>1, Floored
<1>. QED
  BY <1>1, <1>2, TimeAssumption
  DEF RequestBound, EntryBound, Existing, NewEntry, LastLive

\* Each step keeps the bounds.
LEMMA NextWindow == WindowInv /\ [Next]_vars => WindowInv'
<1> SUFFICES ASSUME WindowInv, [Next]_vars PROVE WindowInv'
  OBVIOUS
<1>1. TypeOK /\ TypeOK'
  BY NextType DEF WindowInv
<1>2. /\ clock \in Nat /\ clock' \in Nat /\ since \in Nat /\ since' \in Nat
      /\ since <= clock /\ since' <= clock'
      /\ key \in {"absent", "live", "revoked"} /\ key' \in {"absent", "live", "revoked"}
      /\ cache \in Entry /\ saved \in Entry
      /\ \A r \in Requests :
           /\ at[r] \in Nat /\ seen[r] \in Entry
           /\ found[r] \in {"absent", "live", "revoked"}
  BY <1>1 DEF TypeOK
<1>. USE TimeAssumption DEF WindowInv, keyVars, cacheVars, requestVars, Entry
<1>3. CASE IssueKey \/ RevokeKey
  <2>1. EntryBound(cache)' /\ EntryBound(saved)' /\ Existing(cache)' /\ Existing(saved)'
    BY <1>1, <1>2, <1>3 DEF IssueKey, RevokeKey, EntryBound, Existing, LastLive
  <2>2. ASSUME NEW r \in Requests PROVE RequestBound(r)' /\ AnswerBound(r)'
    <3>1. EntryBound(seen[r])'
      BY <1>1, <1>2, <1>3 DEF IssueKey, RevokeKey, RequestBound, EntryBound, LastLive
    <3>2. RequestBound(r)'
      BY <1>1, <1>2, <1>3, <3>1 DEF IssueKey, RevokeKey, RequestBound, LastLive
    <3>3. AnswerBound(r)'
      BY <1>1, <1>2, <1>3 DEF IssueKey, RevokeKey, RequestBound, AnswerBound
    <3>. QED  BY <3>2, <3>3
  <2>. QED  BY <1>1, <2>1, <2>2
<1>5. CASE Tick
  <2>1. clock' = clock + 1 /\ UNCHANGED <<key, since, pc, at, seen, found, answer>>
    BY <1>5 DEF Tick
  <2>2. EntryBound(cache)' /\ EntryBound(saved)' /\ Existing(cache)' /\ Existing(saved)'
    BY <1>1, <1>2, <1>5, <2>1 DEF Tick, Visible, NoEntry, EntryBound, Existing, LastLive
  <2>3. ASSUME NEW r \in Requests PROVE RequestBound(r)' /\ AnswerBound(r)'
    <3>1. EntryBound(seen[r])'
      BY <1>1, <1>2, <2>1 DEF RequestBound, EntryBound, LastLive
    <3>2. clock + 1 <= Deadline(r) /\ pc[r] \in {"idle", "resolve", "lookup", "store", "done"}
      BY <1>1, <1>2, <1>5 DEF Tick, Deadline, TypeOK
    <3>3. RequestBound(r)'
      BY <1>1, <1>2, <2>1, <3>1, <3>2 DEF RequestBound, LastLive, Deadline
    <3>4. AnswerBound(r)'
      BY <2>1 DEF AnswerBound
    <3>. QED  BY <3>3, <3>4
  <2>. QED  BY <1>1, <2>2, <2>3
<1>6. CASE Fsync \/ Restart \/ UNCHANGED vars
  <2>1. /\ UNCHANGED <<clock, key, since, pc, at, seen, found, answer>>
        /\ cache' \in {cache, saved} /\ saved' \in {cache, saved}
    BY <1>6 DEF Fsync, Restart, vars
  <2>2. EntryBound(cache)' /\ EntryBound(saved)' /\ Existing(cache)' /\ Existing(saved)'
    BY <2>1 DEF EntryBound, Existing, LastLive
  <2>3. ASSUME NEW r \in Requests PROVE RequestBound(r)' /\ AnswerBound(r)'
    BY <2>1 DEF RequestBound, AnswerBound, EntryBound, LastLive
  <2>. QED  BY <1>1, <2>2, <2>3
<1>4. ASSUME NEW r \in Requests, RequestStep(r) PROVE WindowInv'
  <2>1. UNCHANGED <<clock, key, since, saved>>
    BY <1>4 DEF RequestStep, Fetch, FetchFails, ResolveFresh, ResolveMiss, LookupByHash,
                LookupFails, Store, StoreFails, Finish
  <2>2. ASSUME NEW q \in Requests, q # r PROVE RequestBound(q)' /\ AnswerBound(q)'
    <3>1. UNCHANGED <<pc[q], at[q], seen[q], found[q], answer[q]>>
      BY <1>1, <1>4, <2>2 DEF TypeOK, RequestStep, Fetch, FetchFails, ResolveFresh, ResolveMiss,
           LookupByHash, LookupFails, Store, StoreFails, Finish, Answered
    <3>. QED  BY <2>1, <2>2, <3>1 DEF RequestBound, AnswerBound, EntryBound, LastLive
  <2>3. EntryBound(cache)' /\ EntryBound(saved)' /\ Existing(cache)' /\ Existing(saved)'
    <3>1. CASE UNCHANGED cache
      BY <2>1, <3>1 DEF EntryBound, Existing, LastLive
    <3>2. CASE Write(r)
      <4>1. pc[r] = "store" /\ cache' = NewEntry(found[r], at[r], clock)
        BY <3>2 DEF Write
      <4>2. EntryBound(cache') /\ Existing(cache')
        BY <1>1, <4>1, WrittenBound
      <4>. QED  BY <2>1, <4>2 DEF EntryBound, Existing, LastLive
    <3>. QED  BY <1>4, <3>1, <3>2
              DEF RequestStep, Fetch, FetchFails, ResolveFresh, ResolveMiss, LookupByHash,
                  LookupFails, Store, StoreFails, Finish
  <2>4. RequestBound(r)' /\ AnswerBound(r)'
    <3>. USE <1>1, <1>2, <2>1 DEF TypeOK
    <3>1. CASE Fetch(r)
      BY <3>1 DEF Fetch, RequestBound, AnswerBound, EntryBound, Existing, LastLive
    <3>2. CASE ResolveMiss(r)
      BY <3>2 DEF ResolveMiss, RequestBound, AnswerBound, EntryBound, LastLive
    <3>3. CASE LookupByHash(r)
      BY <3>3 DEF LookupByHash, NoEntry, RequestBound, AnswerBound, EntryBound, LastLive
    <3>4. CASE Finish(r)
      BY <3>4 DEF Finish, RequestBound, AnswerBound, EntryBound, LastLive
    <3>5. CASE FetchFails(r) \/ ResolveFresh(r) \/ LookupFails(r) \/ Store(r) \/ StoreFails(r)
      <4>1. /\ pc'[r] = "done" /\ seen'[r] = NoEntry
            /\ at'[r] \in {at[r], clock}
        BY <3>5 DEF FetchFails, ResolveFresh, LookupFails, Store, StoreFails, Answered
      <4>2. RequestBound(r)'
        BY <4>1 DEF RequestBound, EntryBound, NoEntry
      <4>3. AnswerBound(r)'
        <5>1. CASE FetchFails(r) \/ StoreFails(r)
          BY <5>1 DEF FetchFails, StoreFails, Answered, AnswerBound
        <5>2. CASE ResolveFresh(r)
          BY <5>2 DEF ResolveFresh, IsFresh, Decode, Answered, AnswerBound, RequestBound,
                      EntryBound, LastLive
        <5>3. CASE LookupFails(r)
          BY <5>3 DEF LookupFails, Answered, AnswerBound, RequestBound, EntryBound, LastLive
        <5>4. CASE Store(r)
          BY <5>4 DEF Store, Write, Answered, AnswerBound, RequestBound, LastLive
        <5>. QED  BY <3>5, <5>1, <5>2, <5>3, <5>4
      <4>. QED  BY <4>2, <4>3
    <3>. QED  BY <1>4, <3>1, <3>2, <3>3, <3>4, <3>5 DEF RequestStep
  <2>. QED  BY <1>1, <2>2, <2>3, <2>4
<1>. QED  BY <1>3, <1>4, <1>5, <1>6 DEF Next

\* The bounds hold of every reachable state.
THEOREM WindowInvariant == Spec => []WindowInv
<1>1. Init => WindowInv
  <2> SUFFICES ASSUME Init PROVE WindowInv
    OBVIOUS
  <2>1. TypeOK
    BY InitType
  <2>2. /\ EntryBound(cache) /\ EntryBound(saved)
        /\ Existing(cache) /\ Existing(saved)
    BY DEF Init, EntryBound, Existing, NoEntry
  <2>3. ASSUME NEW r \in Requests PROVE RequestBound(r) /\ AnswerBound(r)
    <3>1. /\ pc[r] = "idle" /\ at[r] = 0 /\ clock = 0
          /\ seen[r] = NoEntry /\ answer[r] = "none"
      BY DEF Init
    <3>. QED  BY <3>1 DEF RequestBound, AnswerBound, EntryBound, NoEntry
  <2>. QED  BY <2>1, <2>2, <2>3 DEF WindowInv
<1>. QED  BY <1>1, NextWindow, PTL DEF Spec

\* ADR-0015's guarantee for any number of requests and any timeouts, including
\* entries that come back with a restarted Redis: no fresh entry and no lookup
\* admits a revoked key TTL or more after the revocation.
THEOREM RevokedWithinWindowHolds == Spec => []RevokedWithinWindow
<1>1. WindowInv => RevokedWithinWindow
  BY DEF WindowInv, AnswerBound, RevokedWithinWindow
<1>. QED  BY <1>1, WindowInvariant, PTL

\* ADR-0019's amendment: with lookups failing, the stale ceiling and the
\* timeouts bound how long a revoked key is served.
THEOREM StaleWithinCeilingHolds == Spec => []StaleWithinCeiling
<1>1. WindowInv => StaleWithinCeiling
  BY DEF WindowInv, AnswerBound, StaleWithinCeiling
<1>. QED  BY <1>1, WindowInvariant, PTL

\* A key that is live is refused for no longer than a negative entry and the
\* timeouts allow.
THEOREM IssuedWithinWindowHolds == Spec => []IssuedWithinWindow
<1>1. WindowInv => IssuedWithinWindow
  BY DEF WindowInv, AnswerBound, IssuedWithinWindow
<1>. QED  BY <1>1, WindowInvariant, PTL

----------------------------------------------------------------------------
(* A known answer                                                          *)

\* Each step keeps what is known.
LEMMA NextKnown == WindowInv /\ KnownInv /\ [Next]_vars => KnownInv'
<1> SUFFICES ASSUME WindowInv, KnownInv, [Next]_vars PROVE KnownInv'
  OBVIOUS
<1>1. /\ key \in {"absent", "live", "revoked"}
      /\ \A r \in Requests :
           /\ found[r] \in {"absent", "live", "revoked"}
           /\ pc[r] = "store" /\ found[r] = "revoked" => key = "revoked"
           /\ pc[r] # "done" => answer[r] = "none"
  BY DEF WindowInv, TypeOK, RequestBound
<1>. USE DEF keyVars, cacheVars, requestVars
<1>2. CASE IssueKey \/ RevokeKey \/ Tick \/ Fsync \/ Restart \/ UNCHANGED vars
  <2>1. UNCHANGED <<pc, seen, found, answer, after>> /\ (key = "revoked" => key' = "revoked")
    BY <1>2 DEF IssueKey, RevokeKey, Tick, Fsync, Restart, vars
  <2>2. known' => known /\ cache' \in {cache, NoEntry}
    BY <1>2 DEF IssueKey, RevokeKey, Tick, Visible, Fsync, Restart, vars
  <2>. QED  BY <2>1, <2>2 DEF KnownInv, TurnsAway, NoEntry
<1>3. ASSUME NEW r \in Requests, RequestStep(r) PROVE KnownInv'
  <2>1. UNCHANGED key
    BY <1>3 DEF RequestStep, Fetch, FetchFails, ResolveFresh, ResolveMiss, LookupByHash,
                LookupFails, Store, StoreFails, Finish
  <2>2. ASSUME NEW q \in Requests, q # r
        PROVE  UNCHANGED <<pc[q], seen[q], found[q], answer[q], after[q]>>
    BY <1>3, <2>2 DEF WindowInv, TypeOK, RequestStep, Fetch, FetchFails, ResolveFresh,
         ResolveMiss, LookupByHash, LookupFails, Store, StoreFails, Finish, Answered
  <2>3. after'[r] => key = "revoked" /\ TurnsAway(r)'
    <3>. USE <1>1 DEF WindowInv, TypeOK, KnownInv, TurnsAway
    <3>1. CASE Fetch(r)
      BY <3>1 DEF Fetch
    <3>2. CASE LookupByHash(r) \/ ResolveMiss(r)
      BY <3>2 DEF LookupByHash, ResolveMiss, NoEntry
    <3>3. CASE FetchFails(r) \/ ResolveFresh(r) \/ LookupFails(r)
      BY <3>3 DEF FetchFails, ResolveFresh, LookupFails, Answered, Decode, NoEntry
    <3>4. CASE Store(r) \/ StoreFails(r)
      <4>1. after' = after /\ pc[r] = "store"
        BY <3>4 DEF Store, StoreFails, Write
      <4>2. /\ pc'[r] = "done" /\ seen'[r] = NoEntry
            /\ found[r] # "live" => answer'[r] \in {"refused", "unavailable"}
        BY <3>4 DEF Store, StoreFails, Answered
      <4>3. after[r] => key = "revoked" /\ found[r] = "revoked"
        BY <4>1
      <4>. QED  BY <4>1, <4>2, <4>3, <2>1 DEF NoEntry
    <3>5. CASE Finish(r)
      BY <3>5 DEF Finish
    <3>. QED  BY <1>3, <3>1, <3>2, <3>3, <3>4, <3>5 DEF RequestStep
  <2>4. known' => /\ key = "revoked"
                  /\ cache'.kind # "positive"
                  /\ \A q \in Requests : pc'[q] = "store" => found'[q] = "revoked"
    <3>1. CASE UNCHANGED <<cache, known>>
      <4>1. known' => (pc'[r] = "store" => found'[r] = "revoked")
        BY <1>1, <1>3, <3>1
        DEF KnownInv, WindowInv, TypeOK, RequestStep, Fetch, FetchFails, ResolveFresh,
            ResolveMiss, LookupByHash, LookupFails, Store, StoreFails, Finish, Answered
      <4>. QED  BY <2>2, <3>1, <4>1 DEF KnownInv
    <3>2. CASE (Store(r) \/ StoreFails(r)) /\ Write(r)
      <4>1. pc'[r] = "done"
        BY <3>2 DEF WindowInv, TypeOK, Store, StoreFails, Answered
      <4>2. pc[r] = "store" /\ cache' = NewEntry(found[r], at[r], clock)
        BY <3>2 DEF Write
      <4>3. known' => \A q \in Requests : pc[q] = "store" => found[q] = "revoked"
        BY <3>2 DEF Write, KnownInv
      <4>4. found[r] = "revoked" => cache'.kind # "positive" /\ key = "revoked"
        BY <1>1, <4>2 DEF NewEntry
      <4>. QED  BY <2>2, <4>1, <4>2, <4>3, <4>4
    <3>. QED  BY <1>3, <3>1, <3>2
              DEF RequestStep, Fetch, FetchFails, ResolveFresh, ResolveMiss, LookupByHash,
                  LookupFails, Store, StoreFails, Finish
  <2>. QED  BY <2>1, <2>2, <2>3, <2>4 DEF KnownInv, TurnsAway
<1>. QED  BY <1>2, <1>3 DEF Next

\* Once Redis was told of a revocation that no older lookup can contradict,
\* no later request is admitted, fresh or stale, whatever fails.
THEOREM KnownRevokedStaysRefusedHolds == Spec => []KnownRevokedStaysRefused
<1>1. Init => KnownInv
  BY DEF Init, KnownInv
<1>2. KnownInv => KnownRevokedStaysRefused
  BY DEF KnownInv, TurnsAway, KnownRevokedStaysRefused
<1>. QED  BY <1>1, <1>2, NextKnown, WindowInvariant, PTL DEF Spec
=============================================================================
