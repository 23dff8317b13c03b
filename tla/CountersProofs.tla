--------------------------- MODULE CountersProofs ---------------------------
(***************************************************************************)
(* Proofs about the live counter: that it is exact while the gate serves,  *)
(* and how far a customer can pass its limit.                              *)
(***************************************************************************)
EXTENDS Counters, FiniteSetTheorems, TLAPS

RedisState == [counter : Nat, enforced : BOOLEAN, marker : BOOLEAN, stream : SUBSET Event]

Types ==
    /\ redis \in RedisState /\ saved \in RedisState
    /\ rows \subseteq Event /\ batch \subseteq Event
    /\ req \in [Request -> [step : {"idle", "admitted", "served", "captured"},
                            event : Nat]]
    /\ rebuild \in [Rebuilder -> [step : {"idle", "set", "thresholds", "mark"},
                                  count : Nat]]
    /\ minted \in 0 .. MaxEvents /\ faults \in Nat
    /\ suspect \in BOOLEAN

\* An event's number is new.
Numbered == Billable \cup saved.stream \subseteq 1 .. minted

Served == {r \in Request : req[r].step = "served"}

\* What the drain holds it has not taken from anyone.
BatchInv == batch \subseteq redis.stream \cup rows

\* Serving: the counter is exact, the threshold is there, nobody rebuilds.
ServingInv ==
    redis.marker =>
        /\ redis.enforced
        /\ redis.counter + Cardinality(Broken) = Cardinality(Billable)
        /\ \A w \in Rebuilder : rebuild[w].step = "idle"

\* Not serving: only rows are left and they do not change, so the counter is
\* still zero or the rows' number, and is the latter once the rebuild has set it.
OutageInv ==
    ~redis.marker =>
        /\ redis.stream = {} /\ batch = {}
        /\ \A r \in Request : req[r].step = "idle"
        /\ rebuild["hand"].step = "idle"
        /\ redis.counter \in {0, Cardinality(rows)}
        /\ rebuild["watchdog"].step = "set" =>
             rebuild["watchdog"].count = Cardinality(rows)
        /\ rebuild["watchdog"].step \in {"thresholds", "mark"} =>
             redis.counter = Cardinality(rows)
        /\ rebuild["watchdog"].step = "mark" => redis.enforced

\* A request past the gate has its place among the requests in flight.
PlacesInv == Cardinality(Billable) + Cardinality(Served) < Threshold + Cardinality(Request)

Exact == BatchInv /\ ServingInv /\ OutageInv /\ PlacesInv

IInv == Types /\ Numbered /\ (~suspect => Exact)

----------------------------------------------------------------------------
(* Finite sets.                                                            *)

\* The sets that are counted are finite.
LEMMA Finite ==
    ASSUME Types
    PROVE  /\ IsFiniteSet(Billable) /\ Cardinality(Billable) \in Nat
           /\ IsFiniteSet(rows) /\ Cardinality(rows) \in Nat
           /\ IsFiniteSet(Broken) /\ Cardinality(Broken) \in Nat
           /\ IsFiniteSet(Served) /\ Cardinality(Served) \in Nat
           /\ Cardinality(Request) \in Nat
  <1>1. IsFiniteSet(Event)
    BY CountersAssumption, FS_Interval DEF Event
  <1>2. Billable \in SUBSET Event /\ rows \in SUBSET Event
    BY DEF Types, RedisState, Billable
  <1>3. Broken \in SUBSET Request /\ Served \in SUBSET Request
    BY DEF Broken, Served
  <1>4. IsFiniteSet(Billable) /\ IsFiniteSet(rows)
    BY <1>1, <1>2, FS_Subset
  <1>5. IsFiniteSet(Broken) /\ IsFiniteSet(Served)
    BY <1>3, CountersAssumption, FS_Subset
  <1>. QED  BY <1>4, <1>5, CountersAssumption, FS_CardinalityType

\* Requests past the gate and requests half through their capture have a place
\* each.
LEMMA Places ==
    ASSUME NEW S, NEW B, S \subseteq Request, B \subseteq Request, S \cap B = {}
    PROVE  /\ Cardinality(S) \in Nat /\ Cardinality(B) \in Nat
           /\ Cardinality(S) + Cardinality(B) <= Cardinality(Request)
  <1>1. S \in SUBSET Request /\ B \in SUBSET Request /\ S \cup B \in SUBSET Request
    OBVIOUS
  <1>2. IsFiniteSet(S) /\ IsFiniteSet(B) /\ Cardinality(S \cup B) <= Cardinality(Request)
    BY <1>1, CountersAssumption, FS_Subset
  <1>3. Cardinality(S) \in Nat /\ Cardinality(B) \in Nat
    BY <1>2, FS_CardinalityType
  <1>4. Cardinality(S \cap B) = 0
    BY FS_EmptySet
  <1>5. Cardinality(S \cup B) = Cardinality(S) + Cardinality(B) - Cardinality(S \cap B)
    BY <1>2, FS_Union
  <1>. QED  BY <1>2, <1>3, <1>4, <1>5

\* A request that moves on alone joins the served or leaves them, and the same
\* for the broken.
LEMMA MoveServed ==
    ASSUME Types, NEW r \in Request, NEW to,
           req' = [req EXCEPT ![r] = to]
    PROVE  /\ to.step = "served" => Served' = Served \cup {r}
           /\ to.step # "served" => Served' = Served \ {r}
           /\ to.step = "captured" => Broken' = Broken \cup {r}
           /\ to.step # "captured" => Broken' = Broken \ {r}
  BY DEF Types, Served, Broken

----------------------------------------------------------------------------
(* The invariant.                                                          *)

\* The invariant holds when nothing has been served.
LEMMA InitIInv == Init => IInv
  <1> SUFFICES ASSUME Init PROVE IInv
    OBVIOUS
  <1>1. Types
    <2>1. redis \in RedisState /\ saved \in RedisState
      BY DEF Init, RedisState, EmptyRedis
    <2>2. /\ req \in [Request -> [step : {"idle", "admitted", "served", "captured"},
                                  event : Nat]]
          /\ rebuild \in [Rebuilder -> [step : {"idle", "set", "thresholds", "mark"},
                                        count : Nat]]
      BY DEF Init, NoRequest, NoRebuild
    <2>3. rows \subseteq Event /\ batch \subseteq Event
      BY DEF Init
    <2>4. minted \in 0 .. MaxEvents /\ faults \in Nat
      BY CountersAssumption DEF Init
    <2>5. suspect \in BOOLEAN
      BY DEF Init
    <2>. QED  BY <2>1, <2>2, <2>3, <2>4, <2>5 DEF Types
  <1>2. Billable = {} /\ Broken = {} /\ Served = {} /\ saved.stream = {}
    BY DEF Init, Billable, Broken, Served, EmptyRedis, NoRequest
  <1>3. Numbered
    BY <1>2 DEF Numbered
  <1>4. Cardinality(Request) > 0
    BY CountersAssumption, FS_EmptySet, FS_CardinalityType
  <1>5. Exact
    <2>1. BatchInv /\ ServingInv /\ OutageInv
      BY <1>2, FS_EmptySet DEF Init, BatchInv, ServingInv, OutageInv, EmptyRedis, NoRebuild
    <2>2. PlacesInv
      BY <1>2, <1>4, FS_EmptySet, CountersAssumption, FS_CardinalityType DEF PlacesInv
    <2>. QED  BY <2>1, <2>2 DEF Exact
  <1>. QED  BY <1>1, <1>3, <1>5 DEF IInv

\* Every step keeps the types.
LEMMA NextTypes == Types /\ [Next]_vars => Types'
  <1> SUFFICES ASSUME Types, [Next]_vars PROVE Types'
    OBVIOUS
  <1> USE DEF Types, RedisState
  <1>1. ASSUME NEW r \in Request, Admit(r) PROVE Types'
    BY <1>1 DEF Admit
  <1>2. ASSUME NEW r \in Request, Compare(r) PROVE Types'
    BY <1>2 DEF Compare
  <1>3. ASSUME NEW r \in Request, NotBilled(r) PROVE Types'
    BY <1>3 DEF NotBilled, NoRequest
  <1>4. ASSUME NEW r \in Request, CaptureEvent(r) PROVE Types'
    <2>1. minted' \in 0 .. MaxEvents /\ minted' \in Event
      BY <1>4, CountersAssumption DEF CaptureEvent, Event
    <2>. QED  BY <1>4, <2>1 DEF CaptureEvent, Event
  <1>5. ASSUME NEW r \in Request, CountEvent(r) PROVE Types'
    BY <1>5 DEF CountEvent, NoRequest
  <1>6. ASSUME NEW r \in Request, CaptureBreaks(r) PROVE Types'
    <2>1. suspect' \in BOOLEAN
      BY <1>6 DEF CaptureBreaks, Suspect
    <2>. QED  BY <1>6, <2>1 DEF CaptureBreaks, NoRequest, Fault
  <1>7. CASE ReadBatch
    BY <1>7 DEF ReadBatch
  <1>8. CASE InsertBatch
    BY <1>8 DEF InsertBatch
  <1>9. CASE Fsync
    BY <1>9 DEF Fsync
  <1>10. CASE RestartEmpty
    <2>1. suspect' \in BOOLEAN
      BY <1>10 DEF RestartEmpty, Suspect
    <2>. QED  BY <1>10, <2>1 DEF RestartEmpty, BreakPipelines, EmptyRedis, NoRequest, Fault
  <1>11. CASE RestartFromFile
    <2>1. suspect' \in BOOLEAN
      BY <1>11 DEF RestartFromFile, Suspect
    <2>. QED  BY <1>11, <2>1 DEF RestartFromFile, BreakPipelines, NoRequest, Fault
  <1>12. CASE EnsureAuthoritative
    BY <1>12, Finite DEF EnsureAuthoritative, CountRows
  <1>13. CASE RebuildByHand
    <2>1. suspect' \in BOOLEAN
      BY <1>13 DEF RebuildByHand, Suspect
    <2>2. rebuild' \in [Rebuilder -> [step : {"idle", "set", "thresholds", "mark"},
                                      count : Nat]]
      BY <1>13, Finite DEF RebuildByHand, CountRows
    <2>. QED  BY <1>13, <2>1, <2>2 DEF RebuildByHand, CountRows, Fault
  <1>14. ASSUME NEW w \in Rebuilder, RebuildStep(w) PROVE Types'
    <2>1. CASE SetCount(w)
      BY <1>14, <2>1 DEF SetCount
    <2>2. CASE RebuildThresholds(w)
      BY <1>14, <2>2 DEF RebuildThresholds
    <2>3. CASE MarkAuthoritative(w)
      BY <1>14, <2>3 DEF MarkAuthoritative, NoRebuild
    <2>. QED  BY <1>14, <2>1, <2>2, <2>3 DEF RebuildStep
  <1>15. CASE WorkerFails
    BY <1>15 DEF WorkerFails, NoRebuild, Fault
  <1>16. CASE UNCHANGED vars
    BY <1>16 DEF vars
  <1>. QED  BY <1>1, <1>2, <1>3, <1>4, <1>5, <1>6, <1>7, <1>8, <1>9, <1>10, <1>11, <1>12,
               <1>13, <1>14, <1>15, <1>16 DEF Next, ServeStep

\* Event numbers are never used twice.
LEMMA NextNumbered == Types /\ Numbered /\ [Next]_vars => Numbered'
  <1> SUFFICES ASSUME Types, Numbered, [Next]_vars PROVE Numbered'
    OBVIOUS
  <1> USE DEF Types, RedisState, Numbered, Billable
  <1>1. ASSUME NEW r \in Request, CaptureEvent(r) PROVE Numbered'
    BY <1>1 DEF CaptureEvent
  <1>2. CASE ReadBatch \/ InsertBatch \/ Fsync \/ RestartEmpty \/ RestartFromFile \/ WorkerFails
    BY <1>2 DEF ReadBatch, InsertBatch, Fsync, RestartEmpty, RestartFromFile, WorkerFails,
                EmptyRedis
  <1>3. ASSUME NEW r \in Request, CountEvent(r) PROVE Numbered'
    BY <1>3 DEF CountEvent
  <1>4. ASSUME NEW w \in Rebuilder, RebuildStep(w) PROVE Numbered'
    BY <1>4 DEF RebuildStep, SetCount, RebuildThresholds, MarkAuthoritative
  <1>5. ASSUME NEW r \in Request, Admit(r) \/ Compare(r) \/ NotBilled(r) \/ CaptureBreaks(r)
        PROVE  Numbered'
    BY <1>5 DEF Admit, Compare, NotBilled, CaptureBreaks
  <1>6. CASE EnsureAuthoritative \/ RebuildByHand \/ UNCHANGED vars
    BY <1>6 DEF EnsureAuthoritative, RebuildByHand, CountRows, vars
  <1>. QED  BY <1>1, <1>2, <1>3, <1>4, <1>5, <1>6 DEF Next, ServeStep

\* What Exact speaks of.
Counted == <<redis, rows, batch, req, rebuild>>

LEMMA SameExact ==
    ASSUME Exact, UNCHANGED Counted
    PROVE  Exact'
  BY DEF Exact, BatchInv, ServingInv, OutageInv, PlacesInv, Counted, Billable, Broken, Served

\* A request moves on: through the gate, past it, or counted.
LEMMA HotPathExact ==
    ASSUME Types, Types', Exact, NEW r \in Request,
           Admit(r) \/ Compare(r) \/ NotBilled(r) \/ CaptureEvent(r) \/ CountEvent(r),
           Numbered
    PROVE  Exact'
  <1>0. /\ IsFiniteSet(Billable) /\ Cardinality(Billable) \in Nat
        /\ IsFiniteSet(Broken) /\ Cardinality(Broken) \in Nat
        /\ IsFiniteSet(Served) /\ Cardinality(Served) \in Nat
        /\ Cardinality(Request) \in Nat
    BY Finite
  <1>1. redis.marker
    BY DEF Exact, OutageInv, Admit, Compare, NotBilled, CaptureEvent, CountEvent
  <1>2. redis'.marker /\ redis'.enforced = redis.enforced
    BY <1>1 DEF Types, RedisState, Admit, Compare, NotBilled, CaptureEvent, CountEvent
  <1>3. redis'.marker /\ redis'.enforced /\ \A w \in Rebuilder : rebuild'[w].step = "idle"
    BY <1>1, <1>2 DEF Exact, ServingInv, Admit, Compare, NotBilled, CaptureEvent, CountEvent
  <1>4. OutageInv'
    BY <1>2 DEF OutageInv
  <1>5. BatchInv'
    BY DEF Exact, BatchInv, Types, RedisState, Admit, Compare, NotBilled, CaptureEvent,
           CountEvent
  <1>6. redis.counter + Cardinality(Broken) = Cardinality(Billable) /\ redis.counter \in Nat
    BY <1>1 DEF Exact, ServingInv, Types, RedisState
  <1>7. Threshold \in Nat
    BY CountersAssumption
  <1>8. CASE Admit(r)
    <2>1. Served' = Served /\ Broken' = Broken /\ Billable' = Billable
          /\ redis'.counter = redis.counter
      BY <1>8 DEF Admit, Types, Served, Broken, Billable
    <2>. QED  BY <1>3, <1>4, <1>5, <1>6, <2>1 DEF Exact, ServingInv, PlacesInv
  <1>9. CASE NotBilled(r)
    <2>1. Served' = Served \ {r} /\ Broken' = Broken /\ Billable' = Billable
          /\ redis'.counter = redis.counter
      BY <1>9 DEF NotBilled, NoRequest, Types, Served, Broken, Billable
    <2>2. Cardinality(Served') <= Cardinality(Served) /\ Cardinality(Served') \in Nat
      <3>1. Served' \in SUBSET Served
        BY <2>1
      <3>. QED  BY <1>0, <3>1, FS_Subset, FS_CardinalityType
    <2>3. PlacesInv'
      BY <1>0, <1>7, <2>1, <2>2 DEF Exact, PlacesInv
    <2>. QED  BY <1>3, <1>4, <1>5, <1>6, <2>1, <2>3 DEF Exact, ServingInv
  <1>10. CASE Compare(r)
    <2>1. Broken' = Broken /\ Billable' = Billable /\ redis'.counter = redis.counter
      BY <1>10 DEF Compare, Types, Served, Broken, Billable
    <2>2. CASE redis.counter >= Threshold
      <3>1. Served' = Served
        BY <1>10, <2>2, <1>2, <1>3 DEF Compare, Types, Served
      <3>. QED  BY <1>3, <1>4, <1>5, <1>6, <2>1, <3>1 DEF Exact, ServingInv, PlacesInv
    <2>3. CASE ~(redis.counter >= Threshold)
      <3>1. /\ Cardinality(Served') \in Nat
            /\ Cardinality(Served') + Cardinality(Broken') <= Cardinality(Request)
        <4>1. Served' \subseteq Request /\ Broken' \subseteq Request /\ Served' \cap Broken' = {}
          BY DEF Served, Broken
        <4>. QED  BY <4>1, Places
      <3>2. PlacesInv'
        BY <1>0, <1>6, <1>7, <2>1, <2>3, <3>1 DEF PlacesInv
      <3>. QED  BY <1>3, <1>4, <1>5, <1>6, <2>1, <3>2 DEF Exact, ServingInv
    <2>. QED  BY <2>2, <2>3
  <1>11. CASE CaptureEvent(r)
    <2>1. Served' = Served \ {r} /\ Broken' = Broken \cup {r}
          /\ Billable' = Billable \cup {minted'} /\ redis'.counter = redis.counter
      BY <1>11 DEF CaptureEvent, Types, RedisState, Served, Broken, Billable
    <2>2. r \in Served /\ r \notin Broken
      BY <1>11 DEF CaptureEvent, Served, Broken
    <2>3. minted' \notin Billable
      BY <1>11 DEF CaptureEvent, Numbered, Types
    <2>4. Cardinality(Served') = Cardinality(Served) - 1
      BY <1>0, <2>1, <2>2, FS_RemoveElement
    <2>5. Cardinality(Broken') = Cardinality(Broken) + 1
      BY <1>0, <2>1, <2>2, FS_AddElement
    <2>6. Cardinality(Billable') = Cardinality(Billable) + 1
      BY <1>0, <2>1, <2>3, FS_AddElement
    <2>7. PlacesInv'
      BY <1>0, <1>7, <2>4, <2>6 DEF Exact, PlacesInv
    <2>8. redis'.counter + Cardinality(Broken') = Cardinality(Billable')
      BY <1>0, <1>6, <2>1, <2>5, <2>6
    <2>. QED  BY <1>3, <1>4, <1>5, <2>7, <2>8 DEF Exact, ServingInv
  <1>12. CASE CountEvent(r)
    <2>1. Served' = Served /\ Broken' = Broken \ {r} /\ Billable' = Billable
          /\ redis'.counter = redis.counter + 1
      BY <1>12 DEF CountEvent, NoRequest, Types, RedisState, Served, Broken, Billable
    <2>2. r \in Broken
      BY <1>12 DEF CountEvent, Broken
    <2>3. Cardinality(Broken') = Cardinality(Broken) - 1
      BY <1>0, <2>1, <2>2, FS_RemoveElement
    <2>4. redis'.counter + Cardinality(Broken') = Cardinality(Billable')
      BY <1>0, <1>6, <2>1, <2>3
    <2>. QED  BY <1>3, <1>4, <1>5, <2>1, <2>4 DEF Exact, ServingInv, PlacesInv
  <1>. QED  BY <1>8, <1>9, <1>10, <1>11, <1>12

\* The drain's read and insert, and a worker that dies, move events between
\* places that are all billable.
LEMMA DrainExact ==
    ASSUME Types, Exact, ReadBatch \/ InsertBatch \/ WorkerFails
    PROVE  Exact'
  <1>1. Billable' = Billable /\ Served' = Served /\ Broken' = Broken
    <2>1. CASE ReadBatch
      BY <2>1 DEF ReadBatch, Billable, Served, Broken
    <2>2. CASE InsertBatch
      BY <2>2 DEF InsertBatch, Billable, Served, Broken, Types, RedisState
    <2>3. CASE WorkerFails
      BY <2>3 DEF WorkerFails, Billable, Served, Broken, Exact, BatchInv
    <2>. QED  BY <2>1, <2>2, <2>3
  <1>2. BatchInv'
    BY DEF Exact, BatchInv, ReadBatch, InsertBatch, WorkerFails, Types, RedisState
  <1>3. PlacesInv'
    BY <1>1 DEF Exact, PlacesInv
  <1>4. redis'.counter = redis.counter /\ redis'.marker = redis.marker
        /\ redis'.enforced = redis.enforced /\ req' = req
    BY DEF ReadBatch, InsertBatch, WorkerFails, Types, RedisState
  <1>5. \A w \in Rebuilder : rebuild'[w] = rebuild[w] \/ rebuild'[w].step = "idle"
    BY DEF ReadBatch, InsertBatch, WorkerFails, NoRebuild
  <1>6. ServingInv'
    BY <1>1, <1>4, <1>5 DEF Exact, ServingInv
  <1>7. ASSUME ~redis.marker PROVE OutageInv'
    <2>1. redis.stream = {} /\ batch = {}
      BY <1>7 DEF Exact, OutageInv
    <2>2. ~ReadBatch /\ ~InsertBatch
      BY <2>1 DEF ReadBatch, InsertBatch
    <2>3. rows' = rows /\ redis' = redis /\ batch' = {}
      BY <2>2 DEF WorkerFails
    <2>4. \A w \in Rebuilder : rebuild'[w].step = "idle"
      BY <2>2 DEF WorkerFails, NoRebuild
    <2>. QED  BY <1>4, <1>7, <2>1, <2>3, <2>4 DEF Exact, OutageInv, Rebuilder
  <1>8. OutageInv'
    BY <1>4, <1>7 DEF OutageInv
  <1>. QED  BY <1>2, <1>3, <1>6, <1>8 DEF Exact

\* A restart that puts nothing out of step finds nobody half way, and leaves the
\* rows.
LEMMA RestartExact ==
    ASSUME Types, Exact, RestartEmpty \/ RestartFromFile, ~suspect'
    PROVE  Exact'
  <1>1. CASE RestartFromFile
    <2>1. saved = redis /\ Broken = {}
      BY <1>1 DEF RestartFromFile, Suspect
    <2>2. req' = req
      BY <1>1, <2>1 DEF RestartFromFile, BreakPipelines, Types
    <2>. QED  BY <1>1, <2>1, <2>2, SameExact DEF RestartFromFile, Counted
  <1>2. CASE RestartEmpty
    <2>1. InFlight \ Broken = {} /\ batch = {} /\ ~Rebuilding
      BY <1>2 DEF RestartEmpty, Suspect
    <2>2. \A r \in Request : req'[r].step = "idle"
      BY <1>2, <2>1 DEF RestartEmpty, BreakPipelines, InFlight, NoRequest
    <2>3. redis'.counter = 0 /\ ~redis'.marker /\ redis'.stream = {} /\ batch' = {}
          /\ rows' = rows /\ rebuild' = rebuild
      BY <1>2, <2>1 DEF RestartEmpty, EmptyRedis
    <2>4. \A w \in Rebuilder : rebuild'[w].step = "idle"
      BY <2>1, <2>3 DEF Rebuilding
    <2>5. OutageInv'
      BY <2>2, <2>3, <2>4 DEF OutageInv, Rebuilder
    <2>6. BatchInv' /\ ServingInv'
      BY <2>3 DEF BatchInv, ServingInv
    <2>7. PlacesInv'
      <3>1. Served' = {} /\ Billable' = rows /\ Served = {}
        BY <2>1, <2>2, <2>3 DEF Served, Billable, InFlight, Broken
      <3>2. rows \in SUBSET Billable
        BY DEF Billable
      <3>3. Cardinality(rows) <= Cardinality(Billable)
        BY <3>2, Finite, FS_Subset
      <3>4. Cardinality(Billable) \in Nat /\ Cardinality(rows) \in Nat
            /\ Cardinality(Request) \in Nat /\ Threshold \in Nat
        BY Finite, CountersAssumption
      <3>5. Cardinality(Billable) + Cardinality(Served) < Threshold + Cardinality(Request)
        BY DEF Exact, PlacesInv
      <3>6. Cardinality(Served) \in Nat /\ Cardinality(Served') = Cardinality(Served)
        BY <3>1, Finite
      <3>. QED  BY <3>1, <3>3, <3>4, <3>5, <3>6 DEF PlacesInv
    <2>. QED  BY <2>5, <2>6, <2>7 DEF Exact
  <1>. QED  BY <1>1, <1>2

\* The watchdog counts rows that no longer change, and its SET makes the counter
\* their number before the marker lets anyone in.
LEMMA RebuildExact ==
    ASSUME Types, Exact, NEW w \in Rebuilder, EnsureAuthoritative \/ RebuildStep(w)
    PROVE  Exact'
  <1>1. ~redis.marker
    BY DEF Exact, ServingInv, EnsureAuthoritative, RebuildStep, SetCount, RebuildThresholds,
           MarkAuthoritative
  <1>2. /\ redis.stream = {} /\ batch = {} /\ \A r \in Request : req[r].step = "idle"
        /\ rebuild["hand"].step = "idle" /\ redis.counter \in {0, Cardinality(rows)}
        /\ rebuild["watchdog"].step = "set" =>
             rebuild["watchdog"].count = Cardinality(rows)
        /\ rebuild["watchdog"].step \in {"thresholds", "mark"} =>
             redis.counter = Cardinality(rows)
        /\ rebuild["watchdog"].step = "mark" => redis.enforced
    BY <1>1 DEF Exact, OutageInv
  <1>3. EnsureAuthoritative \/ (w = "watchdog" /\ RebuildStep("watchdog"))
    BY <1>2 DEF Rebuilder, RebuildStep, SetCount, RebuildThresholds, MarkAuthoritative
  <1>4. rows' = rows /\ req' = req /\ batch' = batch /\ redis'.stream = redis.stream
    BY <1>3 DEF EnsureAuthoritative, CountRows, RebuildStep, SetCount, RebuildThresholds,
                MarkAuthoritative, Types, RedisState
  <1>5. Billable' = Billable /\ Served' = Served /\ Broken' = Broken
    BY <1>4 DEF Billable, Served, Broken
  <1>6. BatchInv' /\ PlacesInv'
    BY <1>4, <1>5 DEF Exact, BatchInv, PlacesInv
  <1>7. rebuild'["hand"].step = "idle"
    BY <1>2, <1>3 DEF EnsureAuthoritative, CountRows, RebuildStep, SetCount, RebuildThresholds,
                MarkAuthoritative, Types, Rebuilder
  <1>8. CASE EnsureAuthoritative
    <2>1. redis' = redis /\ rebuild'["watchdog"].step = "set"
          /\ rebuild'["watchdog"].count = Cardinality(rows)
      BY <1>8 DEF EnsureAuthoritative, CountRows, Types, Rebuilder
    <2>. QED  BY <1>1, <1>2, <1>4, <1>6, <1>7, <2>1 DEF Exact, ServingInv, OutageInv
  <1>9. CASE SetCount("watchdog")
    <2>1. rebuild["watchdog"].count = Cardinality(rows)
          /\ rebuild'["watchdog"].step = "thresholds"
      BY <1>2, <1>9 DEF SetCount, Types, Rebuilder
    <2>2. redis'.counter = Cardinality(rows) /\ ~redis'.marker
      BY <1>1, <1>2, <1>9, <2>1 DEF SetCount, Types, RedisState
    <2>. QED  BY <1>2, <1>4, <1>6, <1>7, <2>1, <2>2 DEF Exact, ServingInv, OutageInv
  <1>10. CASE RebuildThresholds("watchdog")
    <2>1. rebuild'["watchdog"].step = "mark" /\ redis'.enforced /\ ~redis'.marker
          /\ redis'.counter = Cardinality(rows)
      BY <1>1, <1>2, <1>10 DEF RebuildThresholds, Types, RedisState, Rebuilder
    <2>. QED  BY <1>2, <1>4, <1>6, <1>7, <2>1 DEF Exact, ServingInv, OutageInv
  <1>11. CASE MarkAuthoritative("watchdog")
    <2>1. rebuild'["watchdog"].step = "idle" /\ redis'.enforced /\ redis'.marker
          /\ redis'.counter = Cardinality(rows)
      BY <1>1, <1>2, <1>11 DEF MarkAuthoritative, NoRebuild, Types, RedisState, Rebuilder
    <2>2. Broken' = {} /\ Billable' = rows
      BY <1>2, <1>4 DEF Broken, Billable
    <2>3. redis'.counter + Cardinality(Broken') = Cardinality(Billable')
      BY <2>1, <2>2, Finite, FS_EmptySet
    <2>. QED  BY <1>6, <1>7, <2>1, <2>3 DEF Exact, ServingInv, OutageInv, Rebuilder
  <1>. QED  BY <1>3, <1>8, <1>9, <1>10, <1>11 DEF RebuildStep

\* The inductive step.
LEMMA NextIInv == IInv /\ [Next]_vars => IInv'
  <1> SUFFICES ASSUME IInv, [Next]_vars PROVE IInv'
    OBVIOUS
  <1>1. Types /\ Types' /\ Numbered /\ Numbered'
    BY NextTypes, NextNumbered DEF IInv
  <1> SUFFICES ASSUME ~suspect' PROVE Exact'
    BY <1>1 DEF IInv
  <1>2. ASSUME suspect PROVE FALSE
    BY <1>1, <1>2 DEF Next, ServeStep, Admit, Compare, NotBilled, CaptureEvent, CountEvent,
              CaptureBreaks, ReadBatch, InsertBatch, Fsync, RestartEmpty, RestartFromFile,
              EnsureAuthoritative, RebuildByHand, RebuildStep, SetCount, RebuildThresholds,
              MarkAuthoritative, WorkerFails, Suspect, vars
  <1>3. Exact
    BY <1>2 DEF IInv
  <1>4. ASSUME NEW r \in Request, Admit(r) \/ ServeStep(r) PROVE Exact'
    BY <1>1, <1>3, <1>4, HotPathExact DEF ServeStep
  <1>5. ASSUME NEW r \in Request, CaptureBreaks(r) PROVE FALSE
    BY <1>5 DEF CaptureBreaks, Suspect
  <1>6. CASE RebuildByHand
    BY <1>6 DEF RebuildByHand, Suspect
  <1>7. CASE ReadBatch \/ InsertBatch \/ WorkerFails
    BY <1>1, <1>3, <1>7, DrainExact
  <1>8. CASE RestartEmpty \/ RestartFromFile
    BY <1>1, <1>3, <1>8, RestartExact
  <1>9. ASSUME NEW w \in Rebuilder, RebuildStep(w) PROVE Exact'
    BY <1>1, <1>3, <1>9, RebuildExact
  <1>10. CASE EnsureAuthoritative
    BY <1>1, <1>3, <1>10, RebuildExact DEF Rebuilder
  <1>11. CASE Fsync \/ UNCHANGED vars
    BY <1>3, <1>11, SameExact DEF Fsync, vars, Counted
  <1>. QED  BY <1>4, <1>5, <1>6, <1>7, <1>8, <1>9, <1>10, <1>11 DEF Next

----------------------------------------------------------------------------
(* The theorems.                                                           *)

\* The inductive invariant: while the gate serves, the counter, the threshold
\* and the places in flight fit together; while it does not, nothing moves but
\* the watchdog's rebuild.
THEOREM Invariance == Spec => []IInv
  <1>. QED  BY InitIInv, NextIInv, PTL DEF Spec

\* The counter of metering.py and counters.py is exact while the gate serves,
\* for any number of requests, events and faults.
THEOREM CounterIsExactHolds == Spec => []CounterIsExact
  <1>1. IInv => CounterIsExact
    BY DEF IInv, Exact, ServingInv, CounterIsExact
  <1>. QED  BY <1>1, Invariance, PTL

\* A customer passes its limit by less than the requests in flight.
THEOREM OvershootIsBoundedHolds == Spec => []OvershootIsBounded
  <1>1. ASSUME IInv, ~suspect
        PROVE  Cardinality(Billable) < Threshold + Cardinality(Request)
    <2>1. Cardinality(Billable) + Cardinality(Served) < Threshold + Cardinality(Request)
      BY <1>1 DEF IInv, Exact, PlacesInv
    <2>2. /\ Cardinality(Billable) \in Nat /\ Cardinality(Served) \in Nat
          /\ Cardinality(Request) \in Nat /\ Threshold \in Nat
      BY <1>1, Finite, CountersAssumption DEF IInv
    <2>. QED  BY <2>1, <2>2
  <1>2. IInv => OvershootIsBounded
    BY <1>1 DEF OvershootIsBounded
  <1>. QED  BY <1>2, Invariance, PTL
=============================================================================
