---------------------------- MODULE DrainProofs ----------------------------
(***************************************************************************)
(* Proofs about the drain, for any number of workers, tasks, entries and   *)
(* faults: types, one row per event, nothing acknowledged before it is     *)
(* settled and marked, and which trims may take a pending entry; that it   *)
(* implements the usage ledger; and, on its invariant, that a close's      *)
(* report over the running drain that converges is complete.               *)
(***************************************************************************)
EXTENDS DrainLedger, Reconciliation, FiniteSetTheorems, TLAPS

----------------------------------------------------------------------------
(* Type correctness.                                                       *)

\* Appending one payload keeps every older one in place.
LEMMA AppendFacts ==
    ASSUME log \in Seq(Payload), NEW p \in Payload, log' = Append(log, p)
    PROVE  /\ log' \in Seq(Payload)
           /\ Len(log') = Len(log) + 1
           /\ log'[Len(log) + 1] = p
           /\ \A id \in 1 .. Len(log) : log'[id] = log[id]
  OBVIOUS

\* What a task holds after a read, or a dropped batch, is well typed.
LEMMA HoldType ==
    ASSUME TypeOK, NEW t \in Task, NEW B \in SUBSET EntryId, NEW G \in SUBSET EntryId,
           Hold(t, B, G)
    PROVE  /\ batch' \in [Task -> SUBSET EntryId]
           /\ got' \in [Task -> SUBSET EntryId]
           /\ pc' \in [Task -> Step]
  BY DEF TypeOK, Hold, FirstStep, Step

\* Init establishes the types.
LEMMA InitType == Init => TypeOK
  BY HomeAssumption, BoundAssumption
     DEF Init, TypeOK, Step, NoTrim, TrimState, EntryId, Payload

\* What a task holds was delivered, and what it holds without a payload is no
\* longer in the stream.
HeldInv ==
    \A t \in Task :
        /\ got[t] \subseteq batch[t]
        /\ \A id \in batch[t] : id <= delivered
        /\ \A id \in batch[t] \ got[t] : id \notin stream

\* Every step of the drain keeps the types: what MarkProgress marks are cells
\* because a task holds delivered entries, whose payloads are in the log.
LEMMA NextType == TypeOK /\ HeldInv /\ [Next]_vars => TypeOK'
  <1> SUFFICES ASSUME TypeOK, HeldInv, [Next]_vars PROVE TypeOK'
    OBVIOUS
  <1> USE HomeAssumption, BoundAssumption, WatchdogAssumption
  <1>0. Len(log) \in Nat /\ \A id \in stream : id \in EntryId
    BY DEF TypeOK, EntryId
  <1>1. ASSUME NEW p \in Payload, Capture(p) PROVE TypeOK'
    <2>1. log' \in Seq(Payload) /\ Len(log') = Len(log) + 1
      BY <1>1, AppendFacts DEF Capture, TypeOK
    <2>2. stream' \subseteq 1 .. Len(log') /\ Len(log') <= MaxEntries
      <3>1. stream' = stream \cup {Len(log) + 1} /\ Len(log) < MaxEntries
        BY <1>1 DEF Capture
      <3>2. stream \subseteq 1 .. Len(log)
        BY DEF TypeOK
      <3>3. Len(log') = Len(log) + 1
        BY <2>1
      <3>4. Len(log') <= MaxEntries
        BY <1>0, <3>1, <3>3
      <3>5. stream' \subseteq 1 .. Len(log')
        <4>1. SUFFICES ASSUME NEW id \in stream' PROVE id \in 1 .. Len(log')
          OBVIOUS
        <4>2. id \in 1 .. Len(log) \/ id = Len(log) + 1
          BY <3>1, <3>2
        <4>. QED  BY <1>0, <3>3, <4>2
      <3>. QED  BY <3>4, <3>5
    <2>3. delivered' \in 0 .. Len(log')
      BY <1>0, <1>1, <2>1 DEF Capture, TypeOK
    <2>. QED
      BY <1>1, <2>1, <2>2, <2>3 DEF Capture, TypeOK, taskVars, sinkVars
  <1>2. ASSUME NEW t \in Task, ReadOwnPending(t) PROVE TypeOK'
    <2>1. PICK B \in SUBSET {id \in EntryId : pel[id] = Home[t]} :
             IF B = {}
             THEN /\ recovering' = [recovering EXCEPT ![Home[t]] = FALSE]
                  /\ UNCHANGED taskVars
             ELSE Hold(t, B, B \cap stream) /\ UNCHANGED recovering
      BY <1>2 DEF ReadOwnPending
    <2>2. /\ batch' \in [Task -> SUBSET EntryId]
          /\ got' \in [Task -> SUBSET EntryId]
          /\ pc' \in [Task -> Step]
      <3>1. CASE B = {}
        BY <2>1, <3>1 DEF taskVars, TypeOK
      <3>2. CASE B # {}
        BY <2>1, <3>2, HoldType
      <3>. QED  BY <3>1, <3>2
    <2>3. recovering' \in [Worker -> BOOLEAN]
      BY <2>1 DEF TypeOK
    <2>. QED
      BY <1>2, <2>2, <2>3 DEF ReadOwnPending, TypeOK, redisVars, sinkVars
  <1>3. ASSUME NEW t \in Task, NEW idle \in SUBSET Pending, Reclaim(t, idle)
        PROVE  TypeOK'
    <2>1. PICK B \in SUBSET (idle \cap stream) :
             /\ pel' = [id \in EntryId |-> IF id \in B THEN Home[t]
                                           ELSE IF id \in idle \ stream THEN NoWorker
                                           ELSE pel[id]]
             /\ IF B = {} THEN UNCHANGED taskVars ELSE Hold(t, B, B)
      BY <1>3 DEF Reclaim
    <2>2. B \in SUBSET EntryId
      BY <1>0
    <2>3. /\ batch' \in [Task -> SUBSET EntryId]
          /\ got' \in [Task -> SUBSET EntryId]
          /\ pc' \in [Task -> Step]
      <3>1. CASE B = {}
        BY <2>1, <3>1 DEF taskVars, TypeOK
      <3>2. CASE B # {}
        BY <2>1, <2>2, <3>2, HoldType
      <3>. QED  BY <3>1, <3>2
    <2>4. pel' \in [EntryId -> Worker \cup {NoWorker}]
      BY <2>1 DEF TypeOK
    <2>. QED
      BY <1>3, <2>3, <2>4 DEF Reclaim, TypeOK, sinkVars
  <1>4. ASSUME NEW t \in Task, ReadNew(t) PROVE TypeOK'
    <2>1. PICK B \in SUBSET Undelivered :
             /\ \E last \in B : delivered' = last
             /\ pel' = [id \in EntryId |-> IF id \in B THEN Home[t] ELSE pel[id]]
             /\ Hold(t, B, B)
      BY <1>4 DEF ReadNew
    <2>2. B \in SUBSET EntryId /\ B \subseteq 1 .. Len(log)
      BY <1>0 DEF Undelivered, TypeOK
    <2>3. delivered' \in 0 .. Len(log)
      BY <2>1, <2>2, <1>0
    <2>4. pel' \in [EntryId -> Worker \cup {NoWorker}]
      BY <2>1 DEF TypeOK
    <2>. QED
      BY <1>4, <2>1, <2>2, <2>3, <2>4, HoldType DEF ReadNew, TypeOK, sinkVars
  <1>5. ASSUME NEW t \in Task, DeadLetter(t) PROVE TypeOK'
    BY <1>5 DEF DeadLetter, TypeOK, Refused, Step, redisVars
  <1>6. ASSUME NEW t \in Task, Commit(t) PROVE TypeOK'
    BY <1>6 DEF Commit, TypeOK, InsertUsageEvents, Step, redisVars
  <1>7. ASSUME NEW t \in Task, MarkProgress(t) PROVE TypeOK'
    <2>1. dirty' \subseteq Cell
      <3>1. SUFFICES ASSUME NEW id \in Parsed(got[t]) PROVE log[id] \in Cell
        BY <1>7 DEF MarkProgress, TypeOK
      <3>2. id \in EntryId /\ id \in batch[t] /\ delivered <= Len(log)
        BY <1>0 DEF Parsed, TypeOK, HeldInv
      <3>3. id \in 1 .. Len(log)
        BY <1>0, <3>2 DEF EntryId, HeldInv, TypeOK
      <3>4. log[id] \in Payload
        BY <3>3 DEF TypeOK
      <3>. QED  BY <3>4 DEF Parsed, Payload
    <2>. QED
      BY <1>7, <2>1 DEF MarkProgress, TypeOK, Step, redisVars
  <1>8. ASSUME NEW t \in Task, Acknowledge(t) PROVE TypeOK'
    BY <1>8 DEF Acknowledge, TypeOK, Step, sinkVars
  <1>9. ASSUME NEW t \in Task, Fail(t) PROVE TypeOK'
    BY <1>9 DEF Fail, TypeOK, Step, redisVars, sinkVars
  <1>10. ASSUME NEW w \in Watchdog, TrimPending(w) PROVE TypeOK'
    <2>1. PICK s \in TrimState : trim' = [trim EXCEPT ![w] = s]
      <3>1. CASE Pending = {}
        <4>1. [step |-> "groups", min |-> 0, by |-> "delivered"] \in TrimState
          BY DEF TrimState
        <4>. QED  BY <1>10, <3>1, <4>1 DEF TrimPending
      <3>2. CASE Pending # {}
        <4>1. PICK m \in Pending :
                 trim' = [trim EXCEPT ![w] =
                             [step |-> "cut", min |-> m, by |-> "pending"]]
          BY <1>10, <3>2 DEF TrimPending
        <4>2. [step |-> "cut", min |-> m, by |-> "pending"] \in TrimState
          BY <4>1 DEF TrimState, Pending, EntryId
        <4>. QED  BY <4>1, <4>2
      <3>. QED  BY <3>1, <3>2
    <2>2. trim' \in [Watchdog -> TrimState]
      BY <2>1 DEF TypeOK
    <2>. QED
      BY <1>10, <2>2 DEF TrimPending, TypeOK, redisVars, taskVars, sinkVars
  <1>11. ASSUME NEW w \in Watchdog, TrimGroups(w) PROVE TypeOK'
    BY <1>11 DEF TrimGroups, TypeOK, TrimState, NoTrim, redisVars, taskVars, sinkVars
  <1>12. ASSUME NEW w \in Watchdog, TrimStream(w) PROVE TypeOK'
    <2>1. trim' \in [Watchdog -> TrimState]
      BY <1>12 DEF TrimStream, TypeOK, TrimState, NoTrim
    <2>2. stream' \subseteq 1 .. Len(log) /\ overrun' \subseteq EntryId
      BY <1>0, <1>12 DEF TrimStream, TypeOK, Pending
    <2>. QED
      BY <1>12, <2>1, <2>2 DEF TrimStream, TypeOK, taskVars, sinkVars
  <1>13. ASSUME NEW w \in Worker, Crash(w) PROVE TypeOK'
    BY <1>13 DEF Crash, TypeOK, TrimState, NoTrim, Step, redisVars, sinkVars
  <1>14. ASSUME NEW w \in Worker, Restart(w) PROVE TypeOK'
    BY <1>14 DEF Restart, TypeOK, redisVars, taskVars, sinkVars
  <1>15. CASE UNCHANGED vars
    BY <1>15 DEF vars, TypeOK, redisVars, taskVars, sinkVars
  <1>. QED
    BY <1>1, <1>2, <1>3, <1>4, <1>5, <1>6, <1>7, <1>8, <1>9, <1>10, <1>11,
       <1>12, <1>13, <1>14, <1>15
       DEF Next, ReadPass, BatchStep, TrimStep

----------------------------------------------------------------------------
(***************************************************************************)
(* The inductive invariant. What a task holds was delivered (HeldInv);     *)
(* each step of run_once leaves behind what the next one relies on; and an *)
(* entry that is out of the pending list, or out of the stream, is         *)
(* finished unless a trim overran it.                                      *)
(***************************************************************************)
Finished(id) == Settled(id) /\ (log[id] # Malformed => log[id] \in dirty)

StepInv ==
    \A t \in Task :
        /\ pc[t] = "insert" => \A id \in got[t] : log[id] = Malformed => Finished(id)
        /\ pc[t] = "mark" => \A id \in got[t] : Settled(id)
        /\ pc[t] = "ack" => \A id \in got[t] : Finished(id)

FreshInv ==
    \A id \in EntryId :
        id > delivered => /\ pel[id] = NoWorker
                          /\ id <= Len(log) => id \in stream

FinishedInv ==
    \A id \in 1 .. Len(log) :
        Done(id) \/ id \notin stream => Finished(id) \/ id \in overrun

TrimInv ==
    \A w \in Watchdog :
        /\ trim[w].min <= delivered
        /\ trim[w].step = "cut" /\ trim[w].by = "pending" =>
              \A id \in Pending : trim[w].min <= id

DeadInv == \A id \in dead : id <= delivered /\ log[id] = Malformed

IInv ==
    /\ TypeOK
    /\ RowOncePerEvent
    /\ DeadInv
    /\ HeldInv
    /\ StepInv
    /\ FreshInv
    /\ FinishedInv
    /\ TrimInv

\* The invariant holds before the first XADD.
LEMMA InitIInv == Init => IInv
  <1> SUFFICES ASSUME Init PROVE IInv
    OBVIOUS
  <1>1. TypeOK
    BY InitType
  <1>2. Len(log) = 0 /\ 1 .. Len(log) = {}
    BY DEF Init
  <1>3. RowOncePerEvent /\ DeadInv
    BY DEF Init, RowOncePerEvent, DeadInv
  <1>4. HeldInv /\ StepInv
    BY DEF Init, HeldInv, StepInv
  <1>5. FreshInv
    BY <1>2 DEF Init, FreshInv, EntryId
  <1>6. FinishedInv
    BY <1>2 DEF FinishedInv
  <1>7. TrimInv
    BY DEF Init, TrimInv, NoTrim
  <1>. QED
    BY <1>1, <1>3, <1>4, <1>5, <1>6, <1>7 DEF IInv

----------------------------------------------------------------------------
(* What no step undoes.                                                    *)

\* The log only grows and keeps what it holds.
LEMMA LogKept ==
    ASSUME TypeOK, [Next]_vars
    PROVE  /\ Len(log) \in Nat /\ Len(log') \in Nat /\ Len(log) <= Len(log')
           /\ \A id \in 1 .. Len(log) : log'[id] = log[id]
  <1>1. log \in Seq(Payload) /\ Len(log) \in Nat
    BY DEF TypeOK
  <1>2. CASE \E p \in Payload : Capture(p)
    <2>1. PICK p \in Payload : log' = Append(log, p)
      BY <1>2 DEF Capture
    <2>. QED  BY <1>1, <2>1, AppendFacts
  <1>3. CASE UNCHANGED log
    BY <1>1, <1>3
  <1>. QED
    BY <1>2, <1>3
       DEF Next, vars, redisVars, ReadPass, BatchStep, TrimStep, ReadOwnPending,
           Reclaim, ReadNew, DeadLetter, Commit, MarkProgress, Acknowledge, Fail,
           TrimPending, TrimGroups, TrimStream, Crash, Restart

\* Only a read of new entries moves the last-delivered-id, and forward.
LEMMA DeliveredGrows ==
    ASSUME TypeOK, [Next]_vars
    PROVE  delivered' >= delivered
  <1>1. delivered \in Nat
    BY DEF TypeOK
  <1>2. CASE \E t \in Task : ReadNew(t)
    <2>1. PICK last \in Undelivered : delivered' = last
      BY <1>2 DEF ReadNew
    <2>2. last > delivered /\ last \in Nat
      BY DEF Undelivered, TypeOK
    <2>. QED  BY <1>1, <2>1, <2>2
  <1>3. CASE UNCHANGED delivered
    BY <1>1, <1>3
  <1>. QED
    BY <1>2, <1>3
       DEF Next, vars, redisVars, ReadPass, BatchStep, TrimStep, ReadOwnPending,
           Reclaim, Capture, DeadLetter, Commit, MarkProgress, Acknowledge, Fail,
           TrimPending, TrimGroups, TrimStream, Crash, Restart

\* A committed row, a dead letter and a dirty mark stay.
LEMMA SinksGrow ==
    ASSUME TypeOK, [Next]_vars
    PROVE  /\ \A id \in EntryId : rows[id] = 1 => rows'[id] = 1
           /\ dead \subseteq dead'
           /\ dirty \subseteq dirty'
           /\ overrun \subseteq overrun'
  <1>1. \A id \in EntryId : rows[id] = 1 => rows'[id] = 1
    <2>1. CASE \E t \in Task : Commit(t)
      BY <2>1 DEF Commit, InsertUsageEvents
    <2>2. CASE UNCHANGED rows
      BY <2>2
    <2>. QED
      BY <2>1, <2>2
         DEF Next, vars, sinkVars, ReadPass, BatchStep, TrimStep, ReadOwnPending,
             Reclaim, ReadNew, Capture, DeadLetter, MarkProgress, Acknowledge,
             Fail, TrimPending, TrimGroups, TrimStream, Crash, Restart
  <1>2. dead \subseteq dead' /\ dirty \subseteq dirty' /\ overrun \subseteq overrun'
    BY DEF Next, vars, sinkVars, ReadPass, BatchStep, TrimStep, ReadOwnPending,
           Reclaim, ReadNew, Capture, DeadLetter, Commit, MarkProgress,
           Acknowledge, Fail, TrimPending, TrimGroups, TrimStream, Crash, Restart
  <1>. QED  BY <1>1, <1>2

\* Nothing comes back into the stream.
LEMMA StreamShrinks ==
    ASSUME TypeOK, [Next]_vars
    PROVE  stream' \cap (1 .. Len(log)) \subseteq stream
  <1>1. Len(log) \in Nat
    BY DEF TypeOK
  <1>2. CASE \E p \in Payload : Capture(p)
    BY <1>1, <1>2 DEF Capture
  <1>3. CASE stream' \subseteq stream
    BY <1>3
  <1>. QED
    BY <1>2, <1>3
       DEF Next, vars, redisVars, ReadPass, BatchStep, TrimStep, ReadOwnPending,
           Reclaim, ReadNew, DeadLetter, Commit, MarkProgress, Acknowledge, Fail,
           TrimPending, TrimGroups, TrimStream, Crash, Restart

\* An entry once settled, or finished, stays so (no step takes a row, a dead
\* letter or a mark back).
LEMMA FinishedStays ==
    ASSUME TypeOK, [Next]_vars, NEW id \in 1 .. Len(log)
    PROVE  /\ id \in EntryId /\ id \in 1 .. Len(log')
           /\ Settled(id) => Settled(id)'
           /\ Finished(id) => Finished(id)'
  <1>1. id \in EntryId
    BY BoundAssumption DEF TypeOK, EntryId
  <1>2. log'[id] = log[id] /\ id \in 1 .. Len(log')
    BY LogKept
  <1>3. Settled(id) => Settled(id)'
    BY <1>1, <1>2, SinksGrow DEF Settled
  <1>4. Finished(id) => Finished(id)'
    BY <1>2, <1>3, SinksGrow DEF Finished
  <1>. QED  BY <1>1, <1>2, <1>3, <1>4

----------------------------------------------------------------------------
(* Each part of the invariant is preserved.                                *)

\* A commit writes a row only where there is none, for events in hand that
\* parsed, and those were delivered.
LEMMA NextRow ==
    ASSUME IInv, [Next]_vars
    PROVE  RowOncePerEvent'
  <1> USE DEF IInv
  <1> SUFFICES ASSUME NEW id \in EntryId
               PROVE  /\ rows'[id] <= 1
                      /\ rows'[id] = 1 => id <= delivered' /\ log'[id] # Malformed
    BY DEF RowOncePerEvent
  <1>1. rows[id] \in Nat /\ delivered \in 0 .. Len(log) /\ Len(log) \in Nat
    BY DEF TypeOK
  <1>2. rows[id] <= 1 /\ (rows[id] = 1 => id <= delivered /\ log[id] # Malformed)
    BY DEF RowOncePerEvent
  <1>3. id <= delivered => id <= delivered' /\ log'[id] = log[id]
    <2>1. delivered' \in Nat
      BY NextType DEF TypeOK
    <2>2. id \in Nat /\ id >= 1
      BY DEF EntryId
    <2>3. id <= delivered => id \in 1 .. Len(log)
      BY <1>1, <2>2
    <2>. QED  BY <1>1, <2>1, <2>2, <2>3, LogKept, DeliveredGrows
  <1>4. CASE rows'[id] = rows[id]
    BY <1>2, <1>3, <1>4
  <1>5. CASE rows'[id] # rows[id]
    <2>1. PICK t \in Task : Commit(t)
      BY <1>5
         DEF Next, vars, sinkVars, ReadPass, BatchStep, TrimStep, ReadOwnPending,
             Reclaim, ReadNew, Capture, DeadLetter, MarkProgress, Acknowledge,
             Fail, TrimPending, TrimGroups, TrimStream, Crash, Restart
    <2>2. id \in Parsed(got[t]) /\ rows'[id] = 1
      BY <1>5, <2>1 DEF Commit, InsertUsageEvents
    <2>3. id <= delivered /\ log[id] # Malformed
      BY <2>2 DEF Parsed, HeldInv
    <2>. QED  BY <1>3, <2>2, <2>3
  <1>. QED  BY <1>4, <1>5

\* Only delivered, refused entries are dead-lettered.
LEMMA NextDead ==
    ASSUME IInv, [Next]_vars
    PROVE  DeadInv'
  <1> USE DEF IInv
  <1> SUFFICES ASSUME NEW id \in dead' PROVE id <= delivered' /\ log'[id] = Malformed
    BY DEF DeadInv
  <1>1. /\ delivered \in 0 .. Len(log) /\ Len(log) \in Nat
        /\ dead' \subseteq EntryId /\ delivered' \in 0 .. Len(log') /\ Len(log') \in Nat
    BY NextType, LogKept DEF TypeOK
  <1>2. id \in Nat /\ id >= 1
    BY <1>1 DEF EntryId
  <1>3. id <= delivered /\ log[id] = Malformed
    <2>1. CASE id \in dead
      BY <2>1 DEF DeadInv
    <2>2. CASE id \notin dead
      <3>1. PICK t \in Task : DeadLetter(t)
        BY <2>2
           DEF Next, vars, sinkVars, ReadPass, BatchStep, TrimStep, ReadOwnPending,
               Reclaim, ReadNew, Capture, Commit, MarkProgress, Acknowledge, Fail,
               TrimPending, TrimGroups, TrimStream, Crash, Restart
      <3>2. id \in Refused(got[t])
        BY <2>2, <3>1 DEF DeadLetter
      <3>. QED  BY <3>2 DEF Refused, HeldInv
    <2>. QED  BY <2>1, <2>2
  <1>4. id \in 1 .. Len(log)
    BY <1>1, <1>2, <1>3
  <1>. QED
    BY <1>1, <1>2, <1>3, <1>4, LogKept, DeliveredGrows

\* What a step may do to a task: nothing, drop its batch, hand it delivered
\* entries with the payload of those still in the stream, or one step of
\* run_once on the batch in hand.
LEMMA TaskMoves ==
    ASSUME IInv, [Next]_vars, NEW t \in Task
    PROVE  \/ batch'[t] = batch[t] /\ got'[t] = got[t] /\ pc'[t] = pc[t]
           \/ batch'[t] = {} /\ got'[t] = {} /\ pc'[t] = "idle"
           \/ /\ UNCHANGED <<log, stream>>
              /\ \A id \in batch'[t] : id <= delivered'
              /\ got'[t] = batch'[t] \cap stream
              /\ pc'[t] = FirstStep(got'[t])
           \/ DeadLetter(t) \/ Commit(t) \/ MarkProgress(t)
  <1> USE DEF IInv
  <1> DEFINE Same == batch'[t] = batch[t] /\ got'[t] = got[t] /\ pc'[t] = pc[t]
             Dropped == batch'[t] = {} /\ got'[t] = {} /\ pc'[t] = "idle"
             Handed == /\ UNCHANGED <<log, stream>>
                       /\ \A id \in batch'[t] : id <= delivered'
                       /\ got'[t] = batch'[t] \cap stream
                       /\ pc'[t] = FirstStep(got'[t])
  <1>1. ASSUME NEW u \in Task, NEW B \in SUBSET EntryId, NEW G \in SUBSET EntryId,
               Hold(u, B, G), u # t
        PROVE  Same
    BY <1>1 DEF Hold, TypeOK
  <1>2. ASSUME NEW B \in SUBSET EntryId, NEW G \in SUBSET EntryId, Hold(t, B, G)
        PROVE  batch'[t] = B /\ got'[t] = G /\ pc'[t] = FirstStep(G)
    BY <1>2 DEF Hold, TypeOK
  <1>3. \A id \in EntryId : pel[id] # NoWorker => id <= delivered
    BY DEF FreshInv, TypeOK, EntryId
  <1>4. \A u \in Task : Home[u] \in Worker /\ Home[u] # NoWorker
    BY HomeAssumption, SentinelAssumption
  <1>5. stream \subseteq EntryId
    BY BoundAssumption DEF TypeOK, EntryId
  <1>6. ASSUME NEW u \in Task, ReadOwnPending(u) PROVE Same \/ Handed
    <2>1. PICK B \in SUBSET {id \in EntryId : pel[id] = Home[u]} :
             IF B = {} THEN UNCHANGED taskVars ELSE Hold(u, B, B \cap stream)
      BY <1>6 DEF ReadOwnPending
    <2>2. \A id \in B : id \in EntryId /\ id <= delivered
      BY <1>3, <1>4
    <2>3. UNCHANGED <<log, stream, delivered>>
      BY <1>6 DEF ReadOwnPending, redisVars
    <2>4. CASE B = {} \/ u # t
      BY <1>1, <2>1, <2>2, <2>4 DEF taskVars
    <2>5. CASE B # {} /\ u = t
      BY <1>2, <2>1, <2>2, <2>3, <2>5
    <2>. QED  BY <2>4, <2>5
  <1>7. ASSUME NEW u \in Task, NEW idle \in SUBSET Pending, Reclaim(u, idle)
        PROVE  Same \/ Handed
    <2>1. PICK B \in SUBSET (idle \cap stream) :
             IF B = {} THEN UNCHANGED taskVars ELSE Hold(u, B, B)
      BY <1>7 DEF Reclaim
    <2>2. \A id \in B : id \in EntryId /\ id <= delivered /\ id \in stream
      BY <1>3, <2>1 DEF Pending
    <2>3. UNCHANGED <<log, stream, delivered>>
      BY <1>7 DEF Reclaim
    <2>4. CASE B = {} \/ u # t
      BY <1>1, <2>1, <2>2, <2>4 DEF taskVars
    <2>5. CASE B # {} /\ u = t
      BY <1>2, <2>1, <2>2, <2>3, <2>5
    <2>. QED  BY <2>4, <2>5
  <1>8. ASSUME NEW u \in Task, ReadNew(u) PROVE Same \/ Handed
    <2>1. PICK B \in SUBSET Undelivered :
             /\ \A b \in B : b <= delivered'
             /\ Hold(u, B, B)
      BY <1>8 DEF ReadNew
    <2>2. \A id \in B : id \in EntryId /\ id \in stream
      BY <1>5 DEF Undelivered
    <2>3. UNCHANGED <<log, stream>>
      BY <1>8 DEF ReadNew
    <2>4. CASE u # t
      BY <1>1, <2>1, <2>2, <2>4
    <2>5. CASE u = t
      BY <1>2, <2>1, <2>2, <2>3, <2>5
    <2>. QED  BY <2>4, <2>5
  <1>9. ASSUME NEW u \in Task, DeadLetter(u) \/ Commit(u) \/ MarkProgress(u), u # t
        PROVE  Same
    BY <1>9 DEF DeadLetter, Commit, MarkProgress, TypeOK
  <1>10. ASSUME NEW u \in Task, Acknowledge(u) \/ Fail(u) PROVE Same \/ Dropped
    BY <1>10 DEF Acknowledge, Fail, TypeOK
  <1>11. ASSUME NEW w \in Worker, Crash(w) PROVE Same \/ Dropped
    BY <1>11 DEF Crash
  <1>12. CASE UNCHANGED taskVars
    BY <1>12 DEF taskVars
  <1>. QED
    BY <1>6, <1>7, <1>8, <1>9, <1>10, <1>11, <1>12
       DEF Next, vars, ReadPass, BatchStep, TrimStep, Capture, TrimPending,
           TrimGroups, TrimStream, Restart

\* A read hands over delivered entries, with the payload of those still in the
\* stream; nothing else adds to a batch, and nothing returns to the stream.
LEMMA NextHeld ==
    ASSUME IInv, [Next]_vars
    PROVE  HeldInv'
  <1> USE DEF IInv
  <1> SUFFICES ASSUME NEW t \in Task
               PROVE  /\ got'[t] \subseteq batch'[t]
                      /\ \A id \in batch'[t] : id <= delivered'
                      /\ \A id \in batch'[t] \ got'[t] : id \notin stream'
    BY DEF HeldInv
  <1>1. /\ got[t] \subseteq batch[t]
        /\ \A id \in batch[t] : id <= delivered
        /\ \A id \in batch[t] \ got[t] : id \notin stream
    BY DEF HeldInv
  <1>2. /\ delivered \in Nat /\ delivered' \in Nat /\ delivered <= delivered'
        /\ delivered <= Len(log) /\ Len(log) \in Nat
        /\ \A id \in batch[t] : id \in Nat /\ id >= 1
    <2>1. Len(log) \in Nat /\ Len(log') \in Nat
      BY LogKept
    <2>2. delivered \in 0 .. Len(log) /\ delivered' \in 0 .. Len(log')
      BY NextType DEF TypeOK
    <2>3. delivered \in Nat /\ delivered' \in Nat /\ delivered <= Len(log)
      BY <2>1, <2>2
    <2>4. \A id \in batch[t] : id \in Nat /\ id >= 1
      BY BoundAssumption DEF TypeOK, EntryId
    <2>. QED  BY <2>1, <2>3, <2>4, DeliveredGrows
  <1>3. \A id \in batch[t] : id <= delivered' /\ id \in 1 .. Len(log)
    BY <1>1, <1>2
  <1>4. \A id \in batch[t] \ got[t] : id \notin stream'
    BY <1>1, <1>3, StreamShrinks
  <1>5. CASE batch'[t] = batch[t] /\ got'[t] = got[t]
    BY <1>1, <1>3, <1>4, <1>5
  <1>6. CASE batch'[t] = {} /\ got'[t] = {}
    BY <1>6
  <1>7. CASE /\ UNCHANGED stream
             /\ \A id \in batch'[t] : id <= delivered'
             /\ got'[t] = batch'[t] \cap stream
    BY <1>7
  <1>8. DeadLetter(t) \/ Commit(t) \/ MarkProgress(t) =>
           batch'[t] = batch[t] /\ got'[t] = got[t]
    BY DEF DeadLetter, Commit, MarkProgress
  <1>. QED
    BY <1>5, <1>6, <1>7, <1>8, TaskMoves

\* Dead-lettering precedes the commit, the commit the mark, and the mark the
\* acknowledgement, on exactly the payloads in hand.
LEMMA NextStep ==
    ASSUME IInv, [Next]_vars
    PROVE  StepInv'
  <1> USE DEF IInv
  <1> SUFFICES
        ASSUME NEW t \in Task
        PROVE  /\ pc'[t] = "insert" =>
                     \A id \in got'[t] : log'[id] = Malformed => Finished(id)'
               /\ pc'[t] = "mark" => \A id \in got'[t] : Settled(id)'
               /\ pc'[t] = "ack" => \A id \in got'[t] : Finished(id)'
    BY DEF StepInv
  <1>1. \A id \in got[t] : id \in 1 .. Len(log) /\ id \in EntryId
    BY DEF HeldInv, TypeOK, EntryId
  <1>2. \A id \in got[t] : log'[id] = log[id]
    BY <1>1, LogKept
  <1>3. \A id \in got[t] : (Settled(id) => Settled(id)') /\ (Finished(id) => Finished(id)')
    BY <1>1, FinishedStays
  <1>4. /\ pc[t] = "insert" => \A id \in got[t] : log[id] = Malformed => Finished(id)
        /\ pc[t] = "mark" => \A id \in got[t] : Settled(id)
        /\ pc[t] = "ack" => \A id \in got[t] : Finished(id)
    BY DEF StepInv
  <1>5. CASE batch'[t] = batch[t] /\ got'[t] = got[t] /\ pc'[t] = pc[t]
    BY <1>2, <1>3, <1>4, <1>5
  <1>6. CASE pc'[t] = "idle"
    BY <1>6
  <1>7. CASE UNCHANGED log /\ pc'[t] = FirstStep(got'[t])
    BY <1>7 DEF FirstStep, Refused, Parsed
  <1>8. CASE DeadLetter(t)
    <2>1. /\ got'[t] = got[t] /\ UNCHANGED log
          /\ pc'[t] = IF Parsed(got[t]) # {} THEN "insert" ELSE "ack"
          /\ dead' = dead \cup Refused(got[t])
      BY <1>8 DEF DeadLetter, redisVars, TypeOK
    <2>2. \A id \in got[t] : log[id] = Malformed => Finished(id)'
      BY <2>1 DEF Refused, Finished, Settled
    <2>3. Parsed(got[t]) = {} => \A id \in got[t] : log[id] = Malformed
      BY DEF Parsed
    <2>. QED  BY <2>1, <2>2, <2>3
  <1>9. CASE Commit(t)
    <2>1. /\ got'[t] = got[t] /\ UNCHANGED <<log, dead>> /\ pc[t] = "insert"
          /\ pc'[t] = "mark"
          /\ rows' = InsertUsageEvents(Parsed(got[t]), rows)
      BY <1>9 DEF Commit, redisVars, TypeOK
    <2>2. \A id \in got[t] : log[id] # Malformed => rows'[id] = 1
      BY <1>1, <2>1 DEF InsertUsageEvents, Parsed, RowOncePerEvent, TypeOK
    <2>3. \A id \in got[t] : Settled(id)'
      BY <1>4, <2>1, <2>2 DEF Settled, Finished
    <2>. QED  BY <2>1, <2>3
  <1>10. CASE MarkProgress(t)
    <2>1. /\ got'[t] = got[t] /\ UNCHANGED log /\ pc[t] = "mark" /\ pc'[t] = "ack"
          /\ dirty' = dirty \cup {log[id] : id \in Parsed(got[t])}
      BY <1>10 DEF MarkProgress, redisVars, TypeOK
    <2>2. \A id \in got[t] : log[id] # Malformed => log[id] \in dirty'
      BY <2>1 DEF Parsed
    <2>3. \A id \in got[t] : Finished(id)'
      BY <1>3, <1>4, <2>1, <2>2 DEF Finished
    <2>. QED  BY <2>1, <2>3
  <1>. QED
    BY <1>5, <1>6, <1>7, <1>8, <1>9, <1>10, TaskMoves

\* The pending list: an entry keeps its holder, is let go, or is handed to the
\* reader of this step, and then it is delivered.
LEMMA PelMoves ==
    ASSUME IInv, [Next]_vars, NEW id \in EntryId
    PROVE  \/ pel'[id] = pel[id]
           \/ pel'[id] = NoWorker
           \/ /\ pel[id] # NoWorker
              /\ UNCHANGED <<log, stream, delivered>>
           \/ /\ delivered < id /\ id <= delivered'
              /\ pel'[id] # NoWorker
  <1> USE DEF IInv
  <1>1. \A u \in Task : Home[u] \in Worker /\ Home[u] # NoWorker
    BY HomeAssumption, SentinelAssumption
  <1>2. ASSUME NEW t \in Task, NEW idle \in SUBSET Pending, Reclaim(t, idle),
               pel'[id] # pel[id], pel'[id] # NoWorker
        PROVE  pel[id] # NoWorker /\ UNCHANGED <<log, stream, delivered>>
    <2>1. UNCHANGED <<log, stream, delivered>>
      BY <1>2 DEF Reclaim
    <2>2. id \in idle
      BY <1>2 DEF Reclaim
    <2>. QED  BY <2>1, <2>2 DEF Pending
  <1>3. ASSUME NEW t \in Task, ReadNew(t), pel'[id] # pel[id]
        PROVE  delivered < id /\ id <= delivered' /\ pel'[id] # NoWorker
    <2>1. PICK B \in SUBSET Undelivered :
             /\ \A b \in B : b <= delivered'
             /\ pel' = [e \in EntryId |-> IF e \in B THEN Home[t] ELSE pel[e]]
      BY <1>3 DEF ReadNew
    <2>. QED  BY <1>1, <1>3, <2>1 DEF Undelivered
  <1>4. ASSUME NEW t \in Task, Acknowledge(t)
        PROVE  pel'[id] = pel[id] \/ pel'[id] = NoWorker
    BY <1>4 DEF Acknowledge
  <1>5. CASE UNCHANGED pel
    BY <1>5
  <1>. QED
    BY <1>2, <1>3, <1>4, <1>5
       DEF Next, vars, redisVars, ReadPass, BatchStep, TrimStep, Capture,
           ReadOwnPending, DeadLetter, Commit, MarkProgress, Fail, TrimPending,
           TrimGroups, TrimStream, Crash, Restart

\* What is not delivered yet is in the stream and in nobody's hands.
LEMMA NextFresh ==
    ASSUME IInv, [Next]_vars
    PROVE  FreshInv'
  <1> USE DEF IInv
  <1> SUFFICES ASSUME NEW id \in EntryId, id > delivered'
               PROVE  /\ pel'[id] = NoWorker
                      /\ id <= Len(log') => id \in stream'
    BY DEF FreshInv
  <1>1. /\ delivered \in Nat /\ delivered' \in Nat /\ delivered <= delivered'
        /\ id \in Nat /\ id >= 1 /\ Len(log) \in Nat
    <2>1. Len(log) \in Nat /\ Len(log') \in Nat
      BY LogKept
    <2>2. delivered \in 0 .. Len(log) /\ delivered' \in 0 .. Len(log')
      BY NextType DEF TypeOK
    <2>3. delivered \in Nat /\ delivered' \in Nat
      BY <2>1, <2>2
    <2>4. id \in Nat /\ id >= 1
      BY BoundAssumption DEF EntryId
    <2>. QED  BY <2>1, <2>3, <2>4, DeliveredGrows
  <1>2. id > delivered
    BY <1>1
  <1>3. pel[id] = NoWorker /\ (id <= Len(log) => id \in stream)
    BY <1>2 DEF FreshInv
  <1>4. pel'[id] = NoWorker
    BY <1>1, <1>3, PelMoves
  <1>5. ASSUME id <= Len(log') PROVE id \in stream'
    <2>1. CASE \E p \in Payload : Capture(p)
      <3>1. PICK p \in Payload : Capture(p)
        BY <2>1
      <3>2. Len(log') = Len(log) + 1
        BY <3>1, AppendFacts DEF Capture, TypeOK
      <3>. QED  BY <1>1, <1>3, <1>5, <3>1, <3>2 DEF Capture
    <2>2. CASE \E w \in Watchdog : TrimStream(w)
      <3>1. PICK w \in Watchdog : TrimStream(w)
        BY <2>2
      <3>2. trim[w].min <= delivered /\ trim[w].min \in Nat
        BY DEF TrimInv, TypeOK, TrimState
      <3>. QED  BY <1>1, <1>2, <1>3, <1>5, <3>1, <3>2 DEF TrimStream
    <2>3. CASE UNCHANGED <<log, stream>>
      BY <1>3, <1>5, <2>3
    <2>. QED
      BY <2>1, <2>2, <2>3
         DEF Next, vars, redisVars, ReadPass, BatchStep, TrimStep, ReadOwnPending,
             Reclaim, ReadNew, DeadLetter, Commit, MarkProgress, Acknowledge,
             Fail, TrimPending, TrimGroups, Crash, Restart
  <1>. QED  BY <1>4, <1>5

\* A trim point is never past the last-delivered-id, and on the branch that saw
\* a pending entry it stays at or below every pending entry.
LEMMA NextTrim ==
    ASSUME IInv, [Next]_vars
    PROVE  TrimInv'
  <1> USE DEF IInv
  <1> SUFFICES
        ASSUME NEW w \in Watchdog
        PROVE  /\ trim'[w].min <= delivered'
               /\ trim'[w].step = "cut" /\ trim'[w].by = "pending" =>
                     \A id \in Pending' : trim'[w].min <= id
    BY DEF TrimInv
  <1>1. /\ delivered \in Nat /\ delivered' \in Nat /\ delivered <= delivered'
        /\ trim[w].min \in Nat
    BY DeliveredGrows, NextType DEF TypeOK, TrimState
  <1>2. /\ trim[w].min <= delivered
        /\ trim[w].step = "cut" /\ trim[w].by = "pending" =>
              \A id \in Pending : trim[w].min <= id
    BY DEF TrimInv
  <1>3. \A id \in Pending' : id \in Nat /\ (id \in Pending \/ delivered < id)
    BY PelMoves DEF Pending, EntryId
  <1>4. CASE trim'[w] = trim[w]
    BY <1>1, <1>2, <1>3, <1>4
  <1>5. CASE trim'[w] = NoTrim
    BY <1>1, <1>5 DEF NoTrim
  <1>6. CASE TrimPending(w)
    <2>1. CASE Pending = {}
      <3>1. trim'[w] = [step |-> "groups", min |-> 0, by |-> "delivered"]
        BY <1>6, <2>1 DEF TrimPending, TypeOK
      <3>. QED  BY <1>1, <3>1
    <2>2. CASE Pending # {}
      <3>1. PICK m \in Pending :
               /\ \A id \in Pending : m <= id
               /\ trim'[w] = [step |-> "cut", min |-> m, by |-> "pending"]
        BY <1>6, <2>2 DEF TrimPending, TypeOK
      <3>2. m \in Nat /\ m <= delivered
        BY DEF Pending, FreshInv, EntryId, TypeOK
      <3>3. Pending' = Pending
        BY <1>6 DEF TrimPending, Pending, redisVars
      <3>. QED  BY <1>1, <3>1, <3>2, <3>3
    <2>. QED  BY <2>1, <2>2
  <1>7. CASE TrimGroups(w)
    BY <1>1, <1>7 DEF TrimGroups, TypeOK, NoTrim, redisVars
  <1>8. ASSUME NEW v \in Watchdog, TrimPending(v) \/ TrimGroups(v), v # w
        PROVE  trim'[w] = trim[w]
    BY <1>8 DEF TrimPending, TrimGroups, TypeOK
  <1>9. ASSUME NEW v \in Watchdog, TrimStream(v)
        PROVE  trim'[w] = trim[w] \/ trim'[w] = NoTrim
    BY <1>9 DEF TrimStream, TypeOK
  <1>10. ASSUME NEW v \in Worker, Crash(v)
         PROVE  trim'[w] = trim[w] \/ trim'[w] = NoTrim
    BY <1>10 DEF Crash
  <1>. QED
    BY <1>4, <1>5, <1>6, <1>7, <1>8, <1>9, <1>10
       DEF Next, vars, ReadPass, BatchStep, TrimStep, Capture, ReadOwnPending,
           Reclaim, ReadNew, DeadLetter, Commit, MarkProgress, Acknowledge, Fail,
           Restart

\* An unfinished entry leaves the pending list or the stream only by a trim
\* that overruns it: reads hand over every entry up to the one they reach,
\* XAUTOCLAIM drops only vanished entries, and XACK comes after the rest.
LEMMA NextFinished ==
    ASSUME IInv, [Next]_vars
    PROVE  FinishedInv'
  <1> USE DEF IInv
  <1> SUFFICES ASSUME NEW id \in 1 .. Len(log'), Done(id)' \/ id \notin stream'
               PROVE  Finished(id)' \/ id \in overrun'
    BY DEF FinishedInv
  <1>1. /\ Len(log) \in Nat /\ Len(log') \in Nat /\ delivered \in Nat
        /\ delivered <= Len(log) /\ id \in Nat /\ id >= 1 /\ delivered' \in Nat
    BY LogKept, NextType DEF TypeOK
  <1>2. id \in EntryId
    <2>1. Len(log') <= MaxEntries
      BY NextType DEF TypeOK
    <2>. QED  BY <1>1, <2>1, BoundAssumption DEF EntryId
  <1>3. id \in 1 .. Len(log)
    <2>1. CASE \E p \in Payload : Capture(p)
      <3>1. PICK p \in Payload : Capture(p)
        BY <2>1
      <3>2. Len(log') = Len(log) + 1
        BY <3>1, AppendFacts DEF Capture, TypeOK
      <3>3. id = Len(log) + 1 => id \in stream' /\ id > delivered'
        BY <1>1, <3>1 DEF Capture
      <3>. QED  BY <1>1, <3>2, <3>3 DEF Done
    <2>2. CASE UNCHANGED log
      BY <2>2
    <2>. QED
      BY <2>1, <2>2
         DEF Next, vars, redisVars, ReadPass, BatchStep, TrimStep, ReadOwnPending,
             Reclaim, ReadNew, DeadLetter, Commit, MarkProgress, Acknowledge,
             Fail, TrimPending, TrimGroups, TrimStream, Crash, Restart
  <1>4. Finished(id) \/ id \in overrun => Finished(id)' \/ id \in overrun'
    BY <1>3, FinishedStays, SinksGrow
  <1>5. SUFFICES ASSUME ~Finished(id), id \notin overrun
                 PROVE  Finished(id)' \/ id \in overrun'
    BY <1>4
  <1>6. id \in stream /\ (id > delivered \/ pel[id] # NoWorker)
    BY <1>1, <1>3, <1>5 DEF FinishedInv, Done
  <1>7. ASSUME NEW w \in Watchdog, TrimStream(w) PROVE id \in overrun'
    <2>1. UNCHANGED <<delivered, pel>> /\ trim[w].min <= delivered
          /\ trim[w].min \in Nat
      BY <1>7 DEF TrimStream, TrimInv, TypeOK, TrimState
    <2>2. id \notin stream'
      BY <1>1, <1>6, <2>1 DEF Done
    <2>3. id < trim[w].min
      BY <1>6, <1>7, <2>2 DEF TrimStream
    <2>4. pel[id] # NoWorker
      BY <1>1, <1>6, <2>1, <2>3
    <2>. QED  BY <1>2, <1>6, <1>7, <2>3, <2>4 DEF TrimStream, Pending
  <1>8. ASSUME NEW t \in Task, Acknowledge(t) PROVE Finished(id)'
    <2>1. UNCHANGED <<delivered, stream>>
      BY <1>8 DEF Acknowledge
    <2>2. id <= delivered /\ pel'[id] = NoWorker
      BY <1>6, <2>1 DEF Done
    <2>3. id \in batch[t]
      BY <1>1, <1>2, <1>6, <1>8, <2>2 DEF Acknowledge
    <2>4. id \in got[t]
      BY <1>6, <2>3 DEF HeldInv
    <2>. QED  BY <1>5, <1>8, <2>4 DEF Acknowledge, StepInv
  <1>9. ASSUME NEW t \in Task, NEW idle \in SUBSET Pending, Reclaim(t, idle)
        PROVE  FALSE
    <2>1. UNCHANGED <<delivered, stream>>
      BY <1>9 DEF Reclaim
    <2>2. id <= delivered /\ pel'[id] = NoWorker
      BY <1>6, <2>1 DEF Done
    <2>3. pel[id] # NoWorker
      BY <1>1, <1>6, <2>2
    <2>4. Home[t] # NoWorker
      BY HomeAssumption, SentinelAssumption
    <2>. QED  BY <1>2, <1>6, <1>9, <2>2, <2>3, <2>4 DEF Reclaim
  <1>10. ASSUME NEW t \in Task, ReadNew(t) PROVE FALSE
    <2>1. PICK B \in SUBSET Undelivered :
             /\ IsOldest(B, Undelivered)
             /\ delivered' \in B
             /\ pel' = [e \in EntryId |-> IF e \in B THEN Home[t] ELSE pel[e]]
      BY <1>10 DEF ReadNew
    <2>2. UNCHANGED stream
      BY <1>10 DEF ReadNew
    <2>3. id <= delivered' /\ pel'[id] = NoWorker
      BY <1>6, <2>2 DEF Done
    <2>4. Home[t] # NoWorker
      BY HomeAssumption, SentinelAssumption
    <2>5. id \notin B /\ pel[id] = NoWorker
      BY <1>2, <2>1, <2>3, <2>4
    <2>6. id \in Undelivered
      BY <1>6, <2>5 DEF Undelivered
    <2>7. delivered' < id
      BY <2>1, <2>5, <2>6 DEF IsOldest
    <2>. QED  BY <1>1, <2>3, <2>7
  <1>11. CASE /\ UNCHANGED <<delivered, pel>>
              /\ id \in stream'
    BY <1>1, <1>6, <1>11 DEF Done
  <1>12. CASE \E p \in Payload : Capture(p)
    BY <1>1, <1>6, <1>11, <1>12 DEF Capture
  <1>13. CASE UNCHANGED <<delivered, pel, stream>>
    BY <1>6, <1>11, <1>13
  <1>. QED
    BY <1>7, <1>8, <1>9, <1>10, <1>12, <1>13
       DEF Next, vars, redisVars, ReadPass, BatchStep, TrimStep, ReadOwnPending,
           DeadLetter, Commit, MarkProgress, Fail, TrimPending, TrimGroups,
           Crash, Restart

\* The invariant is inductive.
THEOREM Invariance == Spec => []IInv
  <1>1. IInv /\ [Next]_vars => IInv'
    <2> SUFFICES ASSUME IInv, [Next]_vars PROVE IInv'
      OBVIOUS
    <2>1. TypeOK'
      BY NextType DEF IInv
    <2>. QED
      BY <2>1, NextRow, NextDead, NextHeld, NextStep, NextFresh, NextTrim, NextFinished
         DEF IInv
  <1>. QED
    BY <1>1, InitIInv, PTL DEF Spec

----------------------------------------------------------------------------
(* The properties the runs check, for every value of the constants.        *)

\* The state of the drain keeps its types in every reachable state.
THEOREM TypeCorrect == Spec => []TypeOK
  <1>1. IInv => TypeOK
    BY DEF IInv
  <1>. QED  BY <1>1, Invariance, PTL

\* However often an entry is redelivered, reclaimed or held by two tasks at
\* once, usage_events gets at most one row for it.
THEOREM RowOncePerEventHolds == Spec => []RowOncePerEvent
  <1>1. IInv => RowOncePerEvent
    BY DEF IInv
  <1>. QED  BY <1>1, Invariance, PTL

\* What is acknowledged is committed or dead-lettered, unless a trim took it
\* while it was pending.
THEOREM DoneIsSettledHolds == Spec => []DoneIsSettled
  <1>1. IInv => DoneIsSettled
    BY DEF IInv, FinishedInv, DoneIsSettled, Finished
  <1>. QED  BY <1>1, Invariance, PTL

\* What is acknowledged had its cell marked dirty after its commit.
THEOREM DoneIsMarkedHolds == Spec => []DoneIsMarked
  <1>1. IInv => DoneIsMarked
    BY DEF IInv, FinishedInv, DoneIsMarked, Finished
  <1>. QED  BY <1>1, Invariance, PTL

\* No crash, failure or redelivery loses a captured request: only a trim that
\* overruns the pending list does.
THEOREM LostOnlyByOverrunHolds == Spec => []LostOnlyByOverrun
  <1>1. IInv => LostOnlyByOverrun
    BY DEF IInv, FinishedInv, LostOnlyByOverrun, Finished, Lost
  <1>. QED  BY <1>1, Invariance, PTL

\* What has not been delivered is never trimmed.
THEOREM UndeliveredStaysHolds == Spec => []UndeliveredStays
  <1>1. IInv => UndeliveredStays
    <2> SUFFICES ASSUME IInv, NEW id \in 1 .. Len(log), id > delivered
                 PROVE  id \in stream
      BY DEF UndeliveredStays
    <2>1. Len(log) \in Nat /\ Len(log) <= MaxEntries
      BY DEF IInv, TypeOK
    <2>2. id \in EntryId /\ id <= Len(log)
      BY <2>1, BoundAssumption DEF EntryId
    <2>. QED  BY <2>2 DEF IInv, FreshInv
  <1>. QED  BY <1>1, Invariance, PTL

\* A trim that saw a pending entry removes none, whatever happened between its
\* XPENDING and its XTRIM.
THEOREM PendingBranchSparesHolds == Spec => PendingBranchSpares
  <1>1. IInv /\ [Next]_vars =>
          [\A w \in Watchdog :
              TrimStream(w) /\ trim[w].by = "pending" => overrun' = overrun]_vars
    <2> SUFFICES ASSUME IInv, NEW w \in Watchdog, TrimStream(w),
                        trim[w].by = "pending"
                 PROVE  overrun' = overrun
      OBVIOUS
    <2>1. \A id \in Pending : trim[w].min <= id /\ id \in Nat /\ trim[w].min \in Nat
      BY DEF IInv, TrimInv, TrimStream, TypeOK, TrimState, Pending, EntryId
    <2>2. {id \in stream : id < trim[w].min} \cap Pending = {}
      BY <2>1
    <2>. QED  BY <2>2 DEF TrimStream
  <1>. QED
    BY <1>1, Invariance, PTL DEF Spec, PendingBranchSpares

----------------------------------------------------------------------------
(* The drain implements the usage ledger.                                  *)

\* Entries that go from one status to another while the others keep theirs are
\* one move of the ledger.
LEMMA MoveRule ==
    ASSUME NEW S \in SUBSET EntryId, S # {}, NEW from, NEW to,
           \A id \in S : StatusOf(id) = from /\ StatusOf(id)' = to,
           \A id \in EntryId \ S : StatusOf(id)' = StatusOf(id)
    PROVE  Ledger!Move(S, from, to)
  BY DEF Ledger!Move, ledger

\* Settling takes a payload in hand: a commit or a dead-lettering of a batch
\* that holds it.
LEMMA SettledMoves ==
    ASSUME IInv, [Next]_vars, NEW id \in 1 .. Len(log), ~Settled(id), Settled(id)'
    PROVE  \E t \in Task : id \in got[t] /\ (Commit(t) \/ DeadLetter(t))
  <1>1. id \in EntryId /\ log'[id] = log[id]
    BY FinishedStays, LogKept DEF IInv
  <1>2. CASE log[id] = Malformed
    <2>1. id \in dead' \ dead
      BY <1>1, <1>2 DEF Settled
    <2>2. PICK t \in Task : DeadLetter(t)
      BY <2>1
         DEF Next, vars, sinkVars, ReadPass, BatchStep, TrimStep, ReadOwnPending,
             Reclaim, ReadNew, Capture, Commit, MarkProgress, Acknowledge, Fail,
             TrimPending, TrimGroups, TrimStream, Crash, Restart
    <2>. QED  BY <2>1, <2>2 DEF DeadLetter, Refused
  <1>3. CASE log[id] # Malformed
    <2>1. rows'[id] # rows[id]
      BY <1>1, <1>3 DEF Settled
    <2>2. PICK t \in Task : Commit(t)
      BY <2>1
         DEF Next, vars, sinkVars, ReadPass, BatchStep, TrimStep, ReadOwnPending,
             Reclaim, ReadNew, Capture, DeadLetter, MarkProgress, Acknowledge,
             Fail, TrimPending, TrimGroups, TrimStream, Crash, Restart
    <2>3. id \in Parsed(got[t])
      BY <1>1, <2>1, <2>2 DEF Commit, InsertUsageEvents
    <2>. QED  BY <2>2, <2>3 DEF Parsed
  <1>. QED  BY <1>2, <1>3

\* What is lost stays lost: it is in no stream to be read from and in no hands.
LEMMA LostStays ==
    ASSUME IInv, [Next]_vars, NEW id \in 1 .. Len(log), Lost(id)
    PROVE  Lost(id)'
  <1>1. id \notin stream'
    BY StreamShrinks DEF Lost, IInv
  <1>2. ~Settled(id)'
    BY SettledMoves DEF Lost
  <1>3. ASSUME NEW t \in Task PROVE id \notin got'[t]
    BY <1>1, TaskMoves DEF Lost, DeadLetter, Commit, MarkProgress
  <1>. QED  BY <1>1, <1>2, <1>3 DEF Lost

\* A step that settles nothing and appends nothing is invisible, or loses.
LEMMA LoseOrStutter ==
    ASSUME IInv, [Next]_vars, UNCHANGED <<log, rows, dead>>
    PROVE  [Ledger!Next]_ledger
  <1>1. \A id \in 1 .. Len(log) : Settled(id)' <=> Settled(id)
    BY DEF Settled
  <1>2. \A id \in 1 .. Len(log) : Lost(id) => Lost(id)'
    BY LostStays
  <1> DEFINE S == {id \in EntryId : StatusOf(id) # StatusOf(id)'}
  <1>3. \A id \in S : StatusOf(id) = "captured" /\ StatusOf(id)' = "lost"
    <2> SUFFICES ASSUME NEW id \in S
                 PROVE  StatusOf(id) = "captured" /\ StatusOf(id)' = "lost"
      OBVIOUS
    <2>1. Len(log) \in Nat /\ id \in Nat /\ id >= 1
      BY BoundAssumption DEF EntryId, IInv, TypeOK
    <2>2. CASE id > Len(log)
      BY <2>2 DEF StatusOf
    <2>3. CASE id \in 1 .. Len(log)
      BY <1>1, <1>2, <2>1, <2>3 DEF StatusOf
    <2>. QED  BY <2>1, <2>2, <2>3
  <1>4. CASE S = {}
    BY <1>4 DEF ledger
  <1>5. CASE S # {}
    <2>1. Ledger!Move(S, "captured", "lost")
      BY <1>3, <1>5, MoveRule
    <2>. QED  BY <2>1 DEF Ledger!Next, Ledger!Settle, Ledger!Lose
  <1>. QED  BY <1>4, <1>5

\* Every step of the drain is a step of the ledger or leaves it unchanged.
LEMMA LedgerStep ==
    ASSUME IInv, [Next]_vars
    PROVE  [Ledger!Next]_ledger
  <1>1. Len(log) \in Nat /\ \A id \in EntryId : id \in Nat /\ id >= 1
    BY BoundAssumption DEF EntryId, IInv, TypeOK
  <1>2. ASSUME NEW p \in Payload, Capture(p) PROVE [Ledger!Next]_ledger
    <2>0. PICK new \in EntryId : new = Len(log) + 1
      BY <1>1, <1>2, BoundAssumption DEF Capture, EntryId
    <2>1. /\ Len(log') = new /\ Len(log) < MaxEntries
          /\ log'[new] = p /\ \A id \in 1 .. Len(log) : log'[id] = log[id]
          /\ stream' = stream \cup {new} /\ UNCHANGED <<got, rows, dead>>
      BY <1>2, <2>0, AppendFacts DEF Capture, IInv, TypeOK, taskVars, sinkVars
    <2>2. new > delivered
      BY <1>1, <2>0 DEF IInv, TypeOK
    <2>3. rows[new] # 1 /\ new \notin dead
      BY <1>1, <2>2 DEF IInv, RowOncePerEvent, DeadInv, TypeOK
    <2>4. StatusOf(new) = "absent" /\ StatusOf(new)' = "captured"
      <3>1. StatusOf(new) = "absent"
        BY <1>1, <2>0 DEF StatusOf
      <3>2. ~Settled(new)'
        BY <2>1, <2>3 DEF Settled
      <3>3. ~Lost(new)'
        BY <2>1 DEF Lost
      <3>. QED  BY <1>1, <2>1, <3>1, <3>2, <3>3 DEF StatusOf
    <2>5. \A id \in EntryId \ {new} : StatusOf(id)' = StatusOf(id)
      <3> SUFFICES ASSUME NEW id \in EntryId \ {new} PROVE StatusOf(id)' = StatusOf(id)
        OBVIOUS
      <3>1. CASE id > Len(log)
        BY <1>1, <2>0, <2>1, <3>1 DEF StatusOf
      <3>2. CASE id \in 1 .. Len(log)
        <4>1. Settled(id)' <=> Settled(id)
          BY <2>1, <3>2 DEF Settled
        <4>2. Lost(id)' <=> Lost(id)
          BY <2>1, <4>1 DEF Lost
        <4>. QED  BY <1>1, <2>0, <2>1, <3>2, <4>1, <4>2 DEF StatusOf
      <3>. QED  BY <1>1, <3>1, <3>2
    <2>6. Ledger!Move({new}, "absent", "captured")
      BY <2>4, <2>5, MoveRule
    <2>. QED  BY <2>6 DEF Ledger!Next, Ledger!Capture
  <1>3. ASSUME NEW t \in Task, Commit(t) \/ DeadLetter(t) PROVE [Ledger!Next]_ledger
    <2>1. UNCHANGED <<log, stream, got>>
      BY <1>3 DEF Commit, DeadLetter, redisVars
    <2> DEFINE S == {id \in got[t] : ~Settled(id) /\ Settled(id)'}
    <2>2. got[t] \subseteq EntryId /\ \A id \in got[t] : id \in 1 .. Len(log)
      BY <1>1 DEF IInv, HeldInv, TypeOK
    <2>3. \A id \in S : StatusOf(id) = "captured"
      BY <1>1, <2>2 DEF StatusOf, Lost
    <2>4. \A id \in 1 .. Len(log) \ S : Settled(id)' <=> Settled(id)
      BY <1>3, <2>2, FinishedStays DEF Commit, DeadLetter, Settled,
         InsertUsageEvents, Parsed, Refused, IInv, redisVars
    <2>5. \A id \in 1 .. Len(log) \ S : Lost(id)' <=> Lost(id)
      BY <2>1, <2>4 DEF Lost
    <2>6. \A id \in EntryId \ S : StatusOf(id)' = StatusOf(id)
      BY <1>1, <2>1, <2>4, <2>5 DEF StatusOf
    <2>7. CASE S = {}
      BY <2>6, <2>7 DEF ledger
    <2>8. CASE S # {} /\ Commit(t)
      <3>1. \A id \in S : log[id] # Malformed
        BY <2>8 DEF Commit, Settled, redisVars
      <3>2. \A id \in S : StatusOf(id)' = "recorded"
        BY <1>1, <2>1, <2>2, <3>1 DEF StatusOf
      <3>3. Ledger!Move(S, "captured", "recorded")
        BY <2>2, <2>3, <2>6, <2>8, <3>2, MoveRule
      <3>. QED
        BY <2>2, <3>3 DEF Ledger!Next, Ledger!Settle, Ledger!Record
    <2>9. CASE S # {} /\ DeadLetter(t)
      <3>1. \A id \in S : log[id] = Malformed
        BY <2>9 DEF DeadLetter, Settled, redisVars
      <3>2. \A id \in S : StatusOf(id)' = "dead"
        BY <1>1, <2>1, <2>2, <3>1 DEF StatusOf
      <3>3. Ledger!Move(S, "captured", "dead")
        BY <2>2, <2>3, <2>6, <2>9, <3>2, MoveRule
      <3>. QED
        BY <2>2, <3>3 DEF Ledger!Next, Ledger!Settle, Ledger!SetAside
    <2>. QED  BY <1>3, <2>7, <2>8, <2>9
  <1>4. CASE UNCHANGED <<log, rows, dead>>
    BY <1>4, LoseOrStutter
  <1>. QED
    BY <1>2, <1>3, <1>4
       DEF Next, vars, redisVars, sinkVars, ReadPass, BatchStep, TrimStep,
           ReadOwnPending, Reclaim, ReadNew, MarkProgress, Acknowledge, Fail,
           TrimPending, TrimGroups, TrimStream, Crash, Restart

\* The drain implements the ledger's safety: an event is captured once, then
\* recorded, set aside or lost once, and that is final.
THEOREM LedgerRefinement == Spec => ImplementsLedger
  <1>1. Init => Ledger!Init
    BY DEF Init, Ledger!Init, ledger, StatusOf, EntryId
  <1>2. IInv /\ [Next]_vars => [Ledger!Next]_ledger
    BY LedgerStep
  <1>. QED
    BY <1>1, <1>2, Invariance, PTL DEF Spec, ImplementsLedger, Ledger!SafetySpec

----------------------------------------------------------------------------
(***************************************************************************)
(* The close's reconciliation (Reconciliation) over the running drain: a   *)
(* report that converges for a month whose traffic has ended is complete,  *)
(* whatever the drain did between the report's five reads.                 *)
(***************************************************************************)
Report == [step : {"aggregate", "counter", "pending", "lag", "events", "rollups", "done"},
           counter : Nat, outstanding : Nat, events : Nat, rollups : Nat]

Types ==
    /\ counted \subseteq 1 .. Len(log) /\ seen \subseteq 1 .. Len(log)
    /\ report \in Report
    /\ floor \in 0 .. Len(log)

\* What the report has read, and what can only have grown since.
ReadInv ==
    /\ report.step \in {"pending", "lag", "events", "rollups", "done"} =>
         report.counter = Cardinality(seen)
    /\ report.step \in {"rollups", "done"} => report.events <= Cardinality(Committed)
    /\ report.step = "done" => report.rollups = Cardinality(rolled)

\* Only rows are rolled up, and none is taken back.
RolledInv == rolled \subseteq Committed

CloseInv == IInv /\ Types /\ RolledInv /\ ReadInv /\ ZeroMeansDelivered

----------------------------------------------------------------------------
(* The drain.                                                              *)

\* The drain's invariant is inductive.
LEMMA DrainInductive == IInv /\ [Next]_vars => IInv'
  BY NextType, NextRow, NextDead, NextHeld, NextStep, NextFresh, NextTrim, NextFinished
     DEF IInv

\* Rows are of captured entries, and finitely many.
LEMMA CommittedFacts ==
    ASSUME IInv
    PROVE  /\ Committed \subseteq 1 .. Len(log) /\ Len(log) \in Nat
           /\ IsFiniteSet(1 .. Len(log)) /\ Cardinality(1 .. Len(log)) = Len(log)
           /\ IsFiniteSet(Committed) /\ Cardinality(Committed) \in Nat
           /\ \A id \in Committed : rows[id] = 1
  <1>1. Len(log) \in Nat /\ delivered \in 0 .. Len(log) /\ rows \in [EntryId -> Nat]
    BY DEF IInv, TypeOK
  <1>2. ASSUME NEW id \in Committed PROVE rows[id] = 1 /\ id \in 1 .. Len(log)
    <2>1. id \in EntryId /\ rows[id] > 0 /\ rows[id] \in Nat
      BY <1>1 DEF Committed
    <2>2. rows[id] = 1 /\ id <= delivered
      BY <2>1 DEF IInv, RowOncePerEvent
    <2>. QED  BY <1>1, <2>1, <2>2 DEF EntryId
  <1>3. IsFiniteSet(1 .. Len(log)) /\ Cardinality(1 .. Len(log)) = Len(log)
    <2>1. ASSUME NEW n \in Nat
          PROVE  IsFiniteSet(1 .. n) /\ Cardinality(1 .. n) = n
      <3>1. 1 \in Int /\ n \in Int
        OBVIOUS
      <3>2. IsFiniteSet(1 .. n) /\ Cardinality(1 .. n) = IF 1 > n THEN 0 ELSE n - 1 + 1
        BY <3>1, FS_Interval
      <3>. QED  BY <3>2
    <2>. QED  BY <1>1, <2>1
  <1>4. Committed \in SUBSET (1 .. Len(log))
    BY <1>2
  <1>. QED  BY <1>1, <1>2, <1>3, <1>4, FS_Subset, FS_CardinalityType

\* The drain only adds rows, entries and deliveries.
LEMMA DrainGrows ==
    ASSUME IInv, [Next]_vars
    PROVE  /\ Committed \subseteq Committed' /\ Cardinality(Committed) <= Cardinality(Committed')
           /\ 1 .. Len(log) \subseteq 1 .. Len(log') /\ Len(log) <= Len(log')
           /\ Len(log) \in Nat /\ Len(log') \in Nat
           /\ delivered <= delivered' /\ delivered \in Nat /\ delivered' \in Nat
  <1>1. IInv' /\ TypeOK
    BY DrainInductive DEF IInv
  <1>2. Len(log) \in Nat /\ Len(log') \in Nat /\ Len(log) <= Len(log')
    BY <1>1, LogKept
  <1>3. delivered <= delivered' /\ delivered \in Nat /\ delivered' \in Nat
    BY <1>1, DeliveredGrows DEF IInv, TypeOK
  <1>4. Committed \subseteq Committed'
    BY <1>1, CommittedFacts, SinksGrow DEF Committed
  <1>5. IsFiniteSet(Committed')
    <2>1. Committed' \subseteq EntryId
      BY DEF Committed
    <2>2. IsFiniteSet(EntryId)
      BY BoundAssumption, FS_Interval DEF EntryId
    <2>. QED  BY <2>1, <2>2, FS_Subset
  <1>6. Committed \in SUBSET Committed'
    BY <1>4
  <1>7. Cardinality(Committed) <= Cardinality(Committed')
    BY <1>5, <1>6, FS_Subset
  <1>. QED  BY <1>2, <1>3, <1>4, <1>7

----------------------------------------------------------------------------
(* The reconciliation.                                                     *)

\* The invariant holds before the first request.
LEMMA InitCloseInv == ReconcileInit => CloseInv
  <1> SUFFICES ASSUME ReconcileInit PROVE CloseInv
    OBVIOUS
  <1>1. IInv
    BY InitIInv DEF ReconcileInit
  <1>2. Len(log) \in Nat
    BY <1>1 DEF IInv, TypeOK
  <1>3. Types
    BY <1>2 DEF ReconcileInit, Types, NoReport, Report
  <1>. QED  BY <1>1, <1>3 DEF CloseInv, ReconcileInit, RolledInv, ReadInv, NoReport,
                              ZeroMeansDelivered

\* The drain, and a capture that is counted, leave what a report has read true.
LEMMA DrainKeeps ==
    ASSUME CloseInv, DrainStep
    PROVE  CloseInv'
  <1>1. IInv /\ IInv' /\ [Next]_vars
    BY DrainInductive DEF CloseInv, DrainStep
  <1>2. /\ Committed \subseteq Committed' /\ Cardinality(Committed) <= Cardinality(Committed')
        /\ 1 .. Len(log) \subseteq 1 .. Len(log') /\ Len(log) <= Len(log')
        /\ Len(log) \in Nat /\ Len(log') \in Nat
        /\ delivered <= delivered' /\ delivered \in Nat /\ delivered' \in Nat
    BY <1>1, DrainGrows
  <1>3. counted' = counted /\ rolled' = rolled /\ report' = report /\ seen' = seen /\ floor' = floor
    BY DEF DrainStep, reportVars
  <1>4. Types'
    BY <1>2, <1>3 DEF CloseInv, Types
  <1>5. RolledInv'
    BY <1>2, <1>3 DEF CloseInv, RolledInv
  <1>6. ReadInv'
    <2>1. Cardinality(Committed) \in Nat
      BY <1>1, CommittedFacts
    <2>2. Cardinality(Committed') \in Nat
      <3>1. Committed' \in SUBSET EntryId
        BY DEF Committed
      <3>2. IsFiniteSet(EntryId)
        BY BoundAssumption, FS_Interval DEF EntryId
      <3>. QED  BY <3>1, <3>2, FS_Subset, FS_CardinalityType
    <2>3. report.events \in Nat
      BY DEF CloseInv, Types, Report
    <2>. QED  BY <1>2, <1>3, <2>1, <2>2, <2>3 DEF CloseInv, ReadInv
  <1>7. ZeroMeansDelivered'
    <2>1. floor \in Nat
      BY <1>2 DEF CloseInv, Types
    <2>. QED  BY <1>2, <1>3, <2>1 DEF CloseInv, ZeroMeansDelivered
  <1>. QED  BY <1>1, <1>4, <1>5, <1>6, <1>7 DEF CloseInv

\* Each read of the report establishes its part.
LEMMA ReportKeeps ==
    ASSUME CloseInv, CloserStep
    PROVE  CloseInv'
  <1>1. IInv /\ UNCHANGED vars /\ counted' = counted
    BY DEF CloseInv, CloserStep, AggregatePeriod, ReadCounter, ReadPending, ReadLag,
           CountEvents, CountRollups
  <1>2. IInv'
    BY <1>1, DrainInductive
  <1>3. log' = log /\ delivered' = delivered /\ rows' = rows /\ pel' = pel
    BY <1>1 DEF vars, redisVars, sinkVars
  <1>4. Committed' = Committed /\ Cardinality(Committed) \in Nat
    BY <1>1, <1>3, CommittedFacts DEF Committed
  <1>5. Len(log) \in Nat /\ delivered \in 0 .. Len(log)
    BY <1>1 DEF IInv, TypeOK
  <1>6. CASE AggregatePeriod
    <2>1. report' = [NoReport EXCEPT !.step = "counter"] /\ rolled' = Committed
          /\ seen' = seen /\ floor' = floor
      BY <1>6 DEF AggregatePeriod
    <2>2. report'.step = "counter" /\ report' \in Report
      BY <2>1 DEF NoReport, Report
    <2>. QED  BY <1>1, <1>2, <1>3, <1>4, <2>1, <2>2
              DEF CloseInv, Types, RolledInv, ReadInv, ZeroMeansDelivered
  <1>7. CASE ReadCounter
    <2>1. Cardinality(counted) \in Nat
      <3>1. counted \in SUBSET (1 .. Len(log))
        BY DEF CloseInv, Types
      <3>. QED  BY <1>1, <3>1, CommittedFacts, FS_Subset, FS_CardinalityType
    <2>2. report' \in Report /\ report'.step = "pending"
          /\ report'.counter = Cardinality(counted) /\ seen' = counted
          /\ rolled' = rolled /\ floor' = floor
      BY <1>7, <2>1 DEF ReadCounter, CloseInv, Types, Report
    <2>. QED  BY <1>1, <1>2, <1>3, <1>4, <2>2
              DEF CloseInv, Types, RolledInv, ReadInv, ZeroMeansDelivered
  <1>8. CASE ReadPending
    <2>1. Cardinality(Pending) \in Nat
      <3>1. Pending \in SUBSET EntryId
        BY DEF Pending
      <3>2. IsFiniteSet(EntryId)
        BY BoundAssumption, FS_Interval DEF EntryId
      <3>. QED  BY <3>1, <3>2, FS_Subset, FS_CardinalityType
    <2>2. report' \in Report /\ report'.step = "lag" /\ report'.counter = report.counter
          /\ seen' = seen /\ rolled' = rolled /\ floor' = Len(log) /\ report.step = "pending"
      BY <1>8, <2>1 DEF ReadPending, CloseInv, Types, Report
    <2>. QED  BY <1>1, <1>2, <1>3, <1>4, <1>5, <2>2
              DEF CloseInv, Types, RolledInv, ReadInv, ZeroMeansDelivered
  <1>9. CASE ReadLag
    <2>1. Lag \in Nat /\ (Lag = 0 => delivered = Len(log))
      BY <1>5 DEF Lag
    <2>2. report' \in Report /\ report'.step = "events" /\ report'.counter = report.counter
          /\ report'.outstanding = report.outstanding + Lag
          /\ seen' = seen /\ rolled' = rolled /\ floor' = floor /\ report.step = "lag"
          /\ report.outstanding \in Nat
      <3>1. report \in Report
        BY DEF CloseInv, Types
      <3>2. /\ report' = [report EXCEPT !.step = "events", !.outstanding = @ + Lag]
            /\ seen' = seen /\ rolled' = rolled /\ floor' = floor /\ report.step = "lag"
        BY <1>9 DEF ReadLag
      <3>3. report.outstanding \in Nat /\ report.outstanding + Lag \in Nat
        BY <2>1, <3>1 DEF Report
      <3>4. report' = [report EXCEPT !.step = "events",
                                     !.outstanding = report.outstanding + Lag]
        BY <3>2
      <3>5. PICK n \in Nat : n = report.outstanding + Lag
        BY <3>3
      <3>6. report' = [report EXCEPT !.step = "events", !.outstanding = n]
        BY <3>4, <3>5
      <3>7. /\ report' \in Report /\ report'.step = "events" /\ report'.outstanding = n
            /\ report'.counter = report.counter
        BY <3>1, <3>6 DEF Report
      <3>. QED  BY <3>2, <3>3, <3>5, <3>7
    <2>3. report'.outstanding = 0 => floor' <= delivered'
      BY <1>3, <1>5, <2>1, <2>2 DEF CloseInv, Types
    <2>. QED  BY <1>1, <1>2, <1>3, <1>4, <2>2, <2>3
              DEF CloseInv, Types, RolledInv, ReadInv, ZeroMeansDelivered
  <1>10. CASE CountEvents
    <2>1. report' \in Report /\ report'.step = "rollups" /\ report'.counter = report.counter
          /\ report'.outstanding = report.outstanding /\ report'.events = Cardinality(Committed)
          /\ seen' = seen /\ rolled' = rolled /\ floor' = floor /\ report.step = "events"
      BY <1>4, <1>10 DEF CountEvents, CloseInv, Types, Report
    <2>. QED  BY <1>1, <1>2, <1>3, <1>4, <2>1
              DEF CloseInv, Types, RolledInv, ReadInv, ZeroMeansDelivered
  <1>11. CASE CountRollups
    <2>1. Cardinality(rolled) \in Nat
      <3>1. rolled \in SUBSET Committed
        BY DEF CloseInv, RolledInv
      <3>. QED  BY <1>1, <3>1, CommittedFacts, FS_Subset, FS_CardinalityType
    <2>2. report' \in Report /\ report'.step = "done" /\ report'.counter = report.counter
          /\ report'.outstanding = report.outstanding /\ report'.events = report.events
          /\ report'.rollups = Cardinality(rolled)
          /\ seen' = seen /\ rolled' = rolled /\ floor' = floor /\ report.step = "rollups"
      BY <1>11, <2>1 DEF CountRollups, CloseInv, Types, Report
    <2>. QED  BY <1>1, <1>2, <1>3, <1>4, <2>2
              DEF CloseInv, Types, RolledInv, ReadInv, ZeroMeansDelivered
  <1>. QED  BY <1>6, <1>7, <1>8, <1>9, <1>10, <1>11 DEF CloserStep

\* The inductive step.
LEMMA NextCloseInv == CloseInv /\ [ReconcileNext]_allVars => CloseInv'
  <1> SUFFICES ASSUME CloseInv, [ReconcileNext]_allVars PROVE CloseInv'
    OBVIOUS
  <1>1. ASSUME UNCHANGED vars, UNCHANGED reportVars, counted' \subseteq 1 .. Len(log)
        PROVE  CloseInv'
    <2>1. IInv /\ IInv'
      BY <1>1, DrainInductive DEF CloseInv
    <2>2. log' = log /\ delivered' = delivered /\ rows' = rows
      BY <1>1 DEF vars, redisVars, sinkVars
    <2>3. Committed' = Committed
      BY <2>2 DEF Committed
    <2>. QED  BY <1>1, <2>1, <2>2, <2>3
              DEF CloseInv, reportVars, Types, RolledInv, ReadInv, ZeroMeansDelivered
  <1>2. ASSUME NEW id \in EntryId, Count(id) PROVE CloseInv'
    BY <1>1, <1>2 DEF Count, CloseInv, Types
  <1>3. CASE UNCHANGED allVars
    BY <1>1, <1>3 DEF allVars, CloseInv, Types
  <1>. QED  BY <1>2, <1>3, DrainKeeps, ReportKeeps DEF ReconcileNext

----------------------------------------------------------------------------
(* The theorems.                                                           *)

\* The inductive invariant: the drain's, and what the report's reads still say.
THEOREM ReconcileInvariance == ReconcileSpec => []CloseInv
  <1>. QED  BY InitCloseInv, NextCloseInv, PTL DEF ReconcileSpec

\* For a month whose traffic has ended, a converged report of reconcile.py means
\* every captured request is committed once and in the rollups the invoice is
\* built from, for any number of workers, entries and faults.
THEOREM ConvergedIsCompleteHolds == ReconcileSpec => []ConvergedIsComplete
  <1>1. ASSUME CloseInv, Converged, QuietMonth
        PROVE  \A id \in 1 .. Len(log) : rows[id] = 1 /\ id \in rolled
    <2>1. /\ Committed \subseteq 1 .. Len(log) /\ Len(log) \in Nat
          /\ IsFiniteSet(1 .. Len(log)) /\ Cardinality(1 .. Len(log)) = Len(log)
          /\ IsFiniteSet(Committed) /\ Cardinality(Committed) \in Nat
          /\ \A id \in Committed : rows[id] = 1
      BY <1>1, CommittedFacts DEF CloseInv
    <2>2. report.counter \in Nat /\ report.events \in Nat /\ report.rollups \in Nat
      BY <1>1 DEF CloseInv, Types, Report
    <2>3. report.counter = Len(log) /\ report.events = report.counter
          /\ report.rollups = report.events
      BY <1>1, <2>1, <2>2 DEF Converged, QuietMonth, CloseInv, ReadInv
    <2>4. Committed \in SUBSET (1 .. Len(log))
      BY <2>1
    <2>5. Cardinality(Committed) <= Len(log)
      BY <2>1, <2>4, FS_Subset
    <2>6. Cardinality(Committed) = Cardinality(1 .. Len(log))
      BY <1>1, <2>1, <2>3, <2>5 DEF Converged, CloseInv, ReadInv
    <2>7. 1 .. Len(log) = Committed
      BY <2>1, <2>4, <2>6, FS_Subset
    <2>8. rolled \in SUBSET Committed /\ Cardinality(rolled) = Cardinality(Committed)
      BY <1>1, <2>1, <2>3, <2>6 DEF Converged, CloseInv, ReadInv, RolledInv
    <2>9. Committed = rolled
      BY <2>1, <2>8, FS_Subset
    <2>. QED  BY <2>1, <2>7, <2>9
  <1>2. CloseInv => ConvergedIsComplete
    BY <1>1 DEF ConvergedIsComplete
  <1>. QED  BY <1>2, ReconcileInvariance, PTL

\* A report that reads nothing outstanding has seen every earlier entry handed
\* to a consumer, although the pending list and the lag are read one after the
\* other.
THEOREM ZeroMeansDeliveredHolds == ReconcileSpec => []ZeroMeansDelivered
  <1>1. CloseInv => ZeroMeansDelivered
    BY DEF CloseInv
  <1>. QED  BY <1>1, ReconcileInvariance, PTL
=============================================================================
