---------------------------- MODULE LimitsProofs ----------------------------
(***************************************************************************)
(* Proofs about spending limits: whenever nothing is in flight and the     *)
(* gate enforces something else than the row asks for, there is a reason   *)
(* the code knows.                                                         *)
(***************************************************************************)
EXTENDS Limits, TLAPS

\* Enforced, or somebody will see that it is not.
Settled == row # NoRow => (threshold = Wanted \/ ~marker \/ NeedsRecompute)

\* A threshold without a row is an orphan or belongs to a set in flight; one
\* set between the two statements of a removal is an orphan already.
OrphanInv ==
    /\ (row = NoRow /\ threshold # NoThreshold) =>
          orphaned \/ \E o \in Operator : op[o].step \in {"begin", "upsert"}
    /\ (threshold # NoThreshold /\ \E o \in Operator : op[o].step = "delete") => orphaned

\* One actor at a time.
Alone ==
    /\ \A o, q \in Operator : Busy(o) /\ Busy(q) => o = q
    /\ \A p, q \in Publisher : Running(p) /\ Running(q) => p = q
    /\ \A o \in Operator, p \in Publisher : ~(Busy(o) /\ Running(p))

\* An operator's request that is alone: what it carries fits the plan, what it
\* has set is there, a plan change starts after the row was computed.
OpInv(o) ==
    /\ op[o].step \in {"redis", "clear", "assign"} => Settled
    /\ op[o].step \in {"redis", "begin", "upsert"} =>
         op[o].value \in {NoThreshold, [limit |-> op[o].limit, plan |-> plan]}
    /\ op[o].step \in {"begin", "upsert"} => threshold = op[o].value
    /\ op[o].step = "assign" => (row # NoRow => row.computed < op[o].at)

\* A pass that is alone: what it read is still so, what it published is wanted.
PubInv(p) ==
    /\ pub[p].step \in {"compute", "publish", "update", "commit"} => row # NoRow
    /\ pub[p].step = "compute" => pub[p].limit = row.limit
    /\ pub[p].step = "publish" => pub[p].value = Wanted
    /\ pub[p].step \in {"update", "commit"} => threshold = Wanted
    /\ pub[p].step = "commit" => pub[p].had
    /\ pub[p].step = "mark" => (row # NoRow => threshold = Wanted)

Calm ==
    /\ Alone
    /\ Quiet => Settled
    /\ \A o \in Operator : OpInv(o)
    /\ \A p \in Publisher : PubInv(p)

----------------------------------------------------------------------------
(* Types.                                                                  *)

Setting == [step : {"redis", "begin"}, limit : Limit, value : Threshold \cup {NoThreshold}]
Upserting == [step : {"upsert"}, limit : Limit, value : Threshold \cup {NoThreshold}, at : Nat]

\* A request in flight carries what its step needs.
LEMMA OpShape ==
    ASSUME NEW e \in OpInFlight \cup {Idle}
    PROVE  /\ e.step \in {"redis", "begin", "upsert", "clear", "delete", "assign", "idle"}
           /\ e.step \in {"redis", "begin"} => e \in Setting
           /\ e.step = "upsert" => e \in Upserting
           /\ e.step = "assign" => e \in [step : {"assign"}, at : Nat]
           /\ e.step = "idle" => e = Idle
  <1>1. CASE e \in Setting
    BY <1>1 DEF Setting
  <1>2. CASE e \in Upserting
    BY <1>2 DEF Upserting
  <1>3. CASE e \in [step : {"clear", "delete"}]
    BY <1>3
  <1>4. CASE e \in [step : {"assign"}, at : Nat]
    BY <1>4
  <1>5. CASE e = Idle
    BY <1>5 DEF Idle
  <1>. QED  BY <1>1, <1>2, <1>3, <1>4, <1>5 DEF OpInFlight, Setting, Upserting

\* The same for a pass.
LEMMA PassShape ==
    ASSUME NEW e \in PassInFlight \cup {Idle}
    PROVE  /\ e.step \in {"compute", "publish", "update", "commit", "mark", "idle"}
           /\ e.step = "compute" =>
                e \in [step : {"compute"}, limit : Limit, at : Nat, rebuild : BOOLEAN]
           /\ e.step = "publish" =>
                e \in [step : {"publish"}, value : Threshold, at : Nat, rebuild : BOOLEAN]
           /\ e.step = "update" =>
                e \in [step : {"update"}, at : Nat, rebuild : BOOLEAN]
           /\ e.step = "commit" =>
                e \in [step : {"commit"}, at : Nat, rebuild : BOOLEAN, had : BOOLEAN]
  <1>1. CASE e \in [step : {"compute"}, limit : Limit, at : Nat, rebuild : BOOLEAN]
    BY <1>1
  <1>2. CASE e \in [step : {"publish"}, value : Threshold, at : Nat, rebuild : BOOLEAN]
    BY <1>2
  <1>3. CASE e \in [step : {"update"}, at : Nat, rebuild : BOOLEAN]
    BY <1>3
  <1>4. CASE e \in [step : {"commit"}, at : Nat, rebuild : BOOLEAN, had : BOOLEAN]
    BY <1>4
  <1>5. CASE e \in [step : {"mark"}] \/ e = Idle
    BY <1>5 DEF Idle
  <1>. QED  BY <1>1, <1>2, <1>3, <1>4, <1>5 DEF PassInFlight

\* The typed state apart from the two kinds of actors, and the actors.
DataTypes ==
    /\ row \in Row \cup {NoRow}
    /\ row # NoRow => row.computed <= now /\ row.updated <= now
    /\ now \in Nat
    /\ plan \in 1 .. MaxPlans /\ planChangedAt \in 0 .. now
    /\ threshold \in Threshold \cup {NoThreshold}
    /\ left \in [changes : 0 .. MaxChanges, incidents : 0 .. MaxIncidents]
    /\ aged \in BOOLEAN /\ marker \in BOOLEAN
    /\ disturbed \in BOOLEAN /\ orphaned \in BOOLEAN

ActorTypes ==
    /\ op \in [Operator -> OpInFlight \cup {Idle}]
    /\ pub \in [Publisher -> PassInFlight \cup {Idle}]
    \* an operator's transaction started in the past; plan changes wait in turn
    /\ \A o \in Operator : op[o].step \in {"upsert", "assign"} => op[o].at <= now
    /\ \A o, q \in Operator :
          op[o].step = "assign" => plan < MaxPlans /\ (op[q].step = "assign" => o = q)

\* A row that a publisher has locked stays, and one publisher locks it.
LockInv ==
    \A p, q \in Publisher :
        (pub[p].step = "commit" /\ pub[p].had) =>
            /\ row # NoRow
            /\ (pub[q].step = "commit" /\ pub[q].had) => p = q

\* A publisher's transaction started in the past.
PassTime == \A p \in Publisher : pub[p].step \in {"compute", "publish", "update", "commit"} =>
                                    pub[p].at <= now

Types == DataTypes /\ ActorTypes /\ LockInv /\ PassTime

IInv == Types /\ OrphanInv /\ (~disturbed => Calm)

\* The strengthened types are the type invariant of Limits, and more.
LEMMA TypesFits == Types => TypeOK
  BY DEF Types, DataTypes, ActorTypes, LockInv, TypeOK

\* They hold at first.
LEMMA InitTypes == Init => Types
  <1> SUFFICES ASSUME Init PROVE Types
    OBVIOUS
  <1>1. DataTypes
    <2>1. left \in [changes : 0 .. MaxChanges, incidents : 0 .. MaxIncidents]
      BY LimitsAssumption DEF Init
    <2>2. plan \in 1 .. MaxPlans /\ planChangedAt \in 0 .. now
      BY LimitsAssumption DEF Init
    <2>3. row = NoRow /\ now \in Nat /\ threshold = NoThreshold
      BY DEF Init
    <2>4. aged \in BOOLEAN /\ marker \in BOOLEAN /\ disturbed \in BOOLEAN /\ orphaned \in BOOLEAN
      BY DEF Init
    <2>. QED  BY <2>1, <2>2, <2>3, <2>4 DEF DataTypes
  <1>2. ActorTypes /\ LockInv /\ PassTime
    BY DEF Init, ActorTypes, LockInv, PassTime, Idle
  <1>. QED  BY <1>1, <1>2 DEF Types

\* An operator's step keeps the types.
LEMMA OperatorTypes ==
    ASSUME Types, NEW o \in Operator,
           BeginSet(o) \/ BeginRemove(o) \/ BeginChange(o) \/ OperatorStep(o) \/ OperatorDies(o)
    PROVE  Types'
  <1> USE DEF Types, DataTypes, ActorTypes
  <1>0. op[o] \in OpInFlight \cup {Idle}
    OBVIOUS
  <1>1. CASE BeginSet(o)
    <2>0. left.changes \in 0 .. MaxChanges
      OBVIOUS
    <2>1. left.changes > 0 /\ left' = [left EXCEPT !["changes"] = @ - 1]
      BY <1>1 DEF BeginSet, Spend
    <2>2. left' \in [changes : 0 .. MaxChanges, incidents : 0 .. MaxIncidents]
      BY <2>0, <2>1, LimitsAssumption
    <2>3. MaxChanges - left.changes + 1 \in Limit
      BY <2>0, <2>1, LimitsAssumption DEF Limit
    <2>4. op'[o] \in OpInFlight /\ op'[o].step = "redis"
      BY <1>1, <2>3 DEF BeginSet, OpInFlight, Threshold
    <2>5. op' = [op EXCEPT ![o] = op'[o]]
      BY <1>1 DEF BeginSet
    <2>6. disturbed' \in BOOLEAN
      BY <1>1 DEF BeginSet, Begin
    <2>7. DataTypes'
      BY <1>1, <2>2, <2>6 DEF BeginSet
    <2>8. ActorTypes' /\ LockInv' /\ PassTime'
      BY <1>1, <2>4, <2>5 DEF BeginSet, LockInv, PassTime
    <2>. QED  BY <2>7, <2>8
  <1>2. CASE BeginRemove(o)
    <2>1. left' \in [changes : 0 .. MaxChanges, incidents : 0 .. MaxIncidents]
      BY <1>2, LimitsAssumption DEF BeginRemove, Spend
    <2>2. disturbed' \in BOOLEAN
      BY <1>2 DEF BeginRemove, Begin
    <2>3. DataTypes'
      BY <1>2, <2>1, <2>2 DEF BeginRemove
    <2>4. ActorTypes' /\ LockInv' /\ PassTime'
      BY <1>2 DEF BeginRemove, LockInv, PassTime, OpInFlight
    <2>. QED  BY <2>3, <2>4
  <1>3. CASE BeginChange(o)
    <2>1. left' \in [changes : 0 .. MaxChanges, incidents : 0 .. MaxIncidents]
      BY <1>3, LimitsAssumption DEF BeginChange, Spend
    <2>2. disturbed' \in BOOLEAN
      BY <1>3 DEF BeginChange, Begin
    <2>3. now' = now + 1 /\ now' \in Nat
      BY <1>3 DEF BeginChange
    <2>4. row # NoRow => row \in Row
      OBVIOUS
    <2>5. DataTypes'
      BY <1>3, <2>1, <2>2, <2>3, <2>4 DEF BeginChange, Row, Never
    <2>6. op'[o] \in OpInFlight /\ op'[o].at = now' /\ op' = [op EXCEPT ![o] = op'[o]]
      BY <1>3, <2>3 DEF BeginChange, OpInFlight
    <2>7. \A q \in Operator : op[q].step \in {"upsert", "assign"} => op[q].at \in Nat
      BY OpShape DEF Upserting
    <2>8. \A p \in Publisher :
            pub[p].step \in {"compute", "publish", "update", "commit"} => pub[p].at \in Nat
      BY PassShape
    <2>9. ActorTypes'
      BY <1>3, <2>3, <2>6, <2>7 DEF BeginChange
    <2>10. LockInv' /\ PassTime'
      BY <1>3, <2>3, <2>8 DEF BeginChange, LockInv, PassTime
    <2>. QED  BY <2>5, <2>9, <2>10
  <1>4. CASE SetRedis(o)
    <2>1. op[o] \in Setting
      BY <1>4, <1>0, OpShape DEF SetRedis
    <2>2. threshold' \in Threshold \cup {NoThreshold} /\ orphaned' \in BOOLEAN
      BY <1>4, <2>1 DEF SetRedis, Setting
    <2>3. op'[o] \in OpInFlight /\ op'[o].step = "begin" /\ op' = [op EXCEPT ![o] = op'[o]]
      BY <1>4, <2>1 DEF SetRedis, Setting, OpInFlight
    <2>4. DataTypes'
      BY <1>4, <2>2 DEF SetRedis
    <2>5. ActorTypes' /\ LockInv' /\ PassTime'
      BY <1>4, <2>3 DEF SetRedis, LockInv, PassTime
    <2>. QED  BY <2>4, <2>5
  <1>5. CASE BeginUpsert(o)
    <2>1. op[o] \in Setting
      BY <1>5, <1>0, OpShape DEF BeginUpsert
    <2>3. now' = now + 1 /\ now' \in Nat
      BY <1>5 DEF BeginUpsert
    <2>4. row # NoRow => row \in Row
      OBVIOUS
    <2>5. DataTypes'
      BY <1>5, <2>3, <2>4 DEF BeginUpsert, Row, Never
    <2>6. op'[o] \in OpInFlight /\ op'[o].at = now' /\ op' = [op EXCEPT ![o] = op'[o]]
      BY <1>5, <2>1, <2>3 DEF BeginUpsert, OpInFlight, Setting
    <2>7. \A q \in Operator : op[q].step \in {"upsert", "assign"} => op[q].at \in Nat
      BY OpShape DEF Upserting
    <2>8. \A p \in Publisher :
            pub[p].step \in {"compute", "publish", "update", "commit"} => pub[p].at \in Nat
      BY PassShape
    <2>9. ActorTypes'
      BY <1>5, <2>3, <2>6, <2>7 DEF BeginUpsert
    <2>10. LockInv' /\ PassTime'
      BY <1>5, <2>3, <2>8 DEF BeginUpsert, LockInv, PassTime
    <2>. QED  BY <2>5, <2>9, <2>10
  <1>6. CASE Upsert(o)
    <2>1. op[o] \in Upserting
      BY <1>6, <1>0, OpShape DEF Upsert
    <2>2. row' \in Row /\ row'.computed <= now /\ row'.updated <= now
      BY <1>6, <2>1 DEF Upsert, Upserting, Row, Never
    <2>3. DataTypes'
      BY <1>6, <2>2, LimitsAssumption DEF Upsert
    <2>4. ActorTypes' /\ PassTime'
      BY <1>6 DEF Upsert, PassTime, Idle
    <2>5. LockInv'
      BY <1>6, <2>2, LimitsAssumption DEF Upsert, LockInv
    <2>. QED  BY <2>3, <2>4, <2>5
  <1>7. CASE ClearRedis(o)
    <2>1. DataTypes'
      BY <1>7 DEF ClearRedis
    <2>2. ActorTypes' /\ LockInv' /\ PassTime'
      BY <1>7 DEF ClearRedis, LockInv, PassTime, OpInFlight
    <2>. QED  BY <2>1, <2>2
  <1>8. CASE DeleteRow(o)
    <2>1. DataTypes'
      BY <1>8 DEF DeleteRow
    <2>2. ActorTypes' /\ PassTime'
      BY <1>8 DEF DeleteRow, PassTime, Idle
    <2>3. LockInv'
      BY <1>8 DEF DeleteRow, LockFree, LockInv
    <2>. QED  BY <2>1, <2>2, <2>3
  <1>9. CASE CommitChange(o)
    <2>0. op[o] \in [step : {"assign"}, at : Nat]
      BY <1>9, <1>0, OpShape DEF CommitChange
    <2>1. DataTypes'
      <3>1. plan' \in 1 .. MaxPlans
        BY <1>9, LimitsAssumption DEF CommitChange
      <3>2. planChangedAt' \in 0 .. now'
        BY <1>9, <2>0 DEF CommitChange
      <3>. QED  BY <1>9, <3>1, <3>2 DEF CommitChange
    <2>2. ActorTypes' /\ LockInv' /\ PassTime'
      BY <1>9 DEF CommitChange, LockInv, PassTime, Idle
    <2>. QED  BY <2>1, <2>2
  <1>10. CASE OperatorDies(o)
    <2>1. left' \in [changes : 0 .. MaxChanges, incidents : 0 .. MaxIncidents]
      BY <1>10, LimitsAssumption DEF OperatorDies, Spend
    <2>2. orphaned' \in BOOLEAN /\ disturbed' \in BOOLEAN
      BY <1>10 DEF OperatorDies
    <2>3. DataTypes'
      BY <1>10, <2>1, <2>2 DEF OperatorDies
    <2>4. ActorTypes' /\ LockInv' /\ PassTime'
      BY <1>10 DEF OperatorDies, LockInv, PassTime, Idle
    <2>. QED  BY <2>3, <2>4
  <1>. QED  BY <1>1, <1>2, <1>3, <1>4, <1>5, <1>6, <1>7, <1>8, <1>9, <1>10 DEF OperatorStep

\* A publisher's step keeps the types.
LEMMA PublisherTypes ==
    ASSUME Types, NEW p \in Publisher,
           Tick(p) \/ RunByHand(p) \/ PublisherStep(p) \/ PublisherFails(p)
    PROVE  Types'
  <1> USE DEF Types, DataTypes, ActorTypes
  <1>0. pub[p] \in PassInFlight \cup {Idle}
    OBVIOUS
  <1>1. CASE Tick(p) \/ RunByHand(p)
    <2>1. left' \in [changes : 0 .. MaxChanges, incidents : 0 .. MaxIncidents]
      <3>1. left' = left \/ Spend("incidents")
        BY <1>1 DEF Tick, RunByHand
      <3>. QED  BY <3>1, LimitsAssumption DEF Spend
    <2>2. PICK rebuild \in BOOLEAN : Read(p, rebuild)
      BY <1>1 DEF Tick, RunByHand, BeginSweep
    <2>3. disturbed' \in BOOLEAN
      BY <2>2 DEF Read, Begin
    <2>4. row # NoRow => row \in Row
      OBVIOUS
    <2>5. pub'[p] \in PassInFlight /\ pub'[p].step \in {"compute", "mark"}
          /\ (pub'[p].step = "compute" => pub'[p].at = now)
          /\ pub' = [pub EXCEPT ![p] = pub'[p]]
      BY <2>2, <2>4 DEF Read, PassInFlight, Row
    <2>6. DataTypes'
      BY <2>1, <2>2, <2>3 DEF Read
    <2>7. ActorTypes' /\ LockInv' /\ PassTime'
      BY <2>2, <2>5 DEF Read, LockInv, PassTime
    <2>. QED  BY <2>6, <2>7
  <1>2. CASE Compute(p)
    <2>1. pub[p] \in [step : {"compute"}, limit : Limit, at : Nat, rebuild : BOOLEAN]
      BY <1>2, <1>0, PassShape DEF Compute
    <2>2. pub'[p] \in PassInFlight /\ pub'[p].step = "publish" /\ pub'[p].at = pub[p].at
          /\ pub' = [pub EXCEPT ![p] = pub'[p]]
      BY <1>2, <2>1 DEF Compute, PassInFlight, Threshold
    <2>3. DataTypes'
      BY <1>2 DEF Compute
    <2>4. ActorTypes' /\ LockInv' /\ PassTime'
      BY <1>2, <2>2 DEF Compute, LockInv, PassTime
    <2>. QED  BY <2>3, <2>4
  <1>3. CASE Publish(p)
    <2>1. pub[p] \in [step : {"publish"}, value : Threshold, at : Nat, rebuild : BOOLEAN]
      BY <1>3, <1>0, PassShape DEF Publish
    <2>2. pub'[p] \in PassInFlight /\ pub'[p].step = "update" /\ pub'[p].at = pub[p].at
          /\ pub' = [pub EXCEPT ![p] = pub'[p]]
      BY <1>3, <2>1 DEF Publish, PassInFlight
    <2>3. orphaned' \in BOOLEAN /\ threshold' \in Threshold
      BY <1>3, <2>1 DEF Publish
    <2>4. DataTypes'
      BY <1>3, <2>3 DEF Publish
    <2>5. ActorTypes' /\ LockInv' /\ PassTime'
      BY <1>3, <2>2 DEF Publish, LockInv, PassTime
    <2>. QED  BY <2>4, <2>5
  <1>4. CASE Update(p)
    <2>1. pub[p] \in [step : {"update"}, at : Nat, rebuild : BOOLEAN]
      BY <1>4, <1>0, PassShape DEF Update
    <2>2. pub'[p] \in PassInFlight /\ pub'[p].step = "commit" /\ pub'[p].at = pub[p].at
          /\ pub'[p].had = (row # NoRow) /\ pub' = [pub EXCEPT ![p] = pub'[p]]
      BY <1>4, <2>1 DEF Update, PassInFlight
    <2>3. DataTypes'
      BY <1>4 DEF Update
    <2>4. ActorTypes' /\ PassTime'
      BY <1>4, <2>2 DEF Update, PassTime
    <2>5. LockInv'
      BY <1>4, <2>2 DEF Update, LockInv, LockFree
    <2>. QED  BY <2>3, <2>4, <2>5
  <1>5. CASE Commit(p)
    <2>1. pub[p] \in [step : {"commit"}, at : Nat, rebuild : BOOLEAN, had : BOOLEAN]
      BY <1>5, <1>0, PassShape DEF Commit
    <2>2. pub'[p] \in PassInFlight \cup {Idle} /\ pub'[p].step \in {"mark", "idle"}
          /\ pub' = [pub EXCEPT ![p] = pub'[p]]
      BY <1>5, <2>1 DEF Commit, PassInFlight, Idle
    <2>3. ASSUME pub[p].had
          PROVE  row' \in Row /\ row'.computed <= now /\ row'.updated <= now
      <3>1. row \in Row
        BY <1>5, <2>3 DEF Commit, LockInv
      <3>2. pub[p].at <= now
        BY <1>5 DEF Commit, PassTime
      <3>. QED  BY <1>5, <2>1, <2>3, <3>1, <3>2 DEF Commit, Row, Never
    <2>4. row' \in Row \cup {NoRow} /\ (row' # NoRow => row'.computed <= now /\ row'.updated <= now)
      BY <1>5, <2>3 DEF Commit
    <2>5. DataTypes'
      BY <1>5, <2>4 DEF Commit
    <2>6. ActorTypes' /\ PassTime'
      BY <1>5, <2>2 DEF Commit, PassTime
    <2>7. LockInv'
      BY <1>5, <2>2 DEF Commit, LockInv
    <2>. QED  BY <2>5, <2>6, <2>7
  <1>6. CASE Mark(p) \/ PublisherFails(p)
    <2>1. left' \in [changes : 0 .. MaxChanges, incidents : 0 .. MaxIncidents]
      BY <1>6, LimitsAssumption DEF Mark, PublisherFails, Spend
    <2>2. DataTypes'
      BY <1>6, <2>1 DEF Mark, PublisherFails
    <2>3. ActorTypes' /\ LockInv' /\ PassTime'
      BY <1>6 DEF Mark, PublisherFails, LockInv, PassTime, Idle
    <2>. QED  BY <2>2, <2>3
  <1>. QED  BY <1>1, <1>2, <1>3, <1>4, <1>5, <1>6 DEF PublisherStep

\* Every step keeps the types.
LEMMA NextTypes == Types /\ [Next]_vars => Types'
  <1> SUFFICES ASSUME Types, [Next]_vars PROVE Types'
    OBVIOUS
  <1>1. ASSUME NEW o \in Operator,
               BeginSet(o) \/ BeginRemove(o) \/ BeginChange(o) \/ OperatorStep(o) \/ OperatorDies(o)
        PROVE  Types'
    BY <1>1, OperatorTypes
  <1>2. ASSUME NEW p \in Publisher,
               Tick(p) \/ RunByHand(p) \/ PublisherStep(p) \/ PublisherFails(p)
        PROVE  Types'
    BY <1>2, PublisherTypes
  <1>3. CASE Age \/ UNCHANGED vars
    <2>1. DataTypes'
      BY <1>3 DEF Age, vars, Types, DataTypes
    <2>. QED  BY <1>3, <2>1 DEF Age, vars, Types, ActorTypes, LockInv, PassTime
  <1>4. CASE RedisRestarts
    <2>1. left' \in [changes : 0 .. MaxChanges, incidents : 0 .. MaxIncidents]
      BY <1>4, LimitsAssumption DEF RedisRestarts, Spend, Types, DataTypes
    <2>2. disturbed' \in BOOLEAN
      BY <1>4 DEF RedisRestarts, Types, DataTypes
    <2>3. DataTypes'
      BY <1>4, <2>1, <2>2 DEF RedisRestarts, Types, DataTypes
    <2>. QED  BY <1>4, <2>3 DEF RedisRestarts, Types, ActorTypes, LockInv, PassTime
  <1>. QED  BY <1>1, <1>2, <1>3, <1>4 DEF Next

----------------------------------------------------------------------------
(* Orphans.                                                                *)

\* A threshold without a row stays explained.
LEMMA NextOrphan == Types /\ OrphanInv /\ [Next]_vars => OrphanInv'
  <1> SUFFICES ASSUME Types, OrphanInv, [Next]_vars PROVE OrphanInv'
    OBVIOUS
  <1> USE DEF OrphanInv
  <1>0. op \in [Operator -> OpInFlight \cup {Idle}]
    BY DEF Types, ActorTypes
  <1>1. ASSUME NEW o \in Operator, BeginSet(o) \/ BeginRemove(o) \/ BeginChange(o)
        PROVE  OrphanInv'
    BY <1>0, <1>1 DEF BeginSet, BeginRemove, BeginChange, Free, Busy
  <1>2. ASSUME NEW o \in Operator, SetRedis(o) PROVE OrphanInv'
    <2>1. op[o] \in Setting
      BY <1>0, <1>2, OpShape DEF SetRedis
    <2>2. op' = [op EXCEPT ![o] = op'[o]] /\ op'[o].step = "begin"
      BY <1>0, <1>2, <2>1 DEF SetRedis, Setting
    <2>. QED  BY <1>0, <1>2, <2>2 DEF SetRedis, SetAgainstRemoval
  <1>3. ASSUME NEW o \in Operator, BeginUpsert(o) PROVE OrphanInv'
    BY <1>0, <1>3 DEF BeginUpsert
  <1>4. ASSUME NEW o \in Operator, Upsert(o) PROVE OrphanInv'
    <2>1. row' # NoRow
      <3>1. op[o] \in Upserting
        BY <1>0, <1>4, OpShape DEF Upsert
      <3>2. row' \in Row
        BY <1>4, <3>1 DEF Upsert, Upserting, Row, Types, DataTypes
      <3>. QED  BY <3>2, LimitsAssumption
    <2>. QED  BY <1>0, <1>4, <2>1 DEF Upsert, Idle
  <1>5. ASSUME NEW o \in Operator, ClearRedis(o) PROVE OrphanInv'
    BY <1>5 DEF ClearRedis
  <1>6. ASSUME NEW o \in Operator, DeleteRow(o) PROVE OrphanInv'
    BY <1>0, <1>6 DEF DeleteRow, Idle
  <1>7. ASSUME NEW o \in Operator, CommitChange(o) PROVE OrphanInv'
    BY <1>0, <1>7 DEF CommitChange, Idle
  <1>8. ASSUME NEW o \in Operator, OperatorDies(o) PROVE OrphanInv'
    BY <1>0, <1>8 DEF OperatorDies, Idle
  <1>9. ASSUME NEW p \in Publisher, Publish(p) PROVE OrphanInv'
    BY <1>9 DEF Publish, SetAgainstRemoval
  <1>10. ASSUME NEW p \in Publisher, Commit(p) PROVE OrphanInv'
    <2>1. row' = NoRow => row = NoRow
      <3>2. CASE pub[p].had
        <4>1. row \in Row
          BY <1>10, <3>2 DEF Types, LockInv, DataTypes, Commit
        <4>2. pub[p].at \in Nat
          BY <1>10, PassShape DEF Types, ActorTypes, Commit
        <4>3. row' \in Row
          BY <1>10, <3>2, <4>1, <4>2 DEF Commit, Row
        <4>. QED  BY <4>3, LimitsAssumption
      <3>3. CASE ~pub[p].had
        BY <1>10, <3>3 DEF Commit
      <3>. QED  BY <3>2, <3>3
    <2>. QED  BY <1>10, <2>1 DEF Commit
  <1>11. ASSUME NEW p \in Publisher,
                Tick(p) \/ RunByHand(p) \/ Compute(p) \/ Update(p) \/ Mark(p) \/ PublisherFails(p)
         PROVE  OrphanInv'
    BY <1>11 DEF Tick, RunByHand, BeginSweep, Read, Compute, Update, Mark, PublisherFails
  <1>12. CASE Age \/ RedisRestarts \/ UNCHANGED vars
    BY <1>12 DEF Age, RedisRestarts, vars
  <1>. QED  BY <1>1, <1>2, <1>3, <1>4, <1>5, <1>6, <1>7, <1>8, <1>9, <1>10, <1>11, <1>12
            DEF Next, OperatorStep, PublisherStep

----------------------------------------------------------------------------
(* One actor at a time.                                                    *)

\* Who begins undisturbed is alone.
LEMMA BeginAlone ==
    ASSUME Begin, ~disturbed'
    PROVE  ~disturbed /\ Quiet
  BY DEF Begin

\* An operator's request in flight is the only thing in flight.
LEMMA OperatorAlone ==
    ASSUME Types, Alone, NEW o \in Operator, Busy(o), NEW e,
           op' = [op EXCEPT ![o] = e], pub' = pub
    PROVE  /\ Alone'
           /\ \A q \in Operator \ {o} : op'[q].step = "idle"
           /\ \A p \in Publisher : pub'[p].step = "idle"
           /\ op'[o] = e /\ (Quiet' <=> e.step = "idle")
  <1>1. op \in [Operator -> OpInFlight \cup {Idle}]
    BY DEF Types, ActorTypes
  <1>2. \A q \in Operator \ {o} : op[q].step = "idle"
    BY DEF Alone, Busy
  <1>3. \A p \in Publisher : pub[p].step = "idle"
    BY DEF Alone, Running
  <1>4. op'[o] = e /\ \A q \in Operator \ {o} : op'[q].step = "idle"
    BY <1>1, <1>2
  <1>. QED  BY <1>3, <1>4 DEF Alone, Quiet, Busy, Running

\* The same for a pass.
LEMMA PublisherAlone ==
    ASSUME Types, Alone, NEW p \in Publisher, Running(p), NEW e,
           pub' = [pub EXCEPT ![p] = e], op' = op
    PROVE  /\ Alone'
           /\ \A q \in Publisher \ {p} : pub'[q].step = "idle"
           /\ \A o \in Operator : op'[o].step = "idle"
           /\ pub'[p] = e /\ (Quiet' <=> e.step = "idle")
  <1>1. pub \in [Publisher -> PassInFlight \cup {Idle}]
    BY DEF Types, ActorTypes
  <1>2. \A q \in Publisher \ {p} : pub[q].step = "idle"
    BY DEF Alone, Running
  <1>3. \A o \in Operator : op[o].step = "idle"
    BY DEF Alone, Busy
  <1>4. pub'[p] = e /\ \A q \in Publisher \ {p} : pub'[q].step = "idle"
    BY <1>1, <1>2
  <1>. QED  BY <1>3, <1>4 DEF Alone, Quiet, Busy, Running

\* Who begins in the quiet is alone, and finds everything settled.
LEMMA BeginOperator ==
    ASSUME Types, Quiet, NEW o \in Operator, NEW e, e.step # "idle",
           op' = [op EXCEPT ![o] = e], pub' = pub
    PROVE  /\ Alone' /\ ~Quiet' /\ op'[o] = e
           /\ \A q \in Operator \ {o} : op'[q].step = "idle"
           /\ \A p \in Publisher : pub'[p].step = "idle"
  <1>1. op \in [Operator -> OpInFlight \cup {Idle}]
    BY DEF Types, ActorTypes
  <1>2. op'[o] = e /\ \A q \in Operator \ {o} : op'[q].step = "idle"
    BY <1>1 DEF Quiet, Busy
  <1>3. \A p \in Publisher : pub'[p].step = "idle"
    BY DEF Quiet, Running
  <1>. QED  BY <1>2, <1>3 DEF Alone, Quiet, Busy, Running

\* The same for a pass that begins.
LEMMA BeginPublisher ==
    ASSUME Types, Quiet, NEW p \in Publisher, NEW e, e.step # "idle",
           pub' = [pub EXCEPT ![p] = e], op' = op
    PROVE  /\ Alone' /\ ~Quiet' /\ pub'[p] = e
           /\ \A q \in Publisher \ {p} : pub'[q].step = "idle"
           /\ \A o \in Operator : op'[o].step = "idle"
  <1>1. pub \in [Publisher -> PassInFlight \cup {Idle}]
    BY DEF Types, ActorTypes
  <1>2. pub'[p] = e /\ \A q \in Publisher \ {p} : pub'[q].step = "idle"
    BY <1>1 DEF Quiet, Running
  <1>3. \A o \in Operator : op'[o].step = "idle"
    BY DEF Quiet, Busy
  <1>. QED  BY <1>2, <1>3 DEF Alone, Quiet, Busy, Running

\* The row is a record when it is there.
LEMMA RowShape ==
    ASSUME Types, row # NoRow
    PROVE  row \in Row /\ row.computed <= now /\ now \in Nat
  BY DEF Types, DataTypes

----------------------------------------------------------------------------
(* Undisturbed.                                                            *)

\* A request that is alone sets what it carries, and its row asks for that; or it
\* leaves a row that the sweep will see.
LEMMA OperatorCalm ==
    ASSUME Types, Calm, ~disturbed, ~disturbed', NEW o \in Operator,
           BeginSet(o) \/ BeginRemove(o) \/ BeginChange(o) \/ OperatorStep(o)
    PROVE  Calm'
  <1> USE DEF OpInv, PubInv
  <1>0. op \in [Operator -> OpInFlight \cup {Idle}] /\ now \in Nat
    BY DEF Types, ActorTypes, DataTypes
  <1>1. CASE BeginSet(o)
    <2>1. Quiet /\ Settled
      BY <1>1, BeginAlone DEF BeginSet, Calm
    <2>2. DEFINE limit == MaxChanges - left.changes + 1
                 e == [step |-> "redis", limit |-> limit,
                       value |-> IF plan = 1 THEN [limit |-> limit, plan |-> plan]
                                 ELSE NoThreshold]
    <2>3. op' = [op EXCEPT ![o] = e] /\ pub' = pub
      BY <1>1 DEF BeginSet
    <2>4. e.step = "redis" /\ e.value \in {NoThreshold, [limit |-> e.limit, plan |-> plan]}
      OBVIOUS
    <2>. HIDE DEF e
    <2>5. /\ Alone' /\ ~Quiet' /\ op'[o] = e
          /\ \A q \in Operator \ {o} : op'[q].step = "idle"
          /\ \A p \in Publisher : pub'[p].step = "idle"
      BY <2>1, <2>3, <2>4, BeginOperator
    <2>6. Settled' /\ plan' = plan
      BY <1>1, <2>1 DEF BeginSet, Settled, Wanted, NeedsRecompute
    <2>. QED  BY <2>4, <2>5, <2>6 DEF Calm
  <1>2. CASE BeginRemove(o)
    <2>1. Quiet /\ Settled
      BY <1>2, BeginAlone DEF BeginRemove, Calm
    <2>2. op' = [op EXCEPT ![o] = [step |-> "clear"]] /\ pub' = pub
      BY <1>2 DEF BeginRemove
    <2>3. /\ Alone' /\ ~Quiet' /\ op'[o] = [step |-> "clear"]
          /\ \A q \in Operator \ {o} : op'[q].step = "idle"
          /\ \A p \in Publisher : pub'[p].step = "idle"
      BY <2>1, <2>2, BeginOperator
    <2>4. Settled'
      BY <1>2, <2>1 DEF BeginRemove, Settled, Wanted, NeedsRecompute
    <2>. QED  BY <2>3, <2>4 DEF Calm
  <1>3. CASE BeginChange(o)
    <2>1. Quiet /\ Settled
      BY <1>3, BeginAlone DEF BeginChange, Calm
    <2>2. op' = [op EXCEPT ![o] = [step |-> "assign", at |-> now + 1]] /\ pub' = pub
      BY <1>3 DEF BeginChange
    <2>3. /\ Alone' /\ ~Quiet' /\ op'[o] = [step |-> "assign", at |-> now + 1]
          /\ \A q \in Operator \ {o} : op'[q].step = "idle"
          /\ \A p \in Publisher : pub'[p].step = "idle"
      BY <2>1, <2>2, BeginOperator
    <2>4. Settled'
      BY <1>3, <2>1 DEF BeginChange, Settled, Wanted, NeedsRecompute
    <2>5. row' # NoRow => row'.computed < op'[o].at
      BY <1>3, <2>3, RowShape DEF BeginChange, Row, Never
    <2>. QED  BY <2>3, <2>4, <2>5 DEF Calm
  <1>4. CASE SetRedis(o)
    <2>1. op[o] \in Setting
      BY <1>0, <1>4, OpShape DEF SetRedis
    <2>2. DEFINE e == [op[o] EXCEPT !.step = "begin"]
    <2>3. op' = [op EXCEPT ![o] = e] /\ pub' = pub /\ Busy(o) /\ Alone
      BY <1>0, <1>4 DEF SetRedis, Calm, Busy
    <2>4. e.step = "begin" /\ e.value = op[o].value /\ e.limit = op[o].limit
      BY <2>1 DEF Setting
    <2>. HIDE DEF e
    <2>5. /\ Alone' /\ ~Quiet' /\ op'[o] = e
          /\ \A q \in Operator \ {o} : op'[q].step = "idle"
          /\ \A p \in Publisher : pub'[p].step = "idle"
      BY <2>3, <2>4, OperatorAlone
    <2>6. op[o].value \in {NoThreshold, [limit |-> op[o].limit, plan |-> plan]}
      BY <1>4 DEF SetRedis, Calm
    <2>. QED  BY <1>4, <2>4, <2>5, <2>6 DEF SetRedis, Calm
  <1>5. CASE BeginUpsert(o)
    <2>2. DEFINE e == [step |-> "upsert", limit |-> op[o].limit, value |-> op[o].value,
                       at |-> now + 1]
    <2>3. op' = [op EXCEPT ![o] = e] /\ pub' = pub /\ Busy(o) /\ Alone
      BY <1>5 DEF BeginUpsert, Calm, Busy
    <2>4. e.step = "upsert" /\ e.value = op[o].value /\ e.limit = op[o].limit
      OBVIOUS
    <2>. HIDE DEF e
    <2>5. /\ Alone' /\ ~Quiet' /\ op'[o] = e
          /\ \A q \in Operator \ {o} : op'[q].step = "idle"
          /\ \A p \in Publisher : pub'[p].step = "idle"
      BY <2>3, <2>4, OperatorAlone
    <2>6. op[o].value \in {NoThreshold, [limit |-> op[o].limit, plan |-> plan]}
          /\ threshold = op[o].value
      BY <1>5 DEF BeginUpsert, Calm
    <2>. QED  BY <1>5, <2>4, <2>5, <2>6 DEF BeginUpsert, Calm
  <1>6. CASE Upsert(o)
    <2>1. op' = [op EXCEPT ![o] = Idle] /\ pub' = pub /\ Busy(o) /\ Alone
      BY <1>6 DEF Upsert, Calm, Busy
    <2>2. /\ Alone' /\ op'[o] = Idle
          /\ \A q \in Operator \ {o} : op'[q].step = "idle"
          /\ \A p \in Publisher : pub'[p].step = "idle"
      BY <2>1, OperatorAlone
    <2>3. threshold = op[o].value
          /\ op[o].value \in {NoThreshold, [limit |-> op[o].limit, plan |-> plan]}
      BY <1>6 DEF Upsert, Calm
    <2>4. Settled'
      BY <1>6, <2>3 DEF Upsert, Settled, Wanted, NeedsRecompute
    <2>. QED  BY <2>2, <2>4 DEF Calm, Idle
  <1>7. CASE ClearRedis(o)
    <2>1. op' = [op EXCEPT ![o] = [step |-> "delete"]] /\ pub' = pub /\ Busy(o) /\ Alone
          /\ [step |-> "delete"].step # "idle"
      BY <1>7 DEF ClearRedis, Calm, Busy
    <2>2. /\ Alone' /\ ~Quiet' /\ op'[o] = [step |-> "delete"]
          /\ \A q \in Operator \ {o} : op'[q].step = "idle"
          /\ \A p \in Publisher : pub'[p].step = "idle"
      BY <2>1, OperatorAlone
    <2>. QED  BY <2>2 DEF Calm
  <1>8. CASE DeleteRow(o)
    <2>1. op' = [op EXCEPT ![o] = Idle] /\ pub' = pub /\ Busy(o) /\ Alone
      BY <1>8 DEF DeleteRow, Calm, Busy
    <2>2. /\ Alone' /\ op'[o] = Idle
          /\ \A q \in Operator \ {o} : op'[q].step = "idle"
          /\ \A p \in Publisher : pub'[p].step = "idle"
      BY <2>1, OperatorAlone
    <2>3. Settled'
      BY <1>8 DEF DeleteRow, Settled
    <2>. QED  BY <2>2, <2>3 DEF Calm, Idle
  <1>9. CASE CommitChange(o)
    <2>1. op' = [op EXCEPT ![o] = Idle] /\ pub' = pub /\ Busy(o) /\ Alone
      BY <1>9 DEF CommitChange, Calm, Busy
    <2>2. /\ Alone' /\ op'[o] = Idle
          /\ \A q \in Operator \ {o} : op'[q].step = "idle"
          /\ \A p \in Publisher : pub'[p].step = "idle"
      BY <2>1, OperatorAlone
    <2>3. Settled'
      BY <1>9 DEF CommitChange, Settled, NeedsRecompute, Calm
    <2>. QED  BY <2>2, <2>3 DEF Calm, Idle
  <1>. QED  BY <1>1, <1>2, <1>3, <1>4, <1>5, <1>6, <1>7, <1>8, <1>9 DEF OperatorStep

\* A pass that is alone computes what is wanted, and leaves it enforced.
LEMMA PublisherCalm ==
    ASSUME Types, Calm, ~disturbed, ~disturbed', NEW p \in Publisher,
           Tick(p) \/ RunByHand(p) \/ PublisherStep(p)
    PROVE  Calm'
  <1> USE DEF OpInv, PubInv
  <1>0. pub \in [Publisher -> PassInFlight \cup {Idle}]
    BY DEF Types, ActorTypes
  <1>1. CASE Tick(p) \/ RunByHand(p)
    <2>1. PICK rebuild \in BOOLEAN : Read(p, rebuild)
      BY <1>1 DEF Tick, RunByHand, BeginSweep
    <2>2. Quiet
      BY <2>1, BeginAlone DEF Read
    <2>3. DEFINE e == IF row = NoRow THEN [step |-> "mark"]
                      ELSE [step |-> "compute", limit |-> row.limit, at |-> now,
                            rebuild |-> rebuild]
    <2>4. pub' = [pub EXCEPT ![p] = e] /\ op' = op
      BY <2>1 DEF Read
    <2>5. /\ row = NoRow => e.step = "mark"
          /\ row # NoRow => e.step = "compute" /\ e.limit = row.limit
      OBVIOUS
    <2>. HIDE DEF e
    <2>6. /\ Alone' /\ ~Quiet' /\ pub'[p] = e
          /\ \A q \in Publisher \ {p} : pub'[q].step = "idle"
          /\ \A o \in Operator : op'[o].step = "idle"
      BY <2>2, <2>4, <2>5, BeginPublisher
    <2>7. row' = row
      BY <2>1 DEF Read
    <2>. QED  BY <2>5, <2>6, <2>7 DEF Calm
  <1>2. CASE Compute(p)
    <2>1. DEFINE e == [step |-> "publish", at |-> pub[p].at, rebuild |-> pub[p].rebuild,
                       value |-> [limit |-> pub[p].limit, plan |-> plan]]
    <2>2. pub' = [pub EXCEPT ![p] = e] /\ op' = op /\ Running(p) /\ Alone
      BY <1>2 DEF Compute, Calm, Running
    <2>3. e.step = "publish" /\ e.value = [limit |-> pub[p].limit, plan |-> plan]
      OBVIOUS
    <2>. HIDE DEF e
    <2>4. /\ Alone' /\ ~Quiet' /\ pub'[p] = e
          /\ \A q \in Publisher \ {p} : pub'[q].step = "idle"
          /\ \A o \in Operator : op'[o].step = "idle"
      BY <2>2, <2>3, PublisherAlone
    <2>5. row # NoRow /\ pub[p].limit = row.limit /\ row' = row /\ plan' = plan
      BY <1>2 DEF Compute, Calm
    <2>6. e.value = Wanted'
      BY <2>3, <2>5 DEF Wanted
    <2>. QED  BY <2>3, <2>4, <2>5, <2>6 DEF Calm
  <1>3. CASE Publish(p)
    <2>1. DEFINE e == [step |-> "update", at |-> pub[p].at, rebuild |-> pub[p].rebuild]
    <2>2. pub' = [pub EXCEPT ![p] = e] /\ op' = op /\ Running(p) /\ Alone
      BY <1>3 DEF Publish, Calm, Running
    <2>3. e.step = "update"
      OBVIOUS
    <2>. HIDE DEF e
    <2>4. /\ Alone' /\ ~Quiet' /\ pub'[p] = e
          /\ \A q \in Publisher \ {p} : pub'[q].step = "idle"
          /\ \A o \in Operator : op'[o].step = "idle"
      BY <2>2, <2>3, PublisherAlone
    <2>5. row # NoRow /\ pub[p].value = Wanted /\ row' = row /\ plan' = plan
          /\ threshold' = pub[p].value
      BY <1>3 DEF Publish, Calm
    <2>6. threshold' = Wanted'
      BY <2>5 DEF Wanted
    <2>. QED  BY <2>3, <2>4, <2>5, <2>6 DEF Calm
  <1>4. CASE Update(p)
    <2>1. DEFINE e == [step |-> "commit", at |-> pub[p].at, rebuild |-> pub[p].rebuild,
                       had |-> row # NoRow]
    <2>2. pub' = [pub EXCEPT ![p] = e] /\ op' = op /\ Running(p) /\ Alone
      BY <1>4 DEF Update, Calm, Running
    <2>3. e.step = "commit" /\ e.had = (row # NoRow)
      OBVIOUS
    <2>. HIDE DEF e
    <2>4. /\ Alone' /\ ~Quiet' /\ pub'[p] = e
          /\ \A q \in Publisher \ {p} : pub'[q].step = "idle"
          /\ \A o \in Operator : op'[o].step = "idle"
      BY <2>2, <2>3, PublisherAlone
    <2>5. row # NoRow /\ threshold = Wanted /\ row' = row /\ plan' = plan
          /\ threshold' = threshold
      BY <1>4 DEF Update, Calm
    <2>6. threshold' = Wanted'
      BY <2>5 DEF Wanted
    <2>. QED  BY <2>3, <2>4, <2>5, <2>6 DEF Calm
  <1>5. CASE Commit(p)
    <2>1. DEFINE e == IF pub[p].rebuild THEN [step |-> "mark"] ELSE Idle
    <2>2. pub' = [pub EXCEPT ![p] = e] /\ op' = op /\ Running(p) /\ Alone
      BY <1>5 DEF Commit, Calm, Running
    <2>3. e.step \in {"mark", "idle"}
      BY DEF Idle
    <2>. HIDE DEF e
    <2>4. /\ Alone' /\ (Quiet' <=> e.step = "idle") /\ pub'[p] = e
          /\ \A q \in Publisher \ {p} : pub'[q].step = "idle"
          /\ \A o \in Operator : op'[o].step = "idle"
      BY <2>2, <2>3, PublisherAlone
    <2>5. row # NoRow /\ threshold = Wanted /\ pub[p].had
      BY <1>5 DEF Commit, Calm
    <2>6. row' = [row EXCEPT !.computed = pub[p].at, !.updated = pub[p].at]
          /\ plan' = plan /\ threshold' = threshold
      BY <1>5, <2>5 DEF Commit
    <2>7. row'.limit = row.limit /\ row' # NoRow
      <3>1. row \in Row /\ pub[p].at \in Nat
        BY <1>5, <2>5, <1>0, RowShape, PassShape DEF Commit
      <3>2. row' \in Row /\ row'.limit = row.limit
        BY <2>6, <3>1 DEF Row
      <3>. QED  BY <3>2, LimitsAssumption
    <2>8. threshold' = Wanted'
      BY <2>5, <2>6, <2>7 DEF Wanted
    <2>. QED  BY <2>3, <2>4, <2>8 DEF Calm, Settled
  <1>6. CASE Mark(p)
    <2>1. pub' = [pub EXCEPT ![p] = Idle] /\ op' = op /\ Running(p) /\ Alone
      BY <1>6 DEF Mark, Calm, Running
    <2>2. /\ Alone' /\ pub'[p] = Idle
          /\ \A q \in Publisher \ {p} : pub'[q].step = "idle"
          /\ \A o \in Operator : op'[o].step = "idle"
      BY <2>1, PublisherAlone
    <2>3. Settled'
      BY <1>6 DEF Mark, Settled, Wanted, Calm
    <2>. QED  BY <2>2, <2>3 DEF Calm, Idle
  <1>. QED  BY <1>1, <1>2, <1>3, <1>4, <1>5, <1>6 DEF PublisherStep

\* The invariant holds before anything was asked for.
LEMMA InitIInv == Init => IInv
  <1> SUFFICES ASSUME Init PROVE IInv
    OBVIOUS
  <1>1. OrphanInv
    BY DEF Init, OrphanInv, Idle
  <1>2. Calm
    BY DEF Init, Calm, Alone, Busy, Running, Settled, OpInv, PubInv, Idle
  <1>. QED  BY <1>1, <1>2, InitTypes DEF IInv

\* The inductive step.
LEMMA NextIInv == IInv /\ [Next]_vars => IInv'
  <1> SUFFICES ASSUME IInv, [Next]_vars PROVE IInv'
    OBVIOUS
  <1>1. Types /\ Types' /\ OrphanInv'
    BY NextTypes, NextOrphan DEF IInv
  <1> SUFFICES ASSUME ~disturbed' PROVE Calm'
    BY <1>1 DEF IInv
  <1>2. ~disturbed
    BY DEF Next, BeginSet, BeginRemove, BeginChange, OperatorStep, OperatorDies, SetRedis,
           BeginUpsert, Upsert, ClearRedis, DeleteRow, CommitChange, Tick, RunByHand,
           BeginSweep, Read, Begin, PublisherStep, Compute, Publish, Update, Commit, Mark,
           PublisherFails, Age, RedisRestarts, vars
  <1>3. Calm
    BY <1>2 DEF IInv
  <1>4. ASSUME NEW o \in Operator,
               BeginSet(o) \/ BeginRemove(o) \/ BeginChange(o) \/ OperatorStep(o)
        PROVE  Calm'
    BY <1>1, <1>2, <1>3, <1>4, OperatorCalm
  <1>5. ASSUME NEW p \in Publisher, Tick(p) \/ RunByHand(p) \/ PublisherStep(p)
        PROVE  Calm'
    BY <1>1, <1>2, <1>3, <1>5, PublisherCalm
  <1>6. ASSUME NEW o \in Operator, OperatorDies(o) PROVE FALSE
    BY <1>6 DEF OperatorDies
  <1>7. ASSUME NEW p \in Publisher, PublisherFails(p) PROVE FALSE
    BY <1>7 DEF PublisherFails
  <1>8. CASE Age
    BY <1>3, <1>8 DEF Age, Calm, Alone, Quiet, Busy, Running, OpInv, PubInv, Settled, Wanted,
                      NeedsRecompute
  <1>9. CASE RedisRestarts
    <2>1. Quiet
      BY <1>9 DEF RedisRestarts
    <2>2. Quiet' /\ Alone' /\ Settled'
      BY <1>3, <1>9, <2>1 DEF RedisRestarts, Calm, Alone, Quiet, Busy, Running, Settled
    <2>3. (\A o \in Operator : op'[o].step = "idle") /\ \A p \in Publisher : pub'[p].step = "idle"
      BY <2>2 DEF Quiet, Busy, Running
    <2>. QED  BY <2>2, <2>3 DEF Calm, OpInv, PubInv
  <1>10. CASE UNCHANGED vars
    BY <1>3, <1>10 DEF vars, Calm, Alone, Quiet, Busy, Running, OpInv, PubInv, Settled, Wanted,
                       NeedsRecompute
  <1>. QED  BY <1>4, <1>5, <1>6, <1>7, <1>8, <1>9, <1>10 DEF Next

----------------------------------------------------------------------------
(* The theorems.                                                           *)

\* The inductive invariant: types, orphans, and what holds while nobody has
\* overlapped or died.
THEOREM Invariance == Spec => []IInv
  <1>. QED  BY InitIInv, NextIInv, PTL DEF Spec

\* The state has its types; a row that a pass of thresholds.py has locked is not
\* deleted under it, and no row is stamped later than the clock.
THEOREM TypeCorrect == Spec => []TypeOK
  <1>1. IInv => TypeOK
    BY TypesFits DEF IInv
  <1>. QED  BY <1>1, Invariance, PTL

\* A threshold that is not what the row and the plans ask for is seen by
\* _needs_recompute or by the watchdog, or somebody overlapped or died; one
\* without a row was set against a removal or by a set that died: for any number
\* of operators, plans, changes and incidents.
THEOREM WrongIsExplainedHolds == Spec => []WrongIsExplained
  <1>1. IInv => WrongIsExplained
    BY DEF IInv, OrphanInv, Calm, Quiet, Busy, Settled, Wanted, WrongIsExplained
  <1>. QED  BY <1>1, Invariance, PTL
=============================================================================
