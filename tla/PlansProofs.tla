---------------------------- MODULE PlansProofs -----------------------------
(***************************************************************************)
(* Proofs about plans and prices.                                          *)
(*                                                                         *)
(* First the arithmetic of Rating, by induction over the bands: what rate, *)
(* max_quantity_within, the publication trigger and the proration of a     *)
(* price list compute. Then the month of a customer: the segments and      *)
(* their days, the rounding over them, and the threshold against the bill. *)
(* Last, the state machine: the customer is on one plan at every instant   *)
(* since signup, nothing refers to a draft price list, and what the runs   *)
(* check of segments, prices and thresholds holds in every state.          *)
(***************************************************************************)
EXTENDS Plans, FoldProofs

\* A request's steps that still may add an assignment.
Pending == {r \in Request : req[r].step \notin {"idle", "period"}}

\* The types.
DataTypes ==
    /\ now \in Instants
    /\ published \subseteq Plan /\ customer \in BOOLEAN
    /\ assignments \subseteq Assignment
    /\ periods \subseteq {-1, 0, 1}
    /\ req \in [Request -> InFlight \cup {NoRequest}]

\* Requests past their version step refer to published versions.
PublishedInv ==
    \A r \in Active : req[r].step \in {"version", "insert"} \/ req[r].plan \in published

\* So do assignments.
Referenced == \A a \in assignments : a.plan \in published

\* There is room for the assignments of the requests in flight.
RoomInv ==
    /\ IsFiniteSet(assignments)
    /\ Cardinality(assignments) + Cardinality(Pending) <= MaxAssignments

\* What the UPDATE saw was open; what it has locked is open, and locked by it alone.
LockInv ==
    \A r \in Request :
        /\ req[r].step \in {"lock", "open"} => \A a \in req[r].saw : a.to = Unbounded
        /\ req[r].step = "open" =>
             /\ req[r].closing \subseteq OpenAssignments(assignments)
             /\ \A q \in Request \ {r} : LockedBy(q) \cap req[r].closing = {}

\* No instant since the first assignment falls between two plans.
Covered ==
    \A t \in Instants :
        (\E a \in assignments : a.from <= t) => \E a \in assignments : InEffect(a, t)

\* No assignment, and no end of one, is in the future.
Past ==
    /\ \A a \in assignments : a.from <= now /\ (a.to = Unbounded \/ a.to <= now)
    /\ \A r \in Active : req[r].at <= now

\* The inductive invariant.
IInv ==
    /\ DataTypes /\ PublishedInv /\ Referenced /\ RoomInv /\ LockInv
    /\ Allowed(assignments) /\ Covered /\ Past

----------------------------------------------------------------------------
(* The arithmetic of proration.py.                                         *)

\* Division by a positive number leaves a remainder below it.
LEMMA DivBounds ==
    ASSUME NEW a \in Nat, NEW n \in Nat \ {0}
    PROVE  (a \div n) \in Nat /\ (a \div n) * n <= a /\ a < (a \div n) * n + n
  OBVIOUS

\* prorate_fee never charges more than the days' share, and less than one unit
\* below it.
THEOREM FeeRoundsDown ==
    ASSUME NEW fee \in Nat, NEW days \in Nat, NEW inMonth \in Nat \ {0}
    PROVE  /\ ProrateFee(fee, days, inMonth) \in Nat
           /\ ProrateFee(fee, days, inMonth) * inMonth <= fee * days
           /\ fee * days < (ProrateFee(fee, days, inMonth) + 1) * inMonth
  <1>1. fee * days \in Nat
    OBVIOUS
  <1>. QED  BY <1>1, DivBounds DEF ProrateFee

\* prorate_allowance (and a band bound) never grants less than the days' share,
\* and less than one unit above it.
THEOREM AllowanceRoundsUp ==
    ASSUME NEW quantity \in Nat, NEW days \in Nat, NEW inMonth \in Nat \ {0}
    PROVE  /\ ProrateAllowance(quantity, days, inMonth) \in Nat
           /\ quantity * days <= ProrateAllowance(quantity, days, inMonth) * inMonth
           /\ ProrateAllowance(quantity, days, inMonth) * inMonth < quantity * days + inMonth
  <1>. DEFINE share == quantity * days
              up == (share + inMonth - 1) \div inMonth
  <1>1. share \in Nat
    OBVIOUS
  <1>2. ProrateAllowance(quantity, days, inMonth) = up
    BY DEF ProrateAllowance
  <1>. HIDE DEF share
  <1>3. share + inMonth - 1 \in Nat
    BY <1>1
  <1>4. up \in Nat /\ up * inMonth <= share + inMonth - 1 /\ share + inMonth - 1 < up * inMonth + inMonth
    BY <1>3, DivBounds
  <1>5. up * inMonth \in Nat
    BY <1>4
  <1>6. share <= up * inMonth /\ up * inMonth < share + inMonth
    BY <1>1, <1>4, <1>5
  <1>. QED  BY <1>2, <1>4, <1>6 DEF share

\* A plan held for the whole month is not prorated.
THEOREM WholeMonthIsExact ==
    ASSUME NEW amount \in Nat, NEW inMonth \in Nat \ {0}
    PROVE  /\ ProrateFee(amount, inMonth, inMonth) = amount
           /\ ProrateAllowance(amount, inMonth, inMonth) = amount
  <1>1. /\ ProrateFee(amount, inMonth, inMonth) \in Nat
        /\ ProrateFee(amount, inMonth, inMonth) * inMonth <= amount * inMonth
        /\ amount * inMonth < (ProrateFee(amount, inMonth, inMonth) + 1) * inMonth
    BY FeeRoundsDown
  <1>2. /\ ProrateAllowance(amount, inMonth, inMonth) \in Nat
        /\ amount * inMonth <= ProrateAllowance(amount, inMonth, inMonth) * inMonth
        /\ ProrateAllowance(amount, inMonth, inMonth) * inMonth < (amount + 1) * inMonth
    BY AllowanceRoundsUp
  <1>3. ASSUME NEW j \in Nat, NEW k \in Nat, j * inMonth < k * inMonth
        PROVE  j < k
    BY <1>3
  <1>. QED  BY <1>1, <1>2, <1>3

----------------------------------------------------------------------------
(* The loops over the bands: a left fold walks from the first to the last.  *)

\* The variables of rate's loop.
Charges == [remaining : Int, consumed : Int, lines : Seq([quantity : Int, price : Int])]

\* A band leaves a charge.
LEMMA TakeBandType ==
    ASSUME NEW charge \in Charges, NEW band \in Band
    PROVE  TakeBand(charge, band) \in Charges
  <1> DEFINE capacity == IF band.upTo = Unbounded THEN charge.remaining
                         ELSE band.upTo - charge.consumed
             take == Smaller(charge.remaining, capacity)
  <1>1. take \in Int
    BY DEF Charges, Band, Smaller
  <1> HIDE DEF take
  <1>2. /\ charge.remaining - take \in Int /\ charge.consumed + take \in Int
        /\ Append(charge.lines, Line(take, band.price)) \in Seq([quantity : Int, price : Int])
    BY <1>1 DEF Charges, Band, Line
  <1> DEFINE taken == [remaining |-> charge.remaining - take,
                       consumed |-> charge.consumed + take,
                       lines |-> Append(charge.lines, Line(take, band.price))]
  <1>3. TakeBand(charge, band) = charge \/ TakeBand(charge, band) = taken
    BY DEF TakeBand, take
  <1>4. taken \in Charges
    BY <1>2 DEF Charges
  <1> HIDE DEF taken
  <1>. QED  BY <1>3, <1>4

\* FoldLeft(TakeBand, ...) walks the bands from the first to the last.
LEMMA TakeBandWalk ==
    ASSUME NEW bands \in Seq(Band), NEW base \in Charges
    PROVE  \E w : /\ w[0] = base
                  /\ \A i \in 1 .. Len(bands) : w[i] = TakeBand(w[i - 1], bands[i])
                  /\ FoldLeft(TakeBand, base, bands) = w[Len(bands)]
  <1> DEFINE n == Len(bands)
             D == 1 .. n
             Solves(c) == c = [s \in SUBSET D |->
                                  IF s = {} THEN base
                                  ELSE TakeBand(c[s \ {Max(s)}], bands[Max(s)])]
             g == [i \in D |-> [v \in Charges |-> TakeBand(v, bands[i])]]
  <1>0. n \in Nat /\ D = DOMAIN bands
    OBVIOUS
  <1>1. g \in [D -> [Charges -> Charges]]
    BY TakeBandType
  <1>2. PICK it : Walk(it, n, Charges, base, g)
    <2> HIDE DEF g, n
    <2>. QED  BY <1>0, <1>1, WalkSolution
  <1>3. Solves(it)
    <2>1. \A s \in SUBSET D : s # {} => Max(s) \in D /\ it[s \ {Max(s)}] \in Charges
      BY <1>0, <1>2, MaxIndex DEF Walk
    <2>2. \A s \in SUBSET D : it[s] = IF s = {} THEN base
                                      ELSE TakeBand(it[s \ {Max(s)}], bands[Max(s)])
      BY <1>2, <2>1 DEF Walk
    <2>. QED  BY <1>2, <2>2 DEF Walk
  <1>4. FoldLeft(TakeBand, base, bands) = (CHOOSE c : Solves(c))[D]
    BY <1>0 DEF FoldLeft, MapThenFoldSet
  <1>5. PICK c : Solves(c) /\ FoldLeft(TakeBand, base, bands) = c[D]
    <2> HIDE DEF Solves
    <2>. QED  BY <1>3, <1>4
  <1> DEFINE w == [i \in 0 .. n |-> c[1 .. i]]
  <1>6. w[0] = base /\ FoldLeft(TakeBand, base, bands) = w[n]
    BY <1>0, <1>5
  <1>7. ASSUME NEW i \in 1 .. n PROVE w[i] = TakeBand(w[i - 1], bands[i])
    <2>1. 1 .. i \in SUBSET D /\ 1 .. i # {}
      BY <1>0
    <2>2. c[1 .. i] = TakeBand(c[(1 .. i) \ {Max(1 .. i)}], bands[Max(1 .. i)])
      BY <1>5, <2>1
    <2>. QED  BY <1>0, <2>2, MaxIndex
  <1>. QED  BY <1>6, <1>7

\* The variables of _prorated_bands' loop.
Ladder0 == [kept : Seq(Band), previous : Int]

\* Keeping or dropping a band leaves a ladder.
LEMMA KeepBandType ==
    ASSUME NEW ladder \in Ladder0, NEW band \in Band
    PROVE  KeepBand(ladder, band) \in Ladder0
  <1> DEFINE last == [ladder EXCEPT !.kept = Append(ladder.kept, band)]
             next == [kept |-> Append(ladder.kept, band), previous |-> band.upTo]
  <1>1. Append(ladder.kept, band) \in Seq(Band)
    BY DEF Ladder0
  <1>2. last \in Ladder0
    BY <1>1 DEF Ladder0
  <1>3. band.upTo # Unbounded => next \in Ladder0
    BY <1>1 DEF Ladder0, Band
  <1>4. KeepBand(ladder, band) = IF band.upTo = Unbounded THEN last
                                 ELSE IF band.upTo <= ladder.previous THEN ladder ELSE next
    BY DEF KeepBand
  <1> HIDE DEF last, next
  <1>. QED  BY <1>2, <1>3, <1>4

\* FoldLeft(KeepBand, ...) walks the bands from the first to the last.
LEMMA KeepBandWalk ==
    ASSUME NEW bands \in Seq(Band), NEW base \in Ladder0
    PROVE  \E w : /\ w[0] = base
                  /\ \A i \in 1 .. Len(bands) : w[i] = KeepBand(w[i - 1], bands[i])
                  /\ FoldLeft(KeepBand, base, bands) = w[Len(bands)]
  <1> DEFINE n == Len(bands)
             D == 1 .. n
             Solves(c) == c = [s \in SUBSET D |->
                                  IF s = {} THEN base
                                  ELSE KeepBand(c[s \ {Max(s)}], bands[Max(s)])]
             g == [i \in D |-> [v \in Ladder0 |-> KeepBand(v, bands[i])]]
  <1>0. n \in Nat /\ D = DOMAIN bands
    OBVIOUS
  <1>1. g \in [D -> [Ladder0 -> Ladder0]]
    BY KeepBandType
  <1>2. PICK it : Walk(it, n, Ladder0, base, g)
    <2> HIDE DEF g, n
    <2>. QED  BY <1>0, <1>1, WalkSolution
  <1>3. Solves(it)
    <2>1. \A s \in SUBSET D : s # {} => Max(s) \in D /\ it[s \ {Max(s)}] \in Ladder0
      BY <1>0, <1>2, MaxIndex DEF Walk
    <2>2. \A s \in SUBSET D : it[s] = IF s = {} THEN base
                                      ELSE KeepBand(it[s \ {Max(s)}], bands[Max(s)])
      BY <1>2, <2>1 DEF Walk
    <2>. QED  BY <1>2, <2>2 DEF Walk
  <1>4. FoldLeft(KeepBand, base, bands) = (CHOOSE c : Solves(c))[D]
    BY <1>0 DEF FoldLeft, MapThenFoldSet
  <1>5. PICK c : Solves(c) /\ FoldLeft(KeepBand, base, bands) = c[D]
    <2> HIDE DEF Solves
    <2>. QED  BY <1>3, <1>4
  <1> DEFINE w == [i \in 0 .. n |-> c[1 .. i]]
  <1>6. w[0] = base /\ FoldLeft(KeepBand, base, bands) = w[n]
    BY <1>0, <1>5
  <1>7. ASSUME NEW i \in 1 .. n PROVE w[i] = KeepBand(w[i - 1], bands[i])
    <2>1. 1 .. i \in SUBSET D /\ 1 .. i # {}
      BY <1>0
    <2>2. c[1 .. i] = KeepBand(c[(1 .. i) \ {Max(1 .. i)}], bands[Max(1 .. i)])
      BY <1>5, <2>1
    <2>. QED  BY <1>0, <2>2, MaxIndex
  <1>. QED  BY <1>6, <1>7

\* The variables of the trigger's loop.
Seen == [ok : BOOLEAN, unbounded : BOOLEAN, prev : Int \cup {Unbounded}]

\* The trigger's loop keeps its variables' types.
LEMMA ValidateBandType ==
    ASSUME NEW seen \in Seen, NEW band \in Band
    PROVE  ValidateBand(seen, band) \in Seen
  BY DEF Seen, Band, ValidateBand

\* FoldLeft(ValidateBand, ...) walks the bands from the first to the last.
LEMMA ValidateBandWalk ==
    ASSUME NEW bands \in Seq(Band), NEW base \in Seen
    PROVE  \E w : /\ w[0] = base
                  /\ \A i \in 1 .. Len(bands) : w[i] = ValidateBand(w[i - 1], bands[i])
                  /\ FoldLeft(ValidateBand, base, bands) = w[Len(bands)]
  <1> DEFINE n == Len(bands)
             D == 1 .. n
             Solves(c) == c = [s \in SUBSET D |->
                                  IF s = {} THEN base
                                  ELSE ValidateBand(c[s \ {Max(s)}], bands[Max(s)])]
             g == [i \in D |-> [v \in Seen |-> ValidateBand(v, bands[i])]]
  <1>0. n \in Nat /\ D = DOMAIN bands
    OBVIOUS
  <1>1. g \in [D -> [Seen -> Seen]]
    BY ValidateBandType
  <1>2. PICK it : Walk(it, n, Seen, base, g)
    <2> HIDE DEF g, n
    <2>. QED  BY <1>0, <1>1, WalkSolution
  <1>3. Solves(it)
    <2>1. \A s \in SUBSET D : s # {} => Max(s) \in D /\ it[s \ {Max(s)}] \in Seen
      BY <1>0, <1>2, MaxIndex DEF Walk
    <2>2. \A s \in SUBSET D : it[s] = IF s = {} THEN base
                                      ELSE ValidateBand(it[s \ {Max(s)}], bands[Max(s)])
      BY <1>2, <2>1 DEF Walk
    <2>. QED  BY <1>2, <2>2 DEF Walk
  <1>4. FoldLeft(ValidateBand, base, bands) = (CHOOSE c : Solves(c))[D]
    BY <1>0 DEF FoldLeft, MapThenFoldSet
  <1>5. PICK c : Solves(c) /\ FoldLeft(ValidateBand, base, bands) = c[D]
    <2> HIDE DEF Solves
    <2>. QED  BY <1>3, <1>4
  <1> DEFINE w == [i \in 0 .. n |-> c[1 .. i]]
  <1>6. w[0] = base /\ FoldLeft(ValidateBand, base, bands) = w[n]
    BY <1>0, <1>5
  <1>7. ASSUME NEW i \in 1 .. n PROVE w[i] = ValidateBand(w[i - 1], bands[i])
    <2>1. 1 .. i \in SUBSET D /\ 1 .. i # {}
      BY <1>0
    <2>2. c[1 .. i] = ValidateBand(c[(1 .. i) \ {Max(1 .. i)}], bands[Max(1 .. i)])
      BY <1>5, <2>1
    <2>. QED  BY <1>0, <2>2, MaxIndex
  <1>. QED  BY <1>6, <1>7

\* A band that costs something or nothing, and the variables of
\* max_quantity_within's loop.
PricedBand == {band \in Band : band.price \in Nat}
Budgets == [done : BOOLEAN, quantity : Int, consumed : Int, budget : Int]

\* A band of a price list leaves a walk.
LEMMA StepBudgetType ==
    ASSUME NEW walk \in Budgets, NEW band \in PricedBand
    PROVE  StepBudget(walk, band) \in Budgets
  <1> DEFINE bounded == band.upTo # Unbounded
             capacity == band.upTo - walk.consumed
             affordable == walk.budget \div band.price
             through == [done |-> FALSE, quantity |-> walk.quantity + capacity,
                         consumed |-> walk.consumed + capacity,
                         budget |-> walk.budget - capacity * band.price]
             ended(quantity) == [done |-> TRUE, quantity |-> quantity,
                                 consumed |-> walk.consumed, budget |-> walk.budget]
  <1>0. /\ walk.quantity \in Int /\ walk.consumed \in Int /\ walk.budget \in Int
    BY DEF Budgets
  <1>1. ASSUME bounded PROVE through \in Budgets
    <2>1. capacity \in Int /\ capacity * band.price \in Int
      BY <1>0, <1>1 DEF PricedBand, Band
    <2> HIDE DEF capacity, bounded
    <2>. QED  BY <1>0, <2>1 DEF Budgets
  <1>2. \A q \in Int : ended(q) \in Budgets
    BY <1>0 DEF Budgets
  <1>3. NoFiniteQuantity \in Int /\ (band.price # 0 => walk.quantity + affordable \in Int)
    BY <1>0 DEF PricedBand, NoFiniteQuantity
  <1>4. CASE walk.done
    BY <1>4 DEF StepBudget
  <1>5. CASE ~walk.done /\ band.price = 0 /\ ~bounded
    <2>1. StepBudget(walk, band) = ended(NoFiniteQuantity)
      BY <1>5 DEF StepBudget
    <2>. QED  BY <1>2, <1>3, <2>1
  <1>6. CASE ~walk.done /\ bounded /\ (band.price = 0 \/ affordable >= capacity)
    <2>1. StepBudget(walk, band) = through
      BY <1>6 DEF StepBudget
    <2>. QED  BY <1>1, <1>6, <2>1
  <1>7. CASE /\ ~walk.done /\ ~(band.price = 0 /\ ~bounded)
             /\ ~(bounded /\ (band.price = 0 \/ affordable >= capacity))
    <2>1. StepBudget(walk, band) = ended(walk.quantity + affordable)
      BY <1>7 DEF StepBudget
    <2>2. band.price # 0
      BY <1>7
    <2>. QED  BY <1>2, <1>3, <2>1, <2>2
  <1>. QED  BY <1>4, <1>5, <1>6, <1>7

\* FoldLeft(StepBudget, ...) walks the bands from the first to the last.
LEMMA StepBudgetWalk ==
    ASSUME NEW bands \in Seq(PricedBand), NEW base \in Budgets
    PROVE  \E w : /\ w[0] = base
                  /\ \A i \in 1 .. Len(bands) : w[i] = StepBudget(w[i - 1], bands[i])
                  /\ FoldLeft(StepBudget, base, bands) = w[Len(bands)]
  <1> DEFINE n == Len(bands)
             D == 1 .. n
             Solves(c) == c = [s \in SUBSET D |->
                                  IF s = {} THEN base
                                  ELSE StepBudget(c[s \ {Max(s)}], bands[Max(s)])]
             g == [i \in D |-> [v \in Budgets |-> StepBudget(v, bands[i])]]
  <1>0. n \in Nat /\ D = DOMAIN bands
    OBVIOUS
  <1>1. g \in [D -> [Budgets -> Budgets]]
    BY StepBudgetType
  <1>2. PICK it : Walk(it, n, Budgets, base, g)
    <2> HIDE DEF g, n
    <2>. QED  BY <1>0, <1>1, WalkSolution
  <1>3. Solves(it)
    <2>1. \A s \in SUBSET D : s # {} => Max(s) \in D /\ it[s \ {Max(s)}] \in Budgets
      BY <1>0, <1>2, MaxIndex DEF Walk
    <2>2. \A s \in SUBSET D : it[s] = IF s = {} THEN base
                                      ELSE StepBudget(it[s \ {Max(s)}], bands[Max(s)])
      BY <1>2, <2>1 DEF Walk
    <2>. QED  BY <1>2, <2>2 DEF Walk
  <1>4. FoldLeft(StepBudget, base, bands) = (CHOOSE c : Solves(c))[D]
    BY <1>0 DEF FoldLeft, MapThenFoldSet
  <1>5. PICK c : Solves(c) /\ FoldLeft(StepBudget, base, bands) = c[D]
    <2> HIDE DEF Solves
    <2>. QED  BY <1>3, <1>4
  <1> DEFINE w == [i \in 0 .. n |-> c[1 .. i]]
  <1>6. w[0] = base /\ FoldLeft(StepBudget, base, bands) = w[n]
    BY <1>0, <1>5
  <1>7. ASSUME NEW i \in 1 .. n PROVE w[i] = StepBudget(w[i - 1], bands[i])
    <2>1. 1 .. i \in SUBSET D /\ 1 .. i # {}
      BY <1>0
    <2>2. c[1 .. i] = StepBudget(c[(1 .. i) \ {Max(1 .. i)}], bands[Max(1 .. i)])
      BY <1>5, <2>1
    <2>. QED  BY <1>0, <2>2, MaxIndex
  <1>. QED  BY <1>6, <1>7

----------------------------------------------------------------------------
(* Ladders.                                                                *)

\* What a valid price list says of its bands.
Ladder(bands) ==
    /\ bands \in Seq(Band) /\ Len(bands) \in Nat \ {0}
    /\ bands[Len(bands)].upTo = Unbounded
    /\ \A i \in 1 .. Len(bands) : bands[i].price \in Nat
    /\ \A i \in 1 .. Len(bands) - 1 : bands[i].upTo \in Nat \ {0}
    /\ \A i \in 1 .. Len(bands) - 2 : bands[i].upTo < bands[i + 1].upTo

\* A price list is valid when its amounts and its ladder are.
LEMMA ValidLadder ==
    ASSUME NEW list \in PriceList
    PROVE  ValidPriceList(list) <=>
              list.fee \in Nat /\ list.included \in Nat /\ Ladder(list.bands)
  <1> DEFINE bands == list.bands
             n == Len(bands)
  <1>0. bands \in Seq(Band) /\ list.fee \in Int /\ list.included \in Int
    BY DEF PriceList
  <1>1. /\ n \in Nat
        /\ \A i \in 1 .. n : /\ bands[i].price \in Int
                             /\ bands[i].upTo \in Int \/ bands[i].upTo = Unbounded
    <2> HIDE DEF bands
    <2>1. n \in Nat /\ \A i \in 1 .. n : bands[i] \in Band
      BY <1>0
    <2>. QED  BY <2>1 DEF Band
  <1>2. ValidPriceList(list) <=>
           /\ list.fee >= 0 /\ list.included >= 0
           /\ \A i \in 1 .. n : /\ bands[i].price >= 0
                                /\ bands[i].upTo = Unbounded \/ bands[i].upTo > 0
           /\ n > 0 /\ bands[n].upTo = Unbounded
           /\ \A i \in 1 .. n - 1 : bands[i].upTo # Unbounded
           /\ \A i \in 1 .. n - 2 : bands[i].upTo < bands[i + 1].upTo
    BY DEF ValidPriceList, ValidBand
  <1> HIDE DEF bands, n
  <1>3. ASSUME /\ \A i \in 1 .. n : /\ bands[i].price >= 0
                                    /\ bands[i].upTo = Unbounded \/ bands[i].upTo > 0
               /\ \A i \in 1 .. n - 1 : bands[i].upTo # Unbounded
        PROVE  /\ \A i \in 1 .. n : bands[i].price \in Nat
               /\ \A i \in 1 .. n - 1 : bands[i].upTo \in Nat \ {0}
    BY <1>1, <1>3
  <1>4. ASSUME /\ \A i \in 1 .. n : bands[i].price \in Nat
               /\ \A i \in 1 .. n - 1 : bands[i].upTo \in Nat \ {0}
               /\ bands[n].upTo = Unbounded
        PROVE  /\ \A i \in 1 .. n : /\ bands[i].price >= 0
                                    /\ bands[i].upTo = Unbounded \/ bands[i].upTo > 0
               /\ \A i \in 1 .. n - 1 : bands[i].upTo # Unbounded
    <2>1. \A i \in 1 .. n : i = n \/ i \in 1 .. n - 1
      BY <1>1
    <2>. QED  BY <1>1, <1>4, <2>1, UnboundedAssumption
  <1>5. Ladder(list.bands) <=>
           /\ n # 0
           /\ bands[n].upTo = Unbounded
           /\ \A i \in 1 .. n : bands[i].price \in Nat
           /\ \A i \in 1 .. n - 1 : bands[i].upTo \in Nat \ {0}
           /\ \A i \in 1 .. n - 2 : bands[i].upTo < bands[i + 1].upTo
    BY <1>0, <1>1 DEF Ladder, bands, n
  <1>. QED  BY <1>0, <1>1, <1>2, <1>3, <1>4, <1>5

\* Where a band ends; 0 is where the first begins.
Bound(bands, i) == IF i = 0 THEN 0 ELSE bands[i].upTo

\* The bounds increase.
LEMMA BoundsIncrease ==
    ASSUME NEW bands, Ladder(bands)
    PROVE  /\ \A i \in 0 .. Len(bands) - 1 : Bound(bands, i) \in Nat
           /\ \A i, j \in 0 .. Len(bands) - 1 : i < j => Bound(bands, i) < Bound(bands, j)
  <1> DEFINE n == Len(bands)
             b(i) == Bound(bands, i)
             S == {j \in 0 .. n - 1 : \A i \in 0 .. j - 1 : b(i) < b(j)}
  <1>1. n - 1 \in Nat /\ \A i \in 0 .. n - 1 : b(i) \in Nat
    BY DEF Ladder, Bound
  <1>2. 0 \in S
    BY <1>1
  <1>3. ASSUME NEW j \in 0 .. n - 1 - 1, j \in S PROVE j + 1 \in S
    <2>1. b(j) < b(j + 1) /\ j + 1 \in 0 .. n - 1
      BY DEF Ladder, Bound
    <2> HIDE DEF b, n
    <2>2. \A i \in 0 .. j : i = j \/ i \in 0 .. j - 1
      BY <1>1
    <2>3. ASSUME NEW i \in 0 .. (j + 1) - 1 PROVE b(i) < b(j + 1)
      <3>1. b(i) \in Nat /\ b(j) \in Nat /\ b(j + 1) \in Nat
        BY <1>1, <2>1
      <3>. QED  BY <1>3, <2>1, <2>2, <3>1
    <2>. QED  BY <2>1, <2>3
  <1>4. \A j \in 0 .. n - 1 : j \in S
    <2> HIDE DEF S, n
    <2>. QED  BY <1>1, <1>2, <1>3, UpTo
  <1> HIDE DEF b, n
  <1>5. \A i, j \in 0 .. n - 1 : i < j => b(i) < b(j)
    <2> SUFFICES ASSUME NEW i \in 0 .. n - 1, NEW j \in 0 .. n - 1, i < j
                 PROVE  b(i) < b(j)
      OBVIOUS
    <2>1. i \in 0 .. j - 1
      BY <1>1
    <2>. QED  BY <1>4, <2>1
  <1>. QED  BY <1>1, <1>5 DEF b, n

\* Where the band after the i-th lies.
LEMMA NextBand ==
    ASSUME NEW bands, Ladder(bands), NEW i \in 0 .. Len(bands) - 1
    PROVE  /\ Len(bands) \in Nat \ {0} /\ i \in Nat /\ i < Len(bands) /\ i + 1 \in 1 .. Len(bands)
           /\ Bound(bands, i) \in Nat
           /\ bands[i + 1] \in Band /\ bands[i + 1].price \in Nat
           /\ i + 1 = Len(bands) => bands[i + 1].upTo = Unbounded
           /\ i + 1 < Len(bands) => /\ bands[i + 1].upTo \in Nat
                                    /\ bands[i + 1].upTo # Unbounded
                                    /\ Bound(bands, i) < bands[i + 1].upTo
                                    /\ Bound(bands, i + 1) = bands[i + 1].upTo
  <1> DEFINE n == Len(bands)
             band == bands[i + 1]
             from == Bound(bands, i)
  <1>1. n \in Nat \ {0} /\ i \in Nat /\ i < n /\ i + 1 \in 1 .. n
    BY DEF Ladder
  <1>2. from \in Nat
    BY BoundsIncrease
  <1>3. band.price \in Nat /\ band \in Band /\ (i + 1 = n => band.upTo = Unbounded)
    BY <1>1 DEF Ladder
  <1>4. ASSUME i + 1 < n
        PROVE  band.upTo \in Nat /\ band.upTo # Unbounded /\ from < band.upTo
               /\ Bound(bands, i + 1) = band.upTo
    <2>1. i + 1 \in 0 .. n - 1 /\ i + 1 \in 1 .. n - 1 /\ i + 1 # 0 /\ i < i + 1
      BY <1>1, <1>4
    <2>2. Bound(bands, i + 1) = band.upTo
      BY <2>1 DEF Bound
    <2>3. from < Bound(bands, i + 1)
      BY <2>1, BoundsIncrease
    <2>4. band.upTo \in Nat
      BY <2>1 DEF Ladder
    <2>. QED  BY <2>2, <2>3, <2>4, UnboundedAssumption
  <1>. QED  BY <1>1, <1>2, <1>3, <1>4

\* A unit past the bound before a band, and within the band's, has its price.
LEMMA UnitPriceIn ==
    ASSUME NEW list, Ladder(list.bands), NEW b \in 1 .. Len(list.bands), NEW k \in Nat,
           Bound(list.bands, b - 1) < k,
           b < Len(list.bands) => k <= list.bands[b].upTo
    PROVE  UnitPrice(list, k) = list.bands[b].price
  <1> DEFINE bands == list.bands
             n == Len(bands)
             covers == {i \in DOMAIN bands : bands[i].upTo = Unbounded \/ k <= bands[i].upTo}
  <1>1. DOMAIN bands = 1 .. n /\ n \in Nat
    BY DEF Ladder
  <1>2. b \in covers
    BY <1>1 DEF Ladder
  <1>3. ASSUME NEW i \in covers PROVE b <= i
    <2> SUFFICES ASSUME i < b PROVE FALSE
      BY <1>1
    <2>1. i \in 1 .. n - 1 /\ b - 1 \in 0 .. n - 1 /\ i <= b - 1
      BY <1>1
    <2>2. bands[i].upTo \in Nat /\ Bound(bands, i) = bands[i].upTo
      BY <2>1 DEF Ladder, Bound
    <2>3. Bound(bands, i) <= Bound(bands, b - 1) /\ Bound(bands, b - 1) \in Nat
      <3>1. i \in 0 .. n - 1 /\ (i = b - 1 \/ i < b - 1)
        BY <2>1
      <3>. QED  BY <2>1, <2>2, <3>1, BoundsIncrease
    <2>4. k <= bands[i].upTo
      BY <2>2, UnboundedAssumption
    <2>. QED  BY <2>2, <2>3, <2>4
  <1>4. covers \subseteq 1 .. n
    BY <1>1
  <1>5. Min(covers) = b
    <2> HIDE DEF covers
    <2>1. \A x \in covers : x \in Int
      BY <1>1, <1>4
    <2>2. \A x \in covers : (\A y \in covers : x <= y) => x = b
      BY <1>2, <1>3, <2>1
    <2>3. \A y \in covers : y >= b
      BY <1>3, <2>1
    <2>. QED  BY <1>2, <2>2, <1>3 DEF Min
  <1>. QED  BY <1>5 DEF UnitPrice

\* Every unit is in some band.
LEMMA UnitHasBand ==
    ASSUME NEW list, Ladder(list.bands), NEW k \in Nat \ {0}
    PROVE  \E b \in 1 .. Len(list.bands) :
              /\ Bound(list.bands, b - 1) < k
              /\ b < Len(list.bands) => k <= list.bands[b].upTo
  <1> DEFINE bands == list.bands
             n == Len(bands)
             T == {i \in 1 .. n : i = n \/ k <= Bound(bands, i)}
  <1>1. n \in Nat \ {0}
    BY DEF Ladder
  <1>2. T \in SUBSET Nat /\ T # {}
    <2>1. n \in T
      BY <1>1
    <2>. QED  BY <2>1
  <1>3. PICK b \in T : \A i \in T : b <= i
    <2> HIDE DEF T
    <2>. QED  BY <1>2, LeastNat
  <1>4. Bound(bands, b - 1) < k
    <2>1. CASE b = 1
      BY <2>1 DEF Bound
    <2>2. CASE b # 1
      <3>1. b - 1 \in 1 .. n /\ b - 1 # n /\ b - 1 \notin T /\ b - 1 \in 0 .. n - 1
        BY <1>1, <1>3, <2>2
      <3>2. ~(k <= Bound(bands, b - 1))
        BY <3>1
      <3>3. Bound(bands, b - 1) \in Nat
        BY <3>1, BoundsIncrease
      <3>. QED  BY <3>2, <3>3
    <2>. QED  BY <2>1, <2>2
  <1>. QED  BY <1>1, <1>3, <1>4 DEF Bound

\* Unit prices are natural numbers.
LEMMA UnitPriceType ==
    ASSUME NEW list, Ladder(list.bands)
    PROVE  \A k \in Nat \ {0} : UnitPrice(list, k) \in Nat
  <1> SUFFICES ASSUME NEW k \in Nat \ {0} PROVE UnitPrice(list, k) \in Nat
    OBVIOUS
  <1>1. PICK b \in 1 .. Len(list.bands) :
              /\ Bound(list.bands, b - 1) < k
              /\ b < Len(list.bands) => k <= list.bands[b].upTo
    BY UnitHasBand
  <1>2. UnitPrice(list, k) = list.bands[b].price
    BY <1>1, UnitPriceIn
  <1>. QED  BY <1>2 DEF Ladder

----------------------------------------------------------------------------
(* The price of the first units.                                           *)

\* The price of every unit beyond the included ones, and of the first m.
Prices(list) == [k \in Nat |-> UnitPrice(list, k)]
PriceUpTo(list, m) == SumFunctionOnSet(Prices(list), 1 .. m)

\* One unit more.
LEMMA PriceNext ==
    ASSUME NEW list, Ladder(list.bands)
    PROVE  /\ PriceUpTo(list, 0) = 0
           /\ \A m \in Nat : /\ PriceUpTo(list, m) \in Nat
                             /\ PriceUpTo(list, m + 1)
                                  = PriceUpTo(list, m) + UnitPrice(list, m + 1)
  <1>1. \A k \in Nat \ {0} : Prices(list)[k] = UnitPrice(list, k) /\ Prices(list)[k] \in Nat
    BY UnitPriceType DEF Prices
  <1>2. 1 .. 0 = {}
    OBVIOUS
  <1>3. PriceUpTo(list, 0) = 0
    BY <1>2, SumEmpty DEF PriceUpTo
  <1>4. ASSUME NEW m \in Nat
        PROVE  /\ PriceUpTo(list, m) \in Nat
               /\ PriceUpTo(list, m + 1) = PriceUpTo(list, m) + UnitPrice(list, m + 1)
    <2>1. IsFiniteSet(1 .. m)
      <3>1. 1 \in Int /\ m \in Int
        OBVIOUS
      <3>. QED  BY <3>1, FS_Interval
    <2>2. \A k \in 1 .. m : Prices(list)[k] \in Nat
      BY <1>1
    <2>3. \A k \in 1 .. m + 1 : Prices(list)[k] \in Int
      BY <1>1
    <2>4. PriceUpTo(list, m) \in Nat
      BY <2>1, <2>2, SumOfNaturals DEF PriceUpTo
    <2>5. PriceUpTo(list, m + 1) = PriceUpTo(list, m) + Prices(list)[m + 1]
      BY <2>3, SumNext DEF PriceUpTo
    <2>. QED  BY <1>1, <2>4, <2>5
  <1>. QED  BY <1>3, <1>4

\* The t units after the first m have the price p.
OnePrice(list, m, t, p) == \A k \in m + 1 .. m + t : UnitPrice(list, k) = p

\* Units of one price.
LEMMA PriceRun ==
    ASSUME NEW list, Ladder(list.bands), NEW m \in Nat, NEW t \in Nat, NEW p \in Nat,
           OnePrice(list, m, t, p)
    PROVE  PriceUpTo(list, m + t) = PriceUpTo(list, m) + t * p
  <1> DEFINE P(j) == PriceUpTo(list, j)
             S == {j \in 0 .. t : P(m + j) = P(m) + j * p}
  <1>0. \A j \in Nat : P(j) \in Nat /\ P(j + 1) = P(j) + UnitPrice(list, j + 1)
    BY PriceNext
  <1> HIDE DEF P
  <1>1. 0 \in S
    <2>1. m + 0 = m /\ 0 * p = 0
      OBVIOUS
    <2>. QED  BY <1>0, <2>1
  <1>2. ASSUME NEW j \in 0 .. t - 1, j \in S PROVE j + 1 \in S
    <2>1. m + j \in Nat /\ m + (j + 1) = (m + j) + 1 /\ (m + j) + 1 \in m + 1 .. m + t
      OBVIOUS
    <2>2. P((m + j) + 1) = P(m + j) + p
      BY <1>0, <2>1 DEF OnePrice
    <2>3. (j + 1) * p = j * p + p /\ j * p \in Nat
      OBVIOUS
    <2>4. P(m + (j + 1)) = P(m) + (j + 1) * p
      BY <1>0, <1>2, <2>1, <2>2, <2>3
    <2>. QED  BY <2>4
  <1>3. \A j \in 0 .. t : j \in S
    <2> HIDE DEF S
    <2>. QED  BY <1>1, <1>2, UpTo
  <1>. QED  BY <1>3 DEF P

\* More units never cost less.
LEMMA PriceMonotone ==
    ASSUME NEW list, Ladder(list.bands), NEW m \in Nat, NEW n \in Nat, m <= n
    PROVE  PriceUpTo(list, m) <= PriceUpTo(list, n)
  <1> DEFINE P(j) == PriceUpTo(list, j)
             S == {j \in 0 .. n - m : P(m) <= P(m + j)}
  <1>0. \A j \in Nat : /\ P(j) \in Nat /\ UnitPrice(list, j + 1) \in Nat
                       /\ P(j + 1) = P(j) + UnitPrice(list, j + 1)
    BY PriceNext, UnitPriceType
  <1> HIDE DEF P
  <1>1. 0 \in S /\ n - m \in Nat
    BY <1>0
  <1>2. ASSUME NEW j \in 0 .. (n - m) - 1, j \in S PROVE j + 1 \in S
    <2>1. m + j \in Nat /\ m + (j + 1) = (m + j) + 1
      OBVIOUS
    <2>2. P((m + j) + 1) >= P(m + j) /\ P(m + j) \in Nat /\ P((m + j) + 1) \in Nat
      BY <1>0, <2>1
    <2>3. P(m) <= P(m + (j + 1))
      BY <1>0, <1>2, <2>1, <2>2
    <2>. QED  BY <2>3
  <1>3. \A j \in 0 .. n - m : j \in S
    <2> HIDE DEF S
    <2>. QED  BY <1>1, <1>2, UpTo
  <1>4. n - m \in S /\ m + (n - m) = n
    BY <1>1, <1>3
  <1>. QED  BY <1>4 DEF P

----------------------------------------------------------------------------
(* rate.                                                                   *)

\* The usage lines of a charge.
Lines == Seq([quantity : Int, price : Int])

\* One line more.
LEMMA LineAppended ==
    ASSUME NEW lines \in Lines, NEW quantity \in Int, NEW price \in Int
    PROVE  /\ LinesQuantity(lines) \in Int /\ LinesTotal(lines) \in Int
           /\ LinesQuantity(Append(lines, Line(quantity, price)))
                = LinesQuantity(lines) + quantity
           /\ LinesTotal(Append(lines, Line(quantity, price)))
                = LinesTotal(lines) + quantity * price
  <1> DEFINE more == Append(lines, Line(quantity, price))
             n == Len(lines)
             f == [i \in DOMAIN lines |-> lines[i].quantity]
             g == [i \in DOMAIN lines |-> lines[i].quantity * lines[i].price]
             f1 == [i \in DOMAIN more |-> more[i].quantity]
             g1 == [i \in DOMAIN more |-> more[i].quantity * more[i].price]
  <1>1. n \in Nat /\ DOMAIN lines = 1 .. n /\ DOMAIN more = 1 .. n + 1
    BY DEF Lines
  <1>2. \A i \in 1 .. n : lines[i].quantity \in Int /\ lines[i].price \in Int
    <2>1. PICK R : R = [quantity : Int, price : Int]
      OBVIOUS
    <2>2. lines \in Seq(R)
      BY <2>1 DEF Lines
    <2>3. \A i \in 1 .. n : lines[i] \in R
      BY <2>2
    <2>. QED  BY <2>1, <2>3
  <1>3. \A i \in 1 .. n : more[i] = lines[i]
    BY DEF Lines
  <1>4. more[n + 1] = Line(quantity, price)
    BY DEF Lines
  <1> HIDE DEF more, n
  <1>5. \A i \in 1 .. n : f1[i] = f[i] /\ f[i] \in Int /\ g1[i] = g[i] /\ g[i] \in Int
    <2>1. \A i \in 1 .. n : i \in 1 .. n + 1
      BY <1>1
    <2>2. \A i \in 1 .. n : f1[i] = f[i] /\ g1[i] = g[i]
      BY <1>1, <1>3, <2>1
    <2>3. \A i \in 1 .. n : lines[i].quantity * lines[i].price \in Int
      BY <1>2
    <2>. QED  BY <1>1, <1>2, <2>2, <2>3
  <1>6. f1[n + 1] = quantity /\ g1[n + 1] = quantity * price
    BY <1>1, <1>4 DEF Line
  <1>7. DOMAIN f = 1 .. n /\ DOMAIN g = 1 .. n /\ DOMAIN f1 = 1 .. n + 1 /\ DOMAIN g1 = 1 .. n + 1
    BY <1>1
  <1>8. IsFiniteSet(1 .. n)
    <2>1. 1 \in Int /\ n \in Int
      BY <1>1
    <2>. QED  BY <2>1, FS_Interval
  <1>9. quantity * price \in Int
    OBVIOUS
  <1>10. /\ LinesQuantity(lines) = SumFunctionOnSet(f, 1 .. n)
         /\ LinesTotal(lines) = SumFunctionOnSet(g, 1 .. n)
         /\ LinesQuantity(more) = SumFunctionOnSet(f1, 1 .. n + 1)
         /\ LinesTotal(more) = SumFunctionOnSet(g1, 1 .. n + 1)
    BY <1>7 DEF LinesQuantity, LinesTotal, SumFunction
  <1> HIDE DEF f, g, f1, g1
  <1>11. \A i \in 1 .. n + 1 : i \in 1 .. n \/ i = n + 1
    BY <1>1
  <1>12. /\ SumFunctionOnSet(f1, 1 .. n + 1) = SumFunctionOnSet(f1, 1 .. n) + quantity
         /\ SumFunctionOnSet(g1, 1 .. n + 1) = SumFunctionOnSet(g1, 1 .. n) + quantity * price
    <2>1. \A i \in 1 .. n + 1 : f1[i] \in Int /\ g1[i] \in Int
      BY <1>5, <1>6, <1>9, <1>11
    <2>. QED  BY <1>1, <1>6, <2>1, SumNext
  <1>13. /\ SumFunctionOnSet(f1, 1 .. n) = SumFunctionOnSet(f, 1 .. n)
         /\ SumFunctionOnSet(g1, 1 .. n) = SumFunctionOnSet(g, 1 .. n)
    BY <1>5, <1>8, SumSame
  <1>14. SumFunctionOnSet(f, 1 .. n) \in Int /\ SumFunctionOnSet(g, 1 .. n) \in Int
    BY <1>5, <1>8, SumStep
  <1>. QED  BY <1>10, <1>12, <1>13, <1>14 DEF more

\* No line.
LEMMA NoLine == LinesQuantity(<<>>) = 0 /\ LinesTotal(<<>>) = 0
  <1> DEFINE f == [i \in DOMAIN <<>> |-> <<>>[i].quantity]
             g == [i \in DOMAIN <<>> |-> <<>>[i].quantity * <<>>[i].price]
  <1>1. DOMAIN f = {} /\ DOMAIN g = {}
    OBVIOUS
  <1>2. LinesQuantity(<<>>) = SumFunctionOnSet(f, {}) /\ LinesTotal(<<>>) = SumFunctionOnSet(g, {})
    BY <1>1 DEF LinesQuantity, LinesTotal, SumFunction
  <1> HIDE DEF f, g
  <1>. QED  BY <1>2, SumEmpty

\* What the first i bands take of c units.
Taken(bands, i, c) == IF i < Len(bands) THEN Smaller(c, Bound(bands, i)) ELSE c

\* rate's loop after the i-th band.
Charged(list, i, c, charge) ==
    /\ charge \in Charges
    /\ charge.consumed = Taken(list.bands, i, c)
    /\ charge.remaining = c - Taken(list.bands, i, c)
    /\ LinesQuantity(charge.lines) = Taken(list.bands, i, c)
    /\ LinesTotal(charge.lines) = PriceUpTo(list, Taken(list.bands, i, c))

\* A band takes the units that fall in it, at their price.
LEMMA BandTakes ==
    ASSUME NEW list, Ladder(list.bands), NEW c \in Nat,
           NEW i \in 0 .. Len(list.bands) - 1, NEW charge, Charged(list, i, c, charge)
    PROVE  Charged(list, i + 1, c, TakeBand(charge, list.bands[i + 1]))
  <1> DEFINE bands == list.bands
             n == Len(bands)
             band == bands[i + 1]
             from == Bound(bands, i)
             took == Taken(bands, i, c)
  <1>1. /\ n \in Nat \ {0} /\ i \in Nat /\ i < n /\ i + 1 \in 1 .. n
        /\ from \in Nat /\ band.price \in Nat /\ band \in Band
        /\ i + 1 = n => band.upTo = Unbounded
        /\ i + 1 < n => band.upTo \in Nat /\ band.upTo # Unbounded /\ from < band.upTo
                        /\ Bound(bands, i + 1) = band.upTo
    BY NextBand
  <1>2. /\ charge \in Charges /\ charge.consumed = took /\ charge.remaining = c - took
        /\ LinesQuantity(charge.lines) = took /\ LinesTotal(charge.lines) = PriceUpTo(list, took)
        /\ charge.lines \in Lines
    BY DEF Charged, Charges, Lines
  <1>3. took = Smaller(c, from)
    BY <1>1 DEF Taken
  <1>4. CASE c <= from
    <2>1. took = c
      BY <1>1, <1>3, <1>4 DEF Smaller
    <2>2. Taken(bands, i + 1, c) = c
      BY <1>1, <1>4 DEF Taken, Smaller
    <2>3. TakeBand(charge, band) = charge
      <3>1. charge.remaining <= 0
        BY <1>2, <2>1
      <3>. QED  BY <3>1 DEF TakeBand
    <2>. QED  BY <1>2, <2>1, <2>2, <2>3 DEF Charged
  <1>5. CASE ~(c <= from)
    <2> DEFINE capacity == IF band.upTo = Unbounded THEN charge.remaining
                           ELSE band.upTo - charge.consumed
               take == Smaller(charge.remaining, capacity)
    <2>1. took = from
      BY <1>1, <1>3, <1>5 DEF Smaller
    <2>2. /\ take \in Nat \ {0} /\ from + take = Taken(bands, i + 1, c)
          /\ from + take <= c
          /\ i + 1 < n => from + take <= band.upTo
      <3>1. CASE i + 1 = n
        BY <1>1, <1>2, <1>5, <2>1, <3>1 DEF Taken, Smaller
      <3>2. CASE i + 1 < n
        <4>1. capacity = band.upTo - from /\ charge.remaining = c - from
          BY <1>1, <1>2, <2>1, <3>2
        <4>2. Taken(bands, i + 1, c) = Smaller(c, band.upTo)
          BY <1>1, <3>2 DEF Taken
        <4>3. take = Smaller(c - from, band.upTo - from)
          BY <4>1
        <4> HIDE DEF take, from, band, n
        <4>. QED  BY <1>1, <1>5, <3>2, <4>2, <4>3 DEF Smaller
      <3>. QED  BY <1>1, <3>1, <3>2
    <2>3. TakeBand(charge, band) = [remaining |-> charge.remaining - take,
                                    consumed |-> charge.consumed + take,
                                    lines |-> Append(charge.lines, Line(take, band.price))]
      <3>1. ~(charge.remaining <= 0)
        BY <1>1, <1>2, <1>5, <2>1
      <3>2. ~(take <= 0)
        BY <2>2
      <3>. QED  BY <3>1, <3>2 DEF TakeBand
    <2>4. TakeBand(charge, band) \in Charges
      BY <1>1, <1>2, TakeBandType
    <2> HIDE DEF take, bands, n, band, from, took
    <2>5. /\ LinesQuantity(Append(charge.lines, Line(take, band.price))) = took + take
          /\ LinesTotal(Append(charge.lines, Line(take, band.price)))
               = PriceUpTo(list, took) + take * band.price
      <3>1. PICK p \in Int : p = band.price
        BY <1>1
      <3>2. PICK lines \in Lines : lines = charge.lines
        BY <1>2
      <3>3. take \in Int
        BY <2>2
      <3>4. /\ LinesQuantity(Append(lines, Line(take, p))) = LinesQuantity(lines) + take
            /\ LinesTotal(Append(lines, Line(take, p))) = LinesTotal(lines) + take * p
        BY <3>3, LineAppended
      <3>5. LinesQuantity(lines) = took /\ LinesTotal(lines) = PriceUpTo(list, took)
        BY <1>2, <3>2
      <3>. QED  BY <3>1, <3>2, <3>4, <3>5
    <2>6. OnePrice(list, from, take, band.price)
      <3> SUFFICES ASSUME NEW k \in from + 1 .. from + take
                   PROVE  UnitPrice(list, k) = band.price
        BY DEF OnePrice
      <3>1. k \in Nat /\ from < k /\ k <= from + take
        BY <1>1, <2>2
      <3>2. i + 1 \in 1 .. Len(list.bands) /\ (i + 1) - 1 = i
        BY <1>1 DEF n, bands
      <3>3. i + 1 < Len(list.bands) => k <= list.bands[i + 1].upTo
        BY <1>1, <2>2, <3>1 DEF n, bands, band
      <3>4. Bound(list.bands, (i + 1) - 1) < k
        BY <3>1, <3>2 DEF from, bands
      <3>. QED  BY <3>1, <3>2, <3>3, <3>4, UnitPriceIn DEF band, bands
    <2>7. PriceUpTo(list, from + take) = PriceUpTo(list, from) + take * band.price
      BY <1>1, <2>2, <2>6, PriceRun
    <2>. QED  BY <1>1, <1>2, <2>1, <2>2, <2>3, <2>4, <2>5, <2>7 DEF Charged, bands, band
  <1>. QED  BY <1>1, <1>4, <1>5

\* The units beyond the included ones.
Chargeable(quantity, list) == quantity - IncludedUsed(quantity, list)

\* rate prices every unit beyond the included ones by the band it falls in: its
\* lines add up to those units, and their sum to the unit prices.
THEOREM RateIsUnitPrices ==
    ASSUME NEW list \in PriceList, ValidPriceList(list), NEW quantity \in Nat
    PROVE  /\ Chargeable(quantity, list) \in Nat
           /\ LinesQuantity(UsageLines(quantity, list)) = Chargeable(quantity, list)
           /\ Rate(quantity, list) = list.fee + PriceUpTo(list, Chargeable(quantity, list))
  <1> DEFINE c == Chargeable(quantity, list)
             bands == list.bands
             n == Len(bands)
             base == [remaining |-> quantity - IncludedUsed(quantity, list),
                      consumed |-> 0, lines |-> <<>>]
  <1>1. list.included \in Nat /\ Ladder(list.bands)
    BY ValidLadder
  <1>2. c \in Nat
    BY <1>1 DEF Chargeable, IncludedUsed, Smaller
  <1>3. base \in Charges /\ base.remaining = c /\ base.consumed = 0 /\ base.lines = <<>>
    <2>1. <<>> \in Seq([quantity : Int, price : Int])
      OBVIOUS
    <2>. QED  BY <1>2, <2>1 DEF Chargeable, Charges
  <1>4. bands \in Seq(Band) /\ n \in Nat \ {0}
    BY <1>1 DEF Ladder
  <1>5. UsageLines(quantity, list) = FoldLeft(TakeBand, base, bands).lines
    BY DEF UsageLines
  <1> HIDE DEF base, c, bands, n
  <1>6. PICK w : /\ w[0] = base
                 /\ \A i \in 1 .. Len(bands) : w[i] = TakeBand(w[i - 1], bands[i])
                 /\ FoldLeft(TakeBand, base, bands) = w[Len(bands)]
    BY <1>3, <1>4, TakeBandWalk
  <1> DEFINE S == {i \in 0 .. n : Charged(list, i, c, w[i])}
  <1>7. 0 \in S
    <2>1. Taken(list.bands, 0, c) = 0
      BY <1>2, <1>4 DEF Taken, Bound, Smaller, n, bands
    <2>2. Charged(list, 0, c, base)
      BY <1>1, <1>2, <1>3, <2>1, NoLine, PriceNext DEF Charged
    <2>. QED  BY <1>4, <1>6, <2>2
  <1>8. ASSUME NEW i \in 0 .. n - 1, i \in S PROVE i + 1 \in S
    <2>1. w[i + 1] = TakeBand(w[i], list.bands[i + 1])
      <3>1. i + 1 \in 1 .. Len(bands) /\ (i + 1) - 1 = i
        BY <1>4 DEF n
      <3>. QED  BY <1>6, <3>1 DEF bands
    <2>2. i \in 0 .. Len(list.bands) - 1
      BY DEF n, bands
    <2>. QED  BY <1>1, <1>2, <1>4, <1>8, <2>1, <2>2, BandTakes
  <1>9. \A i \in 0 .. n : i \in S
    <2> HIDE DEF S
    <2>. QED  BY <1>4, <1>7, <1>8, UpTo
  <1>10. Charged(list, n, c, w[n])
    BY <1>4, <1>9
  <1>11. Taken(list.bands, n, c) = c
    BY <1>4 DEF Taken, n, bands
  <1>12. UsageLines(quantity, list) = w[n].lines
    BY <1>5, <1>6 DEF n
  <1>13. /\ LinesQuantity(UsageLines(quantity, list)) = c
         /\ LinesTotal(UsageLines(quantity, list)) = PriceUpTo(list, c)
    BY <1>10, <1>11, <1>12 DEF Charged
  <1>. QED  BY <1>2, <1>13 DEF Rate, c

----------------------------------------------------------------------------
(* max_quantity_within.                                                    *)

\* The first m chargeable units are within the budget, and one more is not.
Affords(list, budget, m) ==
    /\ m \in Nat
    /\ PriceUpTo(list, m) <= budget
    /\ budget < PriceUpTo(list, m + 1)

\* Any number is.
AffordsAll(list, budget) == \A m \in Nat : PriceUpTo(list, m) <= budget

\* max_quantity_within's loop after the i-th band.
Walked(list, i, budget, walk) ==
    /\ walk \in Budgets
    /\ ~walk.done => /\ i < Len(list.bands)
                     /\ walk.consumed = Bound(list.bands, i)
                     /\ walk.quantity = list.included + Bound(list.bands, i)
                     /\ walk.budget = budget - PriceUpTo(list, Bound(list.bands, i))
                     /\ walk.budget \in Nat
    /\ walk.done => \/ \E m \in Nat : Affords(list, budget, m)
                                      /\ walk.quantity = list.included + m
                    \/ /\ AffordsAll(list, budget)
                       /\ LastPrice(list) = 0 /\ walk.quantity = NoFiniteQuantity

\* t units of the band after the i-th cost t times its price.
LEMMA PriceInBand ==
    ASSUME NEW list, Ladder(list.bands), NEW i \in 0 .. Len(list.bands) - 1, NEW t \in Nat,
           i + 1 < Len(list.bands) => Bound(list.bands, i) + t <= list.bands[i + 1].upTo
    PROVE  PriceUpTo(list, Bound(list.bands, i) + t)
             = PriceUpTo(list, Bound(list.bands, i)) + t * list.bands[i + 1].price
  <1> DEFINE from == Bound(list.bands, i)
             p == list.bands[i + 1].price
             n == Len(list.bands)
  <1>1. /\ from \in Nat /\ p \in Nat /\ i + 1 \in 1 .. n /\ (i + 1) - 1 = i
        /\ i + 1 < n => list.bands[i + 1].upTo \in Nat
    <2>1. (i + 1) - 1 = i
      OBVIOUS
    <2>. QED  BY <2>1, NextBand
  <1>2. OnePrice(list, from, t, p)
    <2> SUFFICES ASSUME NEW k \in from + 1 .. from + t PROVE UnitPrice(list, k) = p
      BY DEF OnePrice
    <2> HIDE DEF from
    <2>1. k \in Nat /\ from < k /\ k <= from + t
      BY <1>1
    <2>2. i + 1 < n => k <= list.bands[i + 1].upTo
      BY <1>1, <2>1 DEF from
    <2>3. Bound(list.bands, (i + 1) - 1) < k
      BY <1>1, <2>1 DEF from
    <2>. QED  BY <1>1, <2>1, <2>2, <2>3, UnitPriceIn
  <1> HIDE DEF from, p
  <1>3. PriceUpTo(list, from + t) = PriceUpTo(list, from) + t * p
    BY <1>1, <1>2, PriceRun
  <1>. QED  BY <1>3 DEF from, p

\* Division tells how many units of one price a budget affords.
LEMMA Affordable ==
    ASSUME NEW budget \in Nat, NEW price \in Nat \ {0}
    PROVE  LET q == budget \div price
           IN  /\ q \in Nat /\ q * price <= budget /\ budget < (q + 1) * price
               /\ \A k \in Nat : k <= q => k * price <= budget
  <1> DEFINE q == budget \div price
  <1>1. q \in Nat /\ q * price <= budget /\ budget < q * price + price
    BY DivBounds
  <1> HIDE DEF q
  <1>2. (q + 1) * price = q * price + price
    BY <1>1
  <1>3. ASSUME NEW k \in Nat, k <= q PROVE k * price <= budget
    <2>1. PICK d \in Nat : q = k + d
      BY <1>1, <1>3
    <2>2. q * price = k * price + d * price /\ d * price \in Nat /\ k * price \in Nat
      BY <2>1
    <2>. QED  BY <1>1, <2>2
  <1>. QED  BY <1>1, <1>2, <1>3 DEF q

\* A band is bought whole or ends the walk.
LEMMA BandBought ==
    ASSUME NEW list, Ladder(list.bands), list.included \in Nat, NEW budget \in Nat,
           NEW i \in 0 .. Len(list.bands) - 1, NEW walk, Walked(list, i, budget, walk)
    PROVE  Walked(list, i + 1, budget, StepBudget(walk, list.bands[i + 1]))
  <1> DEFINE bands == list.bands
             n == Len(bands)
             band == bands[i + 1]
             from == Bound(bands, i)
             p == band.price
             cost == PriceUpTo(list, from)
             step == StepBudget(walk, band)
             bounded == band.upTo # Unbounded
             capacity == band.upTo - walk.consumed
             affordable == walk.budget \div band.price
             through == [done |-> FALSE, quantity |-> walk.quantity + capacity,
                         consumed |-> walk.consumed + capacity,
                         budget |-> walk.budget - capacity * band.price]
             ended(quantity) == [done |-> TRUE, quantity |-> quantity,
                                 consumed |-> walk.consumed, budget |-> walk.budget]
  <1>1. /\ n \in Nat \ {0} /\ i \in Nat /\ i < n /\ from \in Nat /\ p \in Nat /\ band \in Band
        /\ i + 1 = n => band.upTo = Unbounded
        /\ i + 1 < n => band.upTo \in Nat /\ band.upTo # Unbounded /\ from < band.upTo
                        /\ Bound(bands, i + 1) = band.upTo
    BY NextBand
  <1>2. bounded <=> i + 1 < n
    BY <1>1
  <1>3. cost \in Nat
    BY <1>1, PriceNext
  <1>4. step \in Budgets
    BY <1>1, StepBudgetType DEF Walked, PricedBand
  <1>5. CASE walk.done
    BY <1>4, <1>5 DEF Walked, StepBudget
  <1>6. CASE ~walk.done
    <2>1. /\ walk.consumed = from /\ walk.quantity = list.included + from
          /\ walk.budget = budget - cost /\ walk.budget \in Nat
      BY <1>6 DEF Walked
    <2>2. CASE p = 0 /\ ~bounded
      <3>1. step = ended(NoFiniteQuantity)
        BY <1>6, <2>2 DEF StepBudget
      <3>2. LastPrice(list) = 0
        BY <1>1, <1>2, <2>2 DEF LastPrice
      <3>3. ASSUME NEW m \in Nat PROVE PriceUpTo(list, m) <= budget
        <4>1. CASE m <= from
          <5>1. PriceUpTo(list, m) <= cost /\ PriceUpTo(list, m) \in Nat
            BY <1>1, <4>1, PriceMonotone, PriceNext
          <5>. QED  BY <1>3, <2>1, <5>1
        <4>2. CASE ~(m <= from)
          <5>1. PICK t \in Nat : m = from + t
            <6> HIDE DEF from
            <6>1. m - from \in Nat /\ m = from + (m - from)
              BY <1>1, <4>2
            <6>. QED  BY <6>1
          <5>2. PriceUpTo(list, from + t) = cost + t * p
            BY <1>2, <2>2, PriceInBand
          <5>3. t * p = 0
            BY <2>2
          <5>. QED  BY <1>3, <2>1, <5>1, <5>2, <5>3
        <4>. QED  BY <4>1, <4>2
      <3>. QED  BY <1>4, <3>1, <3>2, <3>3 DEF Walked, AffordsAll
    <2>3. CASE bounded /\ (p = 0 \/ affordable >= capacity)
      <3>1. step = through
        BY <1>6, <2>3 DEF StepBudget
      <3>2. PICK t \in Nat : t = capacity /\ band.upTo = from + t
        BY <1>1, <1>2, <2>1, <2>3
      <3>3. PriceUpTo(list, from + t) = cost + t * p
        <4>1. i + 1 < n => from + t <= band.upTo
          <5> HIDE DEF from, n
          <5>. QED  BY <1>1, <3>2
        <4>. QED  BY <4>1, PriceInBand
      <3>4. t * p \in Nat /\ t * p <= walk.budget
        <4>1. CASE p = 0
          BY <2>1, <4>1
        <4>2. CASE p # 0
          <5>1. t <= affordable
            <6>1. affordable \in Int
              BY <1>1, <2>1, <4>2
            <6>. QED  BY <2>3, <3>2, <4>2, <6>1
          <5>2. PICK q \in Nat : /\ q = affordable
                                 /\ \A k \in Nat : k <= q => k * p <= walk.budget
            BY <1>1, <2>1, <4>2, Affordable
          <5>3. t * p <= walk.budget
            BY <5>1, <5>2
          <5>4. PICK unit \in Nat : unit = p
            BY <1>1
          <5>. QED  BY <5>3, <5>4
        <4>. QED  BY <4>1, <4>2
      <3>5. /\ ~step.done /\ step.quantity = walk.quantity + t
            /\ step.consumed = walk.consumed + t /\ step.budget = walk.budget - t * p
        BY <3>1, <3>2
      <3>6. Bound(bands, i + 1) = from + t /\ i + 1 < n
        BY <1>1, <1>2, <2>3, <3>2
      <3> HIDE DEF step, cost, from, p, n, bands
      <3>7. PICK k \in Nat : k = t * p
        BY <3>4
      <3>8. PriceUpTo(list, from + t) = cost + k
        BY <3>3, <3>7
      <3>9. step.budget = budget - PriceUpTo(list, from + t) /\ step.budget \in Nat
        BY <1>3, <2>1, <3>4, <3>5, <3>7, <3>8
      <3>10. step.quantity = list.included + Bound(bands, i + 1)
             /\ step.consumed = Bound(bands, i + 1)
        BY <1>1, <2>1, <3>5, <3>6
      <3>. QED  BY <1>4, <3>5, <3>6, <3>9, <3>10 DEF Walked, step, bands, band, n
    <2>4. CASE ~(p = 0 /\ ~bounded) /\ ~(bounded /\ (p = 0 \/ affordable >= capacity))
      <3>1. step = ended(walk.quantity + affordable)
        BY <1>6, <2>4 DEF StepBudget
      <3>2. p \in Nat \ {0}
        BY <1>1, <2>4
      <3>3. PICK q \in Nat : /\ q = affordable
                             /\ q * p <= walk.budget /\ walk.budget < (q + 1) * p
        BY <2>1, <3>2, Affordable
      <3>4. i + 1 < n => from + (q + 1) <= band.upTo
        BY <1>1, <1>2, <2>1, <2>4, <3>3
      <3>5. PriceUpTo(list, from + q) = cost + q * p
        <4>1. i + 1 < n => from + q <= band.upTo
          BY <1>1, <3>4
        <4>. QED  BY <4>1, PriceInBand
      <3>6. PriceUpTo(list, from + (q + 1)) = cost + (q + 1) * p
        <4>1. q + 1 \in Nat
          OBVIOUS
        <4>. QED  BY <3>4, <4>1, PriceInBand
      <3>7. q * p \in Nat /\ (q + 1) * p \in Nat
        <4> HIDE DEF p
        <4>. QED  BY <3>2
      <3>8. step.done /\ step.quantity = walk.quantity + q
        BY <3>1, <3>3
      <3> HIDE DEF step, cost, from, p, n, bands
      <3>9. PICK j \in Nat, k \in Nat : j = q * p /\ k = (q + 1) * p
        BY <3>7
      <3>10. from + q \in Nat /\ (from + q) + 1 = from + (q + 1)
        BY <1>1
      <3>11. Affords(list, budget, from + q)
        BY <1>3, <2>1, <3>3, <3>5, <3>6, <3>9, <3>10 DEF Affords
      <3>12. step.quantity = list.included + (from + q)
        BY <1>1, <2>1, <3>8
      <3>. QED  BY <1>4, <3>8, <3>10, <3>11, <3>12 DEF Walked, step, bands, band
    <2>. QED  BY <2>2, <2>3, <2>4
  <1>. QED  BY <1>5, <1>6

\* max_quantity_within inverts rate: what a budget covers of a price list's fee and
\* units is exactly what it returns, and it finds no bound only when there is none.
THEOREM MaxQuantityIsExact ==
    ASSUME NEW list \in PriceList, ValidPriceList(list), NEW budget \in Int,
           budget >= list.fee
    PROVE  \/ /\ MaxQuantityWithin(budget, list) \in Nat
              /\ \A quantity \in Nat :
                    Rate(quantity, list) <= budget
                      <=> quantity <= MaxQuantityWithin(budget, list)
           \/ /\ MaxQuantityWithin(budget, list) = NoFiniteQuantity
              /\ LastPrice(list) = 0
              /\ \A quantity \in Nat : Rate(quantity, list) <= budget
  <1> DEFINE bands == list.bands
             n == Len(bands)
             left == budget - list.fee
             base == [done |-> FALSE, quantity |-> list.included, consumed |-> 0,
                      budget |-> budget - list.fee]
             result == MaxQuantityWithin(budget, list)
  <1>1. list.fee \in Nat /\ list.included \in Nat /\ Ladder(list.bands)
    BY ValidLadder
  <1>2. left \in Nat
    BY <1>1
  <1>3. result = FoldLeft(StepBudget, base, bands).quantity
    BY <1>1 DEF MaxQuantityWithin
  <1>4. base \in Budgets /\ ~base.done /\ base.quantity = list.included /\ base.consumed = 0
        /\ base.budget = left
    BY <1>1, <1>2 DEF Budgets
  <1>5. bands \in Seq(PricedBand) /\ n \in Nat \ {0}
    <2>1. bands \in Seq(Band) /\ n \in Nat \ {0} /\ \A i \in 1 .. n : bands[i].price \in Nat
      BY <1>1 DEF Ladder
    <2>2. \A i \in 1 .. n : bands[i] \in PricedBand
      <3> HIDE DEF bands
      <3>1. \A i \in 1 .. n : bands[i] \in Band
        BY <2>1
      <3>. QED  BY <2>1, <3>1 DEF PricedBand
    <2>. QED  BY <2>1, <2>2
  <1> HIDE DEF base, left, bands, n
  <1>6. PICK w : /\ w[0] = base
                 /\ \A i \in 1 .. Len(bands) : w[i] = StepBudget(w[i - 1], bands[i])
                 /\ FoldLeft(StepBudget, base, bands) = w[Len(bands)]
    BY <1>4, <1>5, StepBudgetWalk
  <1> DEFINE S == {i \in 0 .. n : Walked(list, i, left, w[i])}
  <1>7. 0 \in S
    <2>1. Bound(list.bands, 0) = 0 /\ PriceUpTo(list, 0) = 0
      BY <1>1, PriceNext DEF Bound
    <2>2. Walked(list, 0, left, base)
      BY <1>1, <1>2, <1>4, <1>5, <2>1 DEF Walked, n, bands
    <2>. QED  BY <1>5, <1>6, <2>2
  <1>8. ASSUME NEW i \in 0 .. n - 1, i \in S PROVE i + 1 \in S
    <2>1. w[i + 1] = StepBudget(w[i], list.bands[i + 1])
      <3>1. i + 1 \in 1 .. Len(bands) /\ (i + 1) - 1 = i
        BY <1>5 DEF n
      <3>. QED  BY <1>6, <3>1 DEF bands
    <2>2. i \in 0 .. Len(list.bands) - 1
      BY DEF n, bands
    <2>. QED  BY <1>1, <1>2, <1>5, <1>8, <2>1, <2>2, BandBought
  <1>9. \A i \in 0 .. n : i \in S
    <2> HIDE DEF S
    <2>. QED  BY <1>5, <1>7, <1>8, UpTo
  <1>10. Walked(list, n, left, w[n]) /\ result = w[n].quantity
    BY <1>3, <1>5, <1>6, <1>9 DEF n
  <1>11. w[n].done
    BY <1>5, <1>10 DEF Walked, n, bands
  <1>12. ASSUME NEW quantity \in Nat
         PROVE  /\ Chargeable(quantity, list) \in Nat
                /\ PriceUpTo(list, Chargeable(quantity, list)) \in Nat
                /\ Rate(quantity, list) <= budget
                     <=> PriceUpTo(list, Chargeable(quantity, list)) <= left
                /\ \A m \in Nat : Chargeable(quantity, list) <= m
                                    <=> quantity <= list.included + m
    <2>1. /\ Chargeable(quantity, list) \in Nat
          /\ Rate(quantity, list) = list.fee + PriceUpTo(list, Chargeable(quantity, list))
      BY RateIsUnitPrices
    <2>2. PriceUpTo(list, Chargeable(quantity, list)) \in Nat
      BY <1>1, <2>1, PriceNext
    <2>3. Rate(quantity, list) <= budget
            <=> PriceUpTo(list, Chargeable(quantity, list)) <= left
      BY <1>1, <2>1, <2>2 DEF left
    <2>4. ASSUME NEW m \in Nat
          PROVE  Chargeable(quantity, list) <= m <=> quantity <= list.included + m
      BY <1>1 DEF Chargeable, IncludedUsed, Smaller
    <2>. QED  BY <2>1, <2>2, <2>3, <2>4
  <1>13. CASE \E m \in Nat : Affords(list, left, m) /\ result = list.included + m
    <2>1. PICK m \in Nat : Affords(list, left, m) /\ result = list.included + m
      BY <1>13
    <2>2. ASSUME NEW c \in Nat PROVE PriceUpTo(list, c) <= left <=> c <= m
      <3>1. CASE c <= m
        <4>1. PriceUpTo(list, c) <= PriceUpTo(list, m)
          BY <1>1, <3>1, PriceMonotone
        <4>. QED  BY <1>1, <1>2, <2>1, <3>1, <4>1, PriceNext DEF Affords
      <3>2. CASE ~(c <= m)
        <4>1. m + 1 \in Nat /\ m + 1 <= c
          BY <3>2
        <4>2. PriceUpTo(list, m + 1) <= PriceUpTo(list, c)
          BY <1>1, <4>1, PriceMonotone
        <4>3. PriceUpTo(list, m + 1) \in Nat /\ PriceUpTo(list, c) \in Nat
          BY <1>1, <4>1, PriceNext
        <4>. QED  BY <1>2, <2>1, <3>2, <4>2, <4>3 DEF Affords
      <3>. QED  BY <3>1, <3>2
    <2>3. \A quantity \in Nat : Rate(quantity, list) <= budget <=> quantity <= result
      BY <1>12, <2>1, <2>2
    <2>4. result \in Nat
      BY <1>1, <2>1
    <2>. QED  BY <2>3, <2>4
  <1>14. CASE /\ AffordsAll(list, left)
              /\ LastPrice(list) = 0 /\ result = NoFiniteQuantity
    BY <1>12, <1>14 DEF AffordsAll
  <1>. QED  BY <1>10, <1>11, <1>13, <1>14 DEF Walked

----------------------------------------------------------------------------
(* meter_validate_price_bands_on_publish.                                  *)

\* The first i bands are in order.
InOrder(bands, i) ==
    \A j \in 1 .. i - 1 :
        /\ bands[j].upTo # Unbounded
        /\ bands[j + 1].upTo = Unbounded \/ bands[j].upTo < bands[j + 1].upTo

\* The trigger's loop after the i-th band.
SeenSoFar(bands, i, seen) ==
    /\ seen \in Seen
    /\ seen.ok <=> InOrder(bands, i)
    /\ seen.unbounded <=> i > 0 /\ bands[i].upTo = Unbounded
    /\ seen.ok /\ ~seen.unbounded =>
          seen.prev = IF i = 0 THEN Unbounded ELSE bands[i].upTo

\* The trigger's loop over one band more.
LEMMA BandSeen ==
    ASSUME NEW bands \in Seq(Band), NEW i \in 0 .. Len(bands) - 1,
           NEW seen, SeenSoFar(bands, i, seen)
    PROVE  SeenSoFar(bands, i + 1, ValidateBand(seen, bands[i + 1]))
  <1> DEFINE n == Len(bands)
             band == bands[i + 1]
             next == ValidateBand(seen, band)
  <1>1. /\ n \in Nat /\ i \in Nat /\ i < n /\ i + 1 \in 1 .. n
        /\ \A j \in 1 .. n : bands[j] \in Band
    OBVIOUS
  <1>2. band.upTo \in Int \cup {Unbounded}
    BY <1>1 DEF Band
  <1>3. i > 0 => bands[i].upTo \in Int \cup {Unbounded}
    <2>1. i > 0 => bands[i] \in Band
      BY <1>1
    <2>. QED  BY <2>1 DEF Band
  <1>4. next \in Seen
    BY <1>1, ValidateBandType DEF SeenSoFar
  <1>5. InOrder(bands, i + 1)
          <=> /\ InOrder(bands, i)
              /\ i > 0 => /\ bands[i].upTo # Unbounded
                          /\ band.upTo = Unbounded \/ bands[i].upTo < band.upTo
    <2>1. i > 0 => 1 .. (i + 1) - 1 = (1 .. i - 1) \cup {i}
      BY <1>1
    <2>2. i = 0 => 1 .. (i + 1) - 1 = {} /\ 1 .. i - 1 = {}
      OBVIOUS
    <2> HIDE DEF n
    <2>. QED  BY <1>1, <2>1, <2>2 DEF InOrder
  <1>6. /\ next.ok <=> /\ seen.ok /\ ~seen.unbounded
                       /\ band.upTo = Unbounded \/ seen.prev = Unbounded \/ band.upTo > seen.prev
        /\ next.unbounded <=> band.upTo = Unbounded
        /\ next.prev = IF band.upTo = Unbounded THEN seen.prev ELSE band.upTo
    BY DEF ValidateBand
  <1>7. i + 1 > 0 /\ i + 1 # 0
    BY <1>1
  <1> HIDE DEF next, band, n
  <1>8. next.ok <=> InOrder(bands, i + 1)
    <2>1. CASE seen.ok /\ ~seen.unbounded
      <3>1. CASE i = 0
        BY <1>5, <1>6, <2>1, <3>1 DEF SeenSoFar
      <3>2. CASE i # 0
        <4>1. i > 0 /\ seen.prev = bands[i].upTo /\ bands[i].upTo # Unbounded /\ InOrder(bands, i)
          BY <1>1, <2>1, <3>2 DEF SeenSoFar
        <4>2. band.upTo # Unbounded => (band.upTo > seen.prev <=> bands[i].upTo < band.upTo)
          BY <1>2, <1>3, <4>1
        <4>. QED  BY <1>5, <1>6, <2>1, <4>1, <4>2
      <3>. QED  BY <3>1, <3>2
    <2>2. CASE ~(seen.ok /\ ~seen.unbounded)
      BY <1>5, <1>6, <2>2 DEF SeenSoFar
    <2>. QED  BY <2>1, <2>2
  <1>9. next.unbounded <=> i + 1 > 0 /\ bands[i + 1].upTo = Unbounded
    BY <1>6, <1>7 DEF band
  <1>10. next.ok /\ ~next.unbounded =>
            next.prev = IF i + 1 = 0 THEN Unbounded ELSE bands[i + 1].upTo
    BY <1>6, <1>7 DEF band
  <1>. QED  BY <1>4, <1>8, <1>9, <1>10 DEF SeenSoFar, next, band

\* The database's CHECKs and trigger let a price list be published exactly when the
\* rating code would build it.
THEOREM PublishAcceptsTheValid ==
    ASSUME NEW list \in PriceList
    PROVE  PublishAccepts(list) <=> ValidPriceList(list)
  <1> DEFINE bands == list.bands
             n == Len(bands)
             base == [ok |-> TRUE, unbounded |-> FALSE, prev |-> Unbounded]
             walked == FoldLeft(ValidateBand, base, bands)
  <1>1. bands \in Seq(Band)
    BY DEF PriceList
  <1>2. base \in Seen
    BY DEF Seen
  <1> HIDE DEF bands, base
  <1>3. PICK w : /\ w[0] = base
                 /\ \A i \in 1 .. Len(bands) : w[i] = ValidateBand(w[i - 1], bands[i])
                 /\ walked = w[Len(bands)]
    BY <1>1, <1>2, ValidateBandWalk
  <1>4. n \in Nat
    BY <1>1
  <1> HIDE DEF n, walked
  <1> DEFINE S == {i \in 0 .. n : SeenSoFar(bands, i, w[i])}
  <1>5. 0 \in S
    <2>1. InOrder(bands, 0)
      BY DEF InOrder
    <2>2. SeenSoFar(bands, 0, base)
      BY <1>2, <2>1 DEF SeenSoFar, base
    <2>. QED  BY <1>3, <1>4, <2>2
  <1>6. ASSUME NEW i \in 0 .. n - 1, i \in S PROVE i + 1 \in S
    <2>1. w[i + 1] = ValidateBand(w[i], bands[i + 1])
      <3>1. i + 1 \in 1 .. Len(bands) /\ (i + 1) - 1 = i
        BY <1>4 DEF n
      <3>. QED  BY <1>3, <3>1
    <2>2. i \in 0 .. Len(bands) - 1
      BY DEF n
    <2>. QED  BY <1>1, <1>4, <1>6, <2>1, <2>2, BandSeen
  <1>7. \A i \in 0 .. n : i \in S
    <2> HIDE DEF S
    <2>. QED  BY <1>4, <1>5, <1>6, UpTo
  <1>8. /\ walked.ok <=> InOrder(bands, n)
        /\ walked.unbounded <=> n > 0 /\ bands[n].upTo = Unbounded
    BY <1>3, <1>4, <1>7 DEF SeenSoFar, n
  <1>9. DOMAIN bands = 1 .. n /\ (bands # <<>> <=> n > 0)
    BY <1>1, <1>4 DEF n
  <1>10. PublishAccepts(list) <=>
            /\ list.fee >= 0 /\ list.included >= 0
            /\ \A i \in 1 .. n : ValidBand(bands[i])
            /\ n > 0 /\ bands[n].upTo = Unbounded /\ InOrder(bands, n)
    BY <1>8, <1>9 DEF PublishAccepts, walked, base, bands
  <1>11. ValidPriceList(list) <=>
            /\ list.fee >= 0 /\ list.included >= 0
            /\ \A i \in 1 .. n : ValidBand(bands[i])
            /\ n > 0 /\ bands[n].upTo = Unbounded
            /\ \A i \in 1 .. n - 1 : bands[i].upTo # Unbounded
            /\ \A i \in 1 .. n - 2 : bands[i].upTo < bands[i + 1].upTo
    BY DEF ValidPriceList, n, bands
  <1>12. ASSUME n > 0, bands[n].upTo = Unbounded
         PROVE  InOrder(bands, n) <=>
                   /\ \A i \in 1 .. n - 1 : bands[i].upTo # Unbounded
                   /\ \A i \in 1 .. n - 2 : bands[i].upTo < bands[i + 1].upTo
    <2>1. \A i \in 1 .. n - 1 : i \in 1 .. n - 2 \/ i + 1 = n
      BY <1>4
    <2>2. \A i \in 1 .. n - 2 : i \in 1 .. n - 1 /\ i + 1 \in 1 .. n - 1
      BY <1>4
    <2>. QED  BY <1>12, <2>1, <2>2 DEF InOrder
  <1>. QED  BY <1>10, <1>11, <1>12

----------------------------------------------------------------------------
(* _prorated_bands.                                                        *)

\* The bounded bands kept so far.
Kept(ladder) ==
    LET n == Len(ladder.kept)
    IN /\ ladder \in Ladder0 /\ n \in Nat /\ ladder.previous \in Nat
       /\ \A j \in 1 .. n : ladder.kept[j].price \in Nat /\ ladder.kept[j].upTo \in Nat \ {0}
       /\ \A j \in 1 .. n - 1 : ladder.kept[j].upTo < ladder.kept[j + 1].upTo
       /\ ladder.previous = IF n = 0 THEN 0 ELSE ladder.kept[n].upTo

\* A band that is wider than nothing is kept, another dropped.
LEMMA BoundedKept ==
    ASSUME NEW ladder, Kept(ladder), NEW band \in Band,
           band.price \in Nat, band.upTo \in Nat
    PROVE  Kept(KeepBand(ladder, band))
  <1> DEFINE n == Len(ladder.kept)
             kept == Append(ladder.kept, band)
             next == [kept |-> Append(ladder.kept, band), previous |-> band.upTo]
  <1>1. ladder.kept \in Seq(Band) /\ n \in Nat /\ ladder.previous \in Nat
    BY DEF Kept, Ladder0
  <1>2. band.upTo # Unbounded
    BY UnboundedAssumption
  <1>3. CASE band.upTo <= ladder.previous
    BY <1>2, <1>3 DEF KeepBand
  <1>4. CASE ~(band.upTo <= ladder.previous)
    <2>1. KeepBand(ladder, band) = next
      BY <1>2, <1>4 DEF KeepBand
    <2>2. /\ kept \in Seq(Band) /\ Len(kept) = n + 1 /\ kept[n + 1] = band
          /\ \A j \in 1 .. n : kept[j] = ladder.kept[j]
      BY <1>1
    <2>3. next \in Ladder0 /\ next.kept = kept /\ next.previous = band.upTo
      BY <2>2 DEF Ladder0
    <2> HIDE DEF next, kept
    <2>4. \A j \in 1 .. n + 1 : j \in 1 .. n \/ j = n + 1
      BY <1>1
    <2>5. \A j \in 1 .. n + 1 : kept[j].price \in Nat /\ kept[j].upTo \in Nat \ {0}
      <3>1. band.upTo \in Nat \ {0}
        BY <1>1, <1>4
      <3>. QED  BY <2>2, <2>4, <3>1 DEF Kept
    <2>6. ASSUME NEW j \in 1 .. (n + 1) - 1 PROVE kept[j].upTo < kept[j + 1].upTo
      <3>1. CASE j = n
        <4>1. ladder.previous = ladder.kept[n].upTo /\ n \in 1 .. n
          BY <1>1, <3>1 DEF Kept
        <4>. QED  BY <1>1, <1>4, <2>2, <3>1, <4>1
      <3>2. CASE j # n
        <4>1. j \in 1 .. n - 1 /\ j \in 1 .. n /\ j + 1 \in 1 .. n
          BY <1>1, <3>2
        <4>. QED  BY <2>2, <4>1 DEF Kept
      <3>. QED  BY <3>1, <3>2
    <2>7. n + 1 \in Nat /\ n + 1 # 0
      BY <1>1
    <2>. QED  BY <2>1, <2>2, <2>3, <2>5, <2>6, <2>7 DEF Kept
  <1>. QED  BY <1>3, <1>4

\* The last band closes the ladder.
LEMMA LastKept ==
    ASSUME NEW ladder, Kept(ladder), NEW band \in Band,
           band.price \in Nat, band.upTo = Unbounded
    PROVE  LET kept == KeepBand(ladder, band).kept
           IN  Ladder(kept) /\ kept[Len(kept)] = band
  <1> DEFINE n == Len(ladder.kept)
             kept == Append(ladder.kept, band)
  <1>1. ladder.kept \in Seq(Band) /\ n \in Nat
    BY DEF Kept, Ladder0
  <1>2. KeepBand(ladder, band).kept = kept
    BY <1>1 DEF KeepBand, Kept, Ladder0
  <1>3. /\ kept \in Seq(Band) /\ Len(kept) = n + 1 /\ kept[n + 1] = band
        /\ \A j \in 1 .. n : kept[j] = ladder.kept[j]
    BY <1>1
  <1> HIDE DEF kept
  <1>4. \A j \in 1 .. n + 1 : j \in 1 .. n \/ j = n + 1
    BY <1>1
  <1>5. \A j \in 1 .. n + 1 : kept[j].price \in Nat
    BY <1>3, <1>4 DEF Kept
  <1>6. \A j \in 1 .. (n + 1) - 1 : kept[j].upTo \in Nat \ {0}
    <2>1. \A j \in 1 .. (n + 1) - 1 : j \in 1 .. n
      BY <1>1
    <2>. QED  BY <1>3, <2>1 DEF Kept
  <1>7. \A j \in 1 .. (n + 1) - 2 : kept[j].upTo < kept[j + 1].upTo
    <2>1. \A j \in 1 .. (n + 1) - 2 : j \in 1 .. n - 1 /\ j \in 1 .. n /\ j + 1 \in 1 .. n
      BY <1>1
    <2>. QED  BY <1>3, <2>1 DEF Kept
  <1>8. n + 1 \in Nat \ {0}
    BY <1>1
  <1>. QED  BY <1>2, <1>3, <1>5, <1>6, <1>7, <1>8 DEF Ladder

\* The bands before they are kept or dropped.
Scaled(bands, days, inMonth) == [i \in DOMAIN bands |-> ProrateBand(bands[i], days, inMonth)]

\* A scaled band keeps its price.
LEMMA ScaledBand ==
    ASSUME NEW bands, Ladder(bands), NEW days \in Nat, NEW inMonth \in Nat \ {0}
    PROVE  /\ Scaled(bands, days, inMonth) \in Seq(Band)
           /\ Len(Scaled(bands, days, inMonth)) = Len(bands)
           /\ \A i \in 1 .. Len(bands) :
                 Scaled(bands, days, inMonth)[i].price = bands[i].price
           /\ \A i \in 1 .. Len(bands) - 1 :
                 Scaled(bands, days, inMonth)[i].upTo
                   = ProrateAllowance(bands[i].upTo, days, inMonth)
           /\ Scaled(bands, days, inMonth)[Len(bands)] = bands[Len(bands)]
  <1> DEFINE n == Len(bands)
             scaled == Scaled(bands, days, inMonth)
             up(i) == ProrateAllowance(bands[i].upTo, days, inMonth)
  <1>1. bands \in Seq(Band) /\ n \in Nat \ {0} /\ DOMAIN bands = 1 .. n
    BY DEF Ladder
  <1>2. \A i \in 1 .. n : bands[i] \in Band
    BY <1>1
  <1>3. ASSUME NEW i \in 1 .. n - 1
        PROVE  /\ scaled[i] \in Band /\ scaled[i].price = bands[i].price
               /\ scaled[i].upTo = up(i)
    <2>1. i \in 1 .. n /\ bands[i].upTo \in Nat /\ bands[i].upTo # Unbounded
      BY <1>1, UnboundedAssumption DEF Ladder
    <2>2. up(i) \in Nat
      BY <2>1, AllowanceRoundsUp
    <2>3. scaled[i] = [bands[i] EXCEPT !.upTo = up(i)]
      BY <1>1, <2>1 DEF Scaled, ProrateBand
    <2> HIDE DEF up
    <2>. QED  BY <1>2, <2>1, <2>2, <2>3 DEF Band
  <1>4. scaled[n] = bands[n]
    <2>1. bands[n].upTo = Unbounded /\ n \in DOMAIN bands
      BY <1>1 DEF Ladder
    <2>. QED  BY <2>1 DEF Scaled, ProrateBand
  <1>5. \A i \in 1 .. n : i \in 1 .. n - 1 \/ i = n
    <2> HIDE DEF n
    <2>. QED  BY <1>1
  <1>6. \A i \in 1 .. n : scaled[i] \in Band /\ scaled[i].price = bands[i].price
    BY <1>2, <1>3, <1>4, <1>5
  <1>7. DOMAIN scaled = 1 .. n
    BY <1>1 DEF Scaled
  <1>8. scaled = [i \in 1 .. n |-> scaled[i]]
    BY <1>1 DEF Scaled
  <1> HIDE DEF scaled, n
  <1>9. scaled \in Seq(Band)
    BY <1>1, <1>6, <1>8
  <1>10. Len(scaled) = n
    BY <1>1, <1>7, <1>9
  <1>. QED  BY <1>3, <1>4, <1>6, <1>9, <1>10 DEF scaled, n

\* The ladder after i scaled bands.
LadderAfter(bands, i, ladder) ==
    IF i < Len(bands) THEN Kept(ladder)
    ELSE Ladder(ladder.kept) /\ ladder.kept[Len(ladder.kept)] = bands[Len(bands)]

\* What is left of a ladder is a ladder, with the last band's price.
LEMMA ProratedLadder ==
    ASSUME NEW bands, Ladder(bands), NEW days \in Nat, NEW inMonth \in Nat \ {0}
    PROVE  LET prorated == ProratedBands(bands, days, inMonth)
           IN  Ladder(prorated) /\ prorated[Len(prorated)] = bands[Len(bands)]
  <1> DEFINE n == Len(bands)
             scaled == Scaled(bands, days, inMonth)
             base == [kept |-> <<>>, previous |-> 0]
  <1>1. n \in Nat \ {0} /\ \A i \in 1 .. n : bands[i].price \in Nat
    BY DEF Ladder
  <1>2. /\ scaled \in Seq(Band) /\ Len(scaled) = n
        /\ \A i \in 1 .. n : scaled[i] \in Band /\ scaled[i].price \in Nat
        /\ \A i \in 1 .. n - 1 : scaled[i].upTo \in Nat
        /\ scaled[n] = bands[n] /\ scaled[n].upTo = Unbounded
    <2>1. /\ scaled \in Seq(Band) /\ Len(scaled) = n
          /\ \A i \in 1 .. n : scaled[i].price = bands[i].price
          /\ \A i \in 1 .. n - 1 : scaled[i].upTo = ProrateAllowance(bands[i].upTo, days, inMonth)
          /\ scaled[n] = bands[n]
      BY ScaledBand
    <2>2. \A i \in 1 .. n - 1 : scaled[i].upTo \in Nat
      <3>1. \A i \in 1 .. n - 1 : bands[i].upTo \in Nat
        BY DEF Ladder
      <3>2. \A i \in 1 .. n - 1 : ProrateAllowance(bands[i].upTo, days, inMonth) \in Nat
        BY <3>1, AllowanceRoundsUp
      <3>. QED  BY <2>1, <3>2
    <2>3. scaled[n].upTo = Unbounded
      BY <2>1 DEF Ladder
    <2> HIDE DEF scaled, n
    <2>4. \A i \in 1 .. n : scaled[i] \in Band
      BY <2>1
    <2>. QED  BY <1>1, <2>1, <2>2, <2>3, <2>4
  <1>3. base \in Ladder0 /\ Kept(base)
    <2>1. <<>> \in Seq(Band) /\ Len(<<>>) = 0
      OBVIOUS
    <2>. QED  BY <2>1 DEF Ladder0, Kept
  <1>4. ProratedBands(bands, days, inMonth) = FoldLeft(KeepBand, base, scaled).kept
    BY DEF ProratedBands, Scaled
  <1> HIDE DEF base, scaled, n
  <1>5. PICK w : /\ w[0] = base
                 /\ \A i \in 1 .. Len(scaled) : w[i] = KeepBand(w[i - 1], scaled[i])
                 /\ FoldLeft(KeepBand, base, scaled) = w[Len(scaled)]
    BY <1>2, <1>3, KeepBandWalk
  <1> DEFINE S == {i \in 0 .. n : LadderAfter(bands, i, w[i])}
  <1>6. 0 \in S
    BY <1>1, <1>3, <1>5 DEF LadderAfter, n
  <1>7. ASSUME NEW i \in 0 .. n - 1, i \in S PROVE i + 1 \in S
    <2>1. i + 1 \in 1 .. n /\ (i + 1) - 1 = i /\ i < n
      BY <1>1
    <2>2. w[i + 1] = KeepBand(w[i], scaled[i + 1])
      BY <1>2, <1>5, <2>1
    <2>3. Kept(w[i])
      BY <1>7, <2>1 DEF LadderAfter, n
    <2>4. CASE i + 1 < n
      <3>1. i + 1 \in 1 .. n - 1
        BY <1>1, <2>4
      <3>2. Kept(w[i + 1])
        BY <1>2, <2>1, <2>2, <2>3, <3>1, BoundedKept
      <3>. QED  BY <1>1, <2>4, <3>2 DEF LadderAfter, n
    <2>5. CASE i + 1 = n
      <3>1. /\ Ladder(w[i + 1].kept)
            /\ w[i + 1].kept[Len(w[i + 1].kept)] = scaled[i + 1]
        BY <1>2, <2>1, <2>2, <2>3, <2>5, LastKept
      <3>2. scaled[i + 1] = bands[n] /\ ~(i + 1 < n) /\ i + 1 \in 0 .. n
        BY <1>1, <1>2, <2>5
      <3>. QED  BY <3>1, <3>2 DEF LadderAfter, n
    <2>. QED  BY <1>1, <2>1, <2>4, <2>5
  <1>8. \A i \in 0 .. n : i \in S
    <2> HIDE DEF S
    <2>. QED  BY <1>1, <1>6, <1>7, UpTo
  <1>9. LadderAfter(bands, n, w[n]) /\ ~(n < n)
    BY <1>1, <1>8
  <1>. QED  BY <1>2, <1>4, <1>5, <1>9 DEF LadderAfter, n

\* What is left of a valid price list is one, and its last price is the same: an
\* unbounded band is never dropped.
THEOREM ProratedIsValid ==
    ASSUME NEW list \in PriceList, ValidPriceList(list),
           NEW days \in Nat, NEW inMonth \in Nat \ {0}
    PROVE  LET prorated == Prorate(list, days, inMonth)
           IN  /\ prorated \in PriceList /\ ValidPriceList(prorated)
               /\ LastPrice(prorated) = LastPrice(list)
  <1> DEFINE fee == ProrateFee(list.fee, days, inMonth)
             included == ProrateAllowance(list.included, days, inMonth)
             bands == ProratedBands(list.bands, days, inMonth)
             prorated == [fee |-> fee, included |-> included, bands |-> bands]
  <1>1. list.fee \in Nat /\ list.included \in Nat /\ Ladder(list.bands)
    BY ValidLadder
  <1>2. fee \in Nat /\ included \in Nat
    BY <1>1, FeeRoundsDown, AllowanceRoundsUp
  <1>3. Ladder(bands) /\ bands[Len(bands)] = list.bands[Len(list.bands)]
    BY <1>1, ProratedLadder
  <1>4. Prorate(list, days, inMonth) = prorated
    BY DEF Prorate
  <1> HIDE DEF fee, included, bands
  <1>5. prorated \in PriceList
    BY <1>2, <1>3 DEF PriceList, Ladder
  <1>6. ValidPriceList(prorated)
    <2> HIDE DEF prorated
    <2>1. prorated.fee = fee /\ prorated.included = included /\ prorated.bands = bands
      BY DEF prorated
    <2>. QED  BY <1>2, <1>3, <1>5, <2>1, ValidLadder
  <1>. QED  BY <1>3, <1>4, <1>5, <1>6 DEF LastPrice

\* A band ends before the k-th unit.
EndsBefore(band, k) == band.upTo # Unbounded /\ band.upTo < k

\* The first i bands of a ladder whose b-th is the first to reach the k-th unit: that
\* one is kept, and no band before it reaches the unit.
Reaches(ladder, i, b, k, price) ==
    LET kept == ladder.kept
    IN /\ ladder \in Ladder0
       /\ i < b => /\ ladder.previous < k
                   /\ \A j \in 1 .. Len(kept) : EndsBefore(kept[j], k)
       /\ b <= i => \E j \in 1 .. Len(kept) :
                       /\ kept[j].price = price /\ ~EndsBefore(kept[j], k)
                       /\ \A l \in 1 .. j - 1 : EndsBefore(kept[l], k)

\* A band is dropped only if no unit begins in it.
LEMMA KeptReaches ==
    ASSUME NEW i \in Nat, NEW b \in Nat, NEW k \in Nat, NEW price,
           NEW ladder, Reaches(ladder, i, b, k, price), NEW band \in Band,
           i + 1 < b => EndsBefore(band, k),
           i + 1 = b => ~EndsBefore(band, k) /\ band.price = price
    PROVE  Reaches(KeepBand(ladder, band), i + 1, b, k, price)
  <1> DEFINE kept == ladder.kept
             n == Len(kept)
             more == Append(kept, band)
             next == KeepBand(ladder, band)
  <1>1. /\ ladder \in Ladder0 /\ kept \in Seq(Band) /\ n \in Nat /\ ladder.previous \in Int
        /\ band.upTo \in Int \cup {Unbounded} /\ next \in Ladder0
    <2>1. ladder \in Ladder0
      BY Zenon DEF Reaches
    <2>2. next \in Ladder0
      BY <2>1, KeepBandType
    <2>3. kept \in Seq(Band) /\ ladder.previous \in Int
      BY <2>1 DEF Ladder0
    <2>4. n \in Nat
      BY <2>3
    <2>. QED  BY <2>1, <2>2, <2>3, <2>4 DEF Band
  <1>2. /\ Len(more) = n + 1 /\ more[n + 1] = band
        /\ \A j \in 1 .. n : more[j] = kept[j]
    BY <1>1
  <1>3. CASE band.upTo # Unbounded /\ band.upTo <= ladder.previous
    <2>1. next = ladder
      BY <1>3 DEF KeepBand
    <2>2. CASE i < b
      <3>1. ladder.previous < k /\ \A j \in 1 .. n : EndsBefore(kept[j], k)
        BY <2>2 DEF Reaches
      <3>2. EndsBefore(band, k)
        BY <1>1, <1>3, <3>1 DEF EndsBefore
      <3>3. i + 1 < b
        BY <2>2, <3>2
      <3>. QED  BY <1>1, <2>1, <3>1, <3>3 DEF Reaches
    <2>3. CASE ~(i < b)
      BY <1>1, <2>1, <2>3 DEF Reaches
    <2>. QED  BY <2>2, <2>3
  <1>4. CASE ~(band.upTo # Unbounded /\ band.upTo <= ladder.previous)
    <2>1. next.kept = more /\ (band.upTo # Unbounded => next.previous = band.upTo)
      BY <1>1, <1>4 DEF KeepBand, Ladder0
    <2> HIDE DEF more, next, n, kept
    <2>2. CASE i < b
      <3>1. \A j \in 1 .. n : EndsBefore(kept[j], k)
        BY <2>2 DEF Reaches, n, kept
      <3>2. \A j \in 1 .. n : EndsBefore(more[j], k)
        BY <1>2, <3>1
      <3>3. CASE i + 1 < b
        <4>1. EndsBefore(band, k) /\ next.previous < k
          BY <2>1, <3>3 DEF EndsBefore
        <4>2. \A j \in 1 .. n + 1 : j \in 1 .. n \/ j = n + 1
          BY <1>1
        <4>3. \A j \in 1 .. n + 1 : EndsBefore(more[j], k)
          BY <1>2, <3>2, <4>1, <4>2
        <4>4. next \in Ladder0 /\ Len(next.kept) = n + 1 /\ next.kept = more /\ ~(b <= i + 1)
          BY <1>1, <1>2, <2>1, <3>3
        <4>5. Reaches(next, i + 1, b, k, price)
          BY <4>1, <4>3, <4>4, Zenon DEF Reaches
        <4>. QED  BY <4>5 DEF next
      <3>4. CASE i + 1 = b
        <4>1. /\ n + 1 \in 1 .. n + 1
              /\ more[n + 1].price = price /\ ~EndsBefore(more[n + 1], k)
              /\ \A l \in 1 .. (n + 1) - 1 : EndsBefore(more[l], k)
          <5>1. band.price = price /\ ~EndsBefore(band, k)
            BY <3>4
          <5>2. n + 1 \in 1 .. n + 1 /\ (n + 1) - 1 = n
            BY <1>1
          <5>. QED  BY <1>2, <3>2, <5>1, <5>2
        <4>2. ~(i + 1 < b)
          BY <3>4
        <4>3. \E j \in 1 .. Len(next.kept) :
                /\ next.kept[j].price = price /\ ~EndsBefore(next.kept[j], k)
                /\ \A l \in 1 .. j - 1 : EndsBefore(next.kept[l], k)
          BY <1>2, <2>1, <4>1, Zenon
        <4>4. next \in Ladder0
          BY <1>1
        <4>5. Reaches(next, i + 1, b, k, price)
          BY <4>2, <4>3, <4>4, Zenon DEF Reaches
        <4>. QED  BY <4>5 DEF next
      <3>. QED  BY <2>2, <3>3, <3>4
    <2>3. CASE ~(i < b)
      <3>1. PICK j \in 1 .. n : /\ kept[j].price = price /\ ~EndsBefore(kept[j], k)
                               /\ \A l \in 1 .. j - 1 : EndsBefore(kept[l], k)
        BY <2>3 DEF Reaches, n, kept
      <3>2. j \in 1 .. n + 1 /\ \A l \in 1 .. j - 1 : l \in 1 .. n
        BY <1>1
      <3>3. /\ more[j].price = price /\ ~EndsBefore(more[j], k)
            /\ \A l \in 1 .. j - 1 : EndsBefore(more[l], k)
        BY <1>2, <3>1, <3>2
      <3>4. ~(i + 1 < b)
        BY <2>3
      <3>5. \E l \in 1 .. Len(next.kept) :
              /\ next.kept[l].price = price /\ ~EndsBefore(next.kept[l], k)
              /\ \A h \in 1 .. l - 1 : EndsBefore(next.kept[h], k)
        BY <1>2, <2>1, <3>2, <3>3, Zenon
      <3>6. next \in Ladder0
        BY <1>1
      <3>7. Reaches(next, i + 1, b, k, price)
        BY <3>4, <3>5, <3>6, Zenon DEF Reaches
      <3>. QED  BY <3>7 DEF next
    <2>. QED  BY <2>2, <2>3
  <1>. QED  BY <1>3, <1>4

\* A bound rounded up reaches the units that begin in the band's exact share.
LEMMA RoundedUpReaches ==
    ASSUME NEW upTo \in Nat, NEW days \in Nat, NEW inMonth \in Nat \ {0},
           NEW k \in Nat \ {0}
    PROVE  ~(ProrateAllowance(upTo, days, inMonth) < k) <=> (k - 1) * inMonth < upTo * days
  <1> DEFINE up == ProrateAllowance(upTo, days, inMonth)
             share == upTo * days
  <1>1. up \in Nat /\ share <= up * inMonth /\ up * inMonth < share + inMonth
    BY AllowanceRoundsUp
  <1>2. share \in Nat
    OBVIOUS
  <1> HIDE DEF up, share
  <1>3. ASSUME NEW x \in Nat, NEW y \in Nat, x <= y PROVE x * inMonth <= y * inMonth
    BY <1>3
  <1>4. CASE up < k
    <2>1. k - 1 \in Nat /\ up <= k - 1
      BY <1>1, <1>4
    <2>2. up * inMonth <= (k - 1) * inMonth
      BY <1>1, <1>3, <2>1
    <2>3. up * inMonth \in Nat /\ (k - 1) * inMonth \in Nat
      BY <1>1, <2>1
    <2>. QED  BY <1>1, <1>2, <1>4, <2>2, <2>3 DEF up, share
  <1>5. CASE ~(up < k)
    <2>1. k * inMonth <= up * inMonth
      BY <1>1, <1>3, <1>5
    <2>2. /\ (k - 1) * inMonth = k * inMonth - inMonth
          /\ k * inMonth \in Nat /\ up * inMonth \in Nat
      BY <1>1
    <2>. QED  BY <1>1, <1>2, <1>5, <2>1, <2>2 DEF up, share
  <1>. QED  BY <1>4, <1>5

\* The band that gives a unit its price by exact shares: the first, scaled, to reach it.
LEMMA ShareBand ==
    ASSUME NEW list, Ladder(list.bands), NEW days \in Nat, NEW k \in Nat \ {0}
    PROVE  LET scaled == Scaled(list.bands, days, DaysInMonth)
           IN  \E b \in 1 .. Len(list.bands) :
                  /\ SharePrice(list, days, k) = list.bands[b].price
                  /\ ~EndsBefore(scaled[b], k)
                  /\ \A i \in 1 .. b - 1 : EndsBefore(scaled[i], k)
  <1> DEFINE bands == list.bands
             n == Len(bands)
             scaled == Scaled(bands, days, DaysInMonth)
             covers == {i \in DOMAIN bands :
                          \/ bands[i].upTo = Unbounded
                          \/ (k - 1) * DaysInMonth < bands[i].upTo * days}
  <1>0. DaysInMonth \in Nat \ {0}
    BY PlansAssumption
  <1>1. n \in Nat \ {0} /\ DOMAIN bands = 1 .. n /\ bands[n].upTo = Unbounded
    BY DEF Ladder
  <1>2. /\ scaled[n] = bands[n]
        /\ \A i \in 1 .. n - 1 :
              scaled[i].upTo = ProrateAllowance(bands[i].upTo, days, DaysInMonth)
    BY <1>0, ScaledBand
  <1>3. ASSUME NEW i \in 1 .. n PROVE i \in covers <=> ~EndsBefore(scaled[i], k)
    <2>1. CASE i = n
      BY <1>1, <1>2, <2>1 DEF EndsBefore
    <2>2. CASE i # n
      <3>1. i \in 1 .. n - 1
        BY <1>1, <2>2
      <3>2. bands[i].upTo \in Nat /\ bands[i].upTo # Unbounded
        BY <3>1, UnboundedAssumption DEF Ladder
      <3>3. /\ ProrateAllowance(bands[i].upTo, days, DaysInMonth) \in Nat
            /\ ~(ProrateAllowance(bands[i].upTo, days, DaysInMonth) < k)
                  <=> (k - 1) * DaysInMonth < bands[i].upTo * days
        BY <1>0, <3>2, AllowanceRoundsUp, RoundedUpReaches
      <3>4. scaled[i].upTo # Unbounded
        BY <1>2, <3>1, <3>3, UnboundedAssumption
      <3> HIDE DEF scaled, bands, n
      <3>5. i \in covers <=> (k - 1) * DaysInMonth < bands[i].upTo * days
        BY <1>1, <3>2
      <3>6. EndsBefore(scaled[i], k) <=> ProrateAllowance(bands[i].upTo, days, DaysInMonth) < k
        BY <1>2, <3>1, <3>4 DEF EndsBefore
      <3>. QED  BY <3>3, <3>5, <3>6
    <2>. QED  BY <2>1, <2>2
  <1>4. covers \in SUBSET Nat /\ covers # {} /\ covers \subseteq 1 .. n
    <2>1. n \in covers
      BY <1>1
    <2>. QED  BY <1>1, <2>1
  <1>5. SharePrice(list, days, k) = bands[Min(covers)].price
    BY DEF SharePrice
  <1> HIDE DEF covers, scaled, n, bands
  <1>6. PICK b \in covers : \A i \in covers : b <= i
    BY <1>4, LeastNat
  <1>7. Min(covers) = b
    <2>1. \A x \in covers : x \in Int
      BY <1>4
    <2>2. \A x \in covers : (\A y \in covers : x <= y) => x = b
      BY <1>6, <2>1
    <2>. QED  BY <1>6, <2>2 DEF Min
  <1>8. b \in 1 .. n /\ ~EndsBefore(scaled[b], k)
    BY <1>3, <1>4
  <1>9. \A i \in 1 .. b - 1 : EndsBefore(scaled[i], k)
    <2>1. \A i \in 1 .. b - 1 : i \in 1 .. n /\ ~(b <= i)
      BY <1>1, <1>8
    <2>. QED  BY <1>3, <1>6, <2>1
  <1>. QED  BY <1>5, <1>7, <1>8, <1>9 DEF bands, n, scaled

\* However its bands are rounded and dropped, a prorated ladder prices a unit by the
\* first band whose exact share of the month the unit begins in.
THEOREM ProratedPrices ==
    ASSUME NEW list, Ladder(list.bands), NEW days \in Nat, NEW k \in Nat \ {0}
    PROVE  UnitPrice(Prorate(list, days, DaysInMonth), k) = SharePrice(list, days, k)
  <1> DEFINE bands == list.bands
             n == Len(bands)
             scaled == Scaled(bands, days, DaysInMonth)
             base == [kept |-> <<>>, previous |-> 0]
             part == Prorate(list, days, DaysInMonth)
             price == SharePrice(list, days, k)
  <1>0. DaysInMonth \in Nat \ {0}
    BY PlansAssumption
  <1>1. n \in Nat \ {0} /\ DOMAIN bands = 1 .. n
    BY DEF Ladder
  <1>2. /\ scaled \in Seq(Band) /\ Len(scaled) = n
        /\ \A i \in 1 .. n : scaled[i] \in Band /\ scaled[i].price = bands[i].price
    <2>1. /\ scaled \in Seq(Band) /\ Len(scaled) = n
          /\ \A i \in 1 .. n : scaled[i].price = bands[i].price
      BY <1>0, ScaledBand
    <2> HIDE DEF scaled
    <2>. QED  BY <2>1
  <1>3. PICK b \in 1 .. n : /\ price = bands[b].price
                           /\ ~EndsBefore(scaled[b], k)
                           /\ \A i \in 1 .. b - 1 : EndsBefore(scaled[i], k)
    BY ShareBand
  <1>4. base \in Ladder0 /\ base.kept = <<>> /\ base.previous = 0 /\ Len(base.kept) = 0
    <2>1. <<>> \in Seq(Band) /\ Len(<<>>) = 0
      OBVIOUS
    <2>. QED  BY <2>1 DEF Ladder0
  <1>5. /\ part.bands = FoldLeft(KeepBand, base, scaled).kept
        /\ Ladder(part.bands)
    <2>1. part.bands = ProratedBands(bands, days, DaysInMonth)
      BY DEF Prorate
    <2>2. Ladder(ProratedBands(bands, days, DaysInMonth))
      BY <1>0, ProratedLadder
    <2>. QED  BY <2>1, <2>2 DEF ProratedBands, Scaled
  <1> HIDE DEF base, scaled, n, bands, part, price
  <1>6. PICK w : /\ w[0] = base
                 /\ \A i \in 1 .. Len(scaled) : w[i] = KeepBand(w[i - 1], scaled[i])
                 /\ FoldLeft(KeepBand, base, scaled) = w[Len(scaled)]
    BY <1>2, <1>4, KeepBandWalk
  <1> DEFINE S == {i \in 0 .. n : Reaches(w[i], i, b, k, price)}
  <1>7. 0 \in S
    <2>1. Reaches(base, 0, b, k, price)
      BY <1>1, <1>4 DEF Reaches
    <2>. QED  BY <1>1, <1>6, <2>1
  <1>8. ASSUME NEW i \in 0 .. n - 1, i \in S PROVE i + 1 \in S
    <2>1. i \in Nat /\ b \in Nat /\ i + 1 \in 1 .. n /\ (i + 1) - 1 = i /\ i + 1 \in 0 .. n
      BY <1>1
    <2>2. w[i + 1] = KeepBand(w[i], scaled[i + 1]) /\ scaled[i + 1] \in Band
      BY <1>2, <1>6, <2>1
    <2>3. i + 1 < b => EndsBefore(scaled[i + 1], k)
      <3>1. i + 1 < b => i + 1 \in 1 .. b - 1
        BY <2>1
      <3>. QED  BY <1>3, <3>1
    <2>4. i + 1 = b => ~EndsBefore(scaled[i + 1], k) /\ scaled[i + 1].price = price
      BY <1>2, <1>3
    <2>5. Reaches(w[i + 1], i + 1, b, k, price)
      BY <1>8, <2>1, <2>2, <2>3, <2>4, KeptReaches
    <2>. QED  BY <2>1, <2>5
  <1>9. \A i \in 0 .. n : i \in S
    <2> HIDE DEF S
    <2>. QED  BY <1>1, <1>7, <1>8, UpTo
  <1>10. Reaches(w[n], n, b, k, price) /\ w[n].kept = part.bands
    BY <1>1, <1>2, <1>5, <1>6, <1>9
  <1>11. PICK j \in 1 .. Len(part.bands) :
               /\ part.bands[j].price = price /\ ~EndsBefore(part.bands[j], k)
               /\ \A l \in 1 .. j - 1 : EndsBefore(part.bands[l], k)
    <2>1. b <= n
      BY <1>1
    <2>. QED  BY <1>10, <2>1 DEF Reaches
  <1>12. Len(part.bands) \in Nat
    BY <1>5 DEF Ladder
  <1>13. Bound(part.bands, j - 1) < k
    <2>1. CASE j = 1
      BY <2>1 DEF Bound
    <2>2. CASE j # 1
      <3>1. j - 1 \in 1 .. j - 1 /\ j - 1 # 0
        BY <1>12, <2>2
      <3>2. EndsBefore(part.bands[j - 1], k)
        BY <1>11, <3>1
      <3>. QED  BY <3>1, <3>2 DEF Bound, EndsBefore
    <2>. QED  BY <2>1, <2>2
  <1>14. j < Len(part.bands) => k <= part.bands[j].upTo
    <2> SUFFICES ASSUME j < Len(part.bands) PROVE k <= part.bands[j].upTo
      OBVIOUS
    <2>1. j \in 1 .. Len(part.bands) - 1
      BY <1>12
    <2>2. part.bands[j].upTo \in Nat
      BY <1>5, <2>1 DEF Ladder
    <2>. QED  BY <1>11, <2>2, UnboundedAssumption DEF EndsBefore
  <1>15. UnitPrice(part, k) = part.bands[j].price
    BY <1>5, <1>13, <1>14, UnitPriceIn
  <1>. QED  BY <1>11, <1>15 DEF part, price

\* The first i bands, all kept.
AllKept(bands, i, ladder) ==
    /\ ladder \in Ladder0 /\ Len(ladder.kept) = i
    /\ \A j \in 1 .. i : ladder.kept[j] = bands[j]
    /\ i < Len(bands) => ladder.previous = Bound(bands, i)

\* A plan held for the whole month is charged at its own price list.
THEOREM WholeMonthIsTheList ==
    ASSUME NEW list \in PriceList, ValidPriceList(list), NEW inMonth \in Nat \ {0}
    PROVE  Prorate(list, inMonth, inMonth) = list
  <1> DEFINE bands == list.bands
             n == Len(bands)
             scaled == Scaled(bands, inMonth, inMonth)
             base == [kept |-> <<>>, previous |-> 0]
  <1>1. list.fee \in Nat /\ list.included \in Nat /\ Ladder(bands)
    BY ValidLadder
  <1>2. bands \in Seq(Band) /\ n \in Nat \ {0} /\ DOMAIN bands = 1 .. n
    BY <1>1 DEF Ladder
  <1>3. scaled = bands
    <2>1. ASSUME NEW i \in 1 .. n PROVE ProrateBand(bands[i], inMonth, inMonth) = bands[i]
      <3>1. CASE bands[i].upTo = Unbounded
        BY <3>1 DEF ProrateBand
      <3>2. CASE bands[i].upTo # Unbounded
        <4>1. i \in 1 .. n - 1
          BY <1>1, <1>2, <3>2 DEF Ladder
        <4>2. bands[i].upTo \in Nat /\ bands[i] \in Band
          BY <1>1, <1>2, <4>1 DEF Ladder
        <4>3. ProrateAllowance(bands[i].upTo, inMonth, inMonth) = bands[i].upTo
          BY <4>2, WholeMonthIsExact
        <4>4. [bands[i] EXCEPT !.upTo = bands[i].upTo] = bands[i]
          BY <4>2 DEF Band
        <4>. QED  BY <3>2, <4>3, <4>4 DEF ProrateBand
      <3>. QED  BY <3>1, <3>2
    <2>2. bands = [i \in 1 .. n |-> bands[i]]
      BY <1>2
    <2>. QED  BY <1>2, <2>1, <2>2 DEF Scaled
  <1>4. base \in Ladder0 /\ base.kept = <<>> /\ base.previous = 0
    <2>1. <<>> \in Seq(Band)
      OBVIOUS
    <2>. QED  BY <2>1 DEF Ladder0
  <1>5. ProratedBands(bands, inMonth, inMonth) = FoldLeft(KeepBand, base, bands).kept
    BY <1>3 DEF ProratedBands, Scaled
  <1> HIDE DEF base, scaled, n, bands
  <1>6. PICK w : /\ w[0] = base
                 /\ \A i \in 1 .. Len(bands) : w[i] = KeepBand(w[i - 1], bands[i])
                 /\ FoldLeft(KeepBand, base, bands) = w[Len(bands)]
    BY <1>2, <1>4, KeepBandWalk
  <1> DEFINE S == {i \in 0 .. n : AllKept(bands, i, w[i])}
  <1>7. 0 \in S
    <2>1. AllKept(bands, 0, base)
      BY <1>4 DEF AllKept, Bound
    <2>. QED  BY <1>2, <1>6, <2>1
  <1>8. ASSUME NEW i \in 0 .. n - 1, i \in S PROVE i + 1 \in S
    <2>1. i \in Nat /\ i + 1 \in 1 .. n /\ i + 1 \in 0 .. n /\ (i + 1) - 1 = i /\ i < n
      BY <1>2
    <2>2. w[i + 1] = KeepBand(w[i], bands[i + 1])
      BY <1>6, <2>1 DEF n
    <2>3. /\ bands[i + 1] \in Band
          /\ i + 1 = n => bands[i + 1].upTo = Unbounded
          /\ i + 1 < n => /\ bands[i + 1].upTo \in Nat /\ bands[i + 1].upTo # Unbounded
                          /\ Bound(bands, i) < bands[i + 1].upTo
                          /\ Bound(bands, i + 1) = bands[i + 1].upTo
          /\ Bound(bands, i) \in Nat
      <3>1. i \in 0 .. Len(bands) - 1
        BY DEF n
      <3>. QED  BY <1>1, <3>1, NextBand DEF n
    <2>4. /\ w[i] \in Ladder0 /\ Len(w[i].kept) = i /\ w[i].kept \in Seq(Band)
          /\ \A j \in 1 .. i : w[i].kept[j] = bands[j]
          /\ w[i].previous = Bound(bands, i)
      BY <1>8, <2>1 DEF AllKept, Ladder0, n
    <2>5. /\ w[i + 1] \in Ladder0
          /\ w[i + 1].kept = Append(w[i].kept, bands[i + 1])
          /\ i + 1 < n => w[i + 1].previous = Bound(bands, i + 1)
      <3>1. w[i + 1] \in Ladder0
        BY <2>2, <2>3, <2>4, KeepBandType
      <3>2. CASE i + 1 = n
        <4>1. w[i + 1] = [w[i] EXCEPT !.kept = Append(w[i].kept, bands[i + 1])]
          BY <2>2, <2>3, <3>2 DEF KeepBand
        <4>2. w[i + 1].kept = Append(w[i].kept, bands[i + 1])
          BY <2>4, <4>1 DEF Ladder0
        <4>. QED  BY <1>2, <3>1, <3>2, <4>2
      <3>3. CASE i + 1 < n
        <4>1. ~(bands[i + 1].upTo <= w[i].previous)
          BY <2>3, <2>4, <3>3
        <4>. QED  BY <2>2, <2>3, <3>1, <3>3, <4>1 DEF KeepBand
      <3>. QED  BY <1>2, <2>1, <3>1, <3>2, <3>3
    <2>6. /\ Len(w[i + 1].kept) = i + 1 /\ w[i + 1].kept[i + 1] = bands[i + 1]
          /\ \A j \in 1 .. i : w[i + 1].kept[j] = bands[j]
      BY <2>1, <2>3, <2>4, <2>5
    <2>7. \A j \in 1 .. i + 1 : w[i + 1].kept[j] = bands[j]
      <3>1. \A j \in 1 .. i + 1 : j \in 1 .. i \/ j = i + 1
        BY <2>1
      <3>. QED  BY <2>6, <3>1
    <2>. QED  BY <2>1, <2>5, <2>6, <2>7 DEF AllKept, n
  <1>9. \A i \in 0 .. n : i \in S
    <2> HIDE DEF S
    <2>. QED  BY <1>2, <1>7, <1>8, UpTo
  <1>10. w[n].kept = bands
    <2>1. AllKept(bands, n, w[n])
      BY <1>2, <1>9
    <2>2. w[n].kept \in Seq(Band) /\ Len(w[n].kept) = n /\ \A j \in 1 .. n : w[n].kept[j] = bands[j]
      BY <2>1 DEF AllKept, Ladder0
    <2>3. w[n].kept = [j \in 1 .. n |-> w[n].kept[j]] /\ bands = [j \in 1 .. n |-> bands[j]]
      BY <1>2, <2>2 DEF n
    <2>. QED  BY <2>2, <2>3
  <1>11. ProratedBands(bands, inMonth, inMonth) = bands
    BY <1>5, <1>6, <1>10 DEF n
  <1>12. /\ ProrateFee(list.fee, inMonth, inMonth) = list.fee
         /\ ProrateAllowance(list.included, inMonth, inMonth) = list.included
    BY <1>1, WholeMonthIsExact
  <1>13. list = [fee |-> list.fee, included |-> list.included, bands |-> list.bands]
    BY DEF PriceList
  <1>. QED  BY <1>11, <1>12, <1>13 DEF Prorate, bands

----------------------------------------------------------------------------
(* The assignments of the period, in order.                                *)

\* The rows AssignmentsInPeriod puts in order.
InMonth == {a \in assignments : Overlap(a, [from |-> PeriodStart, to |-> PeriodEnd])}

\* n rows, by their starts.
Increasing(order, n, rows) ==
    /\ order \in [1 .. n -> rows]
    /\ \A i, j \in 1 .. n : i < j => order[i].from < order[j].from

\* No two rows start together.
Distinct(rows) ==
    /\ IsFiniteSet(rows)
    /\ \A a \in rows : a.from \in Int
    /\ \A a, b \in rows : a.from = b.from => a = b

\* A finite set of rows has a last one.
LEMMA LatestRow ==
    ASSUME NEW rows, Distinct(rows)
    PROVE  \A s \in SUBSET rows : s # {} => \E x \in s : \A y \in s : y.from <= x.from
  <1> DEFINE S == {s \in SUBSET rows : s # {} => \E x \in s : \A y \in s : y.from <= x.from}
  <1>0. IsFiniteSet(rows) /\ \A a \in rows : a.from \in Int
    BY DEF Distinct
  <1>1. ASSUME NEW s \in SUBSET rows, \A x \in s : s \ {x} \in S PROVE s \in S
    <2> SUFFICES ASSUME s # {} PROVE \E x \in s : \A y \in s : y.from <= x.from
      OBVIOUS
    <2>1. PICK z \in s : TRUE
      OBVIOUS
    <2>2. CASE s \ {z} = {}
      BY <1>0, <2>1, <2>2
    <2>3. CASE s \ {z} # {}
      <3>1. PICK x \in s \ {z} : \A y \in s \ {z} : y.from <= x.from
        BY <1>1, <2>1, <2>3
      <3>2. x.from \in Int /\ z.from \in Int /\ \A y \in s : y.from \in Int
        BY <1>0, <2>1, <3>1
      <3>3. CASE z.from <= x.from
        BY <3>1, <3>3
      <3>4. CASE x.from <= z.from
        <4>1. \A y \in s : y.from <= z.from
          BY <3>1, <3>2, <3>4
        <4>. QED  BY <2>1, <4>1
      <3>. QED  BY <3>2, <3>3, <3>4
    <2>. QED  BY <2>2, <2>3
  <1>2. \A s \in SUBSET rows : s \in S
    <2> HIDE DEF S
    <2>. QED  BY <1>0, <1>1, OverSubsets
  <1>. QED  BY <1>2

\* Rows that start at different instants can be put in order.
LEMMA OrderExists ==
    ASSUME NEW rows, Distinct(rows)
    PROVE  \E order : Increasing(order, Cardinality(rows), rows)
  <1> DEFINE S == {s \in SUBSET rows : \E order : Increasing(order, Cardinality(s), s)}
  <1>0. IsFiniteSet(rows) /\ (\A a \in rows : a.from \in Int)
        /\ \A a, b \in rows : a.from = b.from => a = b
    BY DEF Distinct
  <1>1. ASSUME NEW s \in SUBSET rows, \A x \in s : s \ {x} \in S PROVE s \in S
    <2>1. CASE s = {}
      <3>1. Cardinality(s) = 0 /\ 1 .. 0 = {}
        BY <2>1, FS_EmptySet
      <3>2. Increasing([i \in {} |-> 0], Cardinality(s), s)
        BY <3>1 DEF Increasing
      <3>. QED  BY <3>2
    <2>2. CASE s # {}
      <3>1. PICK x \in s : \A y \in s : y.from <= x.from
        BY <2>2, LatestRow
      <3> DEFINE t == s \ {x}
                 n == Cardinality(t)
      <3>2. IsFiniteSet(s) /\ n = Cardinality(s) - 1 /\ n \in Nat /\ Cardinality(s) \in Nat
        <4>1. IsFiniteSet(s)
          BY <1>0, FS_Subset
        <4>2. IsFiniteSet(t) /\ n = Cardinality(s) - 1
          BY <3>1, <4>1, FS_RemoveElement
        <4>. QED  BY <4>1, <4>2, FS_CardinalityType
      <3>3. PICK order : Increasing(order, n, t)
        BY <1>1, <3>1
      <3> HIDE DEF n
      <3> DEFINE more == [i \in 1 .. n + 1 |-> IF i = n + 1 THEN x ELSE order[i]]
      <3>4. \A i \in 1 .. n : order[i] \in s /\ order[i].from < x.from
        <4> SUFFICES ASSUME NEW i \in 1 .. n PROVE order[i] \in s /\ order[i].from < x.from
          OBVIOUS
        <4>1. order[i] \in t
          BY <3>3 DEF Increasing
        <4>2. order[i].from <= x.from /\ order[i].from # x.from
          BY <1>0, <3>1, <4>1
        <4>3. order[i].from \in Int /\ x.from \in Int
          BY <1>0, <3>1, <4>1
        <4>. QED  BY <4>1, <4>2, <4>3
      <3>5. \A i \in 1 .. n + 1 : i \in 1 .. n \/ i = n + 1
        BY <3>2
      <3>6. more \in [1 .. n + 1 -> s]
        BY <3>1, <3>4, <3>5
      <3>7. ASSUME NEW i \in 1 .. n + 1, NEW j \in 1 .. n + 1, i < j
            PROVE  more[i].from < more[j].from
        <4>1. i \in 1 .. n /\ i # n + 1
          BY <3>2, <3>5, <3>7
        <4>2. CASE j = n + 1
          BY <3>4, <4>1, <4>2
        <4>3. CASE j # n + 1
          <5>1. j \in 1 .. n
            BY <3>5, <4>3
          <5>. QED  BY <3>3, <3>7, <4>1, <4>3, <5>1 DEF Increasing
        <4>. QED  BY <4>2, <4>3
      <3>8. Increasing(more, n + 1, s)
        BY <3>6, <3>7 DEF Increasing
      <3>9. n + 1 = Cardinality(s)
        BY <3>2
      <3>. QED  BY <3>8, <3>9
    <2>. QED  BY <2>1, <2>2
  <1>2. \A s \in SUBSET rows : s \in S
    <2> HIDE DEF S
    <2>. QED  BY <1>0, <1>1, OverSubsets
  <1>. QED  BY <1>2

\* What the order says of the rows: every row has its place, and one has ended
\* when the next starts.
Ordered(order, n) ==
    /\ n = Cardinality(InMonth) /\ n \in Nat
    /\ order \in [1 .. n -> InMonth]
    /\ \A i, j \in 1 .. n : i < j => order[i].from < order[j].from
    /\ \A a \in InMonth : \E i \in 1 .. n : order[i] = a
    /\ \A i, j \in 1 .. n : i < j => order[i].to \in Int /\ order[i].to <= order[j].from

\* A row of the month is a row, and covers an hour of the month.
LEMMA RowOfMonth ==
    ASSUME DataTypes, Allowed(assignments), NEW a \in InMonth
    PROVE  /\ a \in assignments /\ a.from \in Int /\ a.from < PeriodEnd
           /\ a.to = Unbounded \/ (a.to \in Int /\ PeriodStart < a.to /\ a.from < a.to)
           /\ a.plan \in Plan
  <1> DEFINE month == [from |-> PeriodStart, to |-> PeriodEnd]
  <1>1. a \in assignments /\ Overlap(a, month)
    BY DEF InMonth
  <1>2. a.plan \in Plan /\ a.from \in Int /\ (a.to = Unbounded \/ a.to \in Int)
    BY <1>1, PlansAssumption DEF DataTypes, Assignment
  <1>3. month.from = PeriodStart /\ month.to = PeriodEnd /\ PeriodEnd # Unbounded
    <2>1. PeriodEnd \in Int
      BY PlansAssumption DEF PeriodEnd, UtcOffset
    <2>. QED  BY <2>1, UnboundedAssumption
  <1> HIDE DEF month
  <1>4. a.from < PeriodEnd /\ (a.to = Unbounded \/ PeriodStart < a.to)
    BY <1>1, <1>3 DEF Overlap
  <1>5. a.to = Unbounded \/ a.from < a.to
    BY <1>1 DEF Allowed
  <1>. QED  BY <1>1, <1>2, <1>4, <1>5

\* AssignmentsInPeriod is such an order.
LEMMA PeriodInOrder ==
    ASSUME DataTypes, Allowed(assignments), IsFiniteSet(assignments)
    PROVE  Ordered(AssignmentsInPeriod, Cardinality(InMonth))
  <1> DEFINE n == Cardinality(InMonth)
             order == AssignmentsInPeriod
  <1>1. IsFiniteSet(InMonth) /\ n \in Nat
    <2>1. InMonth \in SUBSET assignments
      BY DEF InMonth
    <2>. QED  BY <2>1, FS_Subset, FS_CardinalityType
  <1>2. Distinct(InMonth)
    <2>1. ASSUME NEW a \in InMonth, NEW b \in InMonth, a.from = b.from PROVE a = b
      <3>1. /\ a \in assignments /\ a.from \in Int /\ (a.to = Unbounded \/ a.from < a.to)
            /\ b \in assignments /\ b.from \in Int /\ (b.to = Unbounded \/ b.from < b.to)
        BY RowOfMonth
      <3>2. Overlap(a, b)
        BY <2>1, <3>1 DEF Overlap
      <3>. QED  BY <3>1, <3>2 DEF Allowed
    <2>2. \A a \in InMonth : a.from \in Int
      BY RowOfMonth
    <2>. QED  BY <1>1, <2>1, <2>2 DEF Distinct
  <1>3. order = CHOOSE f \in [1 .. n -> InMonth] :
                   \A i, j \in DOMAIN f : i < j => f[i].from < f[j].from
    BY DEF AssignmentsInPeriod, InMonth
  <1>4. Increasing(order, n, InMonth)
    <2> HIDE DEF n, order
    <2>1. \E f : Increasing(f, n, InMonth)
      BY <1>2, OrderExists DEF n
    <2>2. \E f \in [1 .. n -> InMonth] : \A i, j \in DOMAIN f : i < j => f[i].from < f[j].from
      BY <2>1 DEF Increasing
    <2>3. /\ order \in [1 .. n -> InMonth]
          /\ \A i, j \in DOMAIN order : i < j => order[i].from < order[j].from
      BY <1>3, <2>2
    <2>. QED  BY <2>3 DEF Increasing
  <1> HIDE DEF n, order
  <1>5. order \in [1 .. n -> InMonth]
        /\ \A i, j \in 1 .. n : i < j => order[i].from < order[j].from
    BY <1>4 DEF Increasing
  <1>6. \A a \in InMonth : \E i \in 1 .. n : order[i] = a
    <2>1. ASSUME NEW i \in 1 .. n, NEW j \in 1 .. n, order[i] = order[j] PROVE i = j
      <3>1. order[i].from \in Int /\ order[j].from \in Int
        BY <1>5, RowOfMonth
      <3>2. ~(i < j) /\ ~(j < i)
        BY <1>5, <2>1, <3>1
      <3>. QED  BY <1>1, <3>2 DEF n
    <2>2. order \in Injection(1 .. n, InMonth)
      BY <1>5, <2>1 DEF Injection, IsInjective
    <2>3. Cardinality(1 .. n) = Cardinality(InMonth)
      <3>1. n \in Int /\ 1 \in Int
        BY <1>1 DEF n
      <3>2. Cardinality(1 .. n) = IF 1 > n THEN 0 ELSE n - 1 + 1
        BY <3>1, FS_Interval
      <3>3. Cardinality(1 .. n) = n
        BY <1>1, <3>2 DEF n
      <3>. QED  BY <3>3 DEF n
    <2>4. order \in Surjection(1 .. n, InMonth)
      BY <1>1, <2>2, <2>3, FS_Injection
    <2>. QED  BY <2>4 DEF Surjection
  <1>7. ASSUME NEW i \in 1 .. n, NEW j \in 1 .. n, i < j
        PROVE  order[i].to \in Int /\ order[i].to <= order[j].from
    <2>1. order[i] \in InMonth /\ order[j] \in InMonth /\ order[i].from < order[j].from
      BY <1>5, <1>7
    <2>2. /\ order[i] \in assignments /\ order[i].from \in Int
          /\ order[i].to = Unbounded \/ order[i].to \in Int
          /\ order[j] \in assignments /\ order[j].from \in Int
          /\ order[j].to = Unbounded \/ (order[j].to \in Int /\ order[j].from < order[j].to)
      BY <2>1, RowOfMonth
    <2>3. ~Overlap(order[i], order[j])
      BY <2>1, <2>2 DEF Allowed
    <2>. QED  BY <2>1, <2>2, <2>3 DEF Overlap
  <1>. QED  BY <1>1, <1>5, <1>6, <1>7 DEF Ordered, n, order

----------------------------------------------------------------------------
(* The days of a segment.                                                  *)

\* Local dates.
LEMMA Dates ==
    /\ PeriodStart \in Int /\ PeriodEnd \in Int /\ PeriodStart < PeriodEnd
    /\ LocalDate(PeriodStart) = 0 /\ LocalDate(PeriodEnd) = DaysInMonth
    /\ LocalDate(PeriodEnd - 1) = DaysInMonth - 1
    /\ \A t \in Int : LocalDate(t) \in Int
    /\ \A s, t \in Int : s <= t => LocalDate(s) <= LocalDate(t)
    /\ \A s, t \in Int : s < t => LocalDate(s) <= LocalDate(t - 1)
    /\ \A t, day \in Int : t <= EndOfDay(day) <=> LocalDate(t) <= day
  <1> USE PlansAssumption DEF PeriodStart, PeriodEnd, UtcOffset, LocalDate
  <1>1. PeriodStart \in Int /\ PeriodEnd \in Int /\ PeriodStart < PeriodEnd
    OBVIOUS
  <1>2. LocalDate(PeriodStart) = 0 /\ LocalDate(PeriodEnd) = DaysInMonth
        /\ LocalDate(PeriodEnd - 1) = DaysInMonth - 1
    OBVIOUS
  <1>3. \A t \in Int : LocalDate(t) \in Int
    OBVIOUS
  <1>4. \A s, t \in Int : s <= t => LocalDate(s) <= LocalDate(t)
    OBVIOUS
  <1>5. \A s, t \in Int : s < t => LocalDate(s) <= LocalDate(t - 1)
    OBVIOUS
  <1>6. \A t, day \in Int : t <= EndOfDay(day) <=> LocalDate(t) <= day
    BY DEF EndOfDay
  <1>. QED  BY <1>1, <1>2, <1>3, <1>4, <1>5, <1>6

\* An assignment clipped to the month, and its days.
StartOf(a) == IF a.from < PeriodStart THEN PeriodStart ELSE a.from
EndOf(a) == IF a.to = Unbounded THEN PeriodEnd
            ELSE IF a.to > PeriodEnd THEN PeriodEnd ELSE a.to
DaysOf(a) == LocalDate(EndOf(a)) - LocalDate(StartOf(a))

\* The days at whose end it is in effect.
DayEnds(a) == {day \in 0 .. DaysInMonth - 1 : InEffect(a, EndOfDay(day))}

\* A row of the month lies in the month once clipped.
LEMMA Clipped ==
    ASSUME DataTypes, Allowed(assignments), NEW a \in InMonth
    PROVE  /\ StartOf(a) \in Int /\ EndOf(a) \in Int
           /\ PeriodStart <= StartOf(a) /\ StartOf(a) < EndOf(a) /\ EndOf(a) <= PeriodEnd
           /\ LocalDate(StartOf(a)) \in Nat /\ LocalDate(EndOf(a)) \in Nat
           /\ LocalDate(EndOf(a)) <= DaysInMonth
           /\ DaysOf(a) \in Nat
  <1>1. /\ a.from \in Int /\ a.from < PeriodEnd
        /\ a.to = Unbounded \/ (a.to \in Int /\ PeriodStart < a.to /\ a.from < a.to)
    BY RowOfMonth
  <1>2. PeriodStart \in Int /\ PeriodEnd \in Int /\ PeriodStart < PeriodEnd
    BY Dates
  <1>3. /\ StartOf(a) \in Int /\ EndOf(a) \in Int
        /\ PeriodStart <= StartOf(a) /\ StartOf(a) < EndOf(a) /\ EndOf(a) <= PeriodEnd
    BY <1>1, <1>2, UnboundedAssumption DEF StartOf, EndOf
  <1>4. /\ LocalDate(StartOf(a)) \in Int /\ LocalDate(EndOf(a)) \in Int
        /\ 0 <= LocalDate(StartOf(a)) /\ LocalDate(StartOf(a)) <= LocalDate(EndOf(a))
        /\ LocalDate(EndOf(a)) <= DaysInMonth
    <2>1. 0 <= LocalDate(StartOf(a))
      BY <1>2, <1>3, Dates
    <2>2. LocalDate(StartOf(a)) <= LocalDate(EndOf(a))
      <3>1. StartOf(a) <= EndOf(a)
        BY <1>3
      <3>. QED  BY <1>3, <3>1, Dates
    <2>3. LocalDate(EndOf(a)) <= DaysInMonth
      BY <1>2, <1>3, Dates
    <2>. QED  BY <1>3, <2>1, <2>2, <2>3, Dates
  <1>5. DaysOf(a) \in Nat
    BY <1>4 DEF DaysOf
  <1>. QED  BY <1>3, <1>4, <1>5

\* Its segment.
LEMMA SegmentOfRow ==
    ASSUME DataTypes, Allowed(assignments), NEW a \in InMonth, NEW quantity
    PROVE  Segment(a, quantity) = [list |-> PriceListOf[a.plan], days |-> DaysOf(a),
                                   quantity |-> quantity]
  <1>1. WholeDaysBetween(StartOf(a), EndOf(a)) = DaysOf(a)
    <2>1. ~(EndOf(a) <= StartOf(a))
      BY Clipped
    <2>. QED  BY <2>1 DEF WholeDaysBetween, DaysOf
  <1>. QED  BY <1>1 DEF Segment, StartOf, EndOf

\* Its days are those at whose end it is in effect.
LEMMA DaysAreDayEnds ==
    ASSUME DataTypes, Allowed(assignments), NEW a \in InMonth
    PROVE  IsFiniteSet(DayEnds(a)) /\ Cardinality(DayEnds(a)) = DaysOf(a)
  <1> DEFINE first == LocalDate(StartOf(a))
             next == LocalDate(EndOf(a))
  <1>1. first \in Nat /\ next \in Nat /\ next <= DaysInMonth /\ DaysOf(a) \in Nat
        /\ DaysOf(a) = next - first
    BY Clipped DEF DaysOf
  <1>2. /\ a.from \in Int /\ (a.to = Unbounded \/ a.to \in Int)
        /\ PeriodStart \in Int /\ PeriodEnd \in Int
    BY RowOfMonth, Dates
  <1>3. ASSUME NEW day \in 0 .. DaysInMonth - 1
        PROVE  InEffect(a, EndOfDay(day)) <=> first <= day /\ day < next
    <2>1. day \in Int /\ EndOfDay(day) \in Int /\ DaysInMonth \in Int
      BY PlansAssumption DEF EndOfDay, UtcOffset
    <2>2. PeriodStart <= EndOfDay(day) /\ EndOfDay(day) < PeriodEnd
      BY PlansAssumption DEF EndOfDay, PeriodStart, PeriodEnd, UtcOffset
    <2>3. a.from <= EndOfDay(day) <=> StartOf(a) <= EndOfDay(day)
      BY <1>2, <2>1, <2>2 DEF StartOf
    <2>4. (a.to = Unbounded \/ EndOfDay(day) < a.to) <=> EndOfDay(day) < EndOf(a)
      BY <1>2, <2>1, <2>2, UnboundedAssumption DEF EndOf
    <2>5. StartOf(a) \in Int /\ EndOf(a) \in Int
      BY Clipped
    <2>6. StartOf(a) <= EndOfDay(day) <=> first <= day
      BY <2>1, <2>5, Dates
    <2>7. EndOf(a) <= EndOfDay(day) <=> next <= day
      BY <2>1, <2>5, Dates
    <2>8. EndOfDay(day) < EndOf(a) <=> day < next
      BY <1>1, <2>1, <2>5, <2>7
    <2>. QED  BY <2>3, <2>4, <2>6, <2>8 DEF InEffect
  <1> HIDE DEF first, next
  <1>4. DayEnds(a) = first .. next - 1
    <2>1. \A day : day \in first .. next - 1
                      <=> day \in 0 .. DaysInMonth - 1 /\ first <= day /\ day < next
      BY <1>1, PlansAssumption
    <2>. QED  BY <1>3, <2>1 DEF DayEnds
  <1>5. first \in Int /\ next - 1 \in Int
    BY <1>1
  <1>6. IsFiniteSet(first .. next - 1)
        /\ Cardinality(first .. next - 1)
             = IF first > next - 1 THEN 0 ELSE (next - 1) - first + 1
    BY <1>5, FS_Interval
  <1>. QED  BY <1>1, <1>4, <1>6

\* One segment for each assignment in the period.
SegmentsOf(segments, order, n, usage) ==
    /\ n = Cardinality(InMonth) /\ n \in Nat
    /\ DOMAIN order = 1 .. n /\ Len(order) = n /\ (order = <<>> <=> n = 0)
    /\ DOMAIN segments = 1 .. n /\ Len(segments) = n
    /\ \A i \in 1 .. n :
          /\ order[i] \in InMonth
          /\ segments[i] = [list |-> PriceListOf[order[i].plan],
                            days |-> DaysOf(order[i]), quantity |-> usage[i]]

\* resolve gives them.
LEMMA Resolved ==
    ASSUME DataTypes, Allowed(assignments), IsFiniteSet(assignments), NEW usage
    PROVE  SegmentsOf(Resolve(usage), AssignmentsInPeriod, Cardinality(InMonth), usage)
  <1> DEFINE order == AssignmentsInPeriod
             n == Cardinality(InMonth)
             segments == Resolve(usage)
             V == {Segment(order[i], usage[i]) : i \in 1 .. n}
  <1>1. n \in Nat /\ order \in [1 .. n -> InMonth]
    BY PeriodInOrder DEF Ordered
  <1>2. segments = [i \in DOMAIN order |-> Segment(order[i], usage[i])]
    BY DEF Resolve
  <1> HIDE DEF order, segments, n
  <1>3. order \in Seq(InMonth) /\ DOMAIN order = 1 .. n /\ Len(order) = n
    BY <1>1
  <1>4. \A i \in 1 .. n : order[i] \in InMonth
    BY <1>1
  <1>5. order = <<>> <=> n = 0
    BY <1>1, <1>3
  <1>6. DOMAIN segments = 1 .. n /\ \A i \in 1 .. n : segments[i] = Segment(order[i], usage[i])
    BY <1>2, <1>3
  <1>7. segments \in [1 .. n -> V]
    BY <1>2, <1>3
  <1>8. Len(segments) = n
    <2> HIDE DEF V
    <2>1. segments \in Seq(V)
      BY <1>1, <1>7
    <2>. QED  BY <1>1, <1>6, <2>1
  <1>9. \A i \in 1 .. n : segments[i] = [list |-> PriceListOf[order[i].plan],
                                         days |-> DaysOf(order[i]), quantity |-> usage[i]]
    BY <1>4, <1>6, SegmentOfRow
  <1>. QED  BY <1>1, <1>3, <1>4, <1>5, <1>6, <1>8, <1>9 DEF SegmentsOf, order, segments, n

\* The days of all segments fit the month: no day ends on two plans.
LEMMA DaysFit ==
    ASSUME DataTypes, Allowed(assignments), IsFiniteSet(assignments), NEW usage
    PROVE  SumFunction([i \in DOMAIN Resolve(usage) |-> Resolve(usage)[i].days]) <= DaysInMonth
  <1> DEFINE order == AssignmentsInPeriod
             n == Cardinality(InMonth)
             segments == Resolve(usage)
             f == [i \in DOMAIN segments |-> segments[i].days]
             P == [i \in 1 .. n |-> DayEnds(order[i])]
             g == [i \in 1 .. n |-> Cardinality(P[i])]
             All == UNION {P[i] : i \in 1 .. n}
  <1>1. /\ n \in Nat /\ DOMAIN order = 1 .. n /\ DOMAIN segments = 1 .. n
        /\ \A i \in 1 .. n : order[i] \in InMonth /\ segments[i].days = DaysOf(order[i])
    <2>1. SegmentsOf(segments, order, n, usage)
      BY Resolved
    <2> HIDE DEF order, n, segments
    <2>. QED  BY <2>1 DEF SegmentsOf
  <1>2. \A i, j \in 1 .. n : i < j => order[i].to \in Int /\ order[i].to <= order[j].from
    BY PeriodInOrder DEF Ordered
  <1> HIDE DEF order, n, segments
  <1>3. IsFiniteSet(1 .. n)
    <2>1. 1 \in Int /\ n \in Int
      BY <1>1
    <2>. QED  BY <2>1, FS_Interval
  <1>4. \A i \in 1 .. n : IsFiniteSet(P[i]) /\ Cardinality(P[i]) = DaysOf(order[i])
    BY <1>1, DaysAreDayEnds
  <1>5. \A i, j \in 1 .. n : i < j => P[i] \cap P[j] = {}
    <2> SUFFICES ASSUME NEW i \in 1 .. n, NEW j \in 1 .. n, i < j,
                        NEW day \in 0 .. DaysInMonth - 1,
                        InEffect(order[i], EndOfDay(day)), InEffect(order[j], EndOfDay(day))
                 PROVE  FALSE
      BY <1>1 DEF DayEnds
    <2>1. /\ order[i].to \in Int /\ order[j].from \in Int /\ order[i].to <= order[j].from
          /\ EndOfDay(day) \in Int
      BY <1>1, <1>2, RowOfMonth, PlansAssumption DEF EndOfDay, UtcOffset
    <2>. QED  BY <2>1, UnboundedAssumption DEF InEffect
  <1>6. \A i, j \in 1 .. n : i # j => P[i] \cap P[j] = {}
    <2>1. \A i, j \in 1 .. n : i # j => i < j \/ j < i
      BY <1>1
    <2>. QED  BY <1>5, <2>1
  <1>7. SumFunctionOnSet(g, 1 .. n) = Cardinality(All)
    <2> HIDE DEF P
    <2>1. Apart(P, 1 .. n)
      BY <1>4, <1>6 DEF Apart
    <2>. QED  BY <1>3, <2>1, SumOfSizes
  <1>8. Cardinality(All) <= DaysInMonth
    <2>1. All \in SUBSET (0 .. DaysInMonth - 1)
      BY DEF DayEnds
    <2>2. 0 \in Int /\ DaysInMonth - 1 \in Int /\ ~(0 > DaysInMonth - 1)
      BY PlansAssumption
    <2>3. IsFiniteSet(0 .. DaysInMonth - 1)
          /\ Cardinality(0 .. DaysInMonth - 1) = (DaysInMonth - 1) - 0 + 1
      BY <2>2, FS_Interval
    <2>4. Cardinality(All) <= Cardinality(0 .. DaysInMonth - 1)
      BY <2>1, <2>3, FS_Subset
    <2>5. (DaysInMonth - 1) - 0 + 1 = DaysInMonth
      BY PlansAssumption
    <2>. QED  BY <2>3, <2>4, <2>5
  <1>9. f = g
    BY <1>1, <1>4
  <1>10. SumFunction(f) = SumFunctionOnSet(f, 1 .. n)
    BY <1>1 DEF SumFunction
  <1>. QED  BY <1>7, <1>8, <1>9, <1>10 DEF segments

\* A change gives its whole day to the new plan, and the days fit the month.
LEMMA DaysGo ==
    ASSUME DataTypes, Allowed(assignments), IsFiniteSet(assignments)
    PROVE  DaysGoToTheLastPlan
  <1> DEFINE order == AssignmentsInPeriod
             n == Cardinality(InMonth)
             usage == [i \in DOMAIN order |-> 0]
             segments == Resolve(usage)
  <1>1. /\ n \in Nat /\ DOMAIN order = 1 .. n /\ (order = <<>> <=> n = 0)
        /\ DOMAIN segments = 1 .. n
        /\ \A i \in 1 .. n : order[i] \in InMonth /\ segments[i].days = DaysOf(order[i])
    <2>1. SegmentsOf(segments, order, n, usage)
      BY Resolved
    <2> HIDE DEF order, n, segments, usage
    <2>. QED  BY <2>1 DEF SegmentsOf
  <1>2. SumFunction([i \in DOMAIN segments |-> segments[i].days]) <= DaysInMonth
    BY DaysFit
  <1> HIDE DEF order, n, segments
  <1>3. \A i \in DOMAIN order :
           segments[i].days = Cardinality({day \in 0 .. DaysInMonth - 1 :
                                              InEffect(order[i], EndOfDay(day))})
    BY <1>1, DaysAreDayEnds DEF DayEnds
  <1>4. order # <<>> => segments # <<>>
    <2>1. order # <<>> => 1 \in DOMAIN segments
      BY <1>1
    <2>. QED  BY <2>1
  <1>. QED  BY <1>2, <1>3, <1>4 DEF DaysGoToTheLastPlan, SegmentsFit, order, segments

----------------------------------------------------------------------------
(* Rounding over the segments of a month.                                  *)

\* Shares f of an amount, in parts of m, rounded down or up.
RoundedDown(f, d, n, amount, m) ==
    \A i \in 1 .. n : /\ f[i] \in Nat /\ d[i] \in Nat
                      /\ f[i] * m <= amount * d[i] /\ amount * d[i] < (f[i] + 1) * m

RoundedUp(f, d, n, amount, m) ==
    \A i \in 1 .. n : /\ f[i] \in Nat /\ d[i] \in Nat
                      /\ amount * d[i] <= f[i] * m /\ f[i] * m < amount * d[i] + m

\* The first terms of a sum, one by one.
LEMMA Partials ==
    ASSUME NEW n \in Nat, NEW f, \A i \in 1 .. n : f[i] \in Nat
    PROVE  /\ SumFunctionOnSet(f, 1 .. 0) = 0
           /\ \A i \in 0 .. n : SumFunctionOnSet(f, 1 .. i) \in Nat
           /\ \A i \in 0 .. n - 1 : SumFunctionOnSet(f, 1 .. i + 1)
                                      = SumFunctionOnSet(f, 1 .. i) + f[i + 1]
  <1>1. SumFunctionOnSet(f, 1 .. 0) = 0
    <2>1. 1 .. 0 = {}
      OBVIOUS
    <2>. QED  BY <2>1, SumEmpty
  <1>2. ASSUME NEW i \in 0 .. n PROVE SumFunctionOnSet(f, 1 .. i) \in Nat
    <2>1. IsFiniteSet(1 .. i)
      <3>1. 1 \in Int /\ i \in Int
        OBVIOUS
      <3>. QED  BY <3>1, FS_Interval
    <2>2. \A j \in 1 .. i : f[j] \in Nat
      OBVIOUS
    <2>. QED  BY <2>1, <2>2, SumOfNaturals
  <1>3. ASSUME NEW i \in 0 .. n - 1
        PROVE  SumFunctionOnSet(f, 1 .. i + 1) = SumFunctionOnSet(f, 1 .. i) + f[i + 1]
    <2>1. i \in Nat /\ \A j \in 1 .. i + 1 : f[j] \in Int
      OBVIOUS
    <2>. QED  BY <2>1, SumNext
  <1>. QED  BY <1>1, <1>2, <1>3

\* Rounded down, a sum is never above its share, and below it by less than one for
\* each of its terms.
LEMMA SumRoundedDown ==
    ASSUME NEW n \in Nat, NEW amount \in Nat, NEW m \in Nat \ {0}, NEW f, NEW d,
           RoundedDown(f, d, n, amount, m)
    PROVE  LET fs == SumFunctionOnSet(f, 1 .. n)
               ds == SumFunctionOnSet(d, 1 .. n)
           IN  fs * m <= amount * ds /\ (n > 0 => amount * ds < (fs + n) * m)
  <1> DEFINE F(i) == SumFunctionOnSet(f, 1 .. i)
             D(i) == SumFunctionOnSet(d, 1 .. i)
             S == {i \in 0 .. n : /\ F(i) * m <= amount * D(i)
                                  /\ i > 0 => amount * D(i) < (F(i) + i) * m}
  <1>1. /\ F(0) = 0 /\ D(0) = 0
        /\ \A i \in 0 .. n : F(i) \in Nat /\ D(i) \in Nat
        /\ \A i \in 0 .. n - 1 : F(i + 1) = F(i) + f[i + 1] /\ D(i + 1) = D(i) + d[i + 1]
    <2>1. \A i \in 1 .. n : f[i] \in Nat /\ d[i] \in Nat
      BY DEF RoundedDown
    <2>. QED  BY <2>1, Partials
  <1> HIDE DEF F, D
  <1>2. 0 \in S
    BY <1>1
  <1>3. ASSUME NEW i \in 0 .. n - 1, i \in S PROVE i + 1 \in S
    <2>1. i \in Nat /\ i + 1 \in 1 .. n /\ i \in 0 .. n /\ i + 1 \in 0 .. n
      OBVIOUS
    <2>2. PICK x \in Nat, y \in Nat, a \in Nat, b \in Nat :
               x = F(i) /\ y = D(i) /\ a = f[i + 1] /\ b = d[i + 1]
      BY <1>1, <2>1 DEF RoundedDown
    <2>3. F(i + 1) = x + a /\ D(i + 1) = y + b
      BY <1>1, <2>2
    <2>4. a * m <= amount * b /\ amount * b < (a + 1) * m
      BY <2>1, <2>2 DEF RoundedDown
    <2>5. x * m <= amount * y /\ (i > 0 => amount * y < (x + i) * m)
      BY <1>3, <2>2
    <2>6. /\ (x + a) * m = x * m + a * m /\ amount * (y + b) = amount * y + amount * b
          /\ ((x + a) + (i + 1)) * m = (x + i) * m + (a + 1) * m
          /\ x * m \in Nat /\ a * m \in Nat /\ amount * y \in Nat /\ amount * b \in Nat
          /\ (x + i) * m \in Nat /\ (a + 1) * m \in Nat
      BY <2>1
    <2>7. (x + a) * m <= amount * (y + b)
      BY <2>4, <2>5, <2>6
    <2>8. amount * (y + b) < ((x + a) + (i + 1)) * m
      <3>1. CASE i > 0
        BY <2>4, <2>5, <2>6, <3>1
      <3>2. CASE i = 0
        <4>1. x = 0 /\ y = 0
          BY <1>1, <2>2, <3>2
        <4>2. amount * y = 0 /\ (x + i) * m = 0
          BY <3>2, <4>1
        <4>. QED  BY <2>4, <2>6, <4>2
      <3>. QED  BY <2>1, <3>1, <3>2
    <2>. QED  BY <2>1, <2>3, <2>7, <2>8
  <1>4. \A i \in 0 .. n : i \in S
    <2> HIDE DEF S
    <2>. QED  BY <1>2, <1>3, UpTo
  <1>5. n \in S
    BY <1>4
  <1>. QED  BY <1>5 DEF F, D

\* Rounded up, never below, and above by less than one for each of its terms.
LEMMA SumRoundedUp ==
    ASSUME NEW n \in Nat, NEW amount \in Nat, NEW m \in Nat \ {0}, NEW f, NEW d,
           RoundedUp(f, d, n, amount, m)
    PROVE  LET fs == SumFunctionOnSet(f, 1 .. n)
               ds == SumFunctionOnSet(d, 1 .. n)
           IN  amount * ds <= fs * m /\ (n > 0 => (fs - n) * m < amount * ds)
  <1> DEFINE F(i) == SumFunctionOnSet(f, 1 .. i)
             D(i) == SumFunctionOnSet(d, 1 .. i)
             S == {i \in 0 .. n : /\ amount * D(i) <= F(i) * m
                                  /\ i > 0 => F(i) * m < amount * D(i) + i * m}
  <1>1. /\ F(0) = 0 /\ D(0) = 0
        /\ \A i \in 0 .. n : F(i) \in Nat /\ D(i) \in Nat
        /\ \A i \in 0 .. n - 1 : F(i + 1) = F(i) + f[i + 1] /\ D(i + 1) = D(i) + d[i + 1]
    <2>1. \A i \in 1 .. n : f[i] \in Nat /\ d[i] \in Nat
      BY DEF RoundedUp
    <2>. QED  BY <2>1, Partials
  <1> HIDE DEF F, D
  <1>2. 0 \in S
    BY <1>1
  <1>3. ASSUME NEW i \in 0 .. n - 1, i \in S PROVE i + 1 \in S
    <2>1. i \in Nat /\ i + 1 \in 1 .. n /\ i \in 0 .. n /\ i + 1 \in 0 .. n
      OBVIOUS
    <2>2. PICK x \in Nat, y \in Nat, a \in Nat, b \in Nat :
               x = F(i) /\ y = D(i) /\ a = f[i + 1] /\ b = d[i + 1]
      BY <1>1, <2>1 DEF RoundedUp
    <2>3. F(i + 1) = x + a /\ D(i + 1) = y + b
      BY <1>1, <2>2
    <2>4. amount * b <= a * m /\ a * m < amount * b + m
      BY <2>1, <2>2 DEF RoundedUp
    <2>5. amount * y <= x * m /\ (i > 0 => x * m < amount * y + i * m)
      BY <1>3, <2>2
    <2>6. /\ (x + a) * m = x * m + a * m /\ amount * (y + b) = amount * y + amount * b
          /\ (i + 1) * m = i * m + m
          /\ x * m \in Nat /\ a * m \in Nat /\ amount * y \in Nat /\ amount * b \in Nat
          /\ i * m \in Nat
      BY <2>1
    <2>7. amount * (y + b) <= (x + a) * m
      BY <2>4, <2>5, <2>6
    <2>8. (x + a) * m < amount * (y + b) + (i + 1) * m
      <3>1. CASE i > 0
        BY <2>4, <2>5, <2>6, <3>1
      <3>2. CASE i = 0
        <4>1. x = 0 /\ y = 0
          BY <1>1, <2>2, <3>2
        <4>2. amount * y = 0 /\ x * m = 0 /\ i * m = 0
          BY <3>2, <4>1
        <4>. QED  BY <2>4, <2>6, <4>2
      <3>. QED  BY <2>1, <3>1, <3>2
    <2>. QED  BY <2>1, <2>3, <2>7, <2>8
  <1>4. \A i \in 0 .. n : i \in S
    <2> HIDE DEF S
    <2>. QED  BY <1>2, <1>3, UpTo
  <1>5. n \in S /\ F(n) \in Nat /\ D(n) \in Nat
    BY <1>1, <1>4
  <1>6. (F(n) - n) * m = F(n) * m - n * m /\ F(n) * m \in Nat /\ n * m \in Nat
        /\ amount * D(n) \in Nat
    BY <1>5
  <1>7. n > 0 => (F(n) - n) * m < amount * D(n)
    BY <1>5, <1>6
  <1>. QED  BY <1>5, <1>7 DEF F, D

\* The parts of a price list over the segments of the month.
LEMMA ProrationBounded ==
    ASSUME DataTypes, Allowed(assignments), IsFiniteSet(assignments)
    PROVE  ProrationIsBounded
  <1> DEFINE order == AssignmentsInPeriod
             n == Cardinality(InMonth)
             usage == [i \in DOMAIN order |-> 0]
             segments == Resolve(usage)
             M == DaysInMonth
             part(list, i) == Prorate(list, segments[i].days, M)
             d == [i \in DOMAIN order |-> segments[i].days]
             days == SumFunction(d)
  <1>1. /\ n \in Nat /\ DOMAIN order = 1 .. n /\ Len(order) = n /\ (order = <<>> <=> n = 0)
        /\ \A i \in 1 .. n : segments[i].days \in Nat
    <2>1. SegmentsOf(segments, order, n, usage)
      BY Resolved
    <2> HIDE DEF order, n, segments, usage
    <2>. QED  BY <2>1, Clipped DEF SegmentsOf
  <1>2. M \in Nat \ {0}
    BY PlansAssumption
  <1> HIDE DEF order, n, segments, M
  <1>3. ASSUME NEW list \in {l \in Ladders : ValidPriceList(l)}
        PROVE  LET f == [i \in DOMAIN order |-> part(list, i).fee]
                   g == [i \in DOMAIN order |-> part(list, i).included]
                   fees == SumFunction(f)
                   included == SumFunction(g)
                   owed == list.fee * days
                   granted == list.included * days
               IN /\ fees * M <= owed
                  /\ owed < (fees + Len(order)) * M \/ order = <<>>
                  /\ granted <= included * M
                  /\ (included - Len(order)) * M < granted \/ order = <<>>
                  /\ \A i \in DOMAIN order : ValidPriceList(part(list, i))
                  /\ \A i \in DOMAIN order, quantity \in Quantities :
                        \A k \in 1 .. quantity :
                          UnitPrice(part(list, i), k) = SharePrice(list, segments[i].days, k)
                  /\ Prorate(list, M, M) = list
    <2> DEFINE f == [i \in DOMAIN order |-> part(list, i).fee]
               g == [i \in DOMAIN order |-> part(list, i).included]
    <2>1. list \in PriceList /\ ValidPriceList(list)
      BY PlansAssumption
    <2>2. list.fee \in Nat /\ list.included \in Nat
      BY <2>1, ValidLadder
    <2>3. \A i \in DOMAIN order : ValidPriceList(part(list, i))
      BY <1>1, <1>2, <2>1, ProratedIsValid
    <2>4. Prorate(list, M, M) = list
      BY <1>2, <2>1, WholeMonthIsTheList
    <2>13. \A i \in DOMAIN order, quantity \in Quantities : \A k \in 1 .. quantity :
              UnitPrice(part(list, i), k) = SharePrice(list, segments[i].days, k)
      <3> SUFFICES ASSUME NEW i \in DOMAIN order, NEW quantity \in Quantities,
                          NEW k \in 1 .. quantity
                   PROVE  UnitPrice(part(list, i), k) = SharePrice(list, segments[i].days, k)
        OBVIOUS
      <3>1. segments[i].days \in Nat /\ Ladder(list.bands) /\ k \in Nat \ {0}
        BY <1>1, <2>1, ValidLadder, PlansAssumption
      <3>. QED  BY <3>1, ProratedPrices DEF M
    <2>5. \A i \in 1 .. n : /\ f[i] = ProrateFee(list.fee, segments[i].days, M)
                            /\ g[i] = ProrateAllowance(list.included, segments[i].days, M)
                            /\ d[i] = segments[i].days
      BY <1>1 DEF Prorate
    <2>6. /\ SumFunction(f) = SumFunctionOnSet(f, 1 .. n)
          /\ SumFunction(g) = SumFunctionOnSet(g, 1 .. n)
          /\ days = SumFunctionOnSet(d, 1 .. n)
      BY <1>1 DEF SumFunction
    <2> HIDE DEF f, g, d
    <2>7. RoundedDown(f, d, n, list.fee, M)
      <3> SUFFICES ASSUME NEW i \in 1 .. n
                   PROVE  /\ f[i] \in Nat /\ d[i] \in Nat
                          /\ f[i] * M <= list.fee * d[i] /\ list.fee * d[i] < (f[i] + 1) * M
        BY DEF RoundedDown
      <3>1. PICK k \in Nat : k = segments[i].days
        BY <1>1
      <3>. QED  BY <1>2, <2>2, <2>5, <3>1, FeeRoundsDown
    <2>8. RoundedUp(g, d, n, list.included, M)
      <3> SUFFICES ASSUME NEW i \in 1 .. n
                   PROVE  /\ g[i] \in Nat /\ d[i] \in Nat
                          /\ list.included * d[i] <= g[i] * M
                          /\ g[i] * M < list.included * d[i] + M
        BY DEF RoundedUp
      <3>1. PICK k \in Nat : k = segments[i].days
        BY <1>1
      <3>. QED  BY <1>2, <2>2, <2>5, <3>1, AllowanceRoundsUp
    <2> DEFINE fees == SumFunctionOnSet(f, 1 .. n)
               included == SumFunctionOnSet(g, 1 .. n)
               total == SumFunctionOnSet(d, 1 .. n)
    <2>9. fees * M <= list.fee * total /\ (n > 0 => list.fee * total < (fees + n) * M)
      BY <1>1, <1>2, <2>2, <2>7, SumRoundedDown
    <2>10. list.included * total <= included * M
           /\ (n > 0 => (included - n) * M < list.included * total)
      BY <1>1, <1>2, <2>2, <2>8, SumRoundedUp
    <2> HIDE DEF fees, included, total, days
    <2>11. SumFunction(f) = fees /\ SumFunction(g) = included /\ days = total
      BY <2>6 DEF fees, included, total
    <2>12. n > 0 \/ order = <<>>
      BY <1>1
    <2> HIDE DEF part
    <2>. QED  BY <1>1, <2>3, <2>4, <2>9, <2>10, <2>11, <2>12, <2>13 DEF f, g
  <1>. QED  BY <1>3 DEF ProrationIsBounded, order, segments, M

\* The unit prices of the first units, as the property writes them.
LEMMA UnitPricesSum ==
    ASSUME NEW list, Ladder(list.bands), NEW c \in Nat
    PROVE  SumFunction([k \in 1 .. c |-> UnitPrice(list, k)]) = PriceUpTo(list, c)
  <1> DEFINE h == [k \in 1 .. c |-> UnitPrice(list, k)]
  <1>1. IsFiniteSet(1 .. c)
    <2>1. 1 \in Int /\ c \in Int
      OBVIOUS
    <2>. QED  BY <2>1, FS_Interval
  <1>2. \A k \in 1 .. c : Prices(list)[k] \in Int /\ h[k] = Prices(list)[k]
    BY UnitPriceType DEF Prices
  <1>3. SumFunction(h) = SumFunctionOnSet(h, 1 .. c)
    BY DEF SumFunction
  <1> HIDE DEF h
  <1>4. SumFunctionOnSet(h, 1 .. c) = SumFunctionOnSet(Prices(list), 1 .. c)
    BY <1>1, <1>2, SumSame
  <1>. QED  BY <1>3, <1>4 DEF PriceUpTo, h

\* Rating prices every unit by its band, on the ladders as published and prorated.
LEMMA RateUnits ==
    ASSUME DataTypes, Allowed(assignments), IsFiniteSet(assignments)
    PROVE  RateIsUnitByUnit
  <1> DEFINE order == AssignmentsInPeriod
             n == Cardinality(InMonth)
             usage == [i \in DOMAIN order |-> 0]
             segments == Resolve(usage)
             days == {DaysInMonth} \cup {segments[i].days : i \in DOMAIN order}
  <1>1. days \subseteq Nat
    <2>1. SegmentsOf(segments, order, n, usage)
      BY Resolved
    <2> HIDE DEF order, n, segments, usage
    <2>2. \A i \in DOMAIN order : segments[i].days \in Nat
      BY <2>1, Clipped DEF SegmentsOf
    <2>. QED  BY <2>2, PlansAssumption
  <1>2. DaysInMonth \in Nat \ {0}
    BY PlansAssumption
  <1> HIDE DEF order, segments, days
  <1>3. ASSUME NEW ladder \in Ladders
        PROVE  /\ PublishAccepts(ladder) <=> ValidPriceList(ladder)
               /\ PublishAccepts(ladder) =>
                   \A d \in days, quantity \in Quantities :
                       LET list == Prorate(ladder, d, DaysInMonth)
                           chargeable == quantity - IncludedUsed(quantity, list)
                       IN /\ LinesQuantity(UsageLines(quantity, list)) = chargeable
                          /\ Rate(quantity, list) =
                               list.fee + SumFunction([k \in 1 .. chargeable
                                                         |-> UnitPrice(list, k)])
    <2>1. ladder \in PriceList
      BY PlansAssumption
    <2>2. PublishAccepts(ladder) <=> ValidPriceList(ladder)
      BY <2>1, PublishAcceptsTheValid
    <2>3. ASSUME ValidPriceList(ladder), NEW d \in days, NEW quantity \in Quantities,
                 NEW list, list = Prorate(ladder, d, DaysInMonth),
                 NEW chargeable, chargeable = quantity - IncludedUsed(quantity, list)
          PROVE  /\ LinesQuantity(UsageLines(quantity, list)) = chargeable
                 /\ Rate(quantity, list) =
                      list.fee + SumFunction([k \in 1 .. chargeable |-> UnitPrice(list, k)])
      <3>1. d \in Nat /\ quantity \in Nat
        BY <1>1, PlansAssumption
      <3>2. list \in PriceList /\ ValidPriceList(list)
        BY <1>2, <2>1, <2>3, <3>1, ProratedIsValid
      <3>3. /\ chargeable \in Nat
            /\ LinesQuantity(UsageLines(quantity, list)) = chargeable
            /\ Rate(quantity, list) = list.fee + PriceUpTo(list, chargeable)
        BY <2>3, <3>1, <3>2, RateIsUnitPrices DEF Chargeable
      <3>4. SumFunction([k \in 1 .. chargeable |-> UnitPrice(list, k)])
              = PriceUpTo(list, chargeable)
        BY <3>2, <3>3, ValidLadder, UnitPricesSum
      <3>. QED  BY <3>3, <3>4
    <2>. QED  BY <2>2, <2>3
  <1>. QED  BY <1>3 DEF RateIsUnitByUnit, days, order, segments

----------------------------------------------------------------------------
(* The threshold.                                                          *)

\* The last assignment of a month goes on to its end.
LEMMA LastGoesOn ==
    ASSUME DataTypes, Allowed(assignments), IsFiniteSet(assignments), Covered, Past,
           NEW n, Ordered(AssignmentsInPeriod, n), n > 0
    PROVE  EndOf(AssignmentsInPeriod[n]) = PeriodEnd
  <1> DEFINE order == AssignmentsInPeriod
             last == order[n]
  <1>1. /\ n \in Nat /\ n \in 1 .. n /\ last \in InMonth
        /\ \A i, j \in 1 .. n : i < j => order[i].from < order[j].from
        /\ \A a \in InMonth : \E i \in 1 .. n : order[i] = a
        /\ \A i \in 1 .. n : order[i] \in InMonth
    BY DEF Ordered
  <1> HIDE DEF order
  <1>2. /\ last \in assignments /\ last.from \in Int /\ last.from < PeriodEnd
        /\ last.to = Unbounded \/ (last.to \in Int /\ PeriodStart < last.to /\ last.from < last.to)
    BY <1>1, RowOfMonth
  <1>3. PeriodStart \in Int /\ PeriodEnd \in Int /\ PeriodEnd # Unbounded
    BY Dates, UnboundedAssumption
  <1>4. ASSUME last.to # Unbounded, last.to < PeriodEnd PROVE FALSE
    <2>1. last.to \in Instants /\ last.to \in Int
      BY <1>2, <1>4 DEF DataTypes, Assignment
    <2>2. PICK b \in assignments : InEffect(b, last.to)
      BY <1>2, <2>1, <1>4 DEF Covered
    <2>3. b.from \in Int /\ (b.to = Unbounded \/ b.to \in Int)
      BY PlansAssumption DEF DataTypes, Assignment
    <2>4. b.from <= last.to /\ (b.to = Unbounded \/ last.to < b.to)
      BY <2>2 DEF InEffect
    <2>5. b # last
      BY <2>1, <2>4, UnboundedAssumption
    <2>6. ~Overlap(last, b)
      BY <1>2, <2>5 DEF Allowed
    <2>7. last.from < b.from
      BY <1>2, <1>4, <2>1, <2>3, <2>4, <2>6 DEF Overlap
    <2>8. b \in InMonth
      BY <1>2, <1>3, <1>4, <2>1, <2>3, <2>4 DEF InMonth, Overlap
    <2>9. PICK i \in 1 .. n : order[i] = b
      BY <1>1, <2>8
    <2>10. i < n \/ i = n
      BY <1>1
    <2>11. order[i].from <= last.from
      <3>1. order[i].from \in Int
        BY <2>3, <2>9
      <3>. QED  BY <1>1, <1>2, <2>10, <3>1
    <2>. QED  BY <1>2, <2>3, <2>7, <2>9, <2>11
  <1>5. EndOf(last) = PeriodEnd
    BY <1>2, <1>3, <1>4 DEF EndOf
  <1>. QED  BY <1>5 DEF order

\* Where `at` is in the month, as thresholds.compute clamps it.
Moment(at) == IF at < PeriodStart THEN PeriodStart
              ELSE IF at > PeriodEnd THEN PeriodEnd ELSE at

\* The days of the first segments are over when the last one's first day is not.
LEMMA EarlierDaysOver ==
    ASSUME DataTypes, Allowed(assignments), IsFiniteSet(assignments), Past,
           now >= PeriodStart, NEW n, NEW usage,
           SegmentsOf(Resolve(usage), AssignmentsInPeriod, n, usage),
           NEW i \in 1 .. n, i < n
    PROVE  DaysThrough(Resolve(usage), i) <= WholeDaysBetween(PeriodStart, Moment(now))
  <1> DEFINE order == AssignmentsInPeriod
             segments == Resolve(usage)
             f == [j \in 1 .. n |-> segments[j].days]
             F(j) == SumFunctionOnSet(f, 1 .. j)
             S == {j \in 0 .. n : j > 0 => F(j) <= LocalDate(EndOf(order[j]))}
  <1>1. /\ n \in Nat /\ n = Cardinality(InMonth)
        /\ \A j \in 1 .. n : order[j] \in InMonth /\ segments[j].days = DaysOf(order[j])
    BY DEF SegmentsOf
  <1>2. \A j, k \in 1 .. n : j < k => order[j].to \in Int /\ order[j].to <= order[k].from
    BY <1>1, PeriodInOrder DEF Ordered
  <1> HIDE DEF order, segments
  <1>3. \A j \in 1 .. n : f[j] \in Nat /\ f[j] = DaysOf(order[j])
    BY <1>1, Clipped
  <1> HIDE DEF f
  <1>4. /\ F(0) = 0 /\ \A j \in 0 .. n : F(j) \in Nat
        /\ \A j \in 0 .. n - 1 : F(j + 1) = F(j) + f[j + 1]
    BY <1>1, <1>3, Partials
  <1> HIDE DEF F
  <1>5. 0 \in S
    BY <1>1
  <1>6. ASSUME NEW j \in 0 .. n - 1, j \in S PROVE j + 1 \in S
    <2>1. j \in Nat /\ j + 1 \in 1 .. n /\ j + 1 \in 0 .. n
      BY <1>1
    <2> DEFINE first == LocalDate(StartOf(order[j + 1]))
               next == LocalDate(EndOf(order[j + 1]))
    <2>2. first \in Nat /\ next \in Nat /\ F(j + 1) = F(j) + (next - first) /\ F(j) \in Nat
      <3>1. F(j + 1) = F(j) + f[j + 1] /\ F(j) \in Nat
        BY <1>1, <1>4, <2>1
      <3>2. f[j + 1] = next - first
        BY <1>3, <2>1 DEF DaysOf
      <3>. QED  BY <1>1, <2>1, <3>1, <3>2, Clipped
    <2>3. F(j) <= first
      <3>1. CASE j = 0
        BY <1>4, <2>2, <3>1
      <3>2. CASE j # 0
        <4>1. j \in 1 .. n /\ j < j + 1 /\ j > 0
          BY <1>1, <2>1, <3>2
        <4>2. order[j].to \in Int /\ order[j].to <= order[j + 1].from
          BY <1>2, <2>1, <4>1
        <4>3. EndOf(order[j]) <= StartOf(order[j + 1])
          <5>1. order[j + 1].from \in Int /\ order[j + 1].from < PeriodEnd
                /\ PeriodStart < order[j].to
            BY <1>1, <2>1, <4>1, <4>2, RowOfMonth, UnboundedAssumption
          <5>. QED  BY <4>2, <5>1, Dates, UnboundedAssumption DEF EndOf, StartOf
        <4>4. LocalDate(EndOf(order[j])) <= first
          <5>1. EndOf(order[j]) \in Int /\ StartOf(order[j + 1]) \in Int
            BY <1>1, <2>1, <4>1, Clipped
          <5>. QED  BY <4>3, <5>1, Dates
        <4>5. F(j) <= LocalDate(EndOf(order[j])) /\ LocalDate(EndOf(order[j])) \in Nat
          BY <1>1, <1>6, <4>1, Clipped
        <4>. QED  BY <2>2, <4>4, <4>5
      <3>. QED  BY <3>1, <3>2
    <2>4. F(j + 1) <= next
      <3> HIDE DEF first, next
      <3>. QED  BY <2>2, <2>3
    <2>. QED  BY <2>1, <2>4
  <1>7. \A j \in 0 .. n : j \in S
    <2> HIDE DEF S
    <2>. QED  BY <1>1, <1>5, <1>6, UpTo
  <1>8. F(i) <= LocalDate(EndOf(order[i]))
    <2>1. i \in 0 .. n /\ i > 0
      BY <1>1
    <2>. QED  BY <1>7, <2>1
  <1>9. EndOf(order[i]) <= Moment(now) /\ Moment(now) \in Int /\ PeriodStart < Moment(now)
    <2>1. i + 1 \in 1 .. n /\ i < i + 1
      BY <1>1
    <2>2. order[i].to \in Int /\ order[i].to <= order[i + 1].from /\ order[i].to # Unbounded
      BY <1>2, <2>1, UnboundedAssumption
    <2>3. /\ order[i + 1] \in assignments /\ order[i + 1].from \in Int
          /\ PeriodStart < order[i].to
      BY <1>1, <2>1, <2>2, RowOfMonth
    <2>4. order[i + 1].from <= now /\ now \in Int
      BY <2>3, PlansAssumption DEF Past, DataTypes
    <2>5. EndOf(order[i]) = IF order[i].to > PeriodEnd THEN PeriodEnd ELSE order[i].to
      BY <2>2 DEF EndOf
    <2>. QED  BY <2>2, <2>3, <2>4, <2>5, Dates DEF Moment
  <1>10. LocalDate(EndOf(order[i])) <= WholeDaysBetween(PeriodStart, Moment(now))
    <2>1. EndOf(order[i]) \in Int
      BY <1>1, Clipped
    <2>2. LocalDate(EndOf(order[i])) <= LocalDate(Moment(now))
      BY <1>9, <2>1, Dates
    <2>3. WholeDaysBetween(PeriodStart, Moment(now)) = LocalDate(Moment(now)) - 0
      <3>1. ~(Moment(now) <= PeriodStart)
        BY <1>9, Dates
      <3>. QED  BY <3>1, Dates DEF WholeDaysBetween
    <2>4. LocalDate(Moment(now)) \in Int
      BY <1>9, Dates
    <2>. QED  BY <2>2, <2>3, <2>4
  <1>11. DaysThrough(segments, i) = F(i)
    <2> DEFINE h == [j \in 1 .. i |-> segments[j].days]
    <2>1. DaysThrough(segments, i) = SumFunctionOnSet(h, 1 .. i)
      BY DEF DaysThrough, SumFunction
    <2>2. \A j \in 1 .. i : j \in 1 .. n
      BY <1>1
    <2>3. \A j \in 1 .. i : f[j] \in Int /\ h[j] = f[j]
      BY <1>1, <1>3, <2>2
    <2>4. IsFiniteSet(1 .. i)
      <3>1. 1 \in Int /\ i \in Int
        OBVIOUS
      <3>. QED  BY <3>1, FS_Interval
    <2> HIDE DEF h
    <2>. QED  BY <2>1, <2>3, <2>4, SumSame DEF F
  <1>12. /\ F(i) \in Int /\ LocalDate(EndOf(order[i])) \in Int
         /\ WholeDaysBetween(PeriodStart, Moment(now)) \in Int
    <2>1. F(i) \in Int /\ LocalDate(EndOf(order[i])) \in Int
      <3>1. i \in 0 .. n
        BY <1>1
      <3>. QED  BY <1>1, <1>4, <3>1, Clipped
    <2>2. WholeDaysBetween(PeriodStart, Moment(now)) \in Int
      BY <1>9, Dates DEF WholeDaysBetween
    <2>. QED  BY <2>1, <2>2
  <1>. QED  BY <1>8, <1>10, <1>11, <1>12 DEF segments

\* From the start of the month on, the segment in effect is the last one.
LEMMA CurrentIsLast ==
    ASSUME DataTypes, Allowed(assignments), IsFiniteSet(assignments), Covered, Past,
           now >= PeriodStart, NEW n, n > 0, NEW usage,
           SegmentsOf(Resolve(usage), AssignmentsInPeriod, n, usage)
    PROVE  /\ CurrentSegmentIndex(Resolve(usage), now) = n
           /\ DaysOf(AssignmentsInPeriod[n])
                = RemainingDays(AssignmentsInPeriod[n].from)
  <1> DEFINE order == AssignmentsInPeriod
             last == order[n]
             segments == Resolve(usage)
             elapsed == WholeDaysBetween(PeriodStart, Moment(now))
             lived == {i \in DOMAIN segments : segments[i].days > 0}
             ahead == {i \in lived : elapsed < DaysThrough(segments, i)}
  <1>1. /\ n \in Nat /\ n = Cardinality(InMonth) /\ DOMAIN segments = 1 .. n /\ n \in 1 .. n
        /\ last \in InMonth /\ segments[n].days = DaysOf(last)
        /\ \A j \in 1 .. n : order[j] \in InMonth /\ segments[j].days = DaysOf(order[j])
    BY DEF SegmentsOf
  <1>2. EndOf(last) = PeriodEnd
    BY <1>1, PeriodInOrder, LastGoesOn
  <1>3. /\ DaysOf(last) = DaysInMonth - LocalDate(StartOf(last))
        /\ LocalDate(StartOf(last)) <= DaysInMonth - 1
        /\ LocalDate(StartOf(last)) \in Nat /\ DaysInMonth \in Nat
    <2>1. /\ StartOf(last) \in Int /\ StartOf(last) < PeriodEnd
          /\ LocalDate(StartOf(last)) \in Nat
      BY <1>1, <1>2, Clipped
    <2>2. LocalDate(StartOf(last)) <= LocalDate(PeriodEnd - 1)
      BY <2>1, Dates
    <2>. QED  BY <1>2, <2>1, <2>2, Dates, PlansAssumption DEF DaysOf
  <1>4. n \in lived
    <2>1. DaysOf(last) > 0
      BY <1>3
    <2>. QED  BY <1>1, <2>1
  <1>5. \A i \in ahead : i = n
    <2> SUFFICES ASSUME NEW i \in ahead, i # n PROVE FALSE
      OBVIOUS
    <2>1. i \in 1 .. n /\ i < n /\ elapsed < DaysThrough(segments, i)
      BY <1>1
    <2>2. DaysThrough(segments, i) <= elapsed
      BY <2>1, EarlierDaysOver
    <2>3. elapsed \in Int
      <3>1. now \in Int /\ Moment(now) \in Int
        BY PlansAssumption, Dates DEF Moment, DataTypes
      <3>. QED  BY <3>1, Dates DEF WholeDaysBetween
    <2>4. DaysThrough(segments, i) \in Int
      <3> DEFINE h == [j \in 1 .. i |-> segments[j].days]
      <3>1. IsFiniteSet(1 .. i)
        <4>1. 1 \in Int /\ i \in Int
          BY <2>1
        <4>. QED  BY <4>1, FS_Interval
      <3>2. \A j \in 1 .. i : j \in 1 .. n
        BY <1>1, <2>1
      <3>3. \A j \in 1 .. i : h[j] \in Int
        <4>1. \A j \in 1 .. n : DaysOf(order[j]) \in Int
          BY <1>1, Clipped
        <4>. QED  BY <1>1, <3>2, <4>1
      <3>4. DaysThrough(segments, i) = SumFunctionOnSet(h, 1 .. i)
        BY DEF DaysThrough, SumFunction
      <3> HIDE DEF h
      <3>. QED  BY <3>1, <3>3, <3>4, SumStep
    <2> HIDE DEF elapsed, segments
    <2>. QED  BY <2>1, <2>2, <2>3, <2>4
  <1>6. \A i \in lived : i \in Int /\ i <= n
    BY <1>1
  <1>7. CurrentSegmentIndex(segments, now)
          = CASE lived = {} -> 1
              [] lived # {} /\ ahead = {} -> Max(lived)
              [] OTHER -> Min(ahead)
    BY DEF CurrentSegmentIndex, Moment
  <1> HIDE DEF lived, ahead, segments
  <1>8. CurrentSegmentIndex(segments, now) = n
    <2>1. CASE ahead = {}
      <3>1. Max(lived) = n
        <4>1. \A x \in lived : (\A y \in lived : x >= y) => x = n
          BY <1>1, <1>4, <1>6
        <4>2. \A y \in lived : n >= y
          BY <1>1, <1>6
        <4>. QED  BY <1>4, <4>1, <4>2 DEF Max
      <3>. QED  BY <1>4, <1>7, <2>1, <3>1
    <2>2. CASE ahead # {}
      <3>1. ahead = {n}
        BY <1>5, <2>2
      <3>2. Min({n}) = n
        BY <1>1 DEF Min
      <3>. QED  BY <1>4, <1>7, <2>2, <3>1, <3>2
    <2>. QED  BY <2>1, <2>2
  <1>9. DaysOf(last) = RemainingDays(last.from)
    <2>1. RemainingDays(last.from) = LocalDate(PeriodEnd - 1) - LocalDate(StartOf(last)) + 1
      BY DEF RemainingDays, StartOf
    <2>2. LocalDate(PeriodEnd - 1) = DaysInMonth - 1
      BY Dates
    <2>. QED  BY <1>3, <2>1, <2>2
  <1>. QED  BY <1>8, <1>9 DEF segments

\* A segment's prorated price list.
Part(segment) == Prorate(segment.list, segment.days, DaysInMonth)

\* What is known of the segments of a month.
PricedSegments(segments, n) ==
    /\ n \in Nat \ {0} /\ DOMAIN segments = 1 .. n /\ Len(segments) = n
    /\ \A i \in 1 .. n :
          /\ segments[i] \in [list : PriceList, days : Nat, quantity : Nat]
          /\ Part(segments[i]) \in PriceList /\ ValidPriceList(Part(segments[i]))
          /\ LastPrice(Part(segments[i])) > 0

\* The fees, charges and units of the segments before the last.
Others(n) == (1 .. n) \ {n}
OtherFees(segments, n) == SumFunctionOnSet([i \in Others(n) |-> Part(segments[i]).fee], Others(n))
OtherUnits(segments, n) == SumFunctionOnSet([i \in Others(n) |-> segments[i].quantity], Others(n))
OtherCharges(segments, n) ==
    SumFunctionOnSet([i \in Others(n) |-> Rate(segments[i].quantity, Part(segments[i]))], Others(n))
OtherUsage(segments, n) ==
    SumFunctionOnSet([i \in Others(n) |-> Rate(segments[i].quantity, Part(segments[i]))
                                            - Part(segments[i]).fee], Others(n))

\* resolve's segments are such.
LEMMA ResolvedPriced ==
    ASSUME DataTypes, Allowed(assignments), NEW n, n > 0, NEW usage,
           SegmentsOf(Resolve(usage), AssignmentsInPeriod, n, usage),
           \A i \in 1 .. n : usage[i] \in Nat
    PROVE  PricedSegments(Resolve(usage), n)
  <1> DEFINE segments == Resolve(usage)
             order == AssignmentsInPeriod
  <1>1. n \in Nat \ {0} /\ DOMAIN segments = 1 .. n /\ Len(segments) = n
    BY DEF SegmentsOf
  <1>2. ASSUME NEW i \in 1 .. n
        PROVE  /\ segments[i] \in [list : PriceList, days : Nat, quantity : Nat]
               /\ Part(segments[i]) \in PriceList /\ ValidPriceList(Part(segments[i]))
               /\ LastPrice(Part(segments[i])) > 0
    <2>1. /\ order[i] \in InMonth
          /\ segments[i] = [list |-> PriceListOf[order[i].plan], days |-> DaysOf(order[i]),
                            quantity |-> usage[i]]
      BY DEF SegmentsOf
    <2> HIDE DEF segments, order
    <2>2. PICK list \in PriceList, days \in Nat :
               /\ list = PriceListOf[order[i].plan] /\ days = DaysOf(order[i])
               /\ ValidPriceList(list) /\ LastPrice(list) > 0
      <3>1. order[i].plan \in Plan /\ DaysOf(order[i]) \in Nat
        BY <2>1, RowOfMonth, Clipped
      <3>. QED  BY <3>1, PlansAssumption, CatalogueAssumption
    <2>3. segments[i] \in [list : PriceList, days : Nat, quantity : Nat]
      BY <2>1, <2>2
    <2>4. Part(segments[i]) = Prorate(list, days, DaysInMonth)
      BY <2>1, <2>2 DEF Part
    <2>5. DaysInMonth \in Nat \ {0}
      BY PlansAssumption
    <2>. QED  BY <2>2, <2>3, <2>4, <2>5, ProratedIsValid
  <1>. QED  BY <1>1, <1>2 DEF PricedSegments

\* Charges are not below the fees.
LEMMA ChargeTypes ==
    ASSUME NEW list \in PriceList, ValidPriceList(list)
    PROVE  /\ list.fee \in Nat
           /\ \A quantity \in Nat : /\ Rate(quantity, list) \in Nat
                                    /\ Rate(quantity, list) >= list.fee
  <1>1. list.fee \in Nat /\ Ladder(list.bands)
    BY ValidLadder
  <1>2. ASSUME NEW quantity \in Nat
        PROVE  Rate(quantity, list) \in Nat /\ Rate(quantity, list) >= list.fee
    <2>1. /\ Chargeable(quantity, list) \in Nat
          /\ Rate(quantity, list) = list.fee + PriceUpTo(list, Chargeable(quantity, list))
      BY RateIsUnitPrices
    <2>2. PriceUpTo(list, Chargeable(quantity, list)) \in Nat
      BY <1>1, <2>1, PriceNext
    <2>. QED  BY <1>1, <2>1, <2>2
  <1>. QED  BY <1>1, <1>2

\* The other segments' fees and usage charges are their charges.
LEMMA OtherSums ==
    ASSUME NEW segments, NEW n, PricedSegments(segments, n)
    PROVE  /\ OtherFees(segments, n) \in Nat /\ OtherUnits(segments, n) \in Nat
           /\ OtherUsage(segments, n) \in Nat
           /\ OtherCharges(segments, n) = OtherFees(segments, n) + OtherUsage(segments, n)
  <1> DEFINE O == Others(n)
             f == [i \in O |-> Part(segments[i]).fee]
             u == [i \in O |-> segments[i].quantity]
             h == [i \in O |-> Rate(segments[i].quantity, Part(segments[i]))]
             g == [i \in O |-> Rate(segments[i].quantity, Part(segments[i]))
                                 - Part(segments[i]).fee]
  <1>1. IsFiniteSet(O)
    <2>1. 1 \in Int /\ n \in Int
      BY DEF PricedSegments
    <2>2. IsFiniteSet(1 .. n)
      BY <2>1, FS_Interval
    <2>3. O \in SUBSET (1 .. n)
      BY DEF Others
    <2>. QED  BY <2>2, <2>3, FS_Subset
  <1>2. ASSUME NEW i \in O
        PROVE  /\ f[i] \in Nat /\ u[i] \in Nat /\ g[i] \in Nat /\ h[i] = f[i] + g[i]
    <2>1. /\ segments[i] \in [list : PriceList, days : Nat, quantity : Nat]
          /\ Part(segments[i]) \in PriceList /\ ValidPriceList(Part(segments[i]))
      BY DEF PricedSegments, Others
    <2>2. PICK a \in Nat, b \in Nat :
               /\ a = Part(segments[i]).fee /\ b = Rate(segments[i].quantity, Part(segments[i]))
               /\ b >= a
      BY <2>1, ChargeTypes
    <2>3. f[i] = a /\ h[i] = b /\ g[i] = b - a
      BY <2>2
    <2>. QED  BY <2>1, <2>2, <2>3
  <1>3. /\ OtherFees(segments, n) = SumFunctionOnSet(f, O)
        /\ OtherUnits(segments, n) = SumFunctionOnSet(u, O)
        /\ OtherUsage(segments, n) = SumFunctionOnSet(g, O)
        /\ OtherCharges(segments, n) = SumFunctionOnSet(h, O)
    BY DEF OtherFees, OtherUnits, OtherUsage, OtherCharges
  <1> HIDE DEF O, f, u, g, h
  <1>4. /\ SumFunctionOnSet(f, O) \in Nat /\ SumFunctionOnSet(u, O) \in Nat
        /\ SumFunctionOnSet(g, O) \in Nat
    BY <1>1, <1>2, SumOfNaturals
  <1>5. SumFunctionOnSet(h, O) = SumFunctionOnSet(f, O) + SumFunctionOnSet(g, O)
    <2>1. \A i \in O : f[i] \in Int /\ g[i] \in Int /\ h[i] = f[i] + g[i]
      BY <1>2
    <2>. QED  BY <1>1, <2>1, SumPlus
  <1>. QED  BY <1>3, <1>4, <1>5

\* compute, when the last segment is the one in effect.
LEMMA ComputeValue ==
    ASSUME NEW segments, NEW n, PricedSegments(segments, n), NEW at, NEW limit \in Nat,
           CurrentSegmentIndex(segments, at) = n
    PROVE  Compute(segments, at, limit) =
             IF OtherFees(segments, n) + Part(segments[n]).fee > limit THEN Unsatisfiable
             ELSE OtherUnits(segments, n)
                    + (IF limit - OtherCharges(segments, n) < 0 THEN 0
                       ELSE MaxQuantityWithin(limit - OtherCharges(segments, n),
                                              Part(segments[n])))
  <1> DEFINE O == Others(n)
             prorated == [i \in DOMAIN segments |->
                             Prorate(segments[i].list, segments[i].days, DaysInMonth)]
             f == [i \in O |-> prorated[i].fee]
             u == [i \in O |-> segments[i].quantity]
             g == [i \in O |-> Rate(segments[i].quantity, prorated[i]) - prorated[i].fee]
             budget == limit - SumFunction(f) - SumFunction(g)
             here == IF budget < 0 THEN 0 ELSE MaxQuantityWithin(budget, prorated[n])
  <1>1. DOMAIN segments = 1 .. n /\ n \in 1 .. n /\ DOMAIN segments \ {n} = O
    BY DEF PricedSegments, Others
  <1>2. \A i \in 1 .. n : prorated[i] = Part(segments[i])
    BY <1>1 DEF Part
  <1>3. Compute(segments, at, limit) =
          IF SumFunction(f) + prorated[n].fee > limit THEN Unsatisfiable
          ELSE SumFunction(u) + here
    BY <1>1 DEF Compute
  <1> HIDE DEF prorated
  <1>4. \A i \in O : i \in 1 .. n
    BY DEF Others
  <1>5. SumFunction(f) = OtherFees(segments, n)
    <2>1. f = [i \in O |-> Part(segments[i]).fee]
      BY <1>2, <1>4
    <2>. QED  BY <2>1 DEF SumFunction, OtherFees
  <1>6. SumFunction(g) = OtherUsage(segments, n)
    <2>1. g = [i \in O |-> Rate(segments[i].quantity, Part(segments[i]))
                             - Part(segments[i]).fee]
      BY <1>2, <1>4
    <2>. QED  BY <2>1 DEF SumFunction, OtherUsage
  <1>7. SumFunction(u) = OtherUnits(segments, n)
    BY DEF SumFunction, OtherUnits
  <1> HIDE DEF f, g, u, O
  <1>8. budget = limit - OtherCharges(segments, n)
    <2>1. PICK a \in Nat, b \in Nat : a = SumFunction(f) /\ b = SumFunction(g)
      BY <1>5, <1>6, OtherSums
    <2>2. OtherCharges(segments, n) = a + b
      BY <1>5, <1>6, <2>1, OtherSums
    <2>. QED  BY <2>1, <2>2
  <1> HIDE DEF budget
  <1>. QED  BY <1>1, <1>2, <1>3, <1>5, <1>7, <1>8

\* GET /v1/usage, once a unit more than the attributed ones is counted.
LEMMA Bill ==
    ASSUME NEW usage, NEW n, PricedSegments(Resolve(usage), n), NEW counted \in Int,
           counted >= SumFunction([i \in DOMAIN Resolve(usage) |-> Resolve(usage)[i].quantity])
    PROVE  LET segments == Resolve(usage)
               units == OtherUnits(segments, n)
           IN  /\ SumFunction([i \in DOMAIN segments |-> segments[i].quantity]) \in Nat
               /\ SumFunction([i \in DOMAIN segments |-> segments[i].quantity]) >= units
               /\ counted + 1 - units \in Nat
               /\ EstimatedCost(counted + 1, usage)
                    = OtherCharges(segments, n) + Rate(counted + 1 - units, Part(segments[n]))
  <1> DEFINE segments == Resolve(usage)
             O == Others(n)
             N == 1 .. n
             q == [i \in DOMAIN segments |-> segments[i].quantity]
             attributed == SumFunction(q)
             units == OtherUnits(segments, n)
             beyond(count) == IF count > attributed THEN count - attributed ELSE 0
             tail == beyond(counted + 1)
             more == [segments EXCEPT ![n].quantity = @ + tail]
             c == [i \in DOMAIN more |-> SegmentCharge(more[i], DaysInMonth)]
             u == [i \in O |-> segments[i].quantity]
             h == [i \in O |-> Rate(segments[i].quantity, Part(segments[i]))]
  <1>1. /\ n \in Nat \ {0} /\ DOMAIN segments = N /\ Len(segments) = n /\ n \in N
        /\ \A i \in N : /\ segments[i] \in [list : PriceList, days : Nat, quantity : Nat]
                        /\ Part(segments[i]) \in PriceList /\ ValidPriceList(Part(segments[i]))
    BY DEF PricedSegments
  <1>2. EstimatedCost(counted + 1, usage) = SumFunction(c)
    <2>1. PICK next \in Int : next = counted + 1
      OBVIOUS
    <2>4. tail = IF next > attributed THEN next - attributed ELSE 0
      <3>1. tail = beyond(next)
        <4> HIDE DEF beyond
        <4>. QED  BY <2>1
      <3>. QED  BY <3>1
    <2>5. EstimatedCost(next, usage)
            = RatePeriod([segments EXCEPT ![Len(segments)].quantity = @ + tail], DaysInMonth)
      <3> HIDE DEF tail
      <3>. QED  BY Zenon, <2>4 DEF EstimatedCost
    <2>2. Len(segments) = n
      BY <1>1
    <2>3. EstimatedCost(counted + 1, usage) = RatePeriod(more, DaysInMonth)
      <3> HIDE DEF tail, segments
      <3>. QED  BY <2>1, <2>2, <2>5
    <2> HIDE DEF more
    <2>. QED  BY <2>3 DEF RatePeriod
  <1> HIDE DEF segments
  <1>3. IsFiniteSet(N) /\ O = N \ {n}
    <2>1. 1 \in Int /\ n \in Int
      BY <1>1
    <2>. QED  BY <2>1, FS_Interval DEF Others
  <1>4. \A i \in N : q[i] = segments[i].quantity /\ segments[i].quantity \in Nat
    BY <1>1
  <1>5. attributed = SumFunctionOnSet(q, N) /\ DOMAIN q = N
    BY <1>1 DEF SumFunction
  <1>6. units = SumFunctionOnSet(u, O) /\ \A i \in O : u[i] = q[i]
    BY <1>1, <1>3 DEF OtherUnits
  <1>7. \A i \in O : i \in N
    BY <1>3
  <1> HIDE DEF q, u, O, N
  <1>8. IsFiniteSet(O)
    BY <1>3, FS_RemoveElement
  <1>9. /\ units \in Nat /\ q[n] \in Nat /\ attributed = q[n] + units
    <2>1. \A i \in N : q[i] \in Int
      BY <1>4
    <2>2. SumFunctionOnSet(q, N) = q[n] + SumFunctionOnSet(q, O)
      <3>1. \A x \in N : SumFunctionOnSet(q, N) = q[x] + SumFunctionOnSet(q, N \ {x})
        BY <1>3, <2>1, SumStep
      <3>. QED  BY <1>1, <1>3, <3>1
    <2>3. SumFunctionOnSet(u, O) = SumFunctionOnSet(q, O)
      BY <1>6, <1>7, <1>8, <2>1, SumSame
    <2>. QED  BY <1>1, <1>4, <1>5, <1>6, <2>2, <2>3, OtherSums DEF segments
  <1> HIDE DEF attributed, units
  <1>10. tail = counted + 1 - attributed /\ tail \in Nat /\ q[n] + tail = counted + 1 - units
         /\ q[n] + tail \in Nat
    <2>1. counted >= attributed
      BY DEF attributed, q, segments
    <2>. QED  BY <1>9, <2>1
  <1> HIDE DEF tail
  <1>11. /\ DOMAIN more = N
         /\ \A i \in O : more[i] = segments[i]
         /\ more[n] = [list |-> segments[n].list, days |-> segments[n].days,
                       quantity |-> q[n] + tail]
    <2>1. DOMAIN more = N /\ \A i \in O : more[i] = segments[i]
      BY <1>1, <1>3
    <2>2. more[n] = [segments[n] EXCEPT !.quantity = @ + tail]
      BY <1>1
    <2>3. more[n] = [segments[n] EXCEPT !.quantity = q[n] + tail]
      BY <1>1, <1>4, <2>2
    <2>. QED  BY <1>1, <2>1, <2>3
  <1> HIDE DEF more
  <1>12. /\ DOMAIN c = N
         /\ \A i \in O : c[i] = h[i] /\ h[i] \in Nat
         /\ c[n] = Rate(q[n] + tail, Part(segments[n])) /\ c[n] \in Nat
    <2>1. DOMAIN c = N /\ \A i \in N : c[i] = Rate(more[i].quantity, Part(more[i]))
      BY <1>11 DEF SegmentCharge, Part
    <2>2. \A i \in O : c[i] = h[i]
      BY <1>7, <1>11, <2>1
    <2>3. \A i \in O : h[i] \in Nat
      BY <1>1, <1>4, <1>7, ChargeTypes
    <2>4. c[n] = Rate(q[n] + tail, Part(segments[n]))
      BY <1>1, <1>11, <2>1 DEF Part
    <2>5. c[n] \in Nat
      BY <1>1, <1>10, <2>4, ChargeTypes
    <2>. QED  BY <2>1, <2>2, <2>3, <2>4, <2>5
  <1>13. OtherCharges(segments, n) = SumFunctionOnSet(h, O)
    BY DEF OtherCharges, O
  <1> HIDE DEF c, h
  <1>14. SumFunction(c) = SumFunctionOnSet(c, N)
    BY <1>12 DEF SumFunction
  <1>15. \A i \in N : c[i] \in Int
    <2>1. \A i \in N : i \in O \/ i = n
      BY <1>3
    <2>. QED  BY <1>12, <2>1
  <1>16. SumFunctionOnSet(c, N) = c[n] + SumFunctionOnSet(c, O)
    <2>1. \A x \in N : SumFunctionOnSet(c, N) = c[x] + SumFunctionOnSet(c, N \ {x})
      BY <1>3, <1>15, SumStep
    <2>. QED  BY <1>1, <1>3, <2>1
  <1>17. SumFunctionOnSet(c, O) = SumFunctionOnSet(h, O) /\ SumFunctionOnSet(h, O) \in Nat
    <2>1. \A i \in O : h[i] \in Int /\ c[i] = h[i] /\ h[i] \in Nat
      BY <1>12
    <2>2. SumFunctionOnSet(h, O) \in Nat
      BY <1>8, <2>1, SumOfNaturals
    <2>. QED  BY <1>8, <2>1, <2>2, SumSame
  <1>18. EstimatedCost(counted + 1, usage)
           = OtherCharges(segments, n) + Rate(counted + 1 - units, Part(segments[n]))
    BY <1>2, <1>10, <1>12, <1>13, <1>14, <1>16, <1>17
  <1>19. attributed \in Nat /\ attributed >= units /\ counted + 1 - units \in Nat
    BY <1>9, <1>10
  <1>. QED  BY <1>18, <1>19 DEF segments, units, attributed, q

\* The gate and the bill agree on the next request, whatever was counted so far.
LEMMA GateMatchesBill ==
    ASSUME NEW usage, NEW n, PricedSegments(Resolve(usage), n), NEW limit \in Nat,
           CurrentSegmentIndex(Resolve(usage), now) = n, NEW counted \in Int,
           counted >= SumFunction([i \in DOMAIN Resolve(usage) |-> Resolve(usage)[i].quantity])
    PROVE  counted < Compute(Resolve(usage), now, limit)
             <=> EstimatedCost(counted + 1, usage) <= limit
  <1> DEFINE segments == Resolve(usage)
             part == Part(segments[n])
             fees == OtherFees(segments, n)
             units == OtherUnits(segments, n)
             charges == OtherCharges(segments, n)
             next == counted + 1 - units
             most == MaxQuantityWithin(limit - charges, part)
  <1>1. /\ part \in PriceList /\ ValidPriceList(part) /\ LastPrice(part) > 0
    BY DEF PricedSegments
  <1>2. fees \in Nat /\ units \in Nat /\ charges \in Nat /\ fees <= charges
    <2>1. PICK b \in Nat : charges = fees + b
      BY OtherSums
    <2>. QED  BY <2>1, OtherSums
  <1>3. /\ next \in Nat
        /\ EstimatedCost(counted + 1, usage) = charges + Rate(next, part)
        /\ counted >= units
    <2>1. SumFunction([i \in DOMAIN segments |-> segments[i].quantity]) \in Nat
          /\ SumFunction([i \in DOMAIN segments |-> segments[i].quantity]) >= units
      BY Bill
    <2>2. next \in Nat /\ EstimatedCost(counted + 1, usage) = charges + Rate(next, part)
      BY Bill
    <2> HIDE DEF units
    <2>. QED  BY <1>2, <2>1, <2>2
  <1>4. Compute(segments, now, limit) =
          IF fees + part.fee > limit THEN Unsatisfiable
          ELSE units + (IF limit - charges < 0 THEN 0 ELSE most)
    BY ComputeValue
  <1>5. part.fee \in Nat /\ Rate(next, part) \in Nat /\ Rate(next, part) >= part.fee
    BY <1>1, <1>3, ChargeTypes
  <1>6. CASE limit - charges >= part.fee
    <2>1. most \in Nat /\ (Rate(next, part) <= limit - charges <=> next <= most)
      <3>1. limit - charges \in Int
        BY <1>2
      <3>. QED  BY <1>1, <1>3, <1>6, <3>1, MaxQuantityIsExact
    <2> HIDE DEF segments, part, fees, units, charges, most
    <2>2. Compute(segments, now, limit) = units + most
      BY <1>2, <1>4, <1>5, <1>6
    <2>3. counted < units + most <=> next <= most
      BY <1>2, <2>1
    <2>4. Rate(next, part) <= limit - charges
            <=> EstimatedCost(counted + 1, usage) <= limit
      BY <1>2, <1>3, <1>5
    <2>. QED  BY <2>1, <2>2, <2>3, <2>4 DEF segments
  <1>7. CASE ~(limit - charges >= part.fee)
    <2>1. limit - charges < part.fee
      BY <1>2, <1>5, <1>7
    <2>2. most = 0
      BY <2>1 DEF MaxQuantityWithin
    <2> HIDE DEF segments, part, fees, units, charges, most, next
    <2>3. Compute(segments, now, limit) \in {Unsatisfiable, units}
      BY <1>2, <1>4, <2>2
    <2>4. ~(counted < Compute(segments, now, limit))
      BY <1>2, <1>3, <2>3 DEF Unsatisfiable
    <2>5. ~(EstimatedCost(counted + 1, usage) <= limit)
      BY <1>2, <1>3, <1>5, <2>1
    <2>. QED  BY <2>4, <2>5 DEF segments
  <1>. QED  BY <1>6, <1>7

\* Setting a limit agrees with the sweep.
LEMMA SetMatchesSweep ==
    ASSUME NEW usage, NEW n, PricedSegments(Resolve(usage), n), NEW limit \in Nat,
           CurrentSegmentIndex(Resolve(usage), now) = n,
           SegmentsOf(Resolve(usage), AssignmentsInPeriod, n, usage),
           DaysOf(AssignmentsInPeriod[n]) = RemainingDays(AssignmentsInPeriod[n].from)
    PROVE  LET set == SetThreshold(AssignmentsInPeriod[n], limit)
               threshold == Compute(Resolve(usage), now, limit)
           IN  /\ set = Rejected => threshold = Unsatisfiable
               /\ n = 1 => set = (IF threshold = Unsatisfiable THEN Rejected ELSE threshold)
  <1> DEFINE segments == Resolve(usage)
             part == Part(segments[n])
             last == AssignmentsInPeriod[n]
             fees == OtherFees(segments, n)
             units == OtherUnits(segments, n)
             charges == OtherCharges(segments, n)
             set == SetThreshold(last, limit)
             threshold == Compute(segments, now, limit)
             most == MaxQuantityWithin(limit, part)
  <1>1. /\ n \in Nat \ {0} /\ part \in PriceList /\ ValidPriceList(part) /\ LastPrice(part) > 0
    BY DEF PricedSegments
  <1>2. fees \in Nat /\ units \in Nat /\ part.fee \in Nat
    BY <1>1, OtherSums, ChargeTypes
  <1>3. part = Prorate(PriceListOf[last.plan], RemainingDays(last.from), DaysInMonth)
        /\ Len(AssignmentsInPeriod) = n
    <2>1. segments[n] = [list |-> PriceListOf[last.plan], days |-> DaysOf(last),
                         quantity |-> usage[n]]
          /\ Len(AssignmentsInPeriod) = n
      BY <1>1 DEF SegmentsOf
    <2> HIDE DEF segments, last
    <2>. QED  BY <2>1 DEF Part, last
  <1>4. set = CASE limit < part.fee -> Rejected
                [] limit >= part.fee /\ n > 1 -> Deferred
                [] OTHER -> most
    BY <1>3 DEF SetThreshold
  <1>5. threshold =
          IF fees + part.fee > limit THEN Unsatisfiable
          ELSE units + (IF limit - charges < 0 THEN 0
                        ELSE MaxQuantityWithin(limit - charges, part))
    BY ComputeValue
  <1>6. limit >= part.fee => most \in Nat
    BY <1>1, MaxQuantityIsExact
  <1>7. n = 1 => fees = 0 /\ units = 0 /\ charges = 0
    <2> SUFFICES ASSUME n = 1 PROVE fees = 0 /\ units = 0 /\ charges = 0
      OBVIOUS
    <2>1. Others(n) = {}
      BY DEF Others
    <2>. QED  BY <2>1, SumEmpty DEF OtherFees, OtherUnits, OtherCharges
  <1> HIDE DEF segments, part, last, fees, units, charges, set, threshold, most
  <1>8. CASE limit < part.fee
    <2>1. set = Rejected
      BY <1>2, <1>4, <1>8
    <2>2. threshold = Unsatisfiable
      BY <1>2, <1>5, <1>8
    <2>. QED  BY <2>1, <2>2 DEF set, threshold, segments, last
  <1>9. CASE ~(limit < part.fee)
    <2>1. limit >= part.fee /\ most \in Nat
      BY <1>2, <1>6, <1>9
    <2>2. set \in {Deferred, most} /\ set # Rejected
      BY <1>4, <1>9, <2>1 DEF Rejected, Deferred
    <2>3. n = 1 => set = most
      BY <1>4, <1>9
    <2>4. n = 1 => threshold = most /\ most # Unsatisfiable
      <3> SUFFICES ASSUME n = 1 PROVE threshold = most /\ most # Unsatisfiable
        OBVIOUS
      <3>1. ~(fees + part.fee > limit) /\ limit - charges = limit /\ ~(limit < 0)
        BY <1>2, <1>7, <1>9
      <3>2. threshold = 0 + most
        BY <1>5, <1>7, <3>1 DEF most
      <3>. QED  BY <2>1, <3>2 DEF Unsatisfiable
    <2>. QED  BY <2>2, <2>3, <2>4 DEF set, threshold, segments, last
  <1>. QED  BY <1>8, <1>9

\* The threshold stops a customer at the right request.
LEMMA ThresholdExact ==
    ASSUME DataTypes, Allowed(assignments), IsFiniteSet(assignments), Covered, Past
    PROVE  ThresholdIsExact
  <1> DEFINE order == AssignmentsInPeriod
             n == Cardinality(InMonth)
  <1> SUFFICES ASSUME now >= PeriodStart, order # <<>>,
                      NEW usage \in [DOMAIN order -> Quantities], NEW limit \in Limits
               PROVE  LET segments == Resolve(usage)
                          threshold == Compute(segments, now, limit)
                          attributed == SumFunction([i \in DOMAIN segments
                                                       |-> segments[i].quantity])
                          tried == {c \in {attributed, threshold - 1, threshold, threshold + 1} :
                                      c >= attributed}
                      IN /\ \A counted \in tried :
                              counted < threshold <=> EstimatedCost(counted + 1, usage) <= limit
                         /\ InPeriod(now) =>
                              LET set == SetThreshold(order[Len(order)], limit)
                              IN /\ set = Rejected => threshold = Unsatisfiable
                                 /\ Len(order) = 1 =>
                                      set = (IF threshold = Unsatisfiable THEN Rejected
                                             ELSE threshold)
    BY DEF ThresholdIsExact
  <1> DEFINE segments == Resolve(usage)
             threshold == Compute(segments, now, limit)
             attributed == SumFunction([i \in DOMAIN segments |-> segments[i].quantity])
  <1>1. SegmentsOf(segments, order, n, usage)
    BY Resolved
  <1>2. n \in Nat /\ DOMAIN order = 1 .. n /\ n > 0 /\ Len(order) = n
    BY <1>1 DEF SegmentsOf
  <1>3. limit \in Nat /\ \A i \in 1 .. n : usage[i] \in Nat
    BY <1>2, PlansAssumption
  <1>4. PricedSegments(segments, n)
    BY <1>1, <1>2, <1>3, ResolvedPriced
  <1>5. CurrentSegmentIndex(segments, now) = n
        /\ DaysOf(order[n]) = RemainingDays(order[n].from)
    BY <1>1, <1>2, CurrentIsLast
  <1>6. attributed \in Int /\ threshold \in Int
    <2> DEFINE q == [i \in DOMAIN segments |-> segments[i].quantity]
    <2>1. DOMAIN q = 1 .. n /\ \A i \in 1 .. n : q[i] \in Int
      BY <1>4 DEF PricedSegments
    <2>2. attributed = SumFunctionOnSet(q, 1 .. n)
      BY <2>1 DEF SumFunction
    <2>3. IsFiniteSet(1 .. n)
      <3>1. 1 \in Int /\ n \in Int
        BY <1>2
      <3>. QED  BY <3>1, FS_Interval
    <2> HIDE DEF q
    <2>4. attributed \in Int
      BY <2>1, <2>2, <2>3, SumStep
    <2> DEFINE part == Part(segments[n])
               budget == limit - OtherCharges(segments, n)
    <2>5. threshold =
            IF OtherFees(segments, n) + part.fee > limit THEN Unsatisfiable
            ELSE OtherUnits(segments, n)
                   + (IF budget < 0 THEN 0 ELSE MaxQuantityWithin(budget, part))
      BY <1>3, <1>4, <1>5, ComputeValue
    <2>6. part \in PriceList /\ ValidPriceList(part)
      BY <1>2, <1>4 DEF PricedSegments
    <2>7. budget \in Int /\ OtherUnits(segments, n) \in Int
      <3>1. PICK a \in Nat, b \in Nat : OtherCharges(segments, n) = a + b
        BY <1>4, OtherSums
      <3>. QED  BY <1>3, <1>4, <3>1, OtherSums
    <2>8. MaxQuantityWithin(budget, part) \in Int
      <3>1. CASE budget < part.fee
        BY <3>1 DEF MaxQuantityWithin
      <3>2. CASE ~(budget < part.fee)
        <4>1. budget >= part.fee
          BY <2>6, <2>7, <3>2, ChargeTypes
        <4>. QED  BY <2>6, <2>7, <4>1, MaxQuantityIsExact DEF NoFiniteQuantity
      <3>. QED  BY <3>1, <3>2
    <2> HIDE DEF budget, part, threshold
    <2>. QED  BY <2>4, <2>5, <2>7, <2>8 DEF Unsatisfiable
  <1>7. ASSUME NEW counted \in {attributed, threshold - 1, threshold, threshold + 1},
               counted >= attributed
        PROVE  counted < threshold <=> EstimatedCost(counted + 1, usage) <= limit
    <2>1. counted \in Int
      <3> HIDE DEF attributed, threshold
      <3>. QED  BY <1>6
    <2>. QED  BY <1>3, <1>4, <1>5, <1>7, <2>1, GateMatchesBill
  <1>8. LET set == SetThreshold(order[n], limit)
        IN  /\ set = Rejected => threshold = Unsatisfiable
            /\ n = 1 => set = (IF threshold = Unsatisfiable THEN Rejected ELSE threshold)
    BY <1>1, <1>3, <1>4, <1>5, SetMatchesSweep
  <1> HIDE DEF order, n, segments, threshold
  <1>. QED  BY <1>2, <1>7, <1>8 DEF segments, threshold, order

----------------------------------------------------------------------------
(* One plan.                                                               *)

\* The rows after change_plan's transaction.
Replaced(rows, closing, at, new) ==
    (rows \ closing) \cup {ClosedAt(a, at) : a \in closing} \cup {new}

\* Adding an assignment that starts at `at` and has no end leaves no gap, if
\* what was closed is closed at `at`.
LEMMA NoGap ==
    ASSUME NEW old, NEW closing, NEW new, NEW at \in Int,
           old \subseteq Assignment, closing \subseteq Assignment,
           \A t \in Instants : (\E a \in old : a.from <= t) => \E a \in old : InEffect(a, t),
           new.from = at, new.to = Unbounded, new \in Assignment,
           NEW rows, rows = Replaced(old, closing, at, new),
           \A a \in closing : a.to = Unbounded
    PROVE  \A t \in Instants : (\E a \in rows : a.from <= t) => \E a \in rows : InEffect(a, t)
  <1> SUFFICES ASSUME NEW t \in Instants, NEW a \in rows, a.from <= t
               PROVE  \E b \in rows : InEffect(b, t)
    OBVIOUS
  <1> USE DEF Replaced
  <1>1. t \in Int
    BY PlansAssumption
  <1>2. CASE at <= t
    BY <1>2 DEF InEffect
  <1>3. CASE ~(at <= t)
    <2>1. ASSUME NEW c \in closing, c.from <= t
          PROVE  InEffect(ClosedAt(c, at), t) /\ ClosedAt(c, at) \in rows
      <3>1. ClosedAt(c, at).from = c.from /\ ClosedAt(c, at).to = at
        BY DEF ClosedAt, Assignment
      <3>. QED  BY <1>1, <1>3, <2>1, <3>1 DEF InEffect
    <2>2. CASE a \in old \ closing
      <3>1. PICK b \in old : InEffect(b, t)
        BY <2>2
      <3>2. CASE b \in closing
        BY <2>1, <3>1, <3>2 DEF InEffect
      <3>. QED  BY <3>1, <3>2
    <2>3. CASE a \in {ClosedAt(c, at) : c \in closing}
      <3>1. PICK c \in closing : a = ClosedAt(c, at)
        BY <2>3
      <3>2. a.from = c.from
        BY <3>1 DEF ClosedAt, Assignment
      <3>. QED  BY <2>1, <3>1, <3>2
    <2>4. a # new
      BY <1>3
    <2>. QED  BY <2>2, <2>3, <2>4
  <1>. QED  BY <1>2, <1>3

\* Two plans in effect at one instant overlap.
LEMMA OneInEffect ==
    ASSUME DataTypes, Allowed(assignments), NEW t \in Instants,
           NEW a \in assignments, NEW b \in assignments, InEffect(a, t), InEffect(b, t)
    PROVE  a = b
  <1>1. /\ t \in Int
        /\ a.from \in Int /\ (a.to \in Int \/ a.to = Unbounded)
        /\ b.from \in Int /\ (b.to \in Int \/ b.to = Unbounded)
    BY PlansAssumption DEF DataTypes, Assignment
  <1>2. Overlap(a, b)
    BY <1>1 DEF InEffect, Overlap
  <1>. QED  BY <1>2 DEF Allowed

\* The invariant holds before the customer signs up.
LEMMA InitIInv == Init => IInv
  <1> SUFFICES ASSUME Init PROVE IInv
    OBVIOUS
  <1>1. Min(Instants) \in Instants
    BY PlansAssumption DEF Min
  <1>2. DataTypes
    BY <1>1 DEF Init, DataTypes
  <1>3. \A r \in Request : req[r].step = "idle"
    BY DEF Init, NoRequest
  <1>4. Pending = {} /\ Active = {}
    BY <1>3 DEF Pending, Active
  <1>5. RoomInv
    <2>1. assignments = {} /\ Cardinality({}) = 0 /\ IsFiniteSet({})
      BY FS_EmptySet DEF Init
    <2>2. 0 + 0 <= MaxAssignments
      BY PlansAssumption
    <2>. QED  BY <1>4, <2>1, <2>2 DEF RoomInv
  <1>6. PublishedInv /\ LockInv
    BY <1>3, <1>4 DEF PublishedInv, LockInv
  <1>7. Allowed(assignments) /\ Covered /\ Referenced /\ Past
    BY <1>4 DEF Init, Allowed, Covered, Referenced, Past
  <1>. QED  BY <1>2, <1>5, <1>6, <1>7 DEF IInv

\* A request in flight is a record of its fields.
LEMMA RequestShape ==
    ASSUME DataTypes, NEW r \in Request, req[r].step # "idle"
    PROVE  req[r] \in InFlight
  BY DEF DataTypes, NoRequest

\* Every step keeps the types.
LEMMA NextDataTypes == DataTypes /\ [Next]_vars => DataTypes'
  <1> SUFFICES ASSUME DataTypes, [Next]_vars PROVE DataTypes'
    OBVIOUS
  <1> USE DEF DataTypes
  <1>1. CASE Advance
    BY <1>1 DEF Advance
  <1>2. ASSUME NEW r \in Request, NEW plan \in Plan, Provision(r, plan) \/ ChangePlan(r, plan)
        PROVE  DataTypes'
    <2>1. PICK kind \in {"provision", "change"} : Begin(r, kind, plan)
      BY <1>2 DEF Provision, ChangePlan
    <2>2. req' \in [Request -> InFlight \cup {NoRequest}]
      BY <2>1 DEF Begin, InFlight, Step
    <2>. QED  BY <2>1, <2>2 DEF Begin
  <1>3. ASSUME NEW r \in Request, FindVersion(r) PROVE DataTypes'
    <2>1. req[r] \in InFlight
      BY <1>3, RequestShape DEF FindVersion, At
    <2>2. req' \in [Request -> InFlight \cup {NoRequest}]
      BY <1>3, <2>1 DEF FindVersion, AfterVersion, Goto, InFlight, Step
    <2>. QED  BY <1>3, <2>2 DEF FindVersion
  <1>4. ASSUME NEW r \in Request, InsertVersion(r) PROVE DataTypes'
    <2>1. req[r] \in InFlight
      BY <1>4, RequestShape DEF InsertVersion, At
    <2>2. req' \in [Request -> InFlight \cup {NoRequest}]
      BY <1>4, <2>1 DEF InsertVersion, AfterVersion, Goto, End, InFlight, Step
    <2>3. published' \subseteq Plan
      BY <1>4, <2>1 DEF InsertVersion, InFlight
    <2>. QED  BY <1>4, <2>2, <2>3 DEF InsertVersion
  <1>5. ASSUME NEW r \in Request, CreateCustomer(r) PROVE DataTypes'
    <2>1. req[r] \in InFlight
      BY <1>5, RequestShape DEF CreateCustomer, At
    <2>. QED  BY <1>5, <2>1 DEF CreateCustomer, Goto, InFlight, Step
  <1>6. ASSUME NEW r \in Request, AssignPlan(r) PROVE DataTypes'
    <2>1. req[r] \in InFlight
      BY <1>6, RequestShape DEF AssignPlan, At
    <2>2. req' \in [Request -> InFlight \cup {NoRequest}]
      BY <1>6, <2>1 DEF AssignPlan, Goto, End, InFlight, Step
    <2>3. NewAssignment(r) \in Assignment
      BY <2>1 DEF NewAssignment, InFlight, Assignment
    <2>. QED  BY <1>6, <2>2, <2>3 DEF AssignPlan
  <1>7. ASSUME NEW r \in Request, EnsureBillingPeriod(r) PROVE DataTypes'
    <2>1. req' \in [Request -> InFlight \cup {NoRequest}]
      BY <1>7 DEF EnsureBillingPeriod, End
    <2>2. MonthOf(req[r].at) \in {-1, 0, 1}
      BY DEF MonthOf
    <2>. QED  BY <1>7, <2>1, <2>2 DEF EnsureBillingPeriod
  <1>8. ASSUME NEW r \in Request, CheckLimit(r) PROVE DataTypes'
    <2>1. req[r] \in InFlight
      BY <1>8, RequestShape DEF CheckLimit, At
    <2>2. req' \in [Request -> InFlight \cup {NoRequest}]
      BY <1>8, <2>1 DEF CheckLimit, Goto, End, InFlight, Step
    <2>. QED  BY <1>8, <2>2 DEF CheckLimit
  <1>9. ASSUME NEW r \in Request, StartClose(r) PROVE DataTypes'
    <2>1. req[r] \in InFlight
      BY <1>9, RequestShape DEF StartClose, At
    <2>2. OpenAssignments(assignments) \in SUBSET Assignment
      BY DEF OpenAssignments
    <2>. QED  BY <1>9, <2>1, <2>2 DEF StartClose, InFlight, Step
  <1>10. ASSUME NEW r \in Request, LockClose(r) PROVE DataTypes'
    <2>1. req[r] \in InFlight
      BY <1>10, RequestShape DEF LockClose, At
    <2>2. req[r].saw \cap assignments \in SUBSET Assignment
      BY <2>1 DEF InFlight
    <2>3. req' \in [Request -> InFlight \cup {NoRequest}]
      BY <1>10, <2>1, <2>2 DEF LockClose, End, InFlight, Step
    <2>. QED  BY <1>10, <2>3 DEF LockClose
  <1>11. ASSUME NEW r \in Request, OpenNew(r) PROVE DataTypes'
    <2>1. req[r] \in InFlight
      BY <1>11, RequestShape DEF OpenNew, At
    <2>2. NewAssignment(r) \in Assignment
      BY <2>1 DEF NewAssignment, InFlight, Assignment
    <2>3. \A a \in req[r].closing : ClosedAt(a, req[r].at) \in Assignment
      BY <2>1 DEF ClosedAt, InFlight, Assignment
    <2>4. req' \in [Request -> InFlight \cup {NoRequest}]
      BY <1>11 DEF OpenNew, End
    <2>5. assignments' \subseteq Assignment
      BY <1>11, <2>2, <2>3 DEF OpenNew
    <2>. QED  BY <1>11, <2>4, <2>5 DEF OpenNew
  <1>12. ASSUME NEW r \in Request, Fail(r) PROVE DataTypes'
    BY <1>12 DEF Fail, End
  <1>13. CASE UNCHANGED vars
    BY <1>13 DEF vars
  <1>. QED  BY <1>1, <1>2, <1>3, <1>4, <1>5, <1>6, <1>7, <1>8, <1>9, <1>10, <1>11, <1>12, <1>13
            DEF Next, Handle

\* A request refers to a version that is published, which it stays.
LEMMA NextPublished == DataTypes /\ PublishedInv /\ [Next]_vars => PublishedInv'
  <1> SUFFICES ASSUME DataTypes, PublishedInv, [Next]_vars PROVE PublishedInv'
    OBVIOUS
  <1> USE DEF PublishedInv, Active
  <1>0. req \in [Request -> InFlight \cup {NoRequest}]
    BY DEF DataTypes
  <1>1. ASSUME NEW r \in Request, NEW plan \in Plan, Provision(r, plan) \/ ChangePlan(r, plan)
        PROVE  PublishedInv'
    BY <1>0, <1>1 DEF Provision, ChangePlan, Begin
  <1>2. ASSUME NEW r \in Request, FindVersion(r) PROVE PublishedInv'
    <2>1. req[r] \in InFlight
      BY <1>2, RequestShape DEF FindVersion, At
    <2>. QED  BY <1>0, <1>2, <2>1 DEF FindVersion, AfterVersion, Goto, InFlight
  <1>3. ASSUME NEW r \in Request, InsertVersion(r) PROVE PublishedInv'
    <2>1. req[r] \in InFlight
      BY <1>3, RequestShape DEF InsertVersion, At
    <2>. QED  BY <1>0, <1>3, <2>1 DEF InsertVersion, AfterVersion, Goto, End, InFlight, NoRequest
  <1>4. ASSUME NEW r \in Request,
               \/ CreateCustomer(r) \/ AssignPlan(r) \/ EnsureBillingPeriod(r) \/ CheckLimit(r)
               \/ StartClose(r) \/ LockClose(r) \/ OpenNew(r) \/ Fail(r)
        PROVE  PublishedInv'
    <2>1. req[r] \in InFlight /\ req[r].step # "idle"
      BY <1>4, RequestShape DEF CreateCustomer, AssignPlan, EnsureBillingPeriod, CheckLimit,
              StartClose, LockClose, OpenNew, Fail, At
    <2>2. published' = published /\ \A q \in Request \ {r} : req'[q] = req[q]
      BY <1>0, <1>4 DEF CreateCustomer, AssignPlan, EnsureBillingPeriod, CheckLimit,
              StartClose, LockClose, OpenNew, Fail, Goto, End
    <2>3. Fail(r) \/ req[r].step \notin {"version", "insert"}
      BY <1>4 DEF CreateCustomer, AssignPlan, EnsureBillingPeriod, CheckLimit,
              StartClose, LockClose, OpenNew, At
    <2>4. req'[r] = NoRequest \/ req'[r].plan = req[r].plan
      BY <1>0, <1>4, <2>1 DEF CreateCustomer, AssignPlan, EnsureBillingPeriod, CheckLimit,
              StartClose, LockClose, OpenNew, Fail, Goto, End, InFlight
    <2>5. Fail(r) => req'[r] = NoRequest
      BY <1>0 DEF Fail, End
    <2>. QED  BY <2>1, <2>2, <2>3, <2>4, <2>5 DEF NoRequest
  <1>5. CASE Advance \/ UNCHANGED vars
    BY <1>5 DEF Advance, vars
  <1>. QED  BY <1>1, <1>2, <1>3, <1>4, <1>5 DEF Next, Handle

\* change_plan's row lock: what a request is closing stays open until it commits.
LEMMA NextLock == DataTypes /\ LockInv /\ [Next]_vars => LockInv'
  <1> SUFFICES ASSUME DataTypes, LockInv, [Next]_vars PROVE LockInv'
    OBVIOUS
  <1>0. req \in [Request -> InFlight \cup {NoRequest}]
    BY DEF DataTypes
  <1>1. ASSUME NEW r \in Request, req'[r].step \notin {"lock", "open"},
               \A q \in Request \ {r} : req'[q] = req[q], assignments \subseteq assignments'
        PROVE  LockInv'
    <2>1. LockedBy(r)' = {} /\ \A q \in Request \ {r} : LockedBy(q)' = LockedBy(q)
      BY <1>1 DEF LockedBy, At
    <2>2. OpenAssignments(assignments) \subseteq OpenAssignments(assignments')
      BY <1>1 DEF OpenAssignments
    <2>3. ASSUME NEW q \in Request \ {r}, req[q].step = "open"
          PROVE  /\ req[q].closing \subseteq OpenAssignments(assignments')
                 /\ \A p \in Request \ {q} : LockedBy(p)' \cap req[q].closing = {}
      BY <2>1, <2>2, <2>3 DEF LockInv
    <2>. QED  BY <1>1, <2>3 DEF LockInv
  <1>2. ASSUME NEW r \in Request, NEW plan \in Plan, Provision(r, plan) \/ ChangePlan(r, plan)
        PROVE  LockInv'
    <2>1. req'[r].step = "version" /\ \A q \in Request \ {r} : req'[q] = req[q]
      BY <1>0, <1>2 DEF Provision, ChangePlan, Begin
    <2>. QED  BY <1>1, <1>2, <2>1 DEF Provision, ChangePlan, Begin
  <1>3. ASSUME NEW r \in Request,
               \/ FindVersion(r) \/ InsertVersion(r) \/ CreateCustomer(r) \/ AssignPlan(r)
               \/ EnsureBillingPeriod(r) \/ CheckLimit(r) \/ Fail(r)
        PROVE  LockInv'
    <2>1. \A q \in Request \ {r} : req'[q] = req[q]
      BY <1>0, <1>3 DEF FindVersion, InsertVersion, AfterVersion, CreateCustomer, AssignPlan,
              EnsureBillingPeriod, CheckLimit, Fail, Goto, End
    <2>2. req[r] \in InFlight
      BY <1>3, RequestShape DEF FindVersion, InsertVersion, CreateCustomer, AssignPlan,
              EnsureBillingPeriod, CheckLimit, Fail, At, Active
    <2>3. req'[r].step \notin {"lock", "open"}
      BY <1>0, <1>3, <2>2 DEF FindVersion, InsertVersion, AfterVersion, CreateCustomer,
              AssignPlan, EnsureBillingPeriod, CheckLimit, Fail, Goto, End, NoRequest, InFlight
    <2>4. assignments \subseteq assignments'
      BY <1>3 DEF FindVersion, InsertVersion, CreateCustomer, AssignPlan,
              EnsureBillingPeriod, CheckLimit, Fail
    <2>. QED  BY <1>1, <2>1, <2>3, <2>4
  <1>4. ASSUME NEW r \in Request, StartClose(r) PROVE LockInv'
    <2>1. req[r] \in InFlight
      BY <1>4, RequestShape DEF StartClose, At
    <2>2. /\ req'[r].step = "lock" /\ req'[r].saw = OpenAssignments(assignments)
          /\ \A q \in Request \ {r} : req'[q] = req[q]
          /\ assignments' = assignments
      BY <1>0, <1>4, <2>1 DEF StartClose, InFlight
    <2>3. LockedBy(r)' = {} /\ \A q \in Request \ {r} : LockedBy(q)' = LockedBy(q)
      BY <2>2 DEF LockedBy, At
    <2>4. \A a \in req'[r].saw : a.to = Unbounded
      BY <2>2 DEF OpenAssignments
    <2>5. ASSUME NEW q \in Request \ {r}, req[q].step = "open"
          PROVE  /\ req[q].closing \subseteq OpenAssignments(assignments')
                 /\ \A p \in Request \ {q} : LockedBy(p)' \cap req[q].closing = {}
      BY <2>2, <2>3, <2>5 DEF LockInv
    <2>. QED  BY <2>2, <2>4, <2>5 DEF LockInv
  <1>5. ASSUME NEW r \in Request, LockClose(r) PROVE LockInv'
    <2>1. req[r] \in InFlight /\ req[r].step = "lock"
      BY <1>5, RequestShape DEF LockClose, At
    <2>2. assignments' = assignments /\ \A q \in Request \ {r} : req'[q] = req[q]
      BY <1>0, <1>5 DEF LockClose, End
    <2>3. CASE req'[r] = NoRequest
      BY <1>1, <2>2, <2>3 DEF NoRequest
    <2>4. CASE req'[r] # NoRequest
      <3>1. /\ req'[r].step = "open" /\ req'[r].saw = req[r].saw
            /\ req'[r].closing = req[r].saw \cap assignments
        BY <1>0, <1>5, <2>1, <2>4 DEF LockClose, End, InFlight
      <3>2. LockedBy(r)' = req[r].saw \cap assignments
            /\ \A q \in Request \ {r} : LockedBy(q)' = LockedBy(q)
        BY <2>2, <3>1 DEF LockedBy, At
      <3>3. \A a \in req[r].saw : a.to = Unbounded
        BY <2>1 DEF LockInv
      <3>4. req'[r].closing \subseteq OpenAssignments(assignments')
        BY <2>2, <3>1, <3>3 DEF OpenAssignments
      <3>5. \A q \in Request \ {r} : LockedBy(q) \cap req[r].saw = {}
        BY <1>5 DEF LockClose, Active, LockedBy, At
      <3>6. \A q \in Request \ {r} : LockedBy(q)' \cap req'[r].closing = {}
        BY <3>1, <3>2, <3>5
      <3>7. ASSUME NEW q \in Request \ {r}, req[q].step = "open"
            PROVE  /\ req[q].closing \subseteq OpenAssignments(assignments')
                   /\ \A p \in Request \ {q} : LockedBy(p)' \cap req[q].closing = {}
        <4>1. LockedBy(q) = req[q].closing
          BY <3>7 DEF LockedBy, At
        <4>2. LockedBy(r)' \cap req[q].closing = {}
          BY <3>2, <3>5, <4>1
        <4>. QED  BY <2>2, <3>2, <3>7, <4>2 DEF LockInv
      <3>. QED  BY <2>2, <3>1, <3>3, <3>4, <3>6, <3>7 DEF LockInv
    <2>. QED  BY <2>3, <2>4
  <1>6. ASSUME NEW r \in Request, OpenNew(r) PROVE LockInv'
    <2>1. req[r].step = "open" /\ req'[r] = NoRequest
          /\ \A q \in Request \ {r} : req'[q] = req[q]
      BY <1>0, <1>6 DEF OpenNew, End, At
    <2>2. LockedBy(r)' = {} /\ \A q \in Request \ {r} : LockedBy(q)' = LockedBy(q)
      BY <2>1 DEF LockedBy, At, NoRequest
    <2>3. assignments \ req[r].closing \subseteq assignments'
      BY <1>6 DEF OpenNew
    <2>4. LockedBy(r) = req[r].closing
      BY <2>1 DEF LockedBy, At
    <2>5. ASSUME NEW q \in Request \ {r}, req[q].step = "open"
          PROVE  /\ req[q].closing \subseteq OpenAssignments(assignments')
                 /\ \A p \in Request \ {q} : LockedBy(p)' \cap req[q].closing = {}
      <3>1. req[q].closing \subseteq OpenAssignments(assignments)
            /\ \A p \in Request \ {q} : LockedBy(p) \cap req[q].closing = {}
        BY <2>5 DEF LockInv
      <3>2. req[q].closing \cap req[r].closing = {}
        BY <2>4, <3>1
      <3>3. req[q].closing \subseteq OpenAssignments(assignments')
        BY <2>3, <3>1, <3>2 DEF OpenAssignments
      <3>. QED  BY <2>2, <3>1, <3>3
    <2>. QED  BY <2>1, <2>5 DEF LockInv, NoRequest
  <1>7. CASE Advance \/ UNCHANGED vars
    BY <1>7 DEF Advance, vars, LockInv, LockedBy, At
  <1>. QED  BY <1>2, <1>3, <1>4, <1>5, <1>6, <1>7 DEF Next, Handle

----------------------------------------------------------------------------
(* Room.                                                                   *)

\* The sets that are counted are finite.
LEMMA PendingFinite ==
    ASSUME NEW S, S \subseteq Request
    PROVE  IsFiniteSet(S) /\ Cardinality(S) \in Nat
  BY FS_Subset, FS_CardinalityType, PlansAssumption

\* A request that only moves on takes no more room.
LEMMA RoomKept ==
    ASSUME RoomInv, assignments' = assignments, Pending' \subseteq Pending
    PROVE  RoomInv'
  <1>1. IsFiniteSet(Pending) /\ Cardinality(Pending) \in Nat /\ Cardinality(Pending') \in Nat
    BY PendingFinite DEF Pending
  <1>2. Cardinality(Pending') <= Cardinality(Pending)
    BY <1>1, FS_Subset
  <1>3. Cardinality(assignments) \in Nat /\ MaxAssignments \in Nat
    BY FS_CardinalityType, PlansAssumption DEF RoomInv
  <1>. QED  BY <1>1, <1>2, <1>3 DEF RoomInv

\* A request that adds its assignment gives up its room.
LEMMA RoomTaken ==
    ASSUME RoomInv, NEW r \in Pending, Pending' = Pending \ {r},
           IsFiniteSet(assignments'),
           Cardinality(assignments') <= Cardinality(assignments) + 1
    PROVE  RoomInv'
  <1>1. IsFiniteSet(Pending) /\ Cardinality(Pending) \in Nat
    BY PendingFinite DEF Pending
  <1>2. Cardinality(Pending') = Cardinality(Pending) - 1
    BY <1>1, FS_RemoveElement
  <1>3. Cardinality(assignments) \in Nat /\ Cardinality(assignments') \in Nat
        /\ MaxAssignments \in Nat
    BY FS_CardinalityType, PlansAssumption DEF RoomInv
  <1>. QED  BY <1>1, <1>2, <1>3 DEF RoomInv

\* Closing the open assignment and opening one adds one row.
LEMMA OneMore ==
    ASSUME DataTypes, RoomInv, Allowed(assignments), NEW at, NEW new,
           NEW closing, closing \subseteq OpenAssignments(assignments)
    PROVE  LET rows == Replaced(assignments, closing, at, new)
           IN  IsFiniteSet(rows) /\ Cardinality(rows) <= Cardinality(assignments) + 1
  <1>. DEFINE rows == Replaced(assignments, closing, at, new)
  <1>1. IsFiniteSet(assignments) /\ Cardinality(assignments) \in Nat
    BY FS_CardinalityType DEF RoomInv
  <1>2. \A a, b \in closing : a = b
    BY DEF OpenAssignments, Allowed, Overlap
  <1>3. CASE closing = {}
    <2>1. rows = assignments \cup {new}
      BY <1>3 DEF Replaced
    <2>. QED  BY <1>1, <2>1, FS_AddElement
  <1>4. CASE closing # {}
    <2>1. PICK a \in assignments : closing = {a}
      BY <1>2, <1>4 DEF OpenAssignments
    <2>. DEFINE left == assignments \ {a}
                moved == left \cup {ClosedAt(a, at)}
    <2>2. rows = moved \cup {new}
      BY <2>1 DEF Replaced
    <2>3. IsFiniteSet(left) /\ Cardinality(left) = Cardinality(assignments) - 1
      BY <1>1, <2>1, FS_RemoveElement
    <2>4. Cardinality(left) \in Nat
      BY <2>3, FS_CardinalityType
    <2>. HIDE DEF left
    <2>5. IsFiniteSet(moved) /\ Cardinality(moved) <= Cardinality(left) + 1
      BY <2>3, <2>4, FS_AddElement
    <2>6. Cardinality(moved) \in Nat
      BY <2>5, FS_CardinalityType
    <2>. HIDE DEF moved
    <2>7. IsFiniteSet(moved \cup {new}) /\ Cardinality(moved \cup {new}) <= Cardinality(moved) + 1
      BY <2>5, <2>6, FS_AddElement
    <2>8. Cardinality(moved \cup {new}) \in Nat
      BY <2>7, FS_CardinalityType
    <2>. HIDE DEF rows
    <2>9. Cardinality(rows) <= Cardinality(assignments) + 1 /\ IsFiniteSet(rows)
      BY <1>1, <2>2, <2>3, <2>4, <2>5, <2>6, <2>7, <2>8
    <2>. QED  BY <2>9 DEF rows
  <1>. QED  BY <1>3, <1>4

\* What leaves the pending requests: a step that keeps the others as they are.
LEMMA PendingMoves ==
    ASSUME NEW r \in Request, \A q \in Request \ {r} : req'[q] = req[q]
    PROVE  /\ req'[r].step \in {"idle", "period"} => Pending' = Pending \ {r}
           /\ r \in Pending => Pending' \subseteq Pending
           /\ Pending' \subseteq Pending \cup {r}
  BY DEF Pending

\* The customer's rows keep their room, and the plans cover the time.
LEMMA NextRoom ==
    DataTypes /\ RoomInv /\ LockInv /\ Allowed(assignments) /\ [Next]_vars => RoomInv'
  <1> SUFFICES ASSUME DataTypes, RoomInv, LockInv, Allowed(assignments), [Next]_vars
               PROVE  RoomInv'
    OBVIOUS
  <1>0. req \in [Request -> InFlight \cup {NoRequest}]
    BY DEF DataTypes
  <1>1. ASSUME NEW r \in Request, NEW plan \in Plan, Provision(r, plan) \/ ChangePlan(r, plan)
        PROVE  RoomInv'
    <2>1. /\ Cardinality(assignments) + Cardinality(Active) < MaxAssignments
          /\ req[r].step = "idle" /\ assignments' = assignments
          /\ \A q \in Request \ {r} : req'[q] = req[q]
      BY <1>0, <1>1 DEF Provision, ChangePlan, Begin, At
    <2>2. Pending' \subseteq Pending \cup {r} /\ r \notin Pending
      BY <2>1, PendingMoves DEF Pending
    <2>3. Pending \in SUBSET Active /\ IsFiniteSet(Active)
          /\ Cardinality(Active) \in Nat /\ Cardinality(Pending) \in Nat
          /\ IsFiniteSet(Pending) /\ Cardinality(Pending') \in Nat
      BY PendingFinite DEF Pending, Active
    <2>4. Cardinality(Pending) <= Cardinality(Active)
      BY <2>3, FS_Subset
    <2>5. IsFiniteSet(Pending \cup {r}) /\ Cardinality(Pending \cup {r}) = Cardinality(Pending) + 1
      BY <2>2, <2>3, FS_AddElement
    <2>6. Cardinality(Pending') <= Cardinality(Pending) + 1
      <3>1. Pending' \in SUBSET (Pending \cup {r})
        BY <2>2
      <3>. QED  BY <2>5, <3>1, FS_Subset
    <2>7. Cardinality(assignments) \in Nat /\ MaxAssignments \in Nat
      BY FS_CardinalityType, PlansAssumption DEF RoomInv
    <2>. QED  BY <2>1, <2>3, <2>4, <2>6, <2>7 DEF RoomInv
  <1>2. ASSUME NEW r \in Request,
               \/ FindVersion(r) \/ InsertVersion(r) \/ CreateCustomer(r)
               \/ CheckLimit(r) \/ StartClose(r) \/ LockClose(r)
        PROVE  RoomInv'
    <2>1. r \in Pending
      BY <1>2 DEF FindVersion, InsertVersion, CreateCustomer, CheckLimit, StartClose,
              LockClose, At, Pending
    <2>2. assignments' = assignments /\ \A q \in Request \ {r} : req'[q] = req[q]
      BY <1>0, <1>2 DEF FindVersion, InsertVersion, AfterVersion, CreateCustomer, CheckLimit,
              StartClose, LockClose, Goto, End
    <2>. QED  BY <2>1, <2>2, PendingMoves, RoomKept
  <1>3. ASSUME NEW r \in Request, EnsureBillingPeriod(r) \/ Fail(r) PROVE RoomInv'
    <2>1. req'[r].step = "idle" /\ assignments' = assignments
          /\ \A q \in Request \ {r} : req'[q] = req[q]
      BY <1>0, <1>3 DEF EnsureBillingPeriod, Fail, End, NoRequest
    <2>. QED  BY <2>1, PendingMoves, RoomKept
  <1>4. ASSUME NEW r \in Request, AssignPlan(r) PROVE RoomInv'
    <2>1. req[r] \in InFlight /\ r \in Pending
      BY <1>4, RequestShape DEF AssignPlan, At, Pending
    <2>2. req'[r].step \in {"idle", "period"} /\ \A q \in Request \ {r} : req'[q] = req[q]
      BY <1>0, <1>4, <2>1 DEF AssignPlan, Goto, End, NoRequest, InFlight
    <2>3. IsFiniteSet(assignments) /\ Cardinality(assignments) \in Nat
      BY FS_CardinalityType DEF RoomInv
    <2>4. assignments' \in {assignments, assignments \cup {NewAssignment(r)}}
      BY <1>4 DEF AssignPlan
    <2>5. IsFiniteSet(assignments') /\ Cardinality(assignments') <= Cardinality(assignments) + 1
      BY <2>3, <2>4, FS_AddElement
    <2>. QED  BY <2>1, <2>2, <2>5, PendingMoves, RoomTaken
  <1>5. ASSUME NEW r \in Request, OpenNew(r) PROVE RoomInv'
    <2>1. r \in Pending /\ req[r].closing \subseteq OpenAssignments(assignments)
      BY <1>5 DEF OpenNew, At, Pending, LockInv
    <2>2. req'[r].step = "idle" /\ \A q \in Request \ {r} : req'[q] = req[q]
      BY <1>0, <1>5 DEF OpenNew, End, NoRequest
    <2>3. \/ assignments' = assignments
          \/ assignments' = Replaced(assignments, req[r].closing, req[r].at, NewAssignment(r))
      BY <1>5 DEF OpenNew, Replaced
    <2>4. IsFiniteSet(assignments) /\ Cardinality(assignments) \in Nat
      BY FS_CardinalityType DEF RoomInv
    <2>5. IsFiniteSet(assignments') /\ Cardinality(assignments') <= Cardinality(assignments) + 1
      BY <2>1, <2>3, <2>4, OneMore
    <2>. QED  BY <2>1, <2>2, <2>5, PendingMoves, RoomTaken
  <1>6. CASE Advance \/ UNCHANGED vars
    BY <1>6, RoomKept DEF Advance, vars, Pending
  <1>. QED  BY <1>1, <1>2, <1>3, <1>4, <1>5, <1>6 DEF Next, Handle

\* The exclusion constraint and one transaction for closing and opening keep the
\* plans apart and without a gap.
LEMMA NextCovered ==
    DataTypes /\ LockInv /\ Allowed(assignments) /\ Covered /\ [Next]_vars
        => Allowed(assignments)' /\ Covered'
  <1> SUFFICES ASSUME DataTypes, LockInv, Allowed(assignments), Covered, [Next]_vars
               PROVE  Allowed(assignments') /\ Covered'
    OBVIOUS
  <1>1. CASE assignments' = assignments
    BY <1>1 DEF Covered
  <1>2. ASSUME NEW r \in Request, NEW closing,
               req[r] \in InFlight, closing \subseteq OpenAssignments(assignments),
               assignments' = Replaced(assignments, closing, req[r].at, NewAssignment(r)),
               Accepted(assignments')
        PROVE  Allowed(assignments') /\ Covered'
    <2>1. req[r].at \in Int
      BY <1>2, PlansAssumption DEF InFlight
    <2>2. NewAssignment(r) \in Assignment /\ NewAssignment(r).from = req[r].at
          /\ NewAssignment(r).to = Unbounded
      BY <1>2 DEF NewAssignment, Assignment, InFlight
    <2>3. closing \subseteq Assignment /\ assignments \subseteq Assignment
          /\ \A a \in closing : a.to = Unbounded
      BY <1>2 DEF OpenAssignments, DataTypes
    <2>4. \A t \in Instants :
            (\E a \in assignments : a.from <= t) => \E a \in assignments : InEffect(a, t)
      BY DEF Covered
    <2>5. \A t \in Instants :
            (\E a \in assignments' : a.from <= t) => \E a \in assignments' : InEffect(a, t)
      BY <1>2, <2>1, <2>2, <2>3, <2>4, NoGap
    <2>. QED  BY <1>2, <2>5 DEF Covered, Accepted
  <1>3. ASSUME NEW r \in Request, AssignPlan(r)
        PROVE  Allowed(assignments') /\ Covered'
    <2>1. req[r] \in InFlight
      BY <1>3, RequestShape DEF AssignPlan, At
    <2>2. CASE assignments' = assignments \cup {NewAssignment(r)} /\ Accepted(assignments')
      <3>1. assignments' = Replaced(assignments, {}, req[r].at, NewAssignment(r))
        BY <2>2 DEF Replaced
      <3>. QED  BY <1>2, <2>1, <2>2, <3>1
    <2>. QED  BY <1>1, <1>3, <2>2 DEF AssignPlan
  <1>4. ASSUME NEW r \in Request, OpenNew(r)
        PROVE  Allowed(assignments') /\ Covered'
    <2>1. req[r] \in InFlight /\ req[r].closing \subseteq OpenAssignments(assignments)
      BY <1>4, RequestShape DEF OpenNew, At, LockInv
    <2>2. CASE /\ assignments' = Replaced(assignments, req[r].closing, req[r].at,
                                           NewAssignment(r))
               /\ Accepted(assignments')
      BY <1>2, <2>1, <2>2
    <2>3. \/ assignments' = assignments
          \/ /\ assignments' = Replaced(assignments, req[r].closing, req[r].at,
                                         NewAssignment(r))
             /\ Accepted(assignments')
      BY <1>4 DEF OpenNew, Replaced
    <2>. QED  BY <1>1, <2>2, <2>3
  <1>5. CASE assignments' # assignments
    <2>1. \E r \in Request : AssignPlan(r) \/ OpenNew(r)
      BY <1>5 DEF Next, Handle, Advance, Provision, ChangePlan, Begin, FindVersion,
              InsertVersion, CreateCustomer, EnsureBillingPeriod, CheckLimit, StartClose,
              LockClose, Fail, vars
    <2>. QED  BY <1>3, <1>4, <2>1
  <1>. QED  BY <1>1, <1>5

\* Only a version's insertion changes what is published, and adds to it; only
\* AssignPlan and OpenNew change the assignments.
LEMMA RowsChange ==
    ASSUME DataTypes, LockInv, [Next]_vars
    PROVE  /\ published \subseteq published'
           /\ \/ assignments' = assignments
              \/ /\ published' = published /\ now' = now
                 /\ \E r \in Request :
                       \E closing \in SUBSET OpenAssignments(assignments) :
                          /\ req[r] \in InFlight /\ req[r].step # "idle"
                          /\ assignments' = Replaced(assignments, closing, req[r].at,
                                                     NewAssignment(r))
                          /\ Accepted(assignments')
  <1>1. published \subseteq published'
    BY DEF Next, Handle, Advance, Provision, ChangePlan, Begin, FindVersion, InsertVersion,
           CreateCustomer, AssignPlan, EnsureBillingPeriod, CheckLimit, StartClose, LockClose,
           OpenNew, Fail, vars
  <1>2. ASSUME assignments' # assignments
        PROVE  \E r \in Request : AssignPlan(r) \/ OpenNew(r)
    BY <1>2 DEF Next, Handle, Advance, Provision, ChangePlan, Begin, FindVersion,
           InsertVersion, CreateCustomer, EnsureBillingPeriod, CheckLimit, StartClose,
           LockClose, Fail, vars
  <1>3. ASSUME NEW r \in Request, AssignPlan(r), assignments' # assignments
        PROVE  /\ published' = published /\ now' = now
               /\ req[r] \in InFlight /\ req[r].step # "idle"
               /\ assignments' = Replaced(assignments, {}, req[r].at, NewAssignment(r))
               /\ Accepted(assignments')
    BY <1>3, RequestShape DEF AssignPlan, At, Replaced
  <1>4. ASSUME NEW r \in Request, OpenNew(r), assignments' # assignments
        PROVE  /\ published' = published /\ now' = now
               /\ req[r].closing \in SUBSET OpenAssignments(assignments)
               /\ req[r] \in InFlight /\ req[r].step # "idle"
               /\ assignments' = Replaced(assignments, req[r].closing, req[r].at,
                                          NewAssignment(r))
               /\ Accepted(assignments')
    <2>1. req[r].step = "open" /\ req[r] \in InFlight
          /\ req[r].closing \in SUBSET OpenAssignments(assignments)
      BY <1>4, RequestShape DEF OpenNew, At, LockInv
    <2>. QED  BY <1>4, <2>1 DEF OpenNew, Replaced
  <1>5. {} \in SUBSET OpenAssignments(assignments)
    OBVIOUS
  <1> HIDE DEF OpenAssignments
  <1>. QED  BY <1>1, <1>2, <1>3, <1>4, <1>5

\* No assignment refers to a draft.
LEMMA NextReferenced ==
    DataTypes /\ LockInv /\ Referenced /\ [Next]_vars => Referenced'
  BY RowsChange DEF Referenced, Accepted

\* Only the clock moves, and forward; a request starts, and closes or opens a row,
\* at the instant it read.
LEMMA NextPast == DataTypes /\ LockInv /\ Past /\ [Next]_vars => Past'
  <1> SUFFICES ASSUME DataTypes, LockInv, Past, [Next]_vars PROVE Past'
    OBVIOUS
  <1>1. /\ req \in [Request -> InFlight \cup {NoRequest}] /\ now \in Int /\ now' \in Int
        /\ now <= now'
    <2>1. now' = now \/ (now' \in Instants /\ now' > now)
      BY DEF Next, Handle, Advance, Provision, ChangePlan, Begin, FindVersion, InsertVersion,
             CreateCustomer, AssignPlan, EnsureBillingPeriod, CheckLimit, StartClose,
             LockClose, OpenNew, Fail, vars
    <2>2. now \in Instants /\ now' \in Instants
      BY <2>1 DEF DataTypes
    <2>3. now \in Int /\ now' \in Int
      BY <2>2, PlansAssumption
    <2>. QED  BY <2>1, <2>3 DEF DataTypes
  <1>2. ASSUME NEW a \in assignments'
        PROVE  a.from <= now' /\ (a.to = Unbounded \/ a.to <= now')
    <2>1. CASE a \in assignments
      <3>1. a.from \in Int /\ (a.to \in Int \/ a.to = Unbounded)
        BY <2>1, PlansAssumption DEF DataTypes, Assignment
      <3>. QED  BY <1>1, <2>1, <3>1 DEF Past
    <2>2. CASE a \notin assignments
      <3>1. PICK r \in Request, closing \in SUBSET OpenAssignments(assignments) :
               /\ req[r] \in InFlight /\ req[r].step # "idle"
               /\ assignments' = Replaced(assignments, closing, req[r].at, NewAssignment(r))
        BY <2>2, RowsChange
      <3>2. req[r].at <= now /\ req[r].at \in Int
        BY <3>1, PlansAssumption DEF Past, Active, InFlight
      <3>3. CASE a = NewAssignment(r)
        BY <1>1, <3>2, <3>3 DEF NewAssignment
      <3>4. CASE a # NewAssignment(r)
        <4>1. PICK c \in closing : a = ClosedAt(c, req[r].at)
          BY <2>2, <3>1, <3>4 DEF Replaced
        <4>2. c \in assignments /\ c \in Assignment /\ c.from \in Int /\ c.from <= now
          BY PlansAssumption DEF OpenAssignments, DataTypes, Assignment, Past
        <4>3. a.from = c.from /\ a.to = req[r].at
          BY <4>1, <4>2 DEF ClosedAt, Assignment
        <4>. QED  BY <1>1, <3>2, <4>2, <4>3
      <3>. QED  BY <3>3, <3>4
    <2>. QED  BY <2>1, <2>2
  <1>3. ASSUME NEW r \in Active'
        PROVE  req'[r].at <= now'
    <2>1. CASE \E plan \in Plan : Provision(r, plan) \/ ChangePlan(r, plan)
      <3>1. req'[r].at = now
        BY <1>1, <2>1 DEF Provision, ChangePlan, Begin, Active
      <3>. QED  BY <1>1, <3>1
    <2>2. ASSUME ~ \E plan \in Plan : Provision(r, plan) \/ ChangePlan(r, plan)
          PROVE  r \in Active /\ req'[r].at = req[r].at
      <3>1. r \in Request /\ req'[r].step # "idle"
        BY DEF Active
      <3>2. CASE req'[r] = req[r]
        BY <3>1, <3>2 DEF Active
      <3>3. CASE req'[r] # req[r]
        <4>1. Handle(r)
          <5>1. ASSUME NEW q \in Request, q # r, Handle(q) PROVE req'[r] = req[r]
            BY <1>1, <3>1, <5>1 DEF Handle, FindVersion, InsertVersion, AfterVersion,
                   CreateCustomer, AssignPlan, EnsureBillingPeriod, CheckLimit, StartClose,
                   LockClose, OpenNew, Fail, Goto, End
          <5>2. ASSUME NEW q \in Request, q # r, NEW plan \in Plan,
                       Provision(q, plan) \/ ChangePlan(q, plan)
                PROVE  req'[r] = req[r]
            BY <1>1, <3>1, <5>2 DEF Provision, ChangePlan, Begin
          <5>3. ~Advance /\ ~UNCHANGED vars
            BY <3>3 DEF Advance, vars
          <5>. QED  BY <2>2, <3>3, <5>1, <5>2, <5>3 DEF Next
        <4>2. req[r].step # "idle" /\ req[r] \in InFlight
          BY <3>1, <4>1, RequestShape DEF Handle, FindVersion, InsertVersion, CreateCustomer,
                 AssignPlan, EnsureBillingPeriod, CheckLimit, StartClose, LockClose, OpenNew,
                 Fail, At, Active
        <4>3. req'[r].at = req[r].at
          BY <1>1, <3>1, <4>1, <4>2 DEF Handle, FindVersion, InsertVersion, AfterVersion,
                 CreateCustomer, AssignPlan, EnsureBillingPeriod, CheckLimit, StartClose,
                 LockClose, OpenNew, Fail, Goto, End, NoRequest, InFlight
        <4>. QED  BY <3>1, <4>2, <4>3 DEF Active
      <3>. QED  BY <3>2, <3>3
    <2>3. r \in Active => req[r].at \in Int /\ req[r].at <= now
      <3>1. ASSUME r \in Active PROVE req[r] \in InFlight /\ req[r].at <= now
        BY <3>1, RequestShape DEF Past, Active
      <3>. QED  BY <3>1, PlansAssumption DEF InFlight
    <2>. QED  BY <1>1, <2>1, <2>2, <2>3
  <1>. QED  BY <1>2, <1>3 DEF Past

----------------------------------------------------------------------------
(* The theorems.                                                           *)

\* The inductive invariant.
THEOREM Invariance == Spec => []IInv
  <1>1. IInv /\ [Next]_vars => IInv'
    BY NextDataTypes, NextPublished, NextReferenced, NextLock, NextRoom, NextCovered, NextPast
       DEF IInv
  <1>. QED  BY <1>1, InitIInv, PTL DEF Spec

\* The state has its types, and no assignment or request refers to a price list
\* that is not published.
THEOREM TypeCorrect == Spec => []TypeOK
  <1>1. IInv => TypeOK
    <2> SUFFICES ASSUME IInv PROVE TypeOK
      OBVIOUS
    <2>1. Cardinality(assignments) <= MaxAssignments
      <3>1. Cardinality(assignments) \in Nat /\ Cardinality(Pending) \in Nat
            /\ MaxAssignments \in Nat
        BY PendingFinite, FS_CardinalityType, PlansAssumption DEF IInv, RoomInv, Pending
      <3>. QED  BY <3>1 DEF IInv, RoomInv
    <2>. QED  BY <2>1 DEF IInv, DataTypes, PublishedInv, Referenced, TypeOK
  <1>. QED  BY <1>1, Invariance, PTL

\* change_plan and provisioning leave the customer on exactly one plan at every
\* instant since its first assignment, for any catalogue, any instants and any
\* number of concurrent requests.
THEOREM OnePlanHolds == Spec => []OnePlanSinceSignup
  <1>1. IInv => OnePlanSinceSignup
    <2> SUFFICES ASSUME IInv, NEW t \in Instants, NEW a \in assignments, a.from <= t
                 PROVE  Cardinality({b \in assignments : InEffect(b, t)}) = 1
      BY DEF OnePlanSinceSignup
    <2>1. PICK b \in assignments : InEffect(b, t)
      BY DEF IInv, Covered
    <2>2. {c \in assignments : InEffect(c, t)} = {b}
      BY <2>1, OneInEffect DEF IInv
    <2>. QED  BY <2>2, FS_Singleton
  <1>. QED  BY <1>1, Invariance, PTL

\* segments.resolve gives a day to the plan in effect at its end, counts none twice
\* and fits the month, in every state between requests.
THEOREM DaysGoHolds == Spec => []DaysGoToTheLastPlan
  <1>1. IInv => DaysGoToTheLastPlan
    BY DaysGo DEF IInv, RoomInv
  <1>. QED  BY <1>1, Invariance, PTL

\* However a month is split, the prorated fees and allowances are the days' share up
\* to one unit a segment, every unit has the price of the first band whose exact share
\* it begins in, and each part is a valid price list, for any valid price lists
\* (Ladders is any set of them).
THEOREM ProrationBoundedHolds == Spec => []ProrationIsBounded
  <1>1. IInv => ProrationIsBounded
    BY ProrationBounded DEF IInv, RoomInv
  <1>. QED  BY <1>1, Invariance, PTL

\* The database publishes the ladders the rating code accepts, and rate prices
\* every unit by its band, for any price lists and quantities.
THEOREM RateIsUnitByUnitHolds == Spec => []RateIsUnitByUnit
  <1>1. IInv => RateIsUnitByUnit
    BY RateUnits DEF IInv, RoomInv
  <1>. QED  BY <1>1, Invariance, PTL

\* The gate at the threshold that compute publishes serves a request exactly when
\* the bill with it is within the limit, whatever plan changes the month has had, for any
\* launch catalogue, limits and usage.
THEOREM ThresholdIsExactHolds == Spec => []ThresholdIsExact
  <1>1. IInv => ThresholdIsExact
    BY ThresholdExact DEF IInv, RoomInv
  <1>. QED  BY <1>1, Invariance, PTL
=============================================================================
