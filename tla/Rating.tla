------------------------------- MODULE Rating -------------------------------
(***************************************************************************)
(* The pure arithmetic of a charge (meter.domain): a price list, the       *)
(* marginal band ladder, its inversion, and proration by whole days.       *)
(*                                                                         *)
(* Money and quantities are integers here as in the code. A charge is its  *)
(* fee, its included units and one line per band used; descriptions, names *)
(* and version labels are left out. No operator is RECURSIVE: the code's   *)
(* loops over bands are left folds with the loop's variables as the fold's *)
(* state.                                                                  *)
(***************************************************************************)
EXTENDS Integers, Sequences, SequencesExt

CONSTANT Unbounded \* a band without an upper bound (up_to is None)

ASSUME UnboundedAssumption == Unbounded \notin Int

Smaller(a, b) == IF a <= b THEN a ELSE b

\* Band and PriceList: their fields, valid or not.
Band == [upTo : Int \cup {Unbounded}, price : Int]
PriceList == [fee : Int, included : Int, bands : Seq(Band)]

----------------------------------------------------------------------------
(* plans.py: what a price list must be.                                    *)

\* Band.__post_init__: a price that is not negative, a bound that covers a unit.
ValidBand(band) ==
    /\ band.price >= 0
    /\ band.upTo = Unbounded \/ band.upTo > 0

\* PriceList.__post_init__: only the last band is unbounded, the bounds
\* strictly increase.
ValidPriceList(list) ==
    LET bands == list.bands
        last == Len(bands)
    IN /\ list.fee >= 0 /\ list.included >= 0
       /\ \A i \in 1 .. last : ValidBand(bands[i])
       /\ last > 0 /\ bands[last].upTo = Unbounded
       /\ \A i \in 1 .. last - 1 : bands[i].upTo # Unbounded
       /\ \A i \in 1 .. last - 2 : bands[i].upTo < bands[i + 1].upTo

LastPrice(list) == list.bands[Len(list.bands)].price

\* The body of meter_validate_price_bands_on_publish's loop over the bands. The
\* bands of a list are inserted with their position as band_index.
ValidateBand(seen, band) ==
    [ok |-> /\ seen.ok
            /\ ~seen.unbounded
            /\ \/ band.upTo = Unbounded
               \/ seen.prev = Unbounded \* no bound seen yet
               \/ band.upTo > seen.prev,
     unbounded |-> band.upTo = Unbounded,
     prev |-> IF band.upTo = Unbounded THEN seen.prev ELSE band.upTo]

\* What the database lets be published: the CHECKs of the version and of each
\* band, then the trigger over the whole ladder.
PublishAccepts(list) ==
    LET walked == FoldLeft(ValidateBand,
                           [ok |-> TRUE, unbounded |-> FALSE, prev |-> Unbounded],
                           list.bands)
    IN /\ list.fee >= 0 /\ list.included >= 0
       /\ \A i \in DOMAIN list.bands : ValidBand(list.bands[i])
       /\ list.bands # <<>>
       /\ walked.ok /\ walked.unbounded

----------------------------------------------------------------------------
(* rating.py: rate and max_quantity_within.                                *)

Line(quantity, price) == [quantity |-> quantity, price |-> price]

\* Mutant: a band's capacity is its bound, not what is left of it.
TakeToBound(charge, band) ==
    LET take == IF band.upTo = Unbounded THEN charge.remaining
                ELSE Smaller(charge.remaining, band.upTo)
    IN IF charge.remaining <= 0 \/ take <= 0
       THEN charge
       ELSE [remaining |-> charge.remaining - take,
             consumed |-> charge.consumed + take,
             lines |-> Append(charge.lines, Line(take, band.price))]

\* The body of rate's loop: a band takes what remains, up to its capacity.
TakeBand(charge, band) ==
    LET capacity == IF band.upTo = Unbounded THEN charge.remaining
                    ELSE band.upTo - charge.consumed
        take == Smaller(charge.remaining, capacity)
    IN IF charge.remaining <= 0 \/ take <= 0
       THEN charge
       ELSE [remaining |-> charge.remaining - take,
             consumed |-> charge.consumed + take,
             lines |-> Append(charge.lines, Line(take, band.price))]

IncludedUsed(quantity, list) == Smaller(quantity, list.included)

\* The usage lines of rate(quantity, list), in band order.
UsageLines(quantity, list) ==
    FoldLeft(TakeBand,
             [remaining |-> quantity - IncludedUsed(quantity, list),
              consumed |-> 0, lines |-> <<>>],
             list.bands).lines

LinesTotal(lines) == SumFunction([i \in DOMAIN lines |-> lines[i].quantity * lines[i].price])
LinesQuantity(lines) == SumFunction([i \in DOMAIN lines |-> lines[i].quantity])

\* Charge.total_paisa: the fee line, the included line at zero, the usage lines.
Rate(quantity, list) == list.fee + LinesTotal(UsageLines(quantity, list))

\* The ValueError of a limit no quantity can reach.
NoFiniteQuantity == -1

\* The body of max_quantity_within's loop. A free band is passed through when
\* it is bounded and has no answer when it is not.
StepBudget(walk, band) ==
    LET bounded == band.upTo # Unbounded
        capacity == band.upTo - walk.consumed
        affordable == walk.budget \div band.price
        through == [done |-> FALSE, quantity |-> walk.quantity + capacity,
                    consumed |-> walk.consumed + capacity,
                    budget |-> walk.budget - capacity * band.price]
        ended(quantity) == [done |-> TRUE, quantity |-> quantity,
                            consumed |-> walk.consumed, budget |-> walk.budget]
    IN CASE walk.done -> walk
         [] ~walk.done /\ band.price = 0 /\ ~bounded -> ended(NoFiniteQuantity)
         [] ~walk.done /\ bounded /\ (band.price = 0 \/ affordable >= capacity) -> through
         [] OTHER -> ended(walk.quantity + affordable)

MaxQuantityWithin(budget, list) ==
    IF budget < list.fee
    THEN 0
    ELSE FoldLeft(StepBudget,
                  [done |-> FALSE, quantity |-> list.included, consumed |-> 0,
                   budget |-> budget - list.fee],
                  list.bands).quantity

----------------------------------------------------------------------------
(* proration.py: a price list for part of a month.                         *)

\* A fee rounds down, an allowance and a band bound round up.
ProrateFee(fee, days, daysInMonth) == (fee * days) \div daysInMonth

ProrateAllowance(quantity, days, daysInMonth) ==
    (quantity * days + daysInMonth - 1) \div daysInMonth

\* Mutant: a band bound is rounded down.
ProrateBandDown(band, days, daysInMonth) ==
    IF band.upTo = Unbounded THEN band
    ELSE [band EXCEPT !.upTo = (@ * days) \div daysInMonth]

ProrateBand(band, days, daysInMonth) ==
    IF band.upTo = Unbounded THEN band
    ELSE [band EXCEPT !.upTo = ProrateAllowance(@, days, daysInMonth)]

\* The body of _prorated_bands' loop, on prorated bands: a band left without
\* width is dropped.
KeepBand(ladder, band) ==
    IF band.upTo = Unbounded
    THEN [ladder EXCEPT !.kept = Append(@, band)]
    ELSE IF band.upTo <= ladder.previous
         THEN ladder
         ELSE [kept |-> Append(ladder.kept, band), previous |-> band.upTo]

ProratedBands(bands, days, daysInMonth) ==
    FoldLeft(KeepBand, [kept |-> <<>>, previous |-> 0],
             [i \in DOMAIN bands |-> ProrateBand(bands[i], days, daysInMonth)]).kept

Prorate(list, days, daysInMonth) ==
    [fee |-> ProrateFee(list.fee, days, daysInMonth),
     included |-> ProrateAllowance(list.included, days, daysInMonth),
     bands |-> ProratedBands(list.bands, days, daysInMonth)]

\* rate_period over segments [list, days, quantity]: each rated on its own
\* prorated ladder; refused (a ValueError) when the days do not fit the month.
SegmentsFit(segments, daysInMonth) ==
    /\ segments # <<>>
    /\ SumFunction([i \in DOMAIN segments |-> segments[i].days]) <= daysInMonth

SegmentCharge(segment, daysInMonth) ==
    Rate(segment.quantity, Prorate(segment.list, segment.days, daysInMonth))

RatePeriod(segments, daysInMonth) ==
    SumFunction([i \in DOMAIN segments |-> SegmentCharge(segments[i], daysInMonth)])
=============================================================================
