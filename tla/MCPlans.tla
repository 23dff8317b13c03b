------------------------------ MODULE MCPlans -------------------------------
(***************************************************************************)
(* Model-checking instance of Plans: two admin requests at a time, three   *)
(* assignments, a 30-day month seen from the month before to the month     *)
(* after, on both sides of a local and of a UTC midnight.                  *)
(***************************************************************************)
EXTENDS Plans, TLC

BandOf(upTo, price) == [upTo |-> upTo, price |-> price]

\* Small numbers in the shape of the launch lists: no fee, a fee with two bands,
\* and a negotiated list with a free bounded band.
MCPriceListOf ==
    "Starter" :> [fee |-> 0, included |-> 2, bands |-> <<BandOf(Unbounded, 3)>>]
    @@ "Growth" :> [fee |-> 10, included |-> 4,
                    bands |-> <<BandOf(5, 2), BandOf(Unbounded, 1)>>]
    @@ "Deal" :> [fee |-> 7, included |-> 0,
                  bands |-> <<BandOf(1, 5), BandOf(3, 0), BandOf(Unbounded, 2)>>]

\* The plans that are assigned; the third is rated only.
MCPlan == {"Growth", "Deal"}

\* Hours: the month before; one local day seen on both sides of UTC midnight; the
\* same UTC day after local midnight (19:00 UTC); the month after.
MCInstants == {-30, 24 * 9 + 20, 24 * 10 + 1, 24 * 10 + 20, 24 * 30 + 20}

MCLimits == {4, 9, 16, 23}
MCQuantities == {0, 3, 11}

\* The lists above and the ways of writing a wrong one.
MCLadders ==
    {MCPriceListOf[p] : p \in DOMAIN MCPriceListOf} \cup
    {[fee |-> 5, included |-> 1, bands |-> b] :
        b \in {<<>>, <<BandOf(3, 2)>>, <<BandOf(3, 2), BandOf(3, 1), BandOf(Unbounded, 1)>>,
               <<BandOf(Unbounded, 2), BandOf(4, 1)>>, <<BandOf(Unbounded, 1), BandOf(Unbounded, 1)>>,
               <<BandOf(0, 2), BandOf(Unbounded, 1)>>, <<BandOf(2, -1), BandOf(Unbounded, 1)>>,
               <<BandOf(2, 4), BandOf(6, 3), BandOf(7, 2), BandOf(Unbounded, 1)>>}}

Symmetry == Permutations(Request)
=============================================================================
