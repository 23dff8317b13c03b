SPECIFICATION Spec
CONSTANTS
    Unbounded = Unbounded
    Request = {r1, r2}
    Plan <- MCPlan
    PriceListOf <- MCPriceListOf
    DaysInMonth = 30
    Instants <- MCInstants
    Limits <- MCLimits
    Quantities <- MCQuantities
    Ladders <- MCLadders
    Listed = {"Deal"}
    MaxAssignments = 3
SYMMETRY Symmetry
INVARIANTS
    TypeOK
    OnePlanSinceSignup
    DaysGoToTheLastPlan
    ProrationIsBounded
    RateIsUnitByUnit
    ThresholdIsExact
CHECK_DEADLOCK FALSE
