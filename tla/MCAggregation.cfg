SPECIFICATION FairSpec
CONSTANTS
    e1 = e1
    e2 = e2
    e3 = e3
    monday = monday
    tuesday = tuesday
    interval = interval
    ops = ops
    close = close
    Event = {e1, e2, e3}
    Cell = {monday, tuesday}
    CellOf <- Days
    Pass = {interval}
    Closer = {close}
    MaxFaults = 3
INVARIANTS TypeOK NeverOvercounts BehindIsExplained
PROPERTIES CloseMakesWhole
