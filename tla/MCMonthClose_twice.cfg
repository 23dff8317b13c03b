SPECIFICATION Spec
CONSTANTS
    loop = loop
    ops = ops
    Months = 3
    Scheduler = {loop}
    Ops = {ops}
    MaxUsage = 2
    MaxCloses = 3
    MaxFaults = 0
INVARIANTS NeverBilledTwice
CHECK_DEADLOCK FALSE
