SPECIFICATION Spec
CONSTANTS
    loop = loop
    ops = ops
    Months = 3
    Scheduler = {loop}
    Ops = {ops}
    MaxUsage = 2
    MaxCloses = 3
    MaxFaults = 1
INVARIANTS TypeOK ShortfallIsRecorded DoubleOnlyByRace RerunWithoutLateUsage
PROPERTIES IssuedIsFinal
CHECK_DEADLOCK FALSE
