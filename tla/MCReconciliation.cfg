SPECIFICATION FairReconcileSpec
CONSTANTS
    w1 = w1
    loop = loop
    monday = monday
    Worker = {w1}
    Task = {loop}
    Home <- OneLoop
    Watchdog = {}
    Cell = {monday}
    Malformed = Malformed
    NoWorker = NoWorker
    BatchSize = 2
    MaxEntries = 2
    MaxFaults = 1
INVARIANTS ConvergedIsComplete ZeroMeansDelivered
PROPERTIES CloseConverges
CHECK_DEADLOCK FALSE
