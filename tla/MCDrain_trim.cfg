SPECIFICATION Spec
CONSTANTS
    w1 = w1
    w2 = w2
    loop = loop
    close = close
    other = other
    monday = monday
    tuesday = tuesday
    Worker = {w1}
    Task = {loop, close}
    Home <- OneProcess
    Watchdog = {w1}
    Cell = {monday}
    Malformed = Malformed
    NoWorker = NoWorker
    BatchSize = 2
    MaxEntries = 3
    MaxFaults = 1
INVARIANTS TrimSparesPending
