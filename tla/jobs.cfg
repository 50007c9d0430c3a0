SPECIFICATION Spec
CONSTANTS
    p1 = p1
    p2 = p2
    meta = meta
    candles = candles
    Nobody = Nobody
    Procs = {p1, p2}
    Jobs = {meta}
    Returning = {meta}
    TTL = 2
    MaxFaults = 2
    MaxStops = 1
    MaxCrashes = 1
INVARIANTS
    TypeOK
    ExclusiveUntilOverrun
    NoLockLeaks
    RecordsClosed
PROPERTIES
    JobsKeepRunning
    StopCompletes
