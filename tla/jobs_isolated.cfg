SPECIFICATION ServerSpec
CONSTANTS
    p1 = p1
    meta = meta
    candles = candles
    l1 = l1
    Nobody = Nobody
    Procs = {p1}
    Jobs = {meta, candles}
    Returning = {meta}
    TTL = 0
    MaxFaults = 0
    MaxStops = 1
    MaxCrashes = 0
    Listers = {l1}
    MaxConns = 2
    MaxRows = 1
INVARIANTS
    ServerTypeOK
    ConnsAccounted
    LocksFreedBeforeClose
PROPERTIES
    JobsKeepRunning
    StopCompletes
    ListsAnswered
