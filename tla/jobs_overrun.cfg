SPECIFICATION Spec
CONSTANTS
    p1 = p1
    p2 = p2
    meta = meta
    candles = candles
    Nobody = Nobody
    Procs = {p1, p2}
    Jobs = {meta}
    Returning = {meta}
    TTL = 1
    MaxFaults = 0
    MaxStops = 0
    MaxCrashes = 0
INVARIANTS
    JobExclusive
