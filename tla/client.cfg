SPECIFICATION Spec
CONSTANTS
    c1 = c1
    c2 = c2
    candles = candles
    book = book
    Callers <- MCCallers
    Endpoints <- MCEndpoints
    EndpointWeights <- MCEndpointWeights
    Requested <- MCRequested
    Requests <- MCRequests
    MaxAttempts = 2
    CapacityPerMinute = 2
    DefaultWeight = 1
    Grain = 2
    Rate = 1
    BaseCooldown = 1
    MaxCooldown = 2
    SleepCap = 1
INVARIANTS
    TypeOK
PROPERTIES
    PausesEnd
    QueueMoves
