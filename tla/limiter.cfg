SPECIFICATION Spec
CONSTANTS
    c1 = c1
    c2 = c2
    candles = candles
    mids = mids
    Callers <- MCCallers
    Endpoints <- MCEndpoints
    EndpointWeights <- MCEndpointWeights
    Requested <- MCRequested
    CapacityPerMinute = 2
    DefaultWeight = 2
    Grain = 1
    Rate = 1
    BaseCooldown = 1
    MaxCooldown = 2
    SleepCap = 1
    MaxWindow = 2
SYMMETRY CallerSymmetry
INVARIANTS
    TypeOK
    QueueDepthExact
    WindowBound
PROPERTIES
    PauseNeverShortened
    ImplementsTokenBucket
