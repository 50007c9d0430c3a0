SPECIFICATION Spec
CONSTANTS
    c1 = c1
    c2 = c2
    Coins = {c1, c2}
    Broken = {c2}
    Runners = {1, 2}
    Backfill = 1
    Lookback = 2
    MaxPeriod = 2
    MaxVersion = 2
    MaxFaults = 1
INVARIANTS
    TypeOK
    FeaturesFollowCandles
    FlagsHaveFeatures
PROPERTIES
    CandlesNeverGoBack
    FeaturesNeverGoBack
    CandlesArrive
