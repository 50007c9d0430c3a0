SPECIFICATION Spec
CONSTANTS
    r1 = r1
    r2 = r2
    Coins = {1, 2}
    Broken = {1}
    Runners = {r1, r2}
    Series <- MCSeries
    BookOf <- MCBookOf
    TradesOf <- MCTradesOf
    ShortlistSize = 2
    MaxTime = 2
    MaxFaults = 1
INVARIANTS
    TypeOK
    DominanceKept
    LeastLiquidIgnored
    RecordsCountRows
    SummariesAgree
PROPERTIES
    BooksInOrder
    EnrichmentArrives
