------------------------------- MODULE Books -------------------------------
(***************************************************************************)
(* What the tier 3 jobs of internal/ingest/scheduler.go keep of an order   *)
(* book and of a list of recent trades.                                    *)
(*                                                                         *)
(* Prices and sizes are integers.  The mid price appears doubled, so that  *)
(* it is one too; basis points and percentages are rounded down.           *)
(***************************************************************************)
EXTENDS Integers, Sequences, FiniteSetsExt, Functions

SumOver(f) == FoldFunction(+, 0, f)

-----------------------------------------------------------------------------
(* Order books: book.levels is a sequence of up to two sides, bids first,  *)
(* each a sequence of levels with px and sz, best first.                   *)

Levels == Seq([px : Nat \ {0}, sz : Nat \ {0}])
Side(book, i) == IF i <= Len(book.levels) THEN book.levels[i] ELSE <<>>
BestPx(levels) == IF levels = <<>> THEN 0 ELSE levels[1].px

(* Faulty variant: the sign is turned for the asks, not for the bids.      *)
FaultyDepthWithin(levels, mid2, bps, bid) ==
    LET distance(px) == (IF bid THEN 2 * px - mid2 ELSE mid2 - 2 * px) * 10000
        within == {i \in DOMAIN levels :
                     distance(levels[i].px) >= 0
                     /\ distance(levels[i].px) <= bps * mid2}
    IN IF mid2 <= 0 THEN 0
       ELSE SumOver([i \in within |-> levels[i].px * levels[i].sz])

(* The value of the levels on the far side of the mid price, not further   *)
(* from it than bps.                                                       *)
DepthWithin(levels, mid2, bps, bid) ==
    LET distance(px) == (IF bid THEN mid2 - 2 * px ELSE 2 * px - mid2) * 10000
        within == {i \in DOMAIN levels :
                     distance(levels[i].px) >= 0
                     /\ distance(levels[i].px) <= bps * mid2}
    IN IF mid2 <= 0 THEN 0
       ELSE SumOver([i \in within |-> levels[i].px * levels[i].sz])

(* A book with one side has half the best price of it as its mid.  A book  *)
(* without a time of its own has that of its arrival, now.                 *)
OrderbookSnapshot(book, now) ==
    LET bids == Side(book, 1)
        asks == Side(book, 2)
        mid2 == BestPx(bids) + BestPx(asks)
        bid50 == DepthWithin(bids, mid2, 50, TRUE)
        ask50 == DepthWithin(asks, mid2, 50, FALSE)
    IN [time        |-> IF book.time > 0 THEN book.time ELSE now,
        bestBid     |-> BestPx(bids),
        bestAsk     |-> BestPx(asks),
        spreadBps   |-> IF mid2 = 0 THEN 0
                        ELSE ((BestPx(asks) - BestPx(bids)) * 20000) \div mid2,
        bidDepth10  |-> DepthWithin(bids, mid2, 10, TRUE),
        askDepth10  |-> DepthWithin(asks, mid2, 10, FALSE),
        bidDepth50  |-> bid50,
        askDepth50  |-> ask50,
        bidDepth100 |-> DepthWithin(bids, mid2, 100, TRUE),
        askDepth100 |-> DepthWithin(asks, mid2, 100, FALSE),
        imbalance50 |-> IF bid50 + ask50 = 0 THEN 0
                        ELSE ((bid50 - ask50) * 100) \div (bid50 + ask50)]

-----------------------------------------------------------------------------
(* Trades: a sequence of records with time, side and sz.                   *)

Large == 10000

(* The time is that of the last trade in the list that has one.            *)
TradeSnapshot(trades, now) ==
    LET stamped == {i \in DOMAIN trades : trades[i].time > 0}
        size(S) == SumOver([i \in S |-> trades[i].sz])
        buys == {i \in DOMAIN trades : trades[i].side \in {"B", "buy"}}
        total == size(DOMAIN trades)
    IN [time            |-> IF stamped = {} THEN now ELSE trades[Max(stamped)].time,
        tradeCount      |-> Len(trades),
        buyVolume       |-> size(buys),
        sellVolume      |-> size(DOMAIN trades \ buys),
        aggressiveRatio |-> IF total = 0 THEN 0 ELSE (size(buys) * 100) \div total,
        avgTradeSize    |-> IF trades = <<>> THEN 0 ELSE total \div Len(trades),
        largeTradeCount |-> Cardinality({i \in DOMAIN trades : trades[i].sz > Large})]

==============================================================================
