---------------------------- MODULE MCMarketData ----------------------------
(* One coin is enough for a price to hide its volume; the second may be    *)
(* priced without being in the universe.                                   *)
EXTENDS MarketData

CONSTANTS c1, c2

=============================================================================
