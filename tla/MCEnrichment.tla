---------------------------- MODULE MCEnrichment ----------------------------
(* Two runs of a tier 3 job.  The series of candles are: too short to be   *)
(* scored; traded little and flat; traded much and rising, with a burst of *)
(* volume at the end.  A coin starts with bids only and no trade; its book *)
(* fills and it is traded.                                                 *)
EXTENDS Enrichment

CONSTANTS r1, r2

Candle(px, volume) ==
    [high |-> px + 1, low |-> px - 1, close |-> px, volume |-> volume]

MCSeries ==
    <<<<Candle(100, 9)>>,
      [i \in 1..25 |-> Candle(100, 5)],
      [i \in 1..25 |-> Candle(100 + 4 * i, IF i = 25 THEN 99 ELSE 50)]>>

MCBookOf ==
    <<<<<<[px |-> 9995, sz |-> 2]>>>>,
      <<<<[px |-> 9995, sz |-> 2], [px |-> 9960, sz |-> 1]>>,
        <<[px |-> 10005, sz |-> 1], [px |-> 10090, sz |-> 3]>>>>>>

MCTradesOf ==
    <<<<>>,
      <<[side |-> "B", sz |-> 1], [side |-> "A", sz |-> 20000]>>>>

=============================================================================
