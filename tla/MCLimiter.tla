------------------------------ MODULE MCLimiter ------------------------------
(***************************************************************************)
(* The limiter for TLC: two callers, one endpoint with a weight of its own *)
(* and one the configuration lacks, whose weight is the whole bucket.  The *)
(* capacity of 2 units makes the reserve 1 unit, so that a single request  *)
(* in flight is enough for the next one to be deferred.                    *)
(***************************************************************************)
EXTENDS LimiterWindow, TLC

CONSTANTS c1, c2, candles, mids

MCCallers == {c1, c2}
MCEndpoints == {candles, mids}
MCEndpointWeights == candles :> 0 @@ mids :> 1
MCRequested == {0, 1}

CallerSymmetry == Permutations(MCCallers)
==============================================================================
