------------------------------ MODULE MCClient -------------------------------
(***************************************************************************)
(* The client for TLC: two callers, a light and a heavy endpoint.  The     *)
(* heavy request asks for three days of history and weighs 1 + 1 units, the*)
(* whole bucket, so that it waits for every grain to be refilled.          *)
(***************************************************************************)
EXTENDS Client, TLC

CONSTANTS c1, c2, candles, book

MCCallers == {c1, c2}
MCEndpoints == {candles, book}
MCEndpointWeights == candles :> 1 @@ book :> 1
MCRequests ==
    {[endpoint   |-> candles,
      additional |-> DynamicWeightFromWindow(1, 1 + 3 * Day),
      critical   |-> TRUE],
     [endpoint |-> book, additional |-> 0, critical |-> FALSE]}
MCRequested == {Weight(r.endpoint, r.additional) : r \in MCRequests}
==============================================================================
