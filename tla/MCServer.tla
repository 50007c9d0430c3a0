------------------------------ MODULE MCServer -------------------------------
(***************************************************************************)
(* The server for TLC: two jobs, of which the body of candles may hang,    *)
(* and one market list at a time over two connections, so that a list that *)
(* reads its flags has the whole pool.                                     *)
(***************************************************************************)
EXTENDS Server

CONSTANTS p1, meta, candles, l1
==============================================================================
