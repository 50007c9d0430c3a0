------------------------------ MODULE MCJobRuns ------------------------------
(***************************************************************************)
(* The jobs for TLC: up to two replicas of the server.  The body of the    *)
(* candles job may hang (it waits for budget and network), that of meta    *)
(* returns.  The values of Procs, Jobs and Returning are sets of these     *)
(* model values and stand in the configurations.                           *)
(***************************************************************************)
EXTENDS JobRuns

CONSTANTS p1, p2, meta, candles
==============================================================================
