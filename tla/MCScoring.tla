------------------------------ MODULE MCScoring ------------------------------
(***************************************************************************)
(* The candles and features jobs for TLC: a coin that is delivered and one *)
(* that never is, two runs of the candles job that may overlap, one of the  *)
(* features job.                                                           *)
(***************************************************************************)
EXTENDS Scoring

CONSTANTS c1, c2
==============================================================================
