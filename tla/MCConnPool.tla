------------------------------ MODULE MCConnPool -----------------------------
(***************************************************************************)
(* The pool for TLC: up to three market lists at a time and two other      *)
(* queries, over a pool that has (pool.cfg) or has not (pool_starved.cfg)  *)
(* one connection more than there are lists.                               *)
(***************************************************************************)
EXTENDS ConnPool

CONSTANTS l1, l2, l3, r1, r2

ASSUME PoolConstants == ConnPoolAssumption
==============================================================================
