----------------------------- MODULE TokenBucket -----------------------------
(***************************************************************************)
(* What the weighted limiter promises the Hyperliquid API, with nothing    *)
(* said of how: a bucket that holds at most Full units of budget, fills by *)
(* Rate units per tick of the clock, and is never spent below zero.        *)
(*                                                                         *)
(* The implementation (module Limiter) has no thread that fills the        *)
(* bucket: it adds what is owed whenever somebody looks at it.  Here the   *)
(* bucket fills as time passes, which is what "N weight per minute" means. *)
(*                                                                         *)
(* spent and elapsed observe the bucket through a window: the weight       *)
(* granted and the time passed since the window opened.  A window may open *)
(* at any moment, so what holds of this one holds of every window of at    *)
(* most MaxWindow ticks.                                                   *)
(***************************************************************************)
EXTENDS Integers

CONSTANTS
    Full,       \* budget of a full bucket
    Rate,       \* budget added per tick
    MaxWindow   \* longest window observed (bounds elapsed and spent)

(* What the theorems need of the constants; BucketConstants shows that     *)
(* the limiter's configuration provides it.                                *)
BucketAssumption ==
    Full \in Nat /\ Rate \in Nat /\ MaxWindow \in Nat

VARIABLES budget, spent, elapsed

bucketVars == <<budget, spent, elapsed>>

Lesser(a, b) == IF a < b THEN a ELSE b

BucketTypeOK ==
    /\ budget \in 0..Full
    /\ spent \in Nat
    /\ elapsed \in 0..MaxWindow

Init ==
    /\ budget = Full
    /\ spent = 0
    /\ elapsed = 0

(* A request of weight w is let through.                                   *)
Grant(w) ==
    /\ w <= budget
    /\ budget' = budget - w
    /\ spent' = spent + w
    /\ UNCHANGED elapsed

(* The clock ticks inside the window.                                      *)
Pass ==
    /\ elapsed < MaxWindow
    /\ budget' = Lesser(Full, budget + Rate)
    /\ elapsed' = elapsed + 1
    /\ UNCHANGED spent

(* A window opens: now, or on the tick that ends the longest one.          *)
OpenWindow ==
    /\ \/ UNCHANGED budget
       \/ budget' = Lesser(Full, budget + Rate)
    /\ spent' = 0
    /\ elapsed' = 0

Next ==
    \/ \E w \in 1..Full : Grant(w)
    \/ Pass
    \/ OpenWindow

Spec == Init /\ [][Next]_bucketVars

(* Whatever the order of grants and ticks, the weight granted in a window  *)
(* of t ticks is at most one full bucket plus what t ticks add: the bound  *)
(* a token bucket of capacity N exists for.                                *)
WindowBound == spent <= Full + elapsed * Rate

(* The accounting that makes WindowBound inductive: what is left and what  *)
(* was granted never exceed what there was.                                *)
BudgetConserved == spent + budget <= Full + elapsed * Rate
==============================================================================
