---------------------------- MODULE LimiterWindow ----------------------------
(***************************************************************************)
(* The limiter observed through a window: the limiter of module Limiter    *)
(* with two history variables, the weight granted and the ticks passed     *)
(* since the window opened, and the claim that it implements TokenBucket.  *)
(*                                                                         *)
(* The mapping reads the bucket as it would be if it were filled now:      *)
(* TokenBucket's budget is Refilled, so a refill is a step that changes    *)
(* nothing and the clock is what fills the bucket.                         *)
(***************************************************************************)
EXTENDS Limiter

CONSTANT MaxWindow      \* longest window observed, in ticks

ASSUME WindowAssumption == MaxWindow \in Nat

VARIABLES
    spent,      \* grains granted since the window opened
    elapsed     \* ticks since the window opened

window == <<spent, elapsed>>
vars == <<limiterVars, window>>

TB == INSTANCE TokenBucket WITH budget <- Refilled

TypeOK ==
    /\ LimiterTypeOK
    /\ spent \in Nat
    /\ elapsed \in 0..MaxWindow

Init ==
    /\ LimiterInit
    /\ spent = 0
    /\ elapsed = 0

Granting(c) ==
    /\ PollGrant(c)
    /\ spent' = spent + call[c].weight * Grain
    /\ UNCHANGED elapsed

TickInside ==
    /\ elapsed < MaxWindow
    /\ Tick
    /\ elapsed' = elapsed + 1
    /\ UNCHANGED spent

(* The longest window ends with a tick and the next one opens.             *)
TickOver ==
    /\ elapsed = MaxWindow
    /\ Tick
    /\ spent' = 0
    /\ elapsed' = 0

OpenWindow ==
    /\ spent' = 0
    /\ elapsed' = 0
    /\ UNCHANGED limiterVars

(* Every other step of the limiter neither grants nor takes time.          *)
Unobserved ==
    /\ \/ \E c \in Callers :
             \/ \E e \in Endpoints, w \in Requested, critical \in BOOLEAN :
                   Wait(c, e, w, critical)
             \/ Defer(c)
             \/ Join(c)
             \/ PollPaused(c)
             \/ PollShort(c)
             \/ Cancel(c)
             \/ Leave(c)
       \/ \E e \in Endpoints : Record429(e)
       \/ Metrics
    /\ UNCHANGED window

Next ==
    \/ \E c \in Callers : Granting(c)
    \/ TickInside
    \/ TickOver
    \/ OpenWindow
    \/ Unobserved

Spec == Init /\ [][Next]_vars

-----------------------------------------------------------------------------
(* Properties *)

(* The lazily refilled bucket, polled by any number of goroutines, behaves *)
(* as the bucket that fills with the clock (weighted.go:94-107, 181-191).  *)
ImplementsTokenBucket == TB!Spec

(* In no window is more weight granted than one full bucket plus what the  *)
(* window's ticks pay for (weighted.go:105-107, 181-190).                  *)
WindowBound == TB!WindowBound

==============================================================================
