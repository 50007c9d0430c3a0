------------------------- MODULE LimiterWindowProofs -------------------------
(***************************************************************************)
(* The limiter implements TokenBucket and so inherits its bound, for every *)
(* set of callers and endpoints, every capacity, rate and window length.   *)
(***************************************************************************)
EXTENDS LimiterWindow, LimiterProofs

-----------------------------------------------------------------------------
(* The refinement *)

(* The observer only watches: its steps are steps of the limiter.          *)
LEMMA WindowStep == [Next]_vars => [LimiterNext]_limiterVars
  BY DEF Next, Granting, TickInside, TickOver, OpenWindow, Unobserved,
         LimiterNext, Waiting, vars

LEMMA WindowType == Spec => []LimiterTypeOK
<1>1. Init => LimiterInit
  BY DEF Init
<1>2. LimiterTypeOK /\ [Next]_vars => LimiterTypeOK'
  BY TypeStep, WindowStep
<1>3. QED
  BY <1>1, <1>2, TypeInit, PTL DEF Spec

(* A step that neither grants nor takes time leaves the bucket, as it      *)
(* would be after a refill, as it is.                                      *)
LEMMA UnobservedStep ==
    ASSUME LimiterTypeOK, Unobserved
    PROVE  Refilled' = Refilled /\ UNCHANGED window
<1>1. Refilled \in 0..Full
  BY RefilledRange DEF LimiterTypeOK
<1>2. 0 \in 0..Refilled /\ Refilled - 0 = Refilled
  BY <1>1, CapacityPositive
<1>3. Take(0) => Refilled' = Refilled
  BY <1>2, TakeStep
<1>4. UNCHANGED bucket => Refilled' = Refilled
  BY BucketUnchanged
<1>5. Take(0) \/ UNCHANGED bucket
  BY DEF Unobserved, Wait, Defer, Join, PollPaused, PollShort, Cancel, Leave,
         Record429, Metrics
<1>6. QED
  BY <1>3, <1>4, <1>5 DEF Unobserved

(* The lazily refilled bucket, polled by any number of goroutines,         *)
(* implements the bucket that fills with the clock: every locked region of *)
(* the limiter is a grant, a tick, or changes nothing (weighted.go:94-107, *)
(* 145-150, 181-191).                                                      *)
THEOREM LimiterImplementsTokenBucket == Spec => ImplementsTokenBucket
<1>1. Init => TB!Init
  <2> SUFFICES ASSUME Init PROVE TB!Init
    OBVIOUS
  <2>1. tokens = Full /\ sinceRefill * Rate = 0
    BY LimiterAssumption DEF Init, LimiterInit
  <2>2. Refilled = Full
    BY <2>1, CapacityPositive DEF Refilled, Lesser
  <2>3. QED
    BY <2>2 DEF Init, TB!Init
<1>2. LimiterTypeOK /\ [Next]_vars => [TB!Next]_(TB!bucketVars)
  <2> SUFFICES ASSUME LimiterTypeOK, [Next]_vars
               PROVE  [TB!Next]_(TB!bucketVars)
    OBVIOUS
  <2>0. Refilled \in 0..Full
    BY RefilledRange DEF LimiterTypeOK
  <2>1. ASSUME NEW c \in Callers, Granting(c)
        PROVE  TB!Next
    <3> DEFINE grains == call[c].weight * Grain
    <3>1. grains \in Nat \ {0}
      BY <2>1, GrainsPositive DEF Granting, PollGrant, AwakeToPoll
    <3>2. grains \in 1..Full /\ grains \in 0..Refilled
      BY <2>0, <2>1, <3>1, CapacityPositive DEF Granting, PollGrant
    <3>3. Refilled' = Refilled - grains
      BY <2>1, <3>2, TakeStep DEF Granting, PollGrant
    <3>4. spent' = spent + grains /\ elapsed' = elapsed
      BY <2>1 DEF Granting
    <3>5. TB!Grant(grains)
      <4> HIDE DEF grains
      <4> QED BY <2>0, <3>2, <3>3, <3>4 DEF TB!Grant
    <3>6. QED
      <4> HIDE DEF grains
      <4> QED BY <3>2, <3>5 DEF TB!Next
  <2>2. CASE TickInside
    BY <2>2, TickStep DEF TickInside, TB!Next, TB!Pass, TB!Lesser, Lesser
  <2>3. CASE TickOver
    BY <2>3, TickStep DEF TickOver, TB!Next, TB!OpenWindow, TB!Lesser, Lesser
  <2>4. CASE OpenWindow
    <3>1. Refilled' = Refilled
      BY <2>4, BucketUnchanged DEF OpenWindow, limiterVars, bucket
    <3>2. QED
      BY <2>4, <3>1 DEF OpenWindow, TB!Next, TB!OpenWindow
  <2>5. CASE Unobserved
    BY <2>5, UnobservedStep DEF TB!bucketVars, window
  <2>6. CASE UNCHANGED vars
    BY <2>6, BucketUnchanged
       DEF vars, limiterVars, bucket, window, TB!bucketVars
  <2>7. QED
    BY <2>1, <2>2, <2>3, <2>4, <2>5, <2>6 DEF Next
<1>3. QED
  BY <1>1, <1>2, WindowType, PTL DEF Spec, ImplementsTokenBucket, TB!Spec

(* The limiter and its observer are type correct; what a window has seen   *)
(* granted is a natural number of grains (weighted.go:75-117).             *)
THEOREM LimiterWindowTypeCorrect == Spec => []TypeOK
<1> DEFINE Seen == spent \in Nat /\ elapsed \in 0..MaxWindow
<1>1. Init => Seen
  BY WindowAssumption DEF Init
<1>2. LimiterTypeOK /\ Seen /\ [Next]_vars => Seen'
  <2> SUFFICES ASSUME LimiterTypeOK, Seen, [Next]_vars
               PROVE  Seen'
    OBVIOUS
  <2>1. ASSUME NEW c \in Callers, Granting(c)
        PROVE  Seen'
    <3>1. call[c].weight * Grain \in Nat \ {0}
      BY <2>1, GrainsPositive DEF Granting, PollGrant, AwakeToPoll
    <3>2. QED
      BY <2>1, <3>1 DEF Granting
  <2>2. CASE TickInside
    BY <2>2, WindowAssumption DEF TickInside
  <2>3. CASE TickOver \/ OpenWindow
    BY <2>3, WindowAssumption DEF TickOver, OpenWindow
  <2>4. CASE Unobserved \/ UNCHANGED vars
    BY <2>4 DEF Unobserved, vars, window
  <2>5. QED
    BY <2>1, <2>2, <2>3, <2>4 DEF Next
<1>3. QED
  BY <1>1, <1>2, WindowType, PTL DEF Spec, TypeOK

-----------------------------------------------------------------------------
(* The bucket                                                              *)
(*                                                                         *)
(* What TokenBucket keeps.  Refilled is all the proofs know of its budget: *)
(* nothing of the limiter is used in them but the ranges of constants.     *)

LEMMA BucketConstants == TB!BucketAssumption
  BY CapacityPositive, LimiterAssumption, WindowAssumption
     DEF TB!BucketAssumption

(* One more tick pays for Rate more units.                                 *)
LEMMA TickPays ==
    ASSUME NEW t \in Nat, NEW r \in Nat
    PROVE  /\ t * r \in Nat
           /\ (t + 1) * r = t * r + r
  OBVIOUS

(* Budget, grants and window of the abstract bucket stay within their      *)
(* ranges: it is never spent below zero nor filled above its size.         *)
THEOREM BucketTypeCorrect == TB!Spec => []TB!BucketTypeOK
<1> USE BucketConstants DEF TB!BucketAssumption
<1>1. TB!Init => TB!BucketTypeOK
  BY DEF TB!Init, TB!BucketTypeOK
<1>2. TB!BucketTypeOK /\ [TB!Next]_(TB!bucketVars) => TB!BucketTypeOK'
  <2> SUFFICES ASSUME TB!BucketTypeOK, [TB!Next]_(TB!bucketVars)
               PROVE  TB!BucketTypeOK'
    OBVIOUS
  <2> USE DEF TB!BucketTypeOK
  <2>1. ASSUME NEW w \in 1..Full, TB!Grant(w)
        PROVE  TB!BucketTypeOK'
    BY <2>1 DEF TB!Grant
  <2>2. CASE TB!Pass
    BY <2>2 DEF TB!Pass, TB!Lesser
  <2>3. CASE TB!OpenWindow
    BY <2>3 DEF TB!OpenWindow, TB!Lesser
  <2>4. CASE UNCHANGED TB!bucketVars
    BY <2>4 DEF TB!bucketVars
  <2>5. QED
    BY <2>1, <2>2, <2>3, <2>4 DEF TB!Next
<1>3. QED
  BY <1>1, <1>2, PTL DEF TB!Spec

(* What is left and what was granted never exceed what there was, so no    *)
(* window sees more granted than a full bucket and what its ticks add.     *)
THEOREM BucketKeepsBound == TB!Spec => [](TB!BudgetConserved /\ TB!WindowBound)
<1> USE BucketConstants DEF TB!BucketAssumption
<1>1. TB!Init => TB!BudgetConserved
  <2> SUFFICES ASSUME TB!Init PROVE TB!BudgetConserved
    OBVIOUS
  <2>1. elapsed * Rate = 0
    BY DEF TB!Init
  <2>2. QED
    BY <2>1 DEF TB!Init, TB!BudgetConserved
<1>2. TB!BucketTypeOK /\ TB!BudgetConserved /\ [TB!Next]_(TB!bucketVars)
        => TB!BudgetConserved'
  <2> SUFFICES ASSUME TB!BucketTypeOK, TB!BudgetConserved,
                      [TB!Next]_(TB!bucketVars)
               PROVE  TB!BudgetConserved'
    OBVIOUS
  <2> USE DEF TB!BucketTypeOK, TB!BudgetConserved
  <2>1. ASSUME NEW w \in 1..Full, TB!Grant(w)
        PROVE  TB!BudgetConserved'
    BY <2>1, TickPays DEF TB!Grant
  <2>2. CASE TB!Pass
    <3>1. /\ elapsed * Rate \in Nat
          /\ elapsed' * Rate = elapsed * Rate + Rate
      BY <2>2, TickPays DEF TB!Pass
    <3>2. /\ Refilled' \in Int
          /\ Refilled' <= Refilled + Rate
          /\ spent' = spent
      BY <2>2 DEF TB!Pass, TB!Lesser
    <3>3. QED
      BY <3>1, <3>2
  <2>3. CASE TB!OpenWindow
    <3>1. Refilled' \in Int /\ Refilled' <= Full
      BY <2>3 DEF TB!OpenWindow, TB!Lesser
    <3>2. elapsed' * Rate = 0
      BY <2>3 DEF TB!OpenWindow
    <3>3. spent' = 0
      BY <2>3 DEF TB!OpenWindow
    <3>4. QED
      BY <3>1, <3>2, <3>3
  <2>4. CASE UNCHANGED TB!bucketVars
    BY <2>4 DEF TB!bucketVars
  <2>5. QED
    BY <2>1, <2>2, <2>3, <2>4 DEF TB!Next
<1>3. TB!BucketTypeOK /\ TB!BudgetConserved => TB!WindowBound
  BY TickPays DEF TB!BucketTypeOK, TB!BudgetConserved, TB!WindowBound
<1>4. QED
  BY <1>1, <1>2, <1>3, BucketTypeCorrect, PTL DEF TB!Spec

(* In no window does the limiter grant more than one full bucket plus what *)
(* the window's ticks pay for, whatever the callers, the endpoints and the *)
(* configuration (weighted.go:105-107, 181-191).                           *)
THEOREM LimiterWindowBound == Spec => []WindowBound
  BY LimiterImplementsTokenBucket, BucketKeepsBound, PTL
     DEF ImplementsTokenBucket, WindowBound

==============================================================================
