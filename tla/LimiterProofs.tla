---------------------------- MODULE LimiterProofs ----------------------------
(***************************************************************************)
(* Proofs about the limiter, for every set of callers and endpoints, every *)
(* capacity, rate and cooldown:                                            *)
(*   - its type, the exact queue depth, pauses within their cooldown;      *)
(*   - no pause is shortened by a late 429;                                *)
(*   - what each step does to the bucket as it would be after a refill,    *)
(*     which module LimiterWindowProofs builds the refinement on.          *)
(***************************************************************************)
EXTENDS Limiter, FiniteSetTheorems, TLAPS

-----------------------------------------------------------------------------
(* Operators *)

(* The lesser of two numbers is one of them and exceeds neither.           *)
LEMMA LesserFact ==
    ASSUME NEW a \in Int, NEW b \in Int
    PROVE  /\ Lesser(a, b) \in {a, b}
           /\ Lesser(a, b) <= a
           /\ Lesser(a, b) <= b
  BY DEF Lesser

(* A product of naturals is a natural, of positive ones a positive one.    *)
LEMMA ProductNat ==
    ASSUME NEW a \in Nat, NEW b \in Nat
    PROVE  /\ a * b \in Nat
           /\ (a + 1) * b = a * b + b
           /\ 0 * b = 0
           /\ a > 0 /\ b > 0 => a * b > 0
  OBVIOUS

(* Whatever the configuration, the capacity is positive.                   *)
LEMMA CapacityPositive ==
    /\ Capacity \in Nat \ {0}
    /\ Full \in Nat \ {0}
<1>1. Capacity \in Nat \ {0}
  BY LimiterAssumption DEF Capacity
<1>2. Full \in Nat \ {0}
  BY <1>1, LimiterAssumption, ProductNat DEF Full
<1>3. QED
  BY <1>1, <1>2

(* Whatever the configuration, a request weighs something.                 *)
LEMMA WeightPositive ==
    ASSUME NEW e \in Endpoints, NEW additional \in Int
    PROVE  Weight(e, additional) \in Nat \ {0}
  BY LimiterAssumption DEF Weight

(* The next cooldown is no shorter than the last and never above the cap.  *)
LEMMA NextCooldownFact ==
    ASSUME NEW current \in 0..MaxCooldown
    PROVE  /\ NextCooldown(current) \in 0..MaxCooldown
           /\ NextCooldown(current) >= current
  BY LimiterAssumption DEF NextCooldown, Lesser

(* A refill keeps the bucket within its capacity.                          *)
LEMMA RefilledRange ==
    ASSUME tokens \in 0..Full, sinceRefill \in Nat
    PROVE  Refilled \in 0..Full
<1>1. sinceRefill * Rate \in Nat
  BY ProductNat, LimiterAssumption
<1>2. QED
  BY <1>1, CapacityPositive DEF Refilled, Lesser

-----------------------------------------------------------------------------
(* What a step does to the bucket as it would be after a refill *)

(* Taking grains out takes them out of the refilled bucket.                *)
LEMMA TakeStep ==
    ASSUME LimiterTypeOK, NEW grains \in 0..Refilled, Take(grains)
    PROVE  /\ tokens' \in 0..Full
           /\ sinceRefill' \in Nat
           /\ Refilled' = Refilled - grains
<1>1. Refilled \in 0..Full
  BY RefilledRange DEF LimiterTypeOK
<1>2. /\ tokens' = Refilled - grains
      /\ sinceRefill' = 0
  BY DEF Take
<1>3. tokens' \in 0..Full
  BY <1>1, <1>2, CapacityPositive
<1>4. sinceRefill' * Rate = 0
  BY <1>2, ProductNat, LimiterAssumption
<1>5. Refilled' = tokens'
  BY <1>3, <1>4, CapacityPositive DEF Refilled, Lesser
<1>6. QED
  BY <1>2, <1>3, <1>5

(* A tick of the clock adds Rate to the refilled bucket, up to Full.       *)
LEMMA TickStep ==
    ASSUME LimiterTypeOK, Tick
    PROVE  Refilled' = Lesser(Full, Refilled + Rate)
<1> DEFINE owed == sinceRefill * Rate
<1>1. /\ tokens \in 0..Full
      /\ sinceRefill \in Nat
      /\ Full \in Nat
      /\ Rate \in Nat
  BY LimiterAssumption, CapacityPositive DEF LimiterTypeOK
<1>2. owed \in Nat
  BY <1>1, ProductNat
<1>3. tokens' = tokens
  BY DEF Tick
<1>4. CASE tokens + owed <= Full
  <2>1. sinceRefill' = sinceRefill + 1
    BY <1>4 DEF Tick
  <2>2. sinceRefill' * Rate = owed + Rate
    BY <2>1, <1>1, ProductNat
  <2>3. Refilled = tokens + owed
    BY <1>1, <1>2, <1>4 DEF Refilled, Lesser
  <2>4. Refilled' = Lesser(Full, tokens + owed + Rate)
    BY <2>2, <1>1, <1>2, <1>3 DEF Refilled
  <2>5. QED
    BY <2>3, <2>4
<1>5. CASE ~(tokens + owed <= Full)
  <2>1. sinceRefill' = sinceRefill
    BY <1>5 DEF Tick
  <2>2. /\ Refilled = Full
        /\ Refilled' = Full
    BY <1>1, <1>2, <1>3, <1>5, <2>1 DEF Refilled, Lesser
  <2>3. QED
    BY <1>1, <2>2 DEF Lesser
<1>6. QED
  BY <1>4, <1>5

(* A step that leaves the bucket alone leaves the refilled bucket alone.   *)
LEMMA BucketUnchanged ==
    ASSUME LimiterTypeOK, UNCHANGED bucket
    PROVE  /\ tokens' \in 0..Full
           /\ sinceRefill' \in Nat
           /\ Refilled' = Refilled
  BY DEF LimiterTypeOK, bucket, Refilled

-----------------------------------------------------------------------------
(* Type *)

(* A caller in the queue has positive work to pay for.                     *)
LEMMA GrainsPositive ==
    ASSUME LimiterTypeOK, NEW c \in Callers, pc[c] # "idle"
    PROVE  /\ call[c] \in Calls
           /\ call[c].weight * Grain \in Nat \ {0}
<1>1. call[c] \in Calls
  BY DEF LimiterTypeOK
<1>2. call[c].weight \in Nat \ {0}
  BY <1>1 DEF Calls
<1>3. QED
  BY <1>1, <1>2, LimiterAssumption, ProductNat

(* Every step keeps the type.                                              *)
LEMMA TypeStep == LimiterTypeOK /\ [LimiterNext]_limiterVars => LimiterTypeOK'
<1> SUFFICES ASSUME LimiterTypeOK, [LimiterNext]_limiterVars
             PROVE  LimiterTypeOK'
  OBVIOUS
<1>0. Refilled \in 0..Full
  BY RefilledRange DEF LimiterTypeOK
<1>1. ASSUME NEW c \in Callers, NEW e \in Endpoints, NEW w \in Requested,
             NEW critical \in BOOLEAN, Wait(c, e, w, critical)
      PROVE  LimiterTypeOK'
  <2>1. (IF w <= 0 THEN Weight(e, 0) ELSE w) \in Nat \ {0}
    BY WeightPositive, LimiterAssumption
  <2>2. call'[c] \in Calls /\ call' \in [Callers -> Calls \cup {NoCall}]
    BY <1>1, <2>1 DEF Wait, Calls, LimiterTypeOK
  <2>3. tokens' \in 0..Full /\ sinceRefill' \in Nat
    BY <1>0, <1>1, TakeStep, BucketUnchanged DEF Wait
  <2>4. pc' \in [Callers -> Phases]
    BY <1>1 DEF Wait, GoTo, LimiterTypeOK, Phases
  <2>5. \A d \in Callers : pc'[d] = "idle" \/ call'[d] \in Calls
    BY <1>1, <2>2 DEF Wait, GoTo, LimiterTypeOK
  <2>6. UNCHANGED <<pauses, queueDepth, sleepLeft>>
    BY <1>1 DEF Wait
  <2>7. QED
    BY <2>2, <2>3, <2>4, <2>5, <2>6 DEF LimiterTypeOK, pauses
<1>2. ASSUME NEW c \in Callers, Defer(c)
      PROVE  LimiterTypeOK'
  <2>1. tokens' \in 0..Full /\ sinceRefill' \in Nat
    BY <1>0, <1>2, TakeStep DEF Defer
  <2>2. QED
    BY <1>2, <2>1 DEF Defer, LimiterTypeOK, pauses
<1>3. ASSUME NEW c \in Callers, Join(c)
      PROVE  LimiterTypeOK'
  BY <1>3 DEF Join, GoTo, LimiterTypeOK, Phases, bucket, pauses
<1>4. ASSUME NEW c \in Callers, PollPaused(c)
      PROVE  LimiterTypeOK'
  <2>1. tokens' \in 0..Full /\ sinceRefill' \in Nat
    BY <1>0, <1>4, TakeStep DEF PollPaused
  <2>2. call[c] \in Calls
    BY <1>4, GrainsPositive DEF PollPaused, AwakeToPoll
  <2>3. Lesser(pauseLeft[call[c].endpoint], SleepCap) \in 0..SleepCap
    BY <2>2, LimiterAssumption DEF LimiterTypeOK, Calls, Lesser
  <2>4. sleepLeft' \in [Callers -> 0..SleepCap]
    BY <1>4, <2>3 DEF PollPaused, LimiterTypeOK
  <2>5. /\ pc' \in [Callers -> Phases]
        /\ \A d \in Callers : pc'[d] = "idle" \/ call'[d] \in Calls
    BY <1>4, <2>2 DEF PollPaused, GoTo, LimiterTypeOK, Phases
  <2>6. UNCHANGED <<pauses, queueDepth, call>>
    BY <1>4 DEF PollPaused
  <2>7. QED
    BY <2>1, <2>4, <2>5, <2>6 DEF LimiterTypeOK, pauses
<1>5. ASSUME NEW c \in Callers, PollGrant(c)
      PROVE  LimiterTypeOK'
  <2>1. call[c] \in Calls /\ call[c].weight * Grain \in Nat \ {0}
    BY <1>5, GrainsPositive DEF PollGrant, AwakeToPoll
  <2>2. call[c].weight * Grain \in 0..Refilled
    BY <1>0, <1>5, <2>1 DEF PollGrant
  <2>3. tokens' \in 0..Full /\ sinceRefill' \in Nat
    BY <1>5, <2>2, TakeStep DEF PollGrant
  <2>4. /\ pc' \in [Callers -> Phases]
        /\ \A d \in Callers : pc'[d] = "idle" \/ call'[d] \in Calls
    BY <1>5, <2>1 DEF PollGrant, GoTo, LimiterTypeOK, Phases
  <2>5. UNCHANGED <<pauses, queueDepth, call, sleepLeft>>
    BY <1>5 DEF PollGrant
  <2>6. QED
    BY <2>3, <2>4, <2>5 DEF LimiterTypeOK, pauses
<1>6. ASSUME NEW c \in Callers, PollShort(c)
      PROVE  LimiterTypeOK'
  <2>1. tokens' \in 0..Full /\ sinceRefill' \in Nat
    BY <1>0, <1>6, TakeStep DEF PollShort
  <2>2. call[c] \in Calls
    BY <1>6, GrainsPositive DEF PollShort, AwakeToPoll
  <2>3. /\ pc' \in [Callers -> Phases]
        /\ \A d \in Callers : pc'[d] = "idle" \/ call'[d] \in Calls
    BY <1>6, <2>2 DEF PollShort, GoTo, LimiterTypeOK, Phases
  <2>4. UNCHANGED <<pauses, queueDepth, call, sleepLeft>>
    BY <1>6 DEF PollShort
  <2>5. QED
    BY <2>1, <2>3, <2>4 DEF LimiterTypeOK, pauses
<1>7. ASSUME NEW c \in Callers, Cancel(c)
      PROVE  LimiterTypeOK'
  BY <1>7, LimiterAssumption
     DEF Cancel, GoTo, LimiterTypeOK, Phases, bucket, pauses
<1>8. ASSUME NEW c \in Callers, Leave(c)
      PROVE  LimiterTypeOK'
  BY <1>8 DEF Leave, GoTo, LimiterTypeOK, Phases, bucket, pauses
<1>9. ASSUME NEW e \in Endpoints, Record429(e)
      PROVE  LimiterTypeOK'
  <2>1. NextCooldown(cooldowns[e]) \in 0..MaxCooldown
    BY NextCooldownFact DEF LimiterTypeOK
  <2>2. /\ pauseLeft' \in [Endpoints -> Nat]
        /\ cooldowns' \in [Endpoints -> 0..MaxCooldown]
    BY <1>9, <2>1, LimiterAssumption DEF Record429, LimiterTypeOK
  <2>3. QED
    BY <1>9, <2>2 DEF Record429, LimiterTypeOK, bucket
<1>10. CASE Metrics
  <2>1. tokens' \in 0..Full /\ sinceRefill' \in Nat
    BY <1>0, <1>10, TakeStep DEF Metrics
  <2>2. QED
    BY <1>10, <2>1 DEF Metrics, LimiterTypeOK, pauses
<1>11. CASE Tick
  <2>1. /\ pauseLeft' \in [Endpoints -> Nat]
        /\ sleepLeft' \in [Callers -> 0..SleepCap]
        /\ sinceRefill' \in Nat
    BY <1>11, LimiterAssumption DEF Tick, Down, LimiterTypeOK
  <2>2. QED
    BY <1>11, <2>1 DEF Tick, LimiterTypeOK
<1>12. CASE UNCHANGED limiterVars
  BY <1>12 DEF limiterVars, bucket, pauses, LimiterTypeOK
<1>13. QED
  BY <1>1, <1>2, <1>3, <1>4, <1>5, <1>6, <1>7, <1>8, <1>9, <1>10, <1>11,
     <1>12 DEF LimiterNext, Waiting

(* The initial state has the type.                                         *)
LEMMA TypeInit == LimiterInit => LimiterTypeOK
  BY CapacityPositive, LimiterAssumption
     DEF LimiterInit, LimiterTypeOK, Phases

(* The bucket, the pauses and the callers stay within their ranges.        *)
THEOREM LimiterTypeCorrect == LimiterSpec => []LimiterTypeOK
  BY TypeInit, TypeStep, PTL DEF LimiterSpec

-----------------------------------------------------------------------------
(* The queue depth *)

(* A caller joins or leaves the queue by its program counter alone.        *)
LEMMA QueueMembership ==
    ASSUME LimiterTypeOK, NEW c \in Callers, NEW phase \in Phases,
           pc' = [pc EXCEPT ![c] = phase]
    PROVE  Queue' = IF phase \in {"idle", "admitted"}
                    THEN Queue \ {c} ELSE Queue \cup {c}
<1> USE DEF Queue, Phases
<1>1. \A d \in Callers : pc'[d] = IF d = c THEN phase ELSE pc[d]
  BY DEF LimiterTypeOK
<1>2. CASE phase \in {"idle", "admitted"}
  BY <1>1, <1>2
<1>3. CASE ~(phase \in {"idle", "admitted"})
  BY <1>1, <1>3
<1>4. QED
  BY <1>2, <1>3

(* Whoever enters the queue is counted in and whoever leaves is counted    *)
(* out, on every path: the reported depth is exact (weighted.go:82-89).    *)
LEMMA QueueDepthStep ==
    LimiterTypeOK /\ QueueDepthExact /\ [LimiterNext]_limiterVars
        => QueueDepthExact'
<1> SUFFICES ASSUME LimiterTypeOK, QueueDepthExact, [LimiterNext]_limiterVars
             PROVE  QueueDepthExact'
  OBVIOUS
<1> USE DEF QueueDepthExact
<1>0. IsFiniteSet(Queue)
  <2>1. Queue \subseteq Callers
    BY DEF Queue
  <2>2. QED
    BY <2>1, LimiterAssumption, FS_Subset
<1>1. ASSUME NEW c \in Callers, Join(c)
      PROVE  QueueDepthExact'
  <2>1. c \notin Queue
    BY <1>1 DEF Join, Queue
  <2>2. Queue' = Queue \cup {c}
    BY <1>1, QueueMembership DEF Join, GoTo, Phases
  <2>3. Cardinality(Queue') = Cardinality(Queue) + 1
    BY <1>0, <2>1, <2>2, FS_AddElement
  <2>4. QED
    BY <1>1, <2>3 DEF Join
<1>2. ASSUME NEW c \in Callers, Leave(c)
      PROVE  QueueDepthExact'
  <2>1. c \in Queue
    BY <1>2 DEF Leave, Queue
  <2>2. Queue' = Queue \ {c}
    BY <1>2, QueueMembership DEF Leave, GoTo, Phases
  <2>3. Cardinality(Queue') = Cardinality(Queue) - 1
    BY <1>0, <2>1, <2>2, FS_RemoveElement
  <2>4. QED
    BY <1>2, <2>3 DEF Leave
<1>3. ASSUME NEW c \in Callers,
             PollPaused(c) \/ PollGrant(c) \/ PollShort(c) \/ Cancel(c)
      PROVE  QueueDepthExact'
  <2>1. c \in Queue
    BY <1>3 DEF PollPaused, PollGrant, PollShort, Cancel, AwakeToPoll, Queue
  <2>2. PICK phase \in {"asleep", "granted", "ticking", "cancelled"} :
          pc' = [pc EXCEPT ![c] = phase]
    BY <1>3 DEF PollPaused, PollGrant, PollShort, Cancel, GoTo
  <2>3. Queue' = Queue \cup {c}
    BY <2>2, QueueMembership DEF Phases
  <2>4. Queue' = Queue
    BY <2>1, <2>3
  <2>5. queueDepth' = queueDepth
    BY <1>3 DEF PollPaused, PollGrant, PollShort, Cancel
  <2>6. QED
    BY <2>4, <2>5
<1>4. ASSUME NEW c \in Callers, NEW e \in Endpoints, NEW w \in Requested,
             NEW critical \in BOOLEAN, Wait(c, e, w, critical)
      PROVE  QueueDepthExact'
  <2>1. c \notin Queue
    BY <1>4 DEF Wait, Queue
  <2>2. Queue' = Queue \ {c}
    BY <1>4, QueueMembership DEF Wait, GoTo, Phases
  <2>3. Queue' = Queue
    BY <2>1, <2>2
  <2>4. QED
    BY <1>4, <2>3 DEF Wait
<1>5. ASSUME UNCHANGED <<queueDepth, pc>>
      PROVE  QueueDepthExact'
  BY <1>5 DEF Queue
<1>6. QED
  BY <1>1, <1>2, <1>3, <1>4, <1>5
     DEF LimiterNext, Waiting, Defer, Record429, Metrics, Tick, limiterVars

(* The queue depth the metrics report is the number of callers in Wait's   *)
(* queue, whichever way each of them leaves it.                            *)
THEOREM LimiterQueueDepthExact == LimiterSpec => []QueueDepthExact
<1>1. LimiterInit => QueueDepthExact
  <2> SUFFICES ASSUME LimiterInit PROVE QueueDepthExact
    OBVIOUS
  <2>1. Queue = {}
    BY DEF LimiterInit, Queue
  <2>2. QED
    BY <2>1, FS_EmptySet DEF LimiterInit, QueueDepthExact
<1>2. QED
  BY <1>1, QueueDepthStep, LimiterTypeCorrect, PTL DEF LimiterSpec

-----------------------------------------------------------------------------
(* Pauses *)

(* Only Record429 and the clock touch the pauses.                          *)
LEMMA PausesUntouched ==
    ASSUME [LimiterNext]_limiterVars,
           ~Tick,
           \A e \in Endpoints : ~Record429(e)
    PROVE  UNCHANGED pauses
  BY DEF LimiterNext, Waiting, Wait, Defer, Join, PollPaused, PollGrant,
         PollShort, Cancel, Leave, Metrics, limiterVars

(* A 429 sets the pause and the cooldown to the same, no shorter, time;    *)
(* the clock only shortens the pause.                                      *)
LEMMA PauseStep ==
    LimiterTypeOK /\ PauseWithinCooldown /\ [LimiterNext]_limiterVars
        => PauseWithinCooldown'
<1> SUFFICES ASSUME LimiterTypeOK, PauseWithinCooldown,
                    [LimiterNext]_limiterVars
             PROVE  PauseWithinCooldown'
  OBVIOUS
<1> USE DEF LimiterTypeOK, PauseWithinCooldown
<1>1. ASSUME NEW e \in Endpoints, Record429(e)
      PROVE  PauseWithinCooldown'
  <2>1. NextCooldown(cooldowns[e]) \in 0..MaxCooldown
    BY NextCooldownFact
  <2>2. \A f \in Endpoints : pauseLeft'[f] <= cooldowns'[f]
    BY <1>1, <2>1, LimiterAssumption DEF Record429
  <2>3. QED
    BY <2>2
<1>2. CASE Tick
  BY <1>2 DEF Tick, Down
<1>3. CASE UNCHANGED pauses
  BY <1>3 DEF pauses
<1>4. QED
  BY <1>1, <1>2, <1>3, PausesUntouched

(* No pause outlasts the cooldown it was set from (weighted.go:128-140).   *)
THEOREM LimiterPauseWithinCooldown == LimiterSpec => []PauseWithinCooldown
<1>1. LimiterInit => PauseWithinCooldown
  BY DEF LimiterInit, PauseWithinCooldown
<1>2. QED
  BY <1>1, PauseStep, LimiterTypeCorrect, PTL DEF LimiterSpec

(* However late the answers come, a 429 never moves the end of a pause     *)
(* back: pausedUntil only grows (weighted.go:128-140).                     *)
THEOREM LimiterPauseNeverShortened == LimiterSpec => PauseNeverShortened
<1>1. ASSUME LimiterTypeOK, PauseWithinCooldown, [LimiterNext]_limiterVars,
             NEW e \in Endpoints, pauseLeft'[e] < pauseLeft[e]
      PROVE  Tick
  <2>1. ASSUME NEW f \in Endpoints, Record429(f)
        PROVE  FALSE
    <3>1. /\ NextCooldown(cooldowns[f]) \in 0..MaxCooldown
          /\ NextCooldown(cooldowns[f]) >= cooldowns[f]
      BY <1>1, NextCooldownFact DEF LimiterTypeOK
    <3>2. cooldowns[f] >= pauseLeft[f]
      BY <1>1 DEF PauseWithinCooldown
    <3>3. pauseLeft'[e] >= pauseLeft[e]
      BY <1>1, <2>1, <3>1, <3>2, LimiterAssumption
         DEF Record429, LimiterTypeOK
    <3>4. pauseLeft[e] \in Int /\ pauseLeft'[e] \in Int
      BY <1>1, <2>1, <3>1 DEF Record429, LimiterTypeOK
    <3>5. QED
      BY <1>1, <3>3, <3>4
  <2>2. ASSUME UNCHANGED pauses
        PROVE  FALSE
    BY <1>1, <2>2 DEF pauses, LimiterTypeOK
  <2>3. QED
    BY <1>1, <2>1, <2>2, PausesUntouched
<1>2. LimiterTypeOK /\ PauseWithinCooldown /\ [LimiterNext]_limiterVars
        => [(\E e \in Endpoints : pauseLeft'[e] < pauseLeft[e]) => Tick]_limiterVars
  BY <1>1
<1>3. QED
  BY <1>2, LimiterTypeCorrect, LimiterPauseWithinCooldown, PTL
     DEF LimiterSpec, PauseNeverShortened

==============================================================================
