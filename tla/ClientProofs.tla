---------------------------- MODULE ClientProofs -----------------------------
(***************************************************************************)
(* The client uses the limiter only through Wait and Record, so everything *)
(* proved of the limiter holds under any number of clients.                *)
(***************************************************************************)
EXTENDS Client, LimiterProofs

-----------------------------------------------------------------------------
(* The extra weight of a history request *)

(* Whatever the dates, the extra weight is between 0 and 10, and asking    *)
(* for more history never weighs less (client.go:256-268).                 *)
THEOREM DynamicWeightFact ==
    ASSUME NEW start \in Int, NEW end \in Int, NEW later \in Int, end <= later
    PROVE  /\ DynamicWeightFromWindow(start, end) \in 0..10
           /\ DynamicWeightFromWindow(start, end)
                <= DynamicWeightFromWindow(start, later)
  BY DEF DynamicWeightFromWindow, Day

-----------------------------------------------------------------------------
(* Type *)

(* Inside Wait a caller moves on without touching the client's variables,  *)
(* and stays inside.                                                       *)
LEMMA WaitStepInside ==
    ASSUME LimiterTypeOK, NEW c \in Callers, WaitStep(c)
    PROVE  /\ UNCHANGED clientVars
           /\ pc[c] # "idle"
           /\ \E phase \in Phases \ {"idle"} :
                 pc' = [pc EXCEPT ![c] = phase]
  BY DEF WaitStep, Poll, Join, PollPaused, PollGrant, PollShort, Cancel,
         AwakeToPoll, GoTo, Phases

(* Where a client's call is and where its Wait is agree at every step.     *)
LEMMA ClientTypeStep == TypeOK /\ [Next]_vars => TypeOK'
<1> SUFFICES ASSUME TypeOK, [Next]_vars
             PROVE  TypeOK'
  OBVIOUS
<1>0. LimiterTypeOK
  BY DEF TypeOK
<1> DEFINE Inside(c) ==
      /\ stage[c] = "waiting" <=> pc[c] # "idle"
      /\ stage[c] # "none" => target[c] \in Endpoints
<1> DEFINE ClientType ==
      /\ stage \in [Callers -> Stages]
      /\ attempt \in [Callers -> 0..(MaxAttempts - 1)]
      /\ target \in [Callers -> Endpoints \cup {NoEndpoint}]
      /\ \A c \in Callers : Inside(c)
<1>1. ClientType
  BY DEF TypeOK
<1> SUFFICES ClientType' /\ [LimiterNext]_limiterVars
  BY <1>0, TypeStep DEF TypeOK
<1> USE DEF Stages
<1>2. ASSUME NEW c \in Callers, NEW r \in Requests, Info(c, r)
      PROVE  ClientType' /\ LimiterNext
  <2>1. /\ r.endpoint \in Endpoints
        /\ r.critical \in BOOLEAN
        /\ Weight(r.endpoint, r.additional) \in Requested
    BY ClientAssumption
  <2>2. Wait(c, r.endpoint, Weight(r.endpoint, r.additional), r.critical)
    BY <1>2 DEF Info
  <2>3. LimiterNext
    BY <2>1, <2>2 DEF LimiterNext
  <2>4. pc' = [pc EXCEPT ![c] = "admitted"]
    BY <2>2 DEF Wait, GoTo
  <2>5. ClientType'
    BY <1>0, <1>1, <1>2, <2>1, <2>4 DEF Info, MoveTo, LimiterTypeOK
  <2>6. QED
    BY <2>3, <2>5
<1>3. ASSUME NEW c \in Callers, InfoDeferred(c)
      PROVE  ClientType' /\ LimiterNext
  BY <1>1, <1>3 DEF InfoDeferred, Defer, clientVars, LimiterNext
<1>4. ASSUME NEW c \in Callers, WaitStep(c)
      PROVE  ClientType' /\ LimiterNext
  <2>1. LimiterNext
    BY <1>4 DEF WaitStep, Poll, LimiterNext, Waiting
  <2>2. PICK phase \in Phases \ {"idle"} : pc' = [pc EXCEPT ![c] = phase]
    BY <1>0, <1>4, WaitStepInside
  <2>3. pc[c] # "idle" /\ UNCHANGED clientVars
    BY <1>0, <1>4, WaitStepInside
  <2>4. ClientType'
    BY <1>0, <1>1, <2>2, <2>3 DEF clientVars, LimiterTypeOK
  <2>5. QED
    BY <2>1, <2>4
<1>5. ASSUME NEW c \in Callers, WaitReturns(c)
      PROVE  ClientType' /\ LimiterNext
  <2>1. LimiterNext
    BY <1>5 DEF WaitReturns, LimiterNext, Waiting
  <2>2. pc' = [pc EXCEPT ![c] = "idle"] /\ pc[c] # "idle"
    BY <1>5 DEF WaitReturns, Leave, GoTo
  <2>3. QED
    BY <1>0, <1>1, <1>5, <2>1, <2>2, ClientAssumption
       DEF WaitReturns, MoveTo, Return, LimiterTypeOK
<1>6. ASSUME NEW c \in Callers, RateLimited(c)
      PROVE  ClientType' /\ LimiterNext
  <2>1. target[c] \in Endpoints
    BY <1>1, <1>6 DEF RateLimited
  <2>2. LimiterNext
    BY <1>6, <2>1 DEF RateLimited, LimiterNext
  <2>3. QED
    BY <1>1, <1>6, <2>2 DEF RateLimited, Record429, MoveTo
<1>7. ASSUME NEW c \in Callers,
             \/ Send(c) \/ Answered(c) \/ Unavailable(c)
             \/ BackoffEnds(c) \/ BackoffCancelled(c)
      PROVE  ClientType' /\ UNCHANGED limiterVars
  <2>1. UNCHANGED limiterVars /\ pc' = pc
    BY <1>7 DEF Send, Answered, Unavailable, BackoffEnds, BackoffCancelled,
                limiterVars
  <2>2. stage[c] \in {"sending", "inflight", "backoff"}
    BY <1>7 DEF Send, Answered, Unavailable, BackoffEnds, BackoffCancelled
  <2>3. CASE Send(c) \/ Unavailable(c)
    BY <1>1, <2>1, <2>2, <2>3 DEF Send, Unavailable, MoveTo
  <2>4. CASE Answered(c) \/ BackoffCancelled(c)
    BY <1>1, <2>1, <2>2, <2>4, ClientAssumption
       DEF Answered, BackoffCancelled, Return, MoveTo
  <2>5. CASE BackoffEnds(c)
    BY <1>1, <2>1, <2>2, <2>5, ClientAssumption
       DEF BackoffEnds, Return, MoveTo
  <2>6. QED
    BY <1>7, <2>1, <2>3, <2>4, <2>5
<1>8. CASE Background
  BY <1>1, <1>8 DEF Background, Metrics, Tick, clientVars, LimiterNext
<1>9. CASE UNCHANGED vars
  BY <1>1, <1>9 DEF vars, limiterVars, clientVars
<1>10. QED
  BY <1>2, <1>3, <1>4, <1>5, <1>6, <1>7, <1>8, <1>9 DEF Next, Step, Respond

(* The two state machines of a caller never disagree.                      *)
THEOREM ClientTypeCorrect == SafeSpec => []TypeOK
<1>1. Init => TypeOK
  BY TypeInit, ClientAssumption DEF Init, TypeOK, Stages, LimiterInit
<1>2. QED
  BY <1>1, ClientTypeStep, PTL DEF SafeSpec

-----------------------------------------------------------------------------
(* The client on the limiter *)

(* Every step of info() is a step of the limiter or none at all: Wait and  *)
(* Record are the only doors (client.go:198-223).                          *)
LEMMA ClientStep == TypeOK /\ [Next]_vars => [LimiterNext]_limiterVars
<1> SUFFICES ASSUME TypeOK, [Next]_vars
             PROVE  [LimiterNext]_limiterVars
  OBVIOUS
<1>1. ASSUME NEW c \in Callers, NEW r \in Requests, Info(c, r)
      PROVE  LimiterNext
  BY <1>1, ClientAssumption DEF Info, LimiterNext
<1>2. ASSUME NEW c \in Callers, RateLimited(c)
      PROVE  LimiterNext
  BY <1>2 DEF RateLimited, LimiterNext, TypeOK
<1>3. ASSUME NEW c \in Callers,
             InfoDeferred(c) \/ WaitStep(c) \/ WaitReturns(c)
      PROVE  LimiterNext
  BY <1>3 DEF InfoDeferred, WaitStep, WaitReturns, Poll, Waiting, LimiterNext
<1>4. ASSUME NEW c \in Callers,
             \/ Send(c) \/ Answered(c) \/ Unavailable(c)
             \/ BackoffEnds(c) \/ BackoffCancelled(c)
      PROVE  UNCHANGED limiterVars
  BY <1>4 DEF Send, Answered, Unavailable, BackoffEnds, BackoffCancelled
<1>5. CASE Background
  BY <1>5 DEF Background, LimiterNext
<1>6. QED
  BY <1>1, <1>2, <1>3, <1>4, <1>5 DEF Next, Step, Respond, vars

(* What is proved of the limiter alone carries over to it under clients.   *)
LEMMA ClientUsesLimiter == SafeSpec => LimiterSpec
<1>1. Init => LimiterInit
  BY DEF Init
<1>2. QED
  BY <1>1, ClientStep, ClientTypeCorrect, PTL
     DEF SafeSpec, LimiterSpec

(* So the queue depth stays exact and no late answer shortens a pause,     *)
(* whatever the clients do: retries, cancellations and deferrals included. *)
THEOREM ClientKeepsLimiter == SafeSpec => []QueueDepthExact /\ PauseNeverShortened
  BY ClientUsesLimiter, LimiterQueueDepthExact, LimiterPauseNeverShortened, PTL
==============================================================================
