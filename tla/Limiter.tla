------------------------------- MODULE Limiter -------------------------------
(***************************************************************************)
(* The weighted rate limiter, internal/limiter/weighted.go.                *)
(*                                                                         *)
(* Every request to the Hyperliquid API first calls Wait, which sends a    *)
(* non-critical request away when the budget is low and otherwise polls    *)
(* until its endpoint is not paused and the bucket holds its weight.       *)
(* Record, called with each answer, pauses an endpoint on a 429.  The      *)
(* mutex makes each locked region one step; everything between two regions *)
(* interleaves, so Wait is several actions here:                           *)
(*                                                                         *)
(*   idle --Wait--> admitted --Join--> polling --Poll--> granted --Leave-> *)
(*                                        |  ^                             *)
(*                                        v  |                             *)
(*                              asleep / ticking --Cancel--> cancelled ... *)
(*                                                                         *)
(* The code compares instants; only differences matter, so the model keeps *)
(* ticks: since the last refill, left of a pause, left of a sleep.  Tokens *)
(* are counted in grains, Grain of them to a unit of weight, because the   *)
(* code's float holds fractions of a unit that Budget() rounds down.       *)
(***************************************************************************)
EXTENDS Integers, FiniteSets

CONSTANTS
    Callers,            \* goroutines that may be inside Wait
    Endpoints,          \* endpoint classes of the API
    CapacityPerMinute,  \* Config.CapacityPerMinute, as configured
    EndpointWeights,    \* Config.EndpointWeights
    DefaultWeight,      \* weight of an endpoint the configuration lacks (20)
    Requested,          \* weights passed to Wait (0 asks for the default)
    Grain,              \* grains to a unit of weight
    Rate,               \* grains refilled per tick
    BaseCooldown,       \* first cooldown in ticks (10 s)
    MaxCooldown,        \* longest cooldown in ticks (5 min)
    SleepCap            \* longest sleep between looks at a pause (1 s)

ASSUME LimiterAssumption ==
    /\ IsFiniteSet(Callers)
    /\ CapacityPerMinute \in Int
    /\ EndpointWeights \in [Endpoints -> Int]
    /\ DefaultWeight \in Nat \ {0}
    /\ Requested \subseteq Int
    /\ Grain \in Nat \ {0}
    /\ Rate \in Nat \ {0}
    /\ BaseCooldown \in Nat \ {0}
    /\ MaxCooldown \in Nat /\ MaxCooldown >= BaseCooldown
    /\ SleepCap \in Nat \ {0}

VARIABLES
    tokens,       \* Weighted.tokens, in grains
    sinceRefill,  \* ticks since Weighted.lastRefill
    pauseLeft,    \* pauseLeft[e]: ticks until Weighted.pausedUntil[e]
    cooldowns,    \* Weighted.cooldowns
    queueDepth,   \* Weighted.queueDepth
    pc,           \* where each caller is inside Wait
    call,         \* the arguments of each caller's Wait
    sleepLeft     \* ticks left of a caller's sleepContext

bucket == <<tokens, sinceRefill>>
pauses == <<pauseLeft, cooldowns>>
limiterVars == <<bucket, pauses, queueDepth, pc, call, sleepLeft>>

-----------------------------------------------------------------------------
(* The configured limiter *)

Lesser(a, b) == IF a < b THEN a ELSE b

(* NewWeighted replaces a capacity that is not positive.                   *)
Capacity == IF CapacityPerMinute <= 0 THEN 1200 ELSE CapacityPerMinute

Full == Capacity * Grain

(* ceil(capacity * 0.08): at or below it, only critical requests enter.    *)
Reserve == (8 * Capacity + 99) \div 100

(* The base weight of the endpoint plus a non-negative extra.              *)
Weight(e, additional) ==
    (IF EndpointWeights[e] <= 0 THEN DefaultWeight ELSE EndpointWeights[e])
    + (IF additional < 0 THEN 0 ELSE additional)

-----------------------------------------------------------------------------
(* Type *)

Phases == {"idle", "admitted", "polling", "asleep", "ticking",
           "granted", "cancelled"}

Calls == [endpoint : Endpoints, weight : Nat \ {0}, critical : BOOLEAN]
NoCall == [endpoint |-> "none"]

LimiterTypeOK ==
    /\ tokens \in 0..Full
    /\ sinceRefill \in Nat
    /\ pauseLeft \in [Endpoints -> Nat]
    /\ cooldowns \in [Endpoints -> 0..MaxCooldown]
    /\ queueDepth \in Int
    /\ pc \in [Callers -> Phases]
    /\ call \in [Callers -> Calls \cup {NoCall}]
    /\ sleepLeft \in [Callers -> 0..SleepCap]
    /\ \A c \in Callers : pc[c] = "idle" \/ call[c] \in Calls

LimiterInit ==
    /\ tokens = Full
    /\ sinceRefill = 0
    /\ pauseLeft = [e \in Endpoints |-> 0]
    /\ cooldowns = [e \in Endpoints |-> 0]
    /\ queueDepth = 0
    /\ pc = [c \in Callers |-> "idle"]
    /\ call = [c \in Callers |-> NoCall]
    /\ sleepLeft = [c \in Callers |-> 0]

-----------------------------------------------------------------------------
(* The bucket *)

(* Faulty variant: only whole units are refilled, the fraction is lost.    *)
FaultyWholeUnits ==
    Lesser(Full, tokens + ((sinceRefill * Rate) \div Grain) * Grain)

(* Faulty variant: the refill forgets to cap the bucket at its capacity.   *)
FaultyNoCap == tokens + sinceRefill * Rate

(* What the bucket holds once the time since the last refill is paid for.  *)
Refilled == Lesser(Full, tokens + sinceRefill * Rate)

(* Faulty variant: lastRefill is not advanced, so the same time pays twice.*)
FaultyTakeKeepsClock(grains) ==
    /\ tokens' = Refilled - grains
    /\ UNCHANGED sinceRefill

(* refillLocked, followed by taking some grains out (none for a look).     *)
Take(grains) ==
    /\ tokens' = Refilled - grains
    /\ sinceRefill' = 0

(* Budget(): whole units after a refill.                                   *)
Budget == Refilled \div Grain

-----------------------------------------------------------------------------
(* Wait *)

GoTo(c, phase) == pc' = [pc EXCEPT ![c] = phase]

(* A caller enters Wait.  A critical one goes straight to the queue; any   *)
(* other looks at the budget first, in a locked region of its own, and is  *)
(* sent away with ErrDeferred when the budget is within the reserve.       *)
Wait(c, e, w, critical) ==
    /\ pc[c] = "idle"
    /\ \/ /\ critical
          /\ UNCHANGED bucket
       \/ /\ ~critical
          /\ Budget > Reserve
          /\ Take(0)
    /\ call' = [call EXCEPT ![c] =
                  [endpoint |-> e,
                   weight   |-> IF w <= 0 THEN Weight(e, 0) ELSE w,
                   critical |-> critical]]
    /\ GoTo(c, "admitted")
    /\ UNCHANGED <<pauses, queueDepth, sleepLeft>>

Defer(c) ==
    /\ pc[c] = "idle"
    /\ Budget <= Reserve
    /\ Take(0)
    /\ UNCHANGED <<pauses, queueDepth, pc, call, sleepLeft>>

Join(c) ==
    /\ pc[c] = "admitted"
    /\ queueDepth' = queueDepth + 1
    /\ GoTo(c, "polling")
    /\ UNCHANGED <<bucket, pauses, call, sleepLeft>>

(* The caller is at the head of the polling loop, its sleep is over, or    *)
(* its ticker has fired (the ticker is not timed: 100 to 180 ms).          *)
AwakeToPoll(c) ==
    \/ pc[c] = "polling"
    \/ pc[c] = "asleep" /\ sleepLeft[c] = 0
    \/ pc[c] = "ticking"

Paused(e) == pauseLeft[e] > 0

(* One turn of the loop: refill, then sleep out (part of) a pause ...      *)
PollPaused(c) ==
    LET e == call[c].endpoint IN
    /\ AwakeToPoll(c)
    /\ Paused(e)
    /\ Take(0)
    /\ sleepLeft' = [sleepLeft EXCEPT ![c] = Lesser(pauseLeft[e], SleepCap)]
    /\ GoTo(c, "asleep")
    /\ UNCHANGED <<pauses, queueDepth, call>>

(* ... or take the weight out of the bucket and return nil ...             *)
PollGrant(c) ==
    LET grains == call[c].weight * Grain IN
    /\ AwakeToPoll(c)
    /\ ~Paused(call[c].endpoint)
    /\ Refilled >= grains
    /\ Take(grains)
    /\ GoTo(c, "granted")
    /\ UNCHANGED <<pauses, queueDepth, call, sleepLeft>>

(* ... or wait for the next tick of the ticker.                            *)
PollShort(c) ==
    /\ AwakeToPoll(c)
    /\ ~Paused(call[c].endpoint)
    /\ Refilled < call[c].weight * Grain
    /\ Take(0)
    /\ GoTo(c, "ticking")
    /\ UNCHANGED <<pauses, queueDepth, call, sleepLeft>>

(* The context ends while the caller sleeps or waits for its ticker.       *)
Cancel(c) ==
    /\ pc[c] \in {"asleep", "ticking"}
    /\ GoTo(c, "cancelled")
    /\ sleepLeft' = [sleepLeft EXCEPT ![c] = 0]
    /\ UNCHANGED <<bucket, pauses, queueDepth, call>>

(* Faulty variant: only the successful return runs the decrement.          *)
FaultyLeave(c) ==
    /\ pc[c] \in {"granted", "cancelled"}
    /\ queueDepth' = IF pc[c] = "granted" THEN queueDepth - 1 ELSE queueDepth
    /\ call' = [call EXCEPT ![c] = NoCall]
    /\ GoTo(c, "idle")
    /\ UNCHANGED <<bucket, pauses, sleepLeft>>

(* The deferred function of Wait: the caller is counted out and returns.   *)
Leave(c) ==
    /\ pc[c] \in {"granted", "cancelled"}
    /\ queueDepth' = queueDepth - 1
    /\ call' = [call EXCEPT ![c] = NoCall]
    /\ GoTo(c, "idle")
    /\ UNCHANGED <<bucket, pauses, sleepLeft>>

-----------------------------------------------------------------------------
(* Record and Metrics *)

(* Faulty variant: past the cap the cooldown starts over.                  *)
FaultyNextCooldown(current) ==
    IF current <= 0 \/ 2 * current > MaxCooldown THEN BaseCooldown
    ELSE 2 * current

(* 10 s, 20 s, 40 s, ... and never more than 5 min; no success resets it.  *)
NextCooldown(current) ==
    IF current <= 0 THEN BaseCooldown ELSE Lesser(2 * current, MaxCooldown)

(* An answer with status 429.  Any other answer changes statistics only.   *)
Record429(e) ==
    /\ cooldowns' = [cooldowns EXCEPT ![e] = NextCooldown(@)]
    /\ pauseLeft' = [pauseLeft EXCEPT ![e] = NextCooldown(cooldowns[e])]
    /\ UNCHANGED <<bucket, queueDepth, pc, call, sleepLeft>>

(* Metrics() and Budget() called from outside refill the bucket.           *)
Metrics ==
    /\ Take(0)
    /\ UNCHANGED <<pauses, queueDepth, pc, call, sleepLeft>>

-----------------------------------------------------------------------------
(* The clock *)

Down(n) == IF n > 0 THEN n - 1 ELSE 0

(* sinceRefill stops once it more than fills the bucket: the rest is lost. *)
Tick ==
    /\ sinceRefill' = IF tokens + sinceRefill * Rate <= Full
                      THEN sinceRefill + 1 ELSE sinceRefill
    /\ pauseLeft' = [e \in Endpoints |-> Down(pauseLeft[e])]
    /\ sleepLeft' = [c \in Callers |-> Down(sleepLeft[c])]
    /\ UNCHANGED <<tokens, cooldowns, queueDepth, pc, call>>

(* The steps of a caller inside Wait.                                      *)
Waiting(c) ==
    \/ Join(c)
    \/ PollPaused(c)
    \/ PollGrant(c)
    \/ PollShort(c)
    \/ Cancel(c)
    \/ Leave(c)

LimiterNext ==
    \/ \E c \in Callers :
          \/ \E e \in Endpoints, w \in Requested, critical \in BOOLEAN :
                Wait(c, e, w, critical)
          \/ Defer(c)
          \/ Waiting(c)
    \/ \E e \in Endpoints : Record429(e)
    \/ Metrics
    \/ Tick

LimiterSpec == LimiterInit /\ [][LimiterNext]_limiterVars

-----------------------------------------------------------------------------
(* Properties *)

(* Callers between the increment and the deferred decrement.               *)
Queue == {c \in Callers :
            pc[c] \in {"polling", "asleep", "ticking", "granted", "cancelled"}}

(* The queue depth /metrics reports is the number of callers in the queue, *)
(* whichever way each of them leaves it (weighted.go:82-89, 176).          *)
QueueDepthExact == queueDepth = Cardinality(Queue)

(* A pause never outlasts the cooldown it was set from, which is why the   *)
(* next 429, whose cooldown is no shorter, cannot cut it (weighted.go:139).*)
PauseWithinCooldown == \A e \in Endpoints : pauseLeft[e] <= cooldowns[e]

(* Requests already under way when an endpoint is paused come back and may *)
(* report more 429s: only the clock shortens a pause, a late answer never  *)
(* moves pausedUntil back (weighted.go:128-140).                           *)
PauseNeverShortened ==
    [][(\E e \in Endpoints : pauseLeft'[e] < pauseLeft[e]) => Tick]_limiterVars

==============================================================================
