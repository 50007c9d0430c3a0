-------------------------------- MODULE Client --------------------------------
(***************************************************************************)
(* The /info client, internal/hyperliquid/client.go, on top of the limiter.*)
(*                                                                         *)
(* info() passes the limiter once, then sends the request up to            *)
(* MaxAttempts times: an answer 429 or 5xx, or a deadline, is retried      *)
(* after a backoff, anything else ends the call.  Every answer is recorded *)
(* with the limiter, so a 429 pauses the endpoint for the calls that come  *)
(* after it.  The retries of this call do not go through Wait again.       *)
(*                                                                         *)
(*   none --Info--> waiting --WaitReturns--> sending --Send--> inflight    *)
(*                                              ^                 |        *)
(*                                  BackoffEnds |              Respond     *)
(*                                              +---- backoff <---+--> none*)
(*                                                                         *)
(* Callers are the goroutines that call the client: the six scheduler      *)
(* loops and the health handler.                                           *)
(***************************************************************************)
EXTENDS Limiter

CONSTANTS
    Requests,       \* calls of info: endpoint, extra weight, critical flag
    MaxAttempts     \* attempts of one call (4)

ASSUME ClientAssumption ==
    /\ Requests \subseteq
          [endpoint : Endpoints, additional : Int, critical : BOOLEAN]
    /\ \A r \in Requests : Weight(r.endpoint, r.additional) \in Requested
    /\ MaxAttempts \in Nat \ {0}

VARIABLES
    stage,      \* where each caller is inside info()
    attempt,    \* attempts answered so far, the loop variable of info()
    target      \* the endpoint of the request being sent

clientVars == <<stage, attempt, target>>
vars == <<limiterVars, clientVars>>

-----------------------------------------------------------------------------
(* The extra weight of a history request *)

Day == 86400000      \* 24 h in milliseconds

(* One unit for every three days asked for, from two days on, at most 10.  *)
DynamicWeightFromWindow(start, end) ==
    LET days == (end - start) \div Day IN
    IF start <= 0 \/ end <= start \/ days <= 1 THEN 0
    ELSE IF days > 30 THEN 10 ELSE days \div 3

-----------------------------------------------------------------------------
(* Type *)

Stages == {"none", "waiting", "sending", "inflight", "backoff"}
NoEndpoint == "none"

(* The two state machines of a caller agree on whether it is inside Wait.  *)
TypeOK ==
    /\ LimiterTypeOK
    /\ stage \in [Callers -> Stages]
    /\ attempt \in [Callers -> 0..(MaxAttempts - 1)]
    /\ target \in [Callers -> Endpoints \cup {NoEndpoint}]
    /\ \A c \in Callers :
          /\ stage[c] = "waiting" <=> pc[c] # "idle"
          /\ stage[c] # "none" => target[c] \in Endpoints

Init ==
    /\ LimiterInit
    /\ stage = [c \in Callers |-> "none"]
    /\ attempt = [c \in Callers |-> 0]
    /\ target = [c \in Callers |-> NoEndpoint]

-----------------------------------------------------------------------------
(* info() *)

MoveTo(c, s) == stage' = [stage EXCEPT ![c] = s]

(* info() returns, and with it go its loop variable and its request.       *)
Return(c) ==
    /\ MoveTo(c, "none")
    /\ attempt' = [attempt EXCEPT ![c] = 0]
    /\ target' = [target EXCEPT ![c] = NoEndpoint]

Info(c, r) ==
    /\ stage[c] = "none"
    /\ Wait(c, r.endpoint, Weight(r.endpoint, r.additional), r.critical)
    /\ MoveTo(c, "waiting")
    /\ target' = [target EXCEPT ![c] = r.endpoint]
    /\ UNCHANGED attempt

(* The limiter defers a non-critical request: info() returns its error.    *)
InfoDeferred(c) ==
    /\ stage[c] = "none"
    /\ \E r \in Requests : ~r.critical
    /\ Defer(c)
    /\ UNCHANGED clientVars

(* Inside Wait.                                                            *)
Poll(c) == PollPaused(c) \/ PollGrant(c) \/ PollShort(c)

WaitStep(c) ==
    /\ Join(c) \/ Poll(c) \/ Cancel(c)
    /\ UNCHANGED clientVars

WaitReturns(c) ==
    /\ Leave(c)
    /\ \/ /\ pc[c] = "granted"
          /\ MoveTo(c, "sending")
          /\ UNCHANGED <<attempt, target>>
       \/ /\ pc[c] = "cancelled"
          /\ Return(c)

Send(c) ==
    /\ stage[c] = "sending"
    /\ MoveTo(c, "inflight")
    /\ UNCHANGED <<limiterVars, attempt, target>>

(* A good answer, or an error that is not retried: any other status, a     *)
(* broken connection, a malformed body, a cancelled context.               *)
Answered(c) ==
    /\ stage[c] = "inflight"
    /\ Return(c)
    /\ UNCHANGED limiterVars

RateLimited(c) ==
    /\ stage[c] = "inflight"
    /\ Record429(target[c])
    /\ MoveTo(c, "backoff")
    /\ UNCHANGED <<attempt, target>>

(* A status of 500 or more, or the HTTP client's deadline.                 *)
Unavailable(c) ==
    /\ stage[c] = "inflight"
    /\ MoveTo(c, "backoff")
    /\ UNCHANGED <<limiterVars, attempt, target>>

(* Faulty variant: the call is retried until it succeeds.                  *)
FaultyBackoffEnds(c) ==
    /\ stage[c] = "backoff"
    /\ MoveTo(c, "sending")
    /\ UNCHANGED <<limiterVars, attempt, target>>

(* Faulty variant: the loop counts attempts from zero and up to the limit. *)
FaultyLastAttempt(c) ==
    /\ stage[c] = "backoff"
    /\ \/ /\ attempt[c] < MaxAttempts
          /\ attempt' = [attempt EXCEPT ![c] = @ + 1]
          /\ MoveTo(c, "sending")
          /\ UNCHANGED target
       \/ /\ attempt[c] = MaxAttempts
          /\ Return(c)
    /\ UNCHANGED limiterVars

(* The backoff is slept out after the last attempt too.                    *)
BackoffEnds(c) ==
    /\ stage[c] = "backoff"
    /\ \/ /\ attempt[c] + 1 < MaxAttempts
          /\ attempt' = [attempt EXCEPT ![c] = @ + 1]
          /\ MoveTo(c, "sending")
          /\ UNCHANGED target
       \/ /\ attempt[c] + 1 = MaxAttempts
          /\ Return(c)
    /\ UNCHANGED limiterVars

BackoffCancelled(c) ==
    /\ stage[c] = "backoff"
    /\ Return(c)
    /\ UNCHANGED limiterVars

-----------------------------------------------------------------------------

Respond(c) == Answered(c) \/ RateLimited(c) \/ Unavailable(c)

Step(c) ==
    \/ \E r \in Requests : Info(c, r)
    \/ InfoDeferred(c)
    \/ WaitStep(c)
    \/ WaitReturns(c)
    \/ Send(c)
    \/ Respond(c)
    \/ BackoffEnds(c)
    \/ BackoffCancelled(c)

Background == (Metrics \/ Tick) /\ UNCHANGED clientVars

Next == (\E c \in Callers : Step(c)) \/ Background

(* Goroutines are scheduled, tickers and timers fire, the clock advances,  *)
(* and http.Client.Timeout bounds the time to an answer.  Nothing obliges  *)
(* anybody to call the client, to cancel or to look at the metrics.        *)
Fairness ==
    /\ WF_vars(Tick /\ UNCHANGED clientVars)
    /\ \A c \in Callers :
          /\ WF_vars(Join(c) /\ UNCHANGED clientVars)
          /\ WF_vars(Poll(c) /\ UNCHANGED clientVars)
          /\ WF_vars(WaitReturns(c))
          /\ WF_vars(Send(c))
          /\ WF_vars(Respond(c))
          /\ WF_vars(BackoffEnds(c))

SafeSpec == Init /\ [][Next]_vars
Spec == SafeSpec /\ Fairness

-----------------------------------------------------------------------------
(* Properties *)

(* No endpoint is paused for ever.  Calls granted before a pause keep      *)
(* retrying during it and each 429 starts the pause again, but their       *)
(* attempts run out and no new call is granted (client.go:204,             *)
(* weighted.go:97-104).                                                    *)
PausesEnd == \A e \in Endpoints : []<>(~Paused(e))

(* The queue never stalls: while callers wait, some caller is let through  *)
(* sooner or later, although pauses are renewed and every poll resets the  *)
(* refill clock (weighted.go:93-117, 181-191).  Which caller it is, the    *)
(* code does not say: there is no order among the waiting.                 *)
QueueMoves == []<>(Queue = {} \/ \E c \in Callers : pc[c] = "granted")

(* What the documents say of a 429: it pauses the endpoint class rather    *)
(* than letting workers spam the API.  A retry is sent all the same.       *)
RetriesRespectPause ==
    [][\A c \in Callers :
          Send(c) /\ attempt[c] > 0 => ~Paused(target[c])]_vars

==============================================================================
