------------------------------- MODULE Server -------------------------------
(***************************************************************************)
(* One server process: cmd/server/main.go with the jobs it schedules and   *)
(* the requests it serves, over one connection pool.                       *)
(*                                                                         *)
(*   serving --Signal--> draining --> stopping --> closing --> down        *)
(*                     HTTP Shutdown  Scheduler.Stop  pool.Close           *)
(*                                                                         *)
(* The jobs are those of JobRuns and the pool is ConnPool: each database   *)
(* call of a job is now asked for, waits for a connection, uses it and     *)
(* gives it back with its answer.  A job that waits is told when its       *)
(* context ends; ReleaseLock, whose context never ends, goes on waiting.   *)
(***************************************************************************)
EXTENDS JobRuns, FiniteSets

CONSTANTS Listers, MaxConns, MaxRows

VARIABLES
    stage,                      \* how far main() has come
    idle, list, rowsLeft, read  \* of the pool; read[j]: the call of job j

Pool == INSTANCE ConnPool WITH Readers <- Jobs

poolVars == <<idle, list, rowsLeft, read>>
jobVars == vars
serverVars == <<jobVars, stage, poolVars>>

ASSUME ServerAssumption ==
    /\ IsFiniteSet(Procs) /\ Cardinality(Procs) = 1
    /\ IsFiniteSet(Jobs) /\ IsFiniteSet(Listers)
    /\ MaxConns \in Nat \ {0} /\ MaxRows \in Nat

Stages == {"serving", "draining", "stopping", "closing", "down"}

ServerTypeOK ==
    /\ TypeOK
    /\ Pool!TypeOK
    /\ stage \in Stages

ServerInit ==
    /\ Init
    /\ Pool!Init
    /\ stage = "serving"

-----------------------------------------------------------------------------
(* The jobs, with their calls over the pool *)

(* A call, or a query of the body, asks the pool.  The pool refuses at     *)
(* once a context that has ended, so after the signal only ReleaseLock     *)
(* still asks.                                                             *)
Ask(p, j) ==
    /\ IF Up(p) THEN pc[p][j] \notin {"select", "exited"}
       ELSE pc[p][j] = "releasing"
    /\ Pool!BeginRead(j)
    /\ UNCHANGED <<jobVars, stage>>

Connect(j) == Pool!AcquireRead(j) /\ UNCHANGED <<jobVars, stage>>

(* The call returns, well or not, and gives its connection back.           *)
Answer(p, j) ==
    /\ \/ TryLock(p, j) \/ StartRun(p, j) \/ FinishRun(p, j)
       \/ ReleaseLock(p, j)
    /\ Pool!EndRead(j)
    /\ UNCHANGED stage

(* Faulty variant: a query of the body that fails leaves its rows open.    *)
FaultyQueryDone(p, j) ==
    /\ pc[p][j] = "running"
    /\ read[j] = "using"
    /\ \E n \in {0, 1} : idle' = idle + n
    /\ Pool!ReadTo(j, "away")
    /\ UNCHANGED <<list, rowsLeft, jobVars, stage>>

QueryDone(p, j) ==
    /\ pc[p][j] = "running"
    /\ Pool!EndRead(j)
    /\ UNCHANGED <<jobVars, stage>>

(* Faulty variant: whoever gives up is taken to hold a connection.         *)
FaultyGiveUp(p, j) ==
    /\ Stopping(p)
    /\ read[j] # "using"
    /\ \/ UNCHANGED <<lease, lessee>> /\ TryLockFails(p, j)
       \/ UNCHANGED abandoned /\ StartRunFails(p, j)
       \/ FinishRunFails(p, j)
       \/ pc[p][j] = "running" /\ read[j] = "acquiring" /\ UNCHANGED jobVars
    /\ idle' = idle + 1
    /\ Pool!ReadTo(j, "away")
    /\ UNCHANGED <<list, rowsLeft, stage>>

(* The context ends before there is a connection: the call fails without   *)
(* having reached the database.                                            *)
GiveUp(p, j) ==
    /\ Stopping(p)
    /\ read[j] # "using"
    /\ \/ UNCHANGED <<lease, lessee>> /\ TryLockFails(p, j)
       \/ UNCHANGED abandoned /\ StartRunFails(p, j)
       \/ FinishRunFails(p, j)
       \/ pc[p][j] = "running" /\ read[j] = "acquiring" /\ UNCHANGED jobVars
    /\ Pool!ReadTo(j, "away")
    /\ UNCHANGED <<idle, list, rowsLeft, stage>>

(* The body returns between two queries.                                   *)
BodyDone(p, j) ==
    /\ BodyReturns(p, j)
    /\ read[j] = "away"
    /\ UNCHANGED <<stage, poolVars>>

LoopTurns(p, j) == TickerFires(p, j) /\ UNCHANGED <<stage, poolVars>>
LoopReturns(p, j) == LoopEnds(p, j) /\ UNCHANGED <<stage, poolVars>>

-----------------------------------------------------------------------------
(* The requests *)

PoolOpen == stage \notin {"closing", "down"}

(* Shutdown closes the listeners first: no request is accepted after it.   *)
Serve(l) ==
    /\ stage = "serving"
    /\ Pool!Request(l)
    /\ UNCHANGED <<jobVars, stage>>

(* Shutdown ends no request.  One that is still there when it gives up     *)
(* goes on, and so does one whose client stays.                            *)
Handle(l) ==
    /\ \/ PoolOpen /\ (Pool!Acquire(l) \/ Pool!AcquireNested(l))
       \/ Pool!NextRow(l) \/ Pool!FlagsDone(l) \/ Pool!RowsDone(l)
       \/ Pool!Abandon(l)
    /\ UNCHANGED <<jobVars, stage>>

(* A closed pool refuses whoever's turn it is.  The list fails; the flags  *)
(* of a row are left out, since ListMarkets drops that error.              *)
Refuse(l) ==
    /\ stage = "closing"
    /\ idle > 0
    /\ \/ list[l] = "acquiring" /\ Pool!ListTo(l, "away")
       \/ list[l] = "nested" /\ Pool!ListTo(l, "reading")
    /\ UNCHANGED <<jobVars, stage, idle, rowsLeft, read>>

-----------------------------------------------------------------------------
(* main() *)

(* The signal, or the end of ListenAndServe, ends the context of main and  *)
(* with it that of the jobs; Shutdown begins.                              *)
BeginShutdown(p) ==
    /\ Signal(p)
    /\ stage' = "draining"
    /\ UNCHANGED poolVars

(* Shutdown returns when no request is left or after 15 s.                 *)
ShutdownReturns ==
    /\ stage = "draining"
    /\ stage' = "stopping"
    /\ UNCHANGED <<jobVars, poolVars>>

(* Faulty variant: Stop cancels the jobs and does not wait for them.       *)
FaultyStopReturns(p) ==
    /\ stage = "stopping"
    /\ stage' = "closing"
    /\ UNCHANGED <<jobVars, poolVars>>

(* Scheduler.Stop returns when every loop has, and main runs what it       *)
(* deferred: the pool is closed.                                           *)
StopReturns(p) ==
    /\ stage = "stopping"
    /\ \A j \in Jobs : pc[p][j] = "exited"
    /\ stage' = "closing"
    /\ UNCHANGED <<jobVars, poolVars>>

(* No requests and no calls: the process is gone and its connections cut.  *)
Cut ==
    /\ idle' = MaxConns
    /\ list' = [l \in Listers |-> "away"]
    /\ rowsLeft' = [l \in Listers |-> 0]
    /\ read' = [j \in Jobs |-> "away"]

(* Close waits for every connection to come back, then main returns; a     *)
(* request that still waits for one is cut off.                            *)
MainReturns(p) ==
    /\ stage = "closing"
    /\ idle = MaxConns
    /\ Exit(p)
    /\ stage' = "down"
    /\ Cut

-----------------------------------------------------------------------------

Job(p, j) ==
    \/ Ask(p, j) \/ Connect(j) \/ Answer(p, j) \/ QueryDone(p, j)
    \/ GiveUp(p, j) \/ BodyDone(p, j) \/ LoopTurns(p, j) \/ LoopReturns(p, j)

Main(p) ==
    \/ BeginShutdown(p) \/ ShutdownReturns \/ StopReturns(p)
    \/ MainReturns(p)

ServerNext ==
    \/ \E p \in Procs : Main(p) \/ \E j \in Jobs : Job(p, j)
    \/ \E l \in Listers : Serve(l) \/ Handle(l) \/ Refuse(l)
    \/ Tick /\ UNCHANGED <<stage, poolVars>>

(* As in JobRuns and ConnPool: main, the goroutines and the database take  *)
(* their steps (WF) and the pool serves its waiters in turn (SF).  A body  *)
(* that does not hang makes finitely many queries, so it is not for ever   *)
(* between two of them without returning (SF).                             *)
Proceed(p, j) ==
    \/ pc[p][j] # "running" /\ Ask(p, j)
    \/ Answer(p, j) \/ QueryDone(p, j) \/ GiveUp(p, j)
    \/ LoopTurns(p, j) \/ LoopReturns(p, j)

ServerFairness ==
    /\ WF_serverVars(Tick /\ UNCHANGED <<stage, poolVars>>)
    /\ \A l \in Listers :
          /\ SF_serverVars(Handle(l) /\ (Pool!Acquire(l) \/ Pool!AcquireNested(l)))
          /\ WF_serverVars(\/ Refuse(l)
                           \/ /\ Handle(l)
                              /\ \/ Pool!NextRow(l) \/ Pool!FlagsDone(l)
                                 \/ Pool!RowsDone(l))
    /\ \A p \in Procs :
          /\ WF_serverVars(ShutdownReturns \/ StopReturns(p) \/ MainReturns(p))
          /\ \A j \in Jobs :
                /\ WF_serverVars(Proceed(p, j))
                /\ SF_serverVars(Connect(j))
                /\ SF_serverVars((j \in Returning \/ Stopping(p)) /\ BodyDone(p, j))

ServerSafeSpec == ServerInit /\ [][ServerNext]_serverVars
ServerSpec == ServerSafeSpec /\ ServerFairness

-----------------------------------------------------------------------------
(* Properties; JobsKeepRunning and StopCompletes of JobRuns hold here too, *)
(* with a pool that exceeds the lists (ConnPool!PoolExceedsListers).       *)

(* Every connection is idle or held by a list or by a job's call, also     *)
(* after waits that were given up, refused or cut off (scheduler.go:77-99, *)
(* query.go:75-88, main.go:33-83).                                         *)
ConnsAccounted == Pool!ConnsAccounted

(* Nobody's lock is left to a pool that is closed: when main closes it, no *)
(* job holds its lock or is inside a call, although the signal may have    *)
(* fallen into any call of any job and Shutdown may have timed out         *)
(* (main.go:33, 78-83, scheduler.go:46-51, 82-86).                         *)
LocksFreedBeforeClose ==
    ~PoolOpen => \A p \in Procs, j \in Jobs : ~Holds(p, j) /\ read[j] = "away"

(* Why that is so, and what makes it inductive: the stage of main follows  *)
(* the process, the pool is closed only after every loop has ended, and    *)
(* calls are made only by a loop that is inside run().                     *)
StageFollowsProcess ==
    \A p \in Procs :
        /\ stage = "serving" <=> Up(p)
        /\ stage = "down" <=> proc[p] = "down"
        /\ ~PoolOpen => \A j \in Jobs : pc[p][j] = "exited"

CallsInsideRuns ==
    \A p \in Procs, j \in Jobs :
        read[j] # "away" => pc[p][j] \notin {"select", "exited"}

(* A market list that is asked for is answered or given up, with the jobs  *)
(* taking connections beside it, and whether or not the process is told to *)
(* stop meanwhile (router.go:76-92, query.go:36-89, main.go:33-83).        *)
ListsAnswered == Pool!ListsAnswered

==============================================================================
