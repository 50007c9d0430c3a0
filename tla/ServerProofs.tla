----------------------------- MODULE ServerProofs -----------------------------
(***************************************************************************)
(* Proofs about the server process, for any jobs, any number of requests   *)
(* and any pool:                                                           *)
(*   - its jobs go through the steps of JobRuns and no others, so what is  *)
(*     proved of them there holds here;                                    *)
(*   - no connection is lost between jobs, requests and shutdown;          *)
(*   - the pool is closed only when no job holds its lock any more.        *)
(*                                                                         *)
(* What a step does to the pool is taken from ConnPoolProofs.              *)
(***************************************************************************)
EXTENDS Server, JobRunsProofs, FiniteSetTheorems

Conns == INSTANCE ConnPoolProofs WITH Readers <- Jobs

(* The server meets the assumptions ConnPool makes of its constants.       *)
LEMMA PoolConstants == Conns!ConnPoolAssumption
<1>1. \A S : Conns!IsFiniteSet(S) <=> IsFiniteSet(S)
  BY DEF Conns!IsFiniteSet, IsFiniteSet
<1>2. QED
  BY <1>1, ServerAssumption DEF Conns!ConnPoolAssumption

(* There is one process.                                                   *)
LEMMA OneProcess == \A p, q \in Procs : p = q
<1>1. PICK x : Procs = {x}
  BY ServerAssumption, FS_Singleton
<1>2. QED
  BY <1>1

-----------------------------------------------------------------------------
(* The jobs *)

(* A step of a job over the pool is a step of its loop, or a wait.         *)
LEMMA JobIsLoop ==
    ASSUME NEW p \in Procs, NEW j \in Jobs, Job(p, j)
    PROVE  Loop(p, j) \/ UNCHANGED vars
<1>1. CASE Ask(p, j) \/ Connect(j) \/ QueryDone(p, j)
  BY <1>1 DEF Ask, Connect, QueryDone, jobVars
<1>2. CASE Answer(p, j)
  BY <1>2 DEF Answer, Loop
<1>3. CASE GiveUp(p, j)
  BY <1>3 DEF GiveUp, jobVars, Loop, TryLock, StartRun, FinishRun
<1>4. CASE BodyDone(p, j) \/ LoopTurns(p, j) \/ LoopReturns(p, j)
  BY <1>4 DEF BodyDone, LoopTurns, LoopReturns, Loop
<1>5. QED
  BY <1>1, <1>2, <1>3, <1>4 DEF Job

(* A step of the server is a step of its jobs, or leaves them alone.       *)
LEMMA JobsStep == [ServerNext]_serverVars => [Next]_vars
<1> SUFFICES ASSUME [ServerNext]_serverVars PROVE [Next]_vars
  OBVIOUS
<1>1. ASSUME NEW p \in Procs, NEW j \in Jobs, Job(p, j)
      PROVE  Loop(p, j) \/ UNCHANGED vars
  BY <1>1, JobIsLoop
<1>2. ASSUME NEW p \in Procs, Main(p)
      PROVE  Process(p) \/ UNCHANGED vars
  BY <1>2 DEF Main, BeginShutdown, ShutdownReturns, StopReturns, MainReturns,
              Process, jobVars
<1>3. ASSUME NEW l \in Listers, Serve(l) \/ Handle(l) \/ Refuse(l)
      PROVE  UNCHANGED vars
  BY <1>3 DEF Serve, Handle, Refuse, jobVars
<1>4. UNCHANGED serverVars => UNCHANGED vars
  BY DEF serverVars, jobVars
<1>5. QED
  BY <1>1, <1>2, <1>3, <1>4 DEF ServerNext, Next

(* Calls that wait for connections, give up or are refused are, for the    *)
(* jobs, calls that take a while or fail: the server implements JobRuns    *)
(* (scheduler.go:77-99, db.go:15).                                         *)
THEOREM ServerImplementsJobs == ServerSafeSpec => SafeSpec
<1>1. ServerInit => Init
  BY DEF ServerInit
<1>2. QED
  BY <1>1, JobsStep, PTL DEF ServerSafeSpec, SafeSpec

LEMMA ServerJobTypes == ServerSafeSpec => [](TypeOK /\ LifeCycle)
<1>1. ServerInit => TypeOK /\ LifeCycle
  BY JobRunsAssumption
     DEF ServerInit, Init, TypeOK, Phases, NoRow, LifeCycle, Stopping
<1>2. QED
  BY <1>1, JobsStep, TypeStep, LifeCycleStep, PTL DEF ServerSafeSpec

(* So no lock leaks, no job is at work twice before an overrun, and only a *)
(* signal leaves a record open, whatever the waits for connections do to   *)
(* the order of the calls (scheduler.go:77-99, store.go:240-254).          *)
THEOREM ServerKeepsLocks ==
    ServerSpec => [](NoLockLeaks /\ ExclusiveUntilOverrun /\ RecordsClosed)
<1>1. ServerInit => NoLockLeaks /\ LeaseBacksHolder /\ RecordsClosed
  BY DEF ServerInit, Init, NoLockLeaks, NoRow, LeaseBacksHolder, Holders,
         Holds, RecordsClosed
<1>2. LeaseBacksHolder => ExclusiveUntilOverrun
  BY DEF LeaseBacksHolder, ExclusiveUntilOverrun
<1>3. QED
  BY <1>1, <1>2, JobsStep, ServerJobTypes, LeakStep, BacksStep, RecordStep, PTL
     DEF ServerSpec, ServerSafeSpec

-----------------------------------------------------------------------------
(* The pool *)

(* Pool and Conns are the same instance of ConnPool.                       *)
LEMMA SameCount == \A S : Pool!Cardinality(S) = Conns!Cardinality(S)
  BY DEF Pool!Cardinality, Conns!Cardinality

LEMMA SamePool ==
    /\ Pool!TypeOK <=> Conns!TypeOK
    /\ Pool!ConnsAccounted <=> Conns!ConnsAccounted
  BY SameCount
     DEF Pool!TypeOK, Conns!TypeOK, Pool!ListStages, Conns!ListStages,
         Pool!ConnsAccounted, Conns!ConnsAccounted, Pool!Outer, Conns!Outer,
         Pool!Inner, Conns!Inner, Pool!Using, Conns!Using

LEMMA SamePoolNext ==
    /\ Pool!TypeOK' <=> Conns!TypeOK'
    /\ Pool!ConnsAccounted' <=> Conns!ConnsAccounted'
  BY SamePool, PTL

LEMMA SameSteps ==
    /\ \A l \in Listers : Pool!Lister(l) <=> Conns!Lister(l)
    /\ \A j \in Jobs : Pool!Reader(j) <=> Conns!Reader(j)
<1>1. ASSUME NEW l \in Listers
      PROVE  Pool!Lister(l) <=> Conns!Lister(l)
  BY DEF Pool!Lister, Pool!Request, Pool!Acquire, Pool!NextRow,
         Pool!AcquireNested, Pool!FlagsDone, Pool!RowsDone, Pool!Abandon,
         Pool!ListTo, Pool!Get, Pool!Outer, Pool!Inner,
         Conns!Lister, Conns!Request, Conns!Acquire, Conns!NextRow,
         Conns!AcquireNested, Conns!FlagsDone, Conns!RowsDone, Conns!Abandon,
         Conns!ListTo, Conns!Get, Conns!Outer, Conns!Inner
<1>2. ASSUME NEW j \in Jobs
      PROVE  Pool!Reader(j) <=> Conns!Reader(j)
  BY DEF Pool!Reader, Pool!BeginRead, Pool!AcquireRead, Pool!AbandonRead,
         Pool!EndRead, Pool!ReadTo, Pool!Get,
         Conns!Reader, Conns!BeginRead, Conns!AcquireRead, Conns!AbandonRead,
         Conns!EndRead, Conns!ReadTo, Conns!Get
<1>3. QED
  BY <1>1, <1>2

PoolKept == Pool!TypeOK /\ Pool!ConnsAccounted

(* The steps that are steps of ConnPool.                                   *)
LEMMA PoolMoves ==
    ASSUME PoolKept,
           \/ \E l \in Listers : Pool!Lister(l)
           \/ \E j \in Jobs : Pool!Reader(j)
    PROVE  PoolKept'
<1>1. Conns!PoolInv
  BY SamePool DEF PoolKept, Conns!PoolInv
<1>2. [Conns!Next]_(Conns!vars)
  BY SameSteps DEF Conns!Next
<1>3. Conns!PoolInv'
  BY <1>1, <1>2, PoolConstants, Conns!PoolStep
<1>4. Conns!TypeOK' /\ Conns!ConnsAccounted'
  BY <1>3 DEF Conns!PoolInv
<1>5. QED
  BY <1>4, SamePoolNext DEF PoolKept

(* A step under which the same lists and calls hold connections, and as    *)
(* many are idle.                                                          *)
LEMMA HoldersKept ==
    ASSUME PoolKept, idle' = idle, Pool!TypeOK',
           Pool!Outer' = Pool!Outer, Pool!Inner' = Pool!Inner,
           Pool!Using' = Pool!Using
    PROVE  PoolKept'
  BY DEF PoolKept, Pool!ConnsAccounted

(* Whoever gives up had no connection.                                     *)
LEMMA GivesUpNothing ==
    ASSUME PoolKept, NEW p \in Procs, NEW j \in Jobs, GiveUp(p, j)
    PROVE  PoolKept'
<1>1. /\ read[j] # "using"
      /\ read' = [read EXCEPT ![j] = "away"]
      /\ UNCHANGED <<idle, list, rowsLeft>>
  BY DEF GiveUp, Pool!ReadTo
<1>2. Pool!TypeOK'
  BY <1>1 DEF PoolKept, Pool!TypeOK
<1>3. Pool!Using' = Pool!Using
  BY <1>1 DEF PoolKept, Pool!TypeOK, Pool!Using
<1>4. Pool!Outer' = Pool!Outer /\ Pool!Inner' = Pool!Inner
  BY <1>1 DEF Pool!Outer, Pool!Inner
<1>5. QED
  BY <1>1, <1>2, <1>3, <1>4, HoldersKept

(* Neither had who is refused: a list, or the flags of a row.              *)
LEMMA RefusedNothing ==
    ASSUME PoolKept, NEW l \in Listers, Refuse(l)
    PROVE  PoolKept'
<1>1. /\ UNCHANGED <<idle, rowsLeft, read>>
      /\ \/ list[l] = "acquiring" /\ list' = [list EXCEPT ![l] = "away"]
         \/ list[l] = "nested" /\ list' = [list EXCEPT ![l] = "reading"]
  BY DEF Refuse, Pool!ListTo
<1>2. Pool!TypeOK'
  BY <1>1 DEF PoolKept, Pool!TypeOK, Pool!ListStages
<1>3. Pool!Outer' = Pool!Outer /\ Pool!Inner' = Pool!Inner
  BY <1>1 DEF PoolKept, Pool!TypeOK, Pool!Outer, Pool!Inner
<1>4. Pool!Using' = Pool!Using
  BY <1>1 DEF Pool!Using
<1>5. QED
  BY <1>1, <1>2, <1>3, <1>4, HoldersKept

(* With nobody on it every connection of the pool is idle.                 *)
Empty ==
    /\ idle = MaxConns
    /\ list = [l \in Listers |-> "away"]
    /\ rowsLeft = [l \in Listers |-> 0]
    /\ read = [j \in Jobs |-> "away"]

LEMMA EmptyPool == Empty => PoolKept
<1> SUFFICES ASSUME Empty PROVE PoolKept
  OBVIOUS
<1>1. Pool!TypeOK
  BY ServerAssumption DEF Empty, Pool!TypeOK, Pool!ListStages
<1>2. Pool!Outer = {} /\ Pool!Inner = {} /\ Pool!Using = {}
  BY DEF Empty, Pool!Outer, Pool!Inner, Pool!Using
<1>3. Pool!Cardinality({}) = Cardinality({})
  BY DEF Pool!Cardinality, Cardinality
<1>4. Pool!ConnsAccounted
  BY <1>2, <1>3, FS_EmptySet, ServerAssumption DEF Empty, Pool!ConnsAccounted
<1>5. QED
  BY <1>1, <1>4 DEF PoolKept

LEMMA EmptyPoolNext == Empty' => PoolKept'
  BY EmptyPool, PTL

LEMMA PoolKeptStep == PoolKept /\ [ServerNext]_serverVars => PoolKept'
<1> SUFFICES ASSUME PoolKept, [ServerNext]_serverVars
             PROVE  PoolKept'
  OBVIOUS
<1>1. ASSUME UNCHANGED poolVars
      PROVE  PoolKept'
  BY <1>1 DEF poolVars, PoolKept, Pool!TypeOK, Pool!ConnsAccounted,
              Pool!Outer, Pool!Inner, Pool!Using
<1>2. ASSUME NEW p \in Procs, NEW j \in Jobs, Job(p, j)
      PROVE  PoolKept'
  <2>1. CASE Ask(p, j) \/ Connect(j) \/ Answer(p, j) \/ QueryDone(p, j)
    <3>1. Pool!Reader(j)
      BY <2>1 DEF Ask, Connect, Answer, QueryDone, Pool!Reader
    <3>2. QED
      BY <3>1, PoolMoves
  <2>2. CASE GiveUp(p, j)
    BY <2>2, GivesUpNothing
  <2>3. CASE BodyDone(p, j) \/ LoopTurns(p, j) \/ LoopReturns(p, j)
    BY <1>1, <2>3 DEF BodyDone, LoopTurns, LoopReturns
  <2>4. QED
    BY <1>2, <2>1, <2>2, <2>3 DEF Job
<1>3. ASSUME NEW p \in Procs, Main(p)
      PROVE  PoolKept'
  <2>1. CASE BeginShutdown(p) \/ ShutdownReturns \/ StopReturns(p)
    BY <1>1, <2>1 DEF BeginShutdown, ShutdownReturns, StopReturns
  <2>2. CASE MainReturns(p)
    BY <2>2, EmptyPoolNext DEF MainReturns, Cut, Empty
  <2>3. QED
    BY <1>3, <2>1, <2>2 DEF Main
<1>4. ASSUME NEW l \in Listers, Serve(l) \/ Handle(l)
      PROVE  PoolKept'
  <2>1. Pool!Lister(l)
    BY <1>4 DEF Serve, Handle, Pool!Lister
  <2>2. QED
    BY <2>1, PoolMoves
<1>5. ASSUME NEW l \in Listers, Refuse(l)
      PROVE  PoolKept'
  BY <1>5, RefusedNothing
<1>6. CASE Tick /\ UNCHANGED <<stage, poolVars>>
  BY <1>1, <1>6
<1>7. CASE UNCHANGED serverVars
  BY <1>1, <1>7 DEF serverVars
<1>8. QED
  BY <1>2, <1>3, <1>4, <1>5, <1>6, <1>7 DEF ServerNext

(* No connection is lost or given back twice, whichever waits are given    *)
(* up, refused or cut off on the way out (scheduler.go:77-99,              *)
(* query.go:75-88, main.go:33-83).                                         *)
THEOREM ServerKeepsConnections == ServerSpec => []ConnsAccounted
<1>1. ServerInit => PoolKept
  BY EmptyPool DEF ServerInit, Pool!Init, Empty
<1>2. PoolKept => ConnsAccounted
  BY DEF PoolKept, ConnsAccounted
<1>3. QED
  BY <1>1, <1>2, PoolKeptStep, PTL DEF ServerSpec, ServerSafeSpec

(* Jobs, requests and stages are type correct.                             *)
THEOREM ServerTypeCorrect == ServerSpec => []ServerTypeOK
<1> DEFINE StageOK == stage \in Stages
<1>1. ServerInit => PoolKept /\ StageOK
  BY EmptyPool DEF ServerInit, Pool!Init, Empty, Stages
<1>2. StageOK /\ [ServerNext]_serverVars => StageOK'
  BY DEF Stages, ServerNext, Job, Ask, Connect, Answer, QueryDone, GiveUp,
         BodyDone, LoopTurns, LoopReturns, Main, BeginShutdown,
         ShutdownReturns, StopReturns, MainReturns, Serve, Handle, Refuse,
         serverVars
<1>3. TypeOK /\ PoolKept /\ StageOK => ServerTypeOK
  BY DEF PoolKept, ServerTypeOK
<1>4. QED
  BY <1>1, <1>2, <1>3, ServerJobTypes, PoolKeptStep, PTL
     DEF ServerSpec, ServerSafeSpec

-----------------------------------------------------------------------------
(* Shutdown *)

(* A job's step moves its own loop, ends or begins its own call, and       *)
(* leaves main and the process alone.                                      *)
LEMMA JobLocal ==
    ASSUME TypeOK, LifeCycle, PoolKept,
           NEW p \in Procs, NEW j \in Jobs, Job(p, j)
    PROVE  /\ UNCHANGED <<stage, proc>>
           /\ \A q \in Procs, k \in Jobs :
                 q # p \/ k # j => pc'[q][k] = pc[q][k]
           /\ \A k \in Jobs : k # j => read'[k] = read[k]
           /\ pc[p][j] = "exited" => pc'[p][j] = "exited"
<1>1. UNCHANGED stage
  BY DEF Job, Ask, Connect, Answer, QueryDone, GiveUp, BodyDone, LoopTurns,
         LoopReturns
<1>2. \A k \in Jobs : k # j => read'[k] = read[k]
  BY DEF Job, Ask, Connect, Answer, QueryDone, GiveUp, BodyDone, LoopTurns,
         LoopReturns, poolVars, Pool!BeginRead, Pool!AcquireRead,
         Pool!EndRead, Pool!ReadTo, PoolKept, Pool!TypeOK
<1>3. Loop(p, j) \/ UNCHANGED vars
  BY JobIsLoop
<1>4. CASE Loop(p, j)
  <2>1. proc' = proc
    BY <1>4, LoopAlive
  <2>2. \A q \in Procs, k \in Jobs : q # p \/ k # j => pc'[q][k] = pc[q][k]
    BY <1>4, LoopMoves, GoToHolds
  <2>3. pc[p][j] # "exited"
    BY <1>4 DEF Loop, TryLock, TryLockOk, TryLockHeld, TryLockFails, StartRun,
                StartRunOk, StartRunFails, BodyReturns, FinishRun,
                FinishRunOk, FinishRunFails, ReleaseLock, ReleaseLockOk,
                ReleaseLockFails, TickerFires, LoopEnds
  <2>4. QED
    BY <1>1, <1>2, <2>1, <2>2, <2>3
<1>5. CASE UNCHANGED vars
  BY <1>1, <1>2, <1>5 DEF vars
<1>6. QED
  BY <1>3, <1>4, <1>5

LEMMA StageStep ==
    /\ TypeOK /\ LifeCycle /\ PoolKept /\ StageFollowsProcess
    /\ [ServerNext]_serverVars
    => StageFollowsProcess'
<1> SUFFICES ASSUME TypeOK, LifeCycle, PoolKept, StageFollowsProcess,
                    [ServerNext]_serverVars
             PROVE  StageFollowsProcess'
  OBVIOUS
<1> USE DEF StageFollowsProcess, PoolOpen, Up, Stopping
<1>1. ASSUME NEW p \in Procs, NEW j \in Jobs, Job(p, j)
      PROVE  StageFollowsProcess'
  <2>1. /\ UNCHANGED <<stage, proc>>
        /\ pc[p][j] = "exited" => pc'[p][j] = "exited"
        /\ \A q \in Procs, k \in Jobs :
              q # p \/ k # j => pc'[q][k] = pc[q][k]
    BY <1>1, JobLocal
  <2>2. QED
    BY <2>1
<1>2. ASSUME NEW p \in Procs, BeginShutdown(p)
      PROVE  StageFollowsProcess'
  BY <1>2, OneProcess DEF BeginShutdown, Signal, TypeOK
<1>3. CASE ShutdownReturns
  BY <1>3 DEF ShutdownReturns, jobVars, vars
<1>4. ASSUME NEW p \in Procs, StopReturns(p)
      PROVE  StageFollowsProcess'
  BY <1>4, OneProcess DEF StopReturns, jobVars, vars
<1>5. ASSUME NEW p \in Procs, MainReturns(p)
      PROVE  StageFollowsProcess'
  BY <1>5, OneProcess DEF MainReturns, Exit, TypeOK
<1>6. ASSUME NEW l \in Listers, Serve(l) \/ Handle(l) \/ Refuse(l)
      PROVE  StageFollowsProcess'
  BY <1>6 DEF Serve, Handle, Refuse, jobVars, vars
<1>7. CASE Tick /\ UNCHANGED <<stage, poolVars>>
  BY <1>7 DEF Tick
<1>8. CASE UNCHANGED serverVars
  BY <1>8 DEF serverVars, jobVars, vars
<1>9. QED
  BY <1>1, <1>2, <1>3, <1>4, <1>5, <1>6, <1>7, <1>8 DEF ServerNext, Main

LEMMA CallsStep ==
    /\ TypeOK /\ LifeCycle /\ PoolKept /\ CallsInsideRuns
    /\ [ServerNext]_serverVars
    => CallsInsideRuns'
<1> SUFFICES ASSUME TypeOK, LifeCycle, PoolKept, CallsInsideRuns,
                    [ServerNext]_serverVars
             PROVE  CallsInsideRuns'
  OBVIOUS
<1> USE DEF CallsInsideRuns
<1>0. read \in [Jobs -> {"away", "acquiring", "using"}]
  BY DEF PoolKept, Pool!TypeOK
<1>1. ASSUME NEW p \in Procs, NEW j \in Jobs, Job(p, j)
      PROVE  CallsInsideRuns'
  \* Only p's own call for j and its own phase may change.
  <2>1. SUFFICES read'[j] # "away" => pc'[p][j] \notin {"select", "exited"}
    BY <1>1, JobLocal, OneProcess
  <2>2. CASE Ask(p, j)
    BY <2>2 DEF Ask, Up, jobVars, vars
  <2>3. CASE Connect(j)
    BY <1>0, <2>3 DEF Connect, Pool!AcquireRead, jobVars, vars
  <2>4. CASE Answer(p, j) \/ QueryDone(p, j) \/ GiveUp(p, j)
    BY <1>0, <2>4 DEF Answer, QueryDone, GiveUp, Pool!EndRead, Pool!ReadTo
  <2>5. CASE BodyDone(p, j)
    BY <2>5 DEF BodyDone, poolVars
  <2>6. CASE LoopTurns(p, j) \/ LoopReturns(p, j)
    BY <2>6 DEF LoopTurns, LoopReturns, TickerFires, LoopEnds, poolVars
  <2>7. QED
    BY <1>1, <2>2, <2>3, <2>4, <2>5, <2>6 DEF Job
<1>2. ASSUME NEW p \in Procs, Main(p)
      PROVE  CallsInsideRuns'
  BY <1>2 DEF Main, BeginShutdown, Signal, ShutdownReturns, StopReturns,
              MainReturns, Cut, Exit, poolVars, jobVars, vars
<1>3. ASSUME NEW l \in Listers, Serve(l) \/ Handle(l) \/ Refuse(l)
      PROVE  CallsInsideRuns'
  BY <1>3 DEF Serve, Handle, Refuse, jobVars, vars, Pool!Request,
              Pool!Acquire, Pool!AcquireNested, Pool!NextRow,
              Pool!FlagsDone, Pool!RowsDone, Pool!Abandon
<1>4. CASE Tick /\ UNCHANGED <<stage, poolVars>>
  BY <1>4 DEF Tick, poolVars
<1>5. CASE UNCHANGED serverVars
  BY <1>5 DEF serverVars, jobVars, vars, poolVars
<1>6. QED
  BY <1>1, <1>2, <1>3, <1>4, <1>5 DEF ServerNext

(* When main closes the pool no job holds its lock or is inside a call,    *)
(* wherever the signal fell and whether or not Shutdown timed out          *)
(* (main.go:33, 78-83, scheduler.go:46-51, 82-86).                         *)
THEOREM LocksAreFreedBeforeClose == ServerSpec => []LocksFreedBeforeClose
<1>1. ServerInit => PoolKept /\ StageFollowsProcess /\ CallsInsideRuns
  BY EmptyPool
     DEF ServerInit, Init, Pool!Init, Empty, StageFollowsProcess, PoolOpen,
         Up, CallsInsideRuns
<1>2. StageFollowsProcess /\ CallsInsideRuns => LocksFreedBeforeClose
  BY DEF StageFollowsProcess, CallsInsideRuns, LocksFreedBeforeClose, Holds
<1>3. QED
  BY <1>1, <1>2, ServerJobTypes, PoolKeptStep, StageStep, CallsStep, PTL
     DEF ServerSpec, ServerSafeSpec

=============================================================================
