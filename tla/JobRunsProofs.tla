---------------------------- MODULE JobRunsProofs ----------------------------
(***************************************************************************)
(* Proofs about the job loops, for any number of processes and jobs, any   *)
(* lease and any number of faults, signals and crashes:                    *)
(*   - two processes are at work on one job only after an overrun;         *)
(*   - no path through run() leaks a lock;                                 *)
(*   - only a fault, a signal or a crash leaves a run record open.         *)
(***************************************************************************)
EXTENDS JobRuns, TLAPS

HoldPhases == {"starting", "running", "finishing", "releasing"}

(* A loop that moves changes who holds what only for itself.               *)
LEMMA GoToHolds ==
    ASSUME TypeOK, NEW p \in Procs, NEW j \in Jobs, NEW phase \in Phases,
           GoTo(p, j, phase)
    PROVE  /\ pc' \in [Procs -> [Jobs -> Phases]]
           /\ pc'[p][j] = phase
           /\ \A q \in Procs, k \in Jobs :
                 q # p \/ k # j => pc'[q][k] = pc[q][k]
           /\ Holds(p, j)' <=> phase \in HoldPhases
           /\ \A q \in Procs, k \in Jobs :
                 q # p \/ k # j => (Holds(q, k)' <=> Holds(q, k))
<1>1. /\ pc' \in [Procs -> [Jobs -> Phases]]
      /\ pc'[p][j] = phase
      /\ \A q \in Procs, k \in Jobs : q # p \/ k # j => pc'[q][k] = pc[q][k]
  BY DEF GoTo, TypeOK
<1>2. QED
  BY <1>1 DEF Holds, HoldPhases

(* The steps of a loop, and where each of them goes.                       *)
LEMMA LoopMoves ==
    ASSUME NEW p \in Procs, NEW j \in Jobs, Loop(p, j)
    PROVE  \E phase \in Phases : GoTo(p, j, phase)
  BY DEF Loop, TryLock, TryLockOk, TryLockHeld, TryLockFails, StartRun,
         StartRunOk, StartRunFails, BodyReturns, FinishRun, FinishRunOk,
         FinishRunFails, ReleaseLock, ReleaseLockOk, ReleaseLockFails, LetGo,
         TickerFires, LoopEnds, Phases

-----------------------------------------------------------------------------
(* Type *)

LEMMA TypeStep == TypeOK /\ [Next]_vars => TypeOK'
<1> SUFFICES ASSUME TypeOK, [Next]_vars
             PROVE  TypeOK'
  OBVIOUS
<1> USE JobRunsAssumption
<1>1. ASSUME NEW p \in Procs, NEW j \in Jobs, Loop(p, j)
      PROVE  TypeOK'
  <2>1. pc' \in [Procs -> [Jobs -> Phases]]
    BY <1>1, LoopMoves, GoToHolds
  <2> USE <2>1 DEF TypeOK, NoRow
  <2>2. CASE TryLockOk(p, j)
    BY <2>2 DEF TryLockOk, WriteLock, counts
  <2>3. CASE TryLockHeld(p, j)
    BY <2>3 DEF TryLockHeld, dbVars, counts, history
  <2>4. CASE TryLockFails(p, j)
    <3>1. /\ lease' \in [Jobs -> NoRow..TTL]
          /\ lessee' \in [Jobs -> Procs \cup {Nobody}]
      <4>1. CASE UNCHANGED <<lease, lessee>>
        BY <4>1
      <4>2. CASE WriteLock(j, Nobody)
        BY <4>2 DEF WriteLock
      <4>3. QED
        BY <2>4, <4>1, <4>2 DEF TryLockFails
    <3>2. faults' \in 0..MaxFaults /\ UNCHANGED <<stops, crashes>>
      BY <2>4 DEF TryLockFails, CallFails, counts
    <3>3. UNCHANGED <<proc, openRun, abandoned, overran>>
      BY <2>4 DEF TryLockFails
    <3>4. QED
      BY <3>1, <3>2, <3>3
  <2>5. CASE StartRunOk(p, j)
    BY <2>5 DEF StartRunOk, counts, history
  <2>6. CASE StartRunFails(p, j)
    BY <2>6 DEF StartRunFails, CallFails, counts, history
  <2>7. CASE BodyReturns(p, j)
    <3>1. /\ openRun' \in [Procs -> [Jobs -> BOOLEAN]]
          /\ abandoned' \subseteq Jobs
      <4>1. CASE UNCHANGED <<openRun, abandoned>>
        BY <4>1
      <4>2. CASE LeaveRecordOpen(p, j)
        BY <4>2 DEF LeaveRecordOpen
      <4>3. QED
        BY <2>7, <4>1, <4>2 DEF BodyReturns
    <3>2. UNCHANGED <<proc, lease, faults, stops, crashes, lessee, overran>>
      BY <2>7 DEF BodyReturns, counts, history
    <3>3. QED
      BY <3>1, <3>2
  <2>8. CASE FinishRunOk(p, j)
    BY <2>8 DEF FinishRunOk, counts, history
  <2>9. CASE FinishRunFails(p, j)
    BY <2>9 DEF FinishRunFails, LeaveRecordOpen, CallFails, counts, history
  <2>10. CASE ReleaseLockOk(p, j)
    BY <2>10 DEF ReleaseLockOk, LetGo, counts
  <2>11. CASE ReleaseLockFails(p, j)
    BY <2>11 DEF ReleaseLockFails, LetGo, dbVars
  <2>12. CASE TickerFires(p, j)
    BY <2>12 DEF TickerFires, dbVars, counts, history
  <2>13. CASE LoopEnds(p, j)
    BY <2>13 DEF LoopEnds, dbVars, counts, history
  <2>14. QED
    BY <1>1, <2>2, <2>3, <2>4, <2>5, <2>6, <2>7, <2>8, <2>9, <2>10, <2>11, <2>12, <2>13
       DEF Loop, TryLock, StartRun, FinishRun, ReleaseLock
<1>2. ASSUME NEW p \in Procs, Process(p)
      PROVE  TypeOK'
  <2>1. CASE Signal(p)
    BY <2>1 DEF Signal, TypeOK, dbVars, history
  <2>2. CASE Exit(p)
    BY <2>2 DEF Exit, TypeOK, dbVars, counts, history
  <2>3. CASE Crash(p)
    BY <2>3 DEF Crash, TypeOK, Phases
  <2>4. CASE Start(p)
    BY <2>4 DEF Start, TypeOK, Phases, dbVars, counts, history
  <2>5. QED
    BY <1>2, <2>1, <2>2, <2>3, <2>4 DEF Process
<1>3. CASE Tick
  BY <1>3 DEF Tick, TypeOK, counts, NoRow
<1>4. CASE UNCHANGED vars
  BY <1>4 DEF vars, TypeOK, dbVars, counts, history
<1>5. QED
  BY <1>1, <1>2, <1>3, <1>4 DEF Next

(* Processes, loops, leases and records stay within their ranges.          *)
THEOREM JobRunsTypeCorrect == Spec => []TypeOK
<1>1. Init => TypeOK
  BY JobRunsAssumption DEF Init, TypeOK, Phases, NoRow
<1>2. QED
  BY <1>1, TypeStep, PTL DEF Spec, SafeSpec

-----------------------------------------------------------------------------
(* Processes come and go *)

(* The steps of a loop happen in a process that is not down, and leave it. *)
LEMMA LoopAlive ==
    ASSUME TypeOK, LifeCycle, NEW p \in Procs, NEW j \in Jobs, Loop(p, j)
    PROVE  /\ proc[p] # "down"
           /\ proc' = proc
           /\ stops' = stops
<1>1. pc[p][j] # "exited"
  BY DEF Loop, TryLock, TryLockOk, TryLockHeld, TryLockFails, StartRun,
         StartRunOk, StartRunFails, BodyReturns, FinishRun, FinishRunOk,
         FinishRunFails, ReleaseLock, ReleaseLockOk, ReleaseLockFails,
         TickerFires, LoopEnds
<1>2. proc' = proc /\ stops' = stops
  BY DEF Loop, TryLock, TryLockOk, TryLockHeld, TryLockFails, StartRun,
         StartRunOk, StartRunFails, BodyReturns, FinishRun, FinishRunOk,
         FinishRunFails, ReleaseLock, ReleaseLockOk, ReleaseLockFails,
         TickerFires, LoopEnds, CallFails, counts
<1>3. QED
  BY <1>1, <1>2 DEF LifeCycle

LEMMA LifeCycleStep == TypeOK /\ LifeCycle /\ [Next]_vars => LifeCycle'
<1> SUFFICES ASSUME TypeOK, LifeCycle, [Next]_vars
             PROVE  LifeCycle'
  OBVIOUS
<1> USE DEF LifeCycle, Stopping
<1>1. ASSUME NEW p \in Procs, NEW j \in Jobs, Loop(p, j)
      PROVE  LifeCycle'
  <2>1. proc[p] # "down" /\ proc' = proc /\ stops' = stops
    BY <1>1, LoopAlive
  <2>2. \A q \in Procs, k \in Jobs : q # p => pc'[q][k] = pc[q][k]
    BY <1>1, LoopMoves, GoToHolds
  <2>3. QED
    BY <2>1, <2>2
<1>2. ASSUME NEW p \in Procs, Process(p)
      PROVE  LifeCycle'
  <2>1. CASE Signal(p)
    BY <2>1 DEF Signal, Up, TypeOK
  <2>2. CASE Exit(p)
    BY <2>2 DEF Exit, TypeOK, counts
  <2>3. CASE Crash(p)
    BY <2>3 DEF Crash, TypeOK
  <2>4. CASE Start(p)
    BY <2>4 DEF Start, TypeOK, counts
  <2>5. QED
    BY <1>2, <2>1, <2>2, <2>3, <2>4 DEF Process
<1>3. CASE Tick
  BY <1>3 DEF Tick, counts
<1>4. CASE UNCHANGED vars
  BY <1>4 DEF vars, counts
<1>5. QED
  BY <1>1, <1>2, <1>3, <1>4 DEF Next

(* Signalling, leaving or starting a process changes no holder and none of *)
(* the leases.                                                             *)
LEMMA ProcessHolds ==
    ASSUME TypeOK, LifeCycle, NEW p \in Procs, Signal(p) \/ Exit(p) \/ Start(p)
    PROVE  /\ \A q \in Procs, j \in Jobs : Holds(q, j)' <=> Holds(q, j)
           /\ UNCHANGED <<dbVars, history>>
<1>1. CASE Signal(p)
  BY <1>1 DEF Signal, Holds
<1>2. CASE Exit(p)
  BY <1>2 DEF Exit, Holds
<1>3. CASE Start(p)
  BY <1>3 DEF Start, Holds, LifeCycle, TypeOK
<1>4. QED
  BY <1>1, <1>2, <1>3

-----------------------------------------------------------------------------
(* The lease backs its holder *)

(* The steps of a run between TryLock and ReleaseLock, and those outside a *)
(* run, leave leases, lessees and holders alone.                           *)
LEMMA QuietStep ==
    ASSUME TypeOK, NEW p \in Procs, NEW j \in Jobs,
           \/ TryLockHeld(p, j) \/ StartRun(p, j) \/ BodyReturns(p, j)
           \/ FinishRun(p, j) \/ TickerFires(p, j) \/ LoopEnds(p, j)
    PROVE  /\ UNCHANGED <<lease, lessee, overran>>
           /\ \A q \in Procs, k \in Jobs : Holds(q, k)' <=> Holds(q, k)
<1>1. UNCHANGED <<lease, lessee, overran>>
  BY DEF TryLockHeld, StartRun, StartRunOk, StartRunFails, BodyReturns,
         FinishRun, FinishRunOk, FinishRunFails, TickerFires, LoopEnds,
         dbVars, history
<1>2. ASSUME TryLockHeld(p, j) \/ TickerFires(p, j) \/ LoopEnds(p, j)
      PROVE  \A q \in Procs, k \in Jobs : Holds(q, k)' <=> Holds(q, k)
  <2>1. PICK phase \in Phases \ HoldPhases : GoTo(p, j, phase)
    BY <1>2 DEF TryLockHeld, TickerFires, LoopEnds, Phases, HoldPhases
  <2>2. ~Holds(p, j)
    BY <1>2 DEF TryLockHeld, TickerFires, LoopEnds, Holds
  <2>3. QED
    BY <2>1, <2>2, GoToHolds
<1>3. ASSUME StartRun(p, j) \/ BodyReturns(p, j) \/ FinishRun(p, j)
      PROVE  \A q \in Procs, k \in Jobs : Holds(q, k)' <=> Holds(q, k)
  <2>1. PICK phase \in Phases \cap HoldPhases : GoTo(p, j, phase)
    BY <1>3 DEF StartRun, StartRunOk, StartRunFails, BodyReturns, FinishRun,
                FinishRunOk, FinishRunFails, Phases, HoldPhases
  <2>2. Holds(p, j)
    BY <1>3 DEF StartRun, StartRunOk, StartRunFails, BodyReturns, FinishRun,
                FinishRunOk, FinishRunFails, Holds
  <2>3. QED
    BY <2>1, <2>2, GoToHolds
<1>4. QED
  BY <1>1, <1>2, <1>3

(* TryLock writes a fresh lease only where none runs; then, or without     *)
(* writing anything, the loop moves on.                                    *)
LEMMA TryLockStep ==
    ASSUME TypeOK, NEW p \in Procs, NEW j \in Jobs,
           TryLockOk(p, j) \/ TryLockFails(p, j)
    PROVE  /\ overran' = overran
           /\ \A q \in Procs, k \in Jobs :
                 q # p \/ k # j => (Holds(q, k)' <=> Holds(q, k))
           /\ ~Holds(p, j)
           /\ \/ ~Holds(p, j)' /\ UNCHANGED <<lease, lessee>>
              \/ /\ lease[j] < 0
                 /\ lease' = [lease EXCEPT ![j] = TTL]
                 /\ \/ /\ Holds(p, j)'
                       /\ lessee' = [lessee EXCEPT ![j] = p]
                    \/ /\ ~Holds(p, j)'
                       /\ lessee' = [lessee EXCEPT ![j] = Nobody]
<1>1. CASE TryLockOk(p, j)
  <2>1. PICK phase \in {"starting", "releasing"} : GoTo(p, j, phase)
    BY <1>1 DEF TryLockOk
  <2>2. phase \in Phases /\ phase \in HoldPhases
    BY DEF Phases, HoldPhases
  <2>3. /\ Holds(p, j)'
        /\ \A q \in Procs, k \in Jobs :
              q # p \/ k # j => (Holds(q, k)' <=> Holds(q, k))
    BY <2>1, <2>2, GoToHolds
  <2>4. QED
    BY <1>1, <2>3 DEF TryLockOk, WriteLock, Lockable, Holds
<1>2. CASE TryLockFails(p, j)
  <2>1. GoTo(p, j, "select")
    BY <1>2 DEF TryLockFails
  <2>2. "select" \in Phases /\ "select" \notin HoldPhases
    BY DEF Phases, HoldPhases
  <2>3. /\ ~Holds(p, j)'
        /\ \A q \in Procs, k \in Jobs :
              q # p \/ k # j => (Holds(q, k)' <=> Holds(q, k))
    BY <2>1, <2>2, GoToHolds
  <2>4. QED
    BY <1>2, <2>3 DEF TryLockFails, WriteLock, Lockable, Holds
<1>3. QED
  BY <1>1, <1>2

(* ReleaseLock, successful or not, ends a holding, and ends an overrun     *)
(* when it is the last.                                                    *)
LEMMA ReleaseStep ==
    ASSUME TypeOK, NEW p \in Procs, NEW j \in Jobs, ReleaseLock(p, j)
    PROVE  /\ Holds(p, j) /\ ~Holds(p, j)'
           /\ \A q \in Procs, k \in Jobs :
                 q # p \/ k # j => (Holds(q, k)' <=> Holds(q, k))
           /\ overran' = IF Holders(j) \subseteq {p}
                         THEN overran \ {j} ELSE overran
           /\ \/ /\ lease' = [lease EXCEPT ![j] = NoRow]
                 /\ lessee' = [lessee EXCEPT ![j] = Nobody]
              \/ /\ lease' = lease
                 /\ lessee' = [lessee EXCEPT ![j] = IF @ = p THEN Nobody ELSE @]
<1>1. LetGo(p, j) /\ GoTo(p, j, "select") /\ pc[p][j] = "releasing"
  BY DEF ReleaseLock, ReleaseLockOk, ReleaseLockFails, LetGo
<1>2. "select" \in Phases /\ "select" \notin HoldPhases
  BY DEF Phases, HoldPhases
<1>3. /\ ~Holds(p, j)'
      /\ \A q \in Procs, k \in Jobs :
            q # p \/ k # j => (Holds(q, k)' <=> Holds(q, k))
  BY <1>1, <1>2, GoToHolds
<1>4. Holds(p, j)
  BY <1>1 DEF Holds
<1>5. QED
  BY <1>1, <1>3, <1>4
     DEF ReleaseLock, ReleaseLockOk, ReleaseLockFails, LetGo, dbVars

-----------------------------------------------------------------------------
(* Exclusion *)

LEMMA BacksStep ==
    TypeOK /\ LifeCycle /\ LeaseBacksHolder /\ [Next]_vars => LeaseBacksHolder'
<1> SUFFICES ASSUME TypeOK, LifeCycle, LeaseBacksHolder, [Next]_vars,
                    NEW k \in Jobs, k \notin overran',
                    NEW q \in Procs, Holds(q, k)'
             PROVE  lease'[k] >= 0 /\ lessee'[k] = q
  BY DEF LeaseBacksHolder, Holders
<1>0. k \notin overran /\ Holds(q, k) => lease[k] >= 0 /\ lessee[k] = q
  BY DEF LeaseBacksHolder, Holders
<1>1. ASSUME NEW p \in Procs, NEW j \in Jobs,
             \/ TryLockHeld(p, j) \/ StartRun(p, j) \/ BodyReturns(p, j)
             \/ FinishRun(p, j) \/ TickerFires(p, j) \/ LoopEnds(p, j)
      PROVE  lease'[k] >= 0 /\ lessee'[k] = q
  BY <1>0, <1>1, QuietStep
<1>2. ASSUME NEW p \in Procs, NEW j \in Jobs,
             TryLockOk(p, j) \/ TryLockFails(p, j)
      PROVE  lease'[k] >= 0 /\ lessee'[k] = q
  <2>1. k \notin overran
    BY <1>2, TryLockStep
  <2>2. CASE k # j
    BY <1>0, <1>2, <2>1, <2>2, TryLockStep DEF TypeOK
  <2>3. CASE k = j /\ UNCHANGED <<lease, lessee>> /\ ~Holds(p, j)'
    BY <1>0, <1>2, <2>1, <2>3, TryLockStep
  <2>4. CASE /\ k = j
             /\ lease[j] < 0
             /\ lease' = [lease EXCEPT ![j] = TTL]
    \* No lease ran, so nobody held k: the new holder is the only one.
    <3>1. lease[k] \in Int /\ ~(lease[k] >= 0)
      BY <2>4 DEF TypeOK, NoRow
    <3>2. ~Holds(q, k)
      BY <1>0, <2>1, <3>1
    <3>3. q = p
      BY <1>2, <2>4, <3>2, TryLockStep
    <3>4. lessee' = [lessee EXCEPT ![j] = p]
      BY <1>2, <2>4, <3>1, <3>3, TryLockStep
    <3>5. QED
      BY <2>4, <3>3, <3>4, JobRunsAssumption DEF TypeOK
  <2>5. QED
    BY <1>2, <2>2, <2>3, <2>4, TryLockStep
<1>3. ASSUME NEW p \in Procs, NEW j \in Jobs, ReleaseLock(p, j)
      PROVE  lease'[k] >= 0 /\ lessee'[k] = q
  <2>1. CASE k # j
    BY <1>0, <1>3, <2>1, ReleaseStep DEF TypeOK
  <2>2. CASE k = j
    \* q is not the one that let go, so k was overrun, and still is.
    <3>1. q # p /\ Holds(q, k) /\ Holds(p, k)
      BY <1>3, <2>2, ReleaseStep
    <3>2. k \in overran
      BY <1>0, <3>1, <1>3, <2>2 DEF LeaseBacksHolder, Holders
    <3>3. ~(Holders(k) \subseteq {p})
      BY <3>1 DEF Holders
    <3>4. k \in overran'
      BY <1>3, <2>2, <3>2, <3>3, ReleaseStep
    <3>5. QED
      BY <3>4
  <2>3. QED
    BY <2>1, <2>2
<1>4. ASSUME NEW p \in Procs, Signal(p) \/ Exit(p) \/ Start(p)
      PROVE  lease'[k] >= 0 /\ lessee'[k] = q
  BY <1>0, <1>4, ProcessHolds DEF dbVars, history
<1>5. ASSUME NEW p \in Procs, Crash(p)
      PROVE  lease'[k] >= 0 /\ lessee'[k] = q
  <2>1. q # p /\ Holds(q, k)
    BY <1>5 DEF Crash, Holds, TypeOK
  <2>2. k \notin overran
    BY <1>5, <2>1 DEF Crash, Holders
  <2>3. QED
    BY <1>0, <1>5, <2>1, <2>2 DEF Crash, TypeOK
<1>6. CASE Tick
  <2>1. Holds(q, k)
    BY <1>6 DEF Tick, Holds
  <2>2. k \notin overran /\ lease[k] # 0
    BY <1>6, <2>1 DEF Tick, Holders
  <2>3. QED
    BY <1>0, <1>6, <2>1, <2>2 DEF Tick, TypeOK, NoRow
<1>7. CASE UNCHANGED vars
  BY <1>0, <1>7 DEF vars, dbVars, history, Holds
<1>8. QED
  BY <1>1, <1>2, <1>3, <1>4, <1>5, <1>6, <1>7
     DEF Next, Loop, TryLock, Process

(* Two processes are at work on one job only after its lease has ended     *)
(* under one of them, and again not once all of them are through           *)
(* (scheduler.go:78-86, store.go:240-254).                                 *)
THEOREM JobsExclusiveUntilOverrun ==
    Spec => [](LeaseBacksHolder /\ ExclusiveUntilOverrun)
<1>1. Init => LifeCycle /\ LeaseBacksHolder
  BY DEF Init, LifeCycle, Stopping, LeaseBacksHolder, Holders, Holds
<1>2. LeaseBacksHolder => ExclusiveUntilOverrun
  BY DEF LeaseBacksHolder, ExclusiveUntilOverrun
<1>3. QED
  BY <1>1, <1>2, LifeCycleStep, BacksStep, JobRunsTypeCorrect, PTL
     DEF Spec, SafeSpec

-----------------------------------------------------------------------------
(* No lock leaks *)

LEMMA LeakStep ==
    TypeOK /\ LifeCycle /\ NoLockLeaks /\ [Next]_vars => NoLockLeaks'
<1> SUFFICES ASSUME TypeOK, LifeCycle, NoLockLeaks, [Next]_vars,
                    NEW k \in Jobs, lease'[k] >= 0, lessee'[k] # Nobody
             PROVE  \E q \in Procs : lessee'[k] = q /\ Holds(q, k)'
  BY DEF NoLockLeaks, Holds
<1> DEFINE Goal == \E q \in Procs : lessee'[k] = q /\ Holds(q, k)'
<1>0. lease[k] >= 0 /\ lessee[k] # Nobody
        => Holds(lessee[k], k) /\ lessee[k] \in Procs
  BY DEF NoLockLeaks, TypeOK
<1>1. ASSUME NEW p \in Procs, NEW j \in Jobs,
             \/ TryLockHeld(p, j) \/ StartRun(p, j) \/ BodyReturns(p, j)
             \/ FinishRun(p, j) \/ TickerFires(p, j) \/ LoopEnds(p, j)
      PROVE  Goal
  BY <1>0, <1>1, QuietStep
<1>2. ASSUME NEW p \in Procs, NEW j \in Jobs,
             TryLockOk(p, j) \/ TryLockFails(p, j)
      PROVE  Goal
  <2>1. CASE k # j
    BY <1>0, <1>2, <2>1, TryLockStep DEF TypeOK
  <2>2. CASE k = j /\ UNCHANGED <<lease, lessee>>
    BY <1>0, <1>2, <2>2, TryLockStep
  <2>3. CASE k = j /\ ~UNCHANGED <<lease, lessee>>
    <3>1. CASE lessee' = [lessee EXCEPT ![j] = p] /\ Holds(p, j)'
      BY <2>3, <3>1 DEF TypeOK
    <3>2. CASE lessee' = [lessee EXCEPT ![j] = Nobody]
      BY <2>3, <3>2 DEF TypeOK
    <3>3. QED
      BY <1>2, <2>3, <3>1, <3>2, TryLockStep
  <2>4. QED
    BY <2>1, <2>2, <2>3
<1>3. ASSUME NEW p \in Procs, NEW j \in Jobs, ReleaseLock(p, j)
      PROVE  Goal
  <2>1. CASE k # j
    BY <1>0, <1>3, <2>1, ReleaseStep DEF TypeOK
  <2>2. CASE k = j
    <3>1. lessee[k] # p /\ lessee'[k] = lessee[k] /\ lease'[k] = lease[k]
      BY <1>3, <2>2, ReleaseStep DEF TypeOK
    <3>2. QED
      BY <1>0, <1>3, <2>2, <3>1, ReleaseStep
  <2>3. QED
    BY <2>1, <2>2
<1>4. ASSUME NEW p \in Procs, Signal(p) \/ Exit(p) \/ Start(p)
      PROVE  Goal
  BY <1>0, <1>4, ProcessHolds DEF dbVars, history
<1>5. ASSUME NEW p \in Procs, Crash(p)
      PROVE  Goal
  <2>1. lessee[k] # p /\ lessee'[k] = lessee[k] /\ lease'[k] = lease[k]
    BY <1>5 DEF Crash, TypeOK
  <2>2. QED
    BY <1>0, <1>5, <2>1 DEF Crash, Holds, TypeOK
<1>6. CASE Tick
  <2>1. lease[k] >= 0 /\ lessee'[k] = lessee[k]
    BY <1>6 DEF Tick, TypeOK, NoRow
  <2>2. QED
    BY <1>0, <1>6, <2>1 DEF Tick, Holds
<1>7. CASE UNCHANGED vars
  BY <1>0, <1>7 DEF vars, dbVars, history, Holds
<1>8. QED
  BY <1>1, <1>2, <1>3, <1>4, <1>5, <1>6, <1>7
     DEF Next, Loop, TryLock, Process

(* Every path through run() that was told it holds the lock releases it: a *)
(* lock row is left to its expiry only by a crash, by a lost answer or by  *)
(* a failed delete (scheduler.go:78-90).                                   *)
THEOREM JobsLeakNoLock == Spec => []NoLockLeaks
<1>1. Init => LifeCycle /\ NoLockLeaks
  BY DEF Init, LifeCycle, Stopping, NoLockLeaks, NoRow
<1>2. QED
  BY <1>1, LifeCycleStep, LeakStep, JobRunsTypeCorrect, PTL
     DEF Spec, SafeSpec

-----------------------------------------------------------------------------
(* Run records *)

LEMMA RecordStep ==
    TypeOK /\ LifeCycle /\ RecordsClosed /\ [Next]_vars => RecordsClosed'
<1> SUFFICES ASSUME TypeOK, LifeCycle, RecordsClosed, [Next]_vars,
                    faults' = 0, stops' = 0, crashes' = 0
             PROVE  abandoned' = {}
  BY DEF RecordsClosed
<1> USE DEF TypeOK
<1>1. faults = 0 /\ stops = 0 /\ crashes = 0 => abandoned = {}
  BY DEF RecordsClosed
<1>2. ASSUME NEW p \in Procs, CallFails(p)
      PROVE  FALSE
  BY <1>2 DEF CallFails, LifeCycle, counts
<1>3. ASSUME NEW p \in Procs, NEW j \in Jobs, BodyReturns(p, j)
      PROVE  abandoned' = {}
  BY <1>1, <1>3 DEF BodyReturns, LifeCycle, counts
<1>4. ASSUME NEW p \in Procs, NEW j \in Jobs,
             \/ TryLockOk(p, j) \/ TryLockHeld(p, j) \/ StartRunOk(p, j)
             \/ FinishRunOk(p, j) \/ ReleaseLockOk(p, j)
             \/ TickerFires(p, j) \/ LoopEnds(p, j)
      PROVE  abandoned' = {}
  BY <1>1, <1>4 DEF TryLockOk, TryLockHeld, StartRunOk, FinishRunOk,
                    ReleaseLockOk, TickerFires, LoopEnds, counts, dbVars
<1>5. ASSUME NEW p \in Procs, NEW j \in Jobs,
             \/ TryLockFails(p, j) \/ StartRunFails(p, j)
             \/ FinishRunFails(p, j) \/ ReleaseLockFails(p, j)
      PROVE  abandoned' = {}
  BY <1>2, <1>5 DEF TryLockFails, StartRunFails, FinishRunFails,
                    ReleaseLockFails
<1>6. ASSUME NEW p \in Procs, Process(p)
      PROVE  abandoned' = {}
  BY <1>1, <1>6 DEF Process, Signal, Exit, Crash, Start, counts, dbVars
<1>7. CASE Tick
  BY <1>1, <1>7 DEF Tick, counts
<1>8. CASE UNCHANGED vars
  BY <1>1, <1>8 DEF vars, counts, dbVars
<1>9. QED
  BY <1>3, <1>4, <1>5, <1>6, <1>7, <1>8
     DEF Next, Loop, TryLock, StartRun, FinishRun, ReleaseLock

(* Without a fault, a signal or a crash every run closes its own record,   *)
(* failed bodies included (scheduler.go:87-99).                            *)
THEOREM JobsCloseRecords == Spec => []RecordsClosed
<1>1. Init => LifeCycle /\ RecordsClosed
  BY DEF Init, LifeCycle, Stopping, RecordsClosed
<1>2. QED
  BY <1>1, LifeCycleStep, RecordStep, JobRunsTypeCorrect, PTL
     DEF Spec, SafeSpec

==============================================================================
