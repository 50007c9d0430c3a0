------------------------------- MODULE JobRuns -------------------------------
(***************************************************************************)
(* The ingestion jobs: the loops of internal/ingest/scheduler.go, the job  *)
(* lock and the run records of internal/store/store.go, and the life of    *)
(* the server processes around them (cmd/server/main.go).                  *)
(*                                                                         *)
(* Each process runs one goroutine per job.  The jobs of one process do    *)
(* not meet; the same job of two processes (two replicas, or a server and  *)
(* its successor) meet at the row of job_locks.  The lock is a lease of    *)
(* TTL ticks: nobody renews it, and whoever is done deletes the row.       *)
(*                                                                         *)
(*   locking -> starting -> running -> finishing -> releasing              *)
(*      |  ^       |                                    |  ^               *)
(*      v  |       +------------------------------------|--+               *)
(*     select <-----------------------------------------+                  *)
(*        +--> exited                                                      *)
(*                                                                         *)
(* The phase of a loop names the database call it has under way, so a      *)
(* signal, a crash or the end of the lease can fall before the answer.     *)
(* A call made after the signal is refused at once, except ReleaseLock,    *)
(* which the code makes with a context of its own.                         *)
(***************************************************************************)
EXTENDS Integers

CONSTANTS
    Procs,          \* server processes sharing the database
    Jobs,           \* job names: tier1_meta, candles, ...
    Returning,      \* jobs whose body returns by itself; any other may hang
    TTL,            \* length of the lease, in ticks (10 min)
    MaxFaults,      \* database calls that fail though the context is live
    MaxStops,       \* signals sent
    MaxCrashes,     \* processes killed
    Nobody          \* not a process

ASSUME JobRunsAssumption ==
    /\ Returning \subseteq Jobs
    /\ TTL \in Nat
    /\ MaxFaults \in Nat /\ MaxStops \in Nat /\ MaxCrashes \in Nat
    /\ Nobody \notin Procs

VARIABLES
    proc,       \* up, stopping (its context has ended) or down
    pc,         \* pc[p][j]: the phase of p's loop for j
    lease,      \* lease[j]: ticks to locked_until, or NoRow, or Expired
    openRun,    \* openRun[p][j]: p's current run of j has a "running" record
    abandoned,  \* jobs with a "running" record that nobody will close
    faults, stops, crashes,     \* of each, how many there have been
    lessee,     \* history: who is to release lease[j], if anybody is
    overran     \* history: jobs still at work when their lease ended

dbVars == <<lease, openRun, abandoned>>
counts == <<faults, stops, crashes>>
history == <<lessee, overran>>
vars == <<proc, pc, dbVars, counts, history>>

-----------------------------------------------------------------------------
(* Type *)

Phases == {"locking", "starting", "running", "finishing", "releasing",
           "select", "exited"}

NoRow == -2         \* job_locks has no row for the job
Expired == -1       \* the row is there and locked_until has passed

TypeOK ==
    /\ proc \in [Procs -> {"up", "stopping", "down"}]
    /\ pc \in [Procs -> [Jobs -> Phases]]
    /\ lease \in [Jobs -> NoRow..TTL]
    /\ openRun \in [Procs -> [Jobs -> BOOLEAN]]
    /\ abandoned \subseteq Jobs
    /\ faults \in 0..MaxFaults
    /\ stops \in 0..MaxStops
    /\ crashes \in 0..MaxCrashes
    /\ lessee \in [Jobs -> Procs \cup {Nobody}]
    /\ overran \subseteq Jobs

Init ==
    /\ proc = [p \in Procs |-> "up"]
    /\ pc = [p \in Procs |-> [j \in Jobs |-> "locking"]]
    /\ lease = [j \in Jobs |-> NoRow]
    /\ openRun = [p \in Procs |-> [j \in Jobs |-> FALSE]]
    /\ abandoned = {}
    /\ faults = 0 /\ stops = 0 /\ crashes = 0
    /\ lessee = [j \in Jobs |-> Nobody]
    /\ overran = {}

-----------------------------------------------------------------------------
(* Helpers *)

Up(p) == proc[p] = "up"
Stopping(p) == proc[p] = "stopping"

(* p has been told that it holds the lock of j and has not released it.    *)
Holds(p, j) == pc[p][j] \in {"starting", "running", "finishing", "releasing"}

Holders(j) == {p \in Procs : Holds(p, j)}

GoTo(p, j, phase) == pc' = [pc EXCEPT ![p][j] = phase]

(* A call that was under way when the context ended may fail; with a live  *)
(* context it fails only by a fault of the database or the network.        *)
CallFails(p) ==
    \/ Stopping(p) /\ UNCHANGED counts
    \/ /\ Up(p)
       /\ faults < MaxFaults
       /\ faults' = faults + 1
       /\ UNCHANGED <<stops, crashes>>

(* Faulty variant: ON CONFLICT DO NOTHING, an expired row still locks.     *)
FaultyLockable(j) == lease[j] = NoRow

(* Faulty variant: ON CONFLICT DO UPDATE without its WHERE.                *)
FaultyAlwaysLockable(j) == lease[j] \in NoRow..TTL

(* No row for j, or a row whose locked_until has passed.                   *)
Lockable(j) == lease[j] < 0

(* Faulty variant: the interval is rounded up and outlasts the ttl.        *)
FaultyWriteLock(j, who) ==
    /\ lease' = [lease EXCEPT ![j] = TTL + 1]
    /\ lessee' = [lessee EXCEPT ![j] = who]

(* The row is written: a fresh lease, to be released by whoever is told.   *)
WriteLock(j, who) ==
    /\ lease' = [lease EXCEPT ![j] = TTL]
    /\ lessee' = [lessee EXCEPT ![j] = who]

-----------------------------------------------------------------------------
(* run(): TryLock, StartRun, the body, FinishRun, ReleaseLock *)

(* TryLock wrote the row and says so.  StartRun is called next; when the   *)
(* context has ended meanwhile it fails at once and run() goes on to the   *)
(* deferred ReleaseLock.                                                   *)
TryLockOk(p, j) ==
    /\ pc[p][j] = "locking"
    /\ Lockable(j)
    /\ WriteLock(j, p)
    /\ GoTo(p, j, IF Up(p) THEN "starting" ELSE "releasing")
    /\ UNCHANGED <<proc, openRun, abandoned, counts, overran>>

(* Somebody's lease is running: no rows, run() returns.                    *)
TryLockHeld(p, j) ==
    /\ pc[p][j] = "locking"
    /\ ~Lockable(j)
    /\ GoTo(p, j, "select")
    /\ UNCHANGED <<proc, dbVars, counts, history>>

(* TryLock returns an error, before or after the row was written.  run()   *)
(* returns without a ReleaseLock: a row so written waits for its expiry.   *)
TryLockFails(p, j) ==
    /\ pc[p][j] = "locking"
    /\ CallFails(p)
    /\ \/ UNCHANGED <<lease, lessee>>
       \/ Lockable(j) /\ WriteLock(j, Nobody)
    /\ GoTo(p, j, "select")
    /\ UNCHANGED <<proc, openRun, abandoned, overran>>

StartRunOk(p, j) ==
    /\ pc[p][j] = "starting"
    /\ openRun' = [openRun EXCEPT ![p][j] = TRUE]
    /\ GoTo(p, j, "running")
    /\ UNCHANGED <<proc, lease, abandoned, counts, history>>

(* Faulty variant: run() returns before its deferred release is in place.  *)
FaultyStartRunFails(p, j) ==
    /\ pc[p][j] = "starting"
    /\ CallFails(p)
    /\ UNCHANGED abandoned
    /\ GoTo(p, j, "select")
    /\ UNCHANGED <<proc, lease, openRun, history>>

(* StartRun fails, before or after it inserted its record, whose id is     *)
(* then unknown.                                                           *)
StartRunFails(p, j) ==
    /\ pc[p][j] = "starting"
    /\ CallFails(p)
    /\ \/ UNCHANGED abandoned
       \/ abandoned' = abandoned \cup {j}
    /\ GoTo(p, j, "releasing")
    /\ UNCHANGED <<proc, lease, openRun, history>>

(* The run is over with its record still open: nobody will close it.       *)
LeaveRecordOpen(p, j) ==
    /\ openRun' = [openRun EXCEPT ![p][j] = FALSE]
    /\ abandoned' = abandoned \cup {j}

(* Faulty variant: a body that fails returns before FinishRun.             *)
FaultyBodyReturns(p, j) ==
    /\ pc[p][j] = "running"
    /\ \/ /\ Up(p)
          /\ GoTo(p, j, "finishing")
          /\ UNCHANGED <<openRun, abandoned>>
       \/ /\ LeaveRecordOpen(p, j)
          /\ GoTo(p, j, "releasing")
    /\ UNCHANGED <<proc, lease, counts, history>>

(* The body returns, with or without an error, and FinishRun is called     *)
(* with the loop's context: once that has ended, the record stays as it is.*)
BodyReturns(p, j) ==
    /\ pc[p][j] = "running"
    /\ \/ /\ Up(p)
          /\ GoTo(p, j, "finishing")
          /\ UNCHANGED <<openRun, abandoned>>
       \/ /\ Stopping(p)
          /\ LeaveRecordOpen(p, j)
          /\ GoTo(p, j, "releasing")
    /\ UNCHANGED <<proc, lease, counts, history>>

FinishRunOk(p, j) ==
    /\ pc[p][j] = "finishing"
    /\ openRun' = [openRun EXCEPT ![p][j] = FALSE]
    /\ GoTo(p, j, "releasing")
    /\ UNCHANGED <<proc, lease, abandoned, counts, history>>

(* The error of FinishRun is dropped.                                      *)
FinishRunFails(p, j) ==
    /\ pc[p][j] = "finishing"
    /\ CallFails(p)
    /\ LeaveRecordOpen(p, j)
    /\ GoTo(p, j, "releasing")
    /\ UNCHANGED <<proc, lease, history>>

(* p lets go of j.  An overrun is over when nobody is at work on j.        *)
LetGo(p, j) ==
    /\ GoTo(p, j, "select")
    /\ overran' = IF Holders(j) \subseteq {p} THEN overran \ {j} ELSE overran

(* The row of j is deleted, whoever wrote it.                              *)
ReleaseLockOk(p, j) ==
    /\ pc[p][j] = "releasing"
    /\ lease' = [lease EXCEPT ![j] = NoRow]
    /\ lessee' = [lessee EXCEPT ![j] = Nobody]
    /\ LetGo(p, j)
    /\ UNCHANGED <<proc, openRun, abandoned, counts>>

(* The delete fails and is logged: the row waits for its expiry.           *)
ReleaseLockFails(p, j) ==
    /\ pc[p][j] = "releasing"
    /\ faults < MaxFaults
    /\ faults' = faults + 1
    /\ lessee' = [lessee EXCEPT ![j] = IF @ = p THEN Nobody ELSE @]
    /\ LetGo(p, j)
    /\ UNCHANGED <<proc, dbVars, stops, crashes>>

-----------------------------------------------------------------------------
(* loop() *)

(* Faulty variant: one goroutine for all jobs, a job waits for the others. *)
FaultyTickerFires(p, j) ==
    /\ pc[p][j] = "select"
    /\ \/ Up(p) /\ \A k \in Jobs : ~Holds(p, k)
       \/ Stopping(p)
    /\ GoTo(p, j, IF Up(p) THEN "locking" ELSE "select")
    /\ UNCHANGED <<proc, dbVars, counts, history>>

(* The ticker fires and run() calls TryLock.  After the signal select may  *)
(* still choose the ticker: TryLock then fails at once, and select is next.*)
TickerFires(p, j) ==
    /\ pc[p][j] = "select"
    /\ GoTo(p, j, IF Up(p) THEN "locking" ELSE "select")
    /\ UNCHANGED <<proc, dbVars, counts, history>>

(* Faulty variant: the loop ends only in a process that is gone.           *)
FaultyLoopEnds(p, j) ==
    /\ pc[p][j] = "select"
    /\ proc[p] = "down"
    /\ GoTo(p, j, "exited")
    /\ UNCHANGED <<proc, dbVars, counts, history>>

(* select chooses the ended context: the goroutine returns.                *)
LoopEnds(p, j) ==
    /\ pc[p][j] = "select"
    /\ Stopping(p)
    /\ GoTo(p, j, "exited")
    /\ UNCHANGED <<proc, dbVars, counts, history>>

-----------------------------------------------------------------------------
(* Processes *)

(* SIGINT or SIGTERM ends the context main gave the scheduler.             *)
Signal(p) ==
    /\ Up(p)
    /\ stops < MaxStops
    /\ stops' = stops + 1
    /\ proc' = [proc EXCEPT ![p] = "stopping"]
    /\ UNCHANGED <<pc, dbVars, faults, crashes, history>>

(* Scheduler.Stop has waited for every loop: main returns.                 *)
Exit(p) ==
    /\ Stopping(p)
    /\ \A j \in Jobs : pc[p][j] = "exited"
    /\ proc' = [proc EXCEPT ![p] = "down"]
    /\ UNCHANGED <<pc, dbVars, counts, history>>

(* The process is killed: its lock rows and its records stay behind.       *)
Crash(p) ==
    /\ proc[p] # "down"
    /\ crashes < MaxCrashes
    /\ crashes' = crashes + 1
    /\ proc' = [proc EXCEPT ![p] = "down"]
    /\ pc' = [pc EXCEPT ![p] = [j \in Jobs |-> "exited"]]
    /\ openRun' = [openRun EXCEPT ![p] = [j \in Jobs |-> FALSE]]
    /\ abandoned' = abandoned \cup {j \in Jobs : openRun[p][j]}
    /\ lessee' = [j \in Jobs |-> IF lessee[j] = p THEN Nobody ELSE lessee[j]]
    /\ overran' = {j \in overran : ~(Holders(j) \subseteq {p})}
    /\ UNCHANGED <<lease, faults, stops>>

(* A new server starts in the place of p; Scheduler.Start runs every loop. *)
Start(p) ==
    /\ proc[p] = "down"
    /\ proc' = [proc EXCEPT ![p] = "up"]
    /\ pc' = [pc EXCEPT ![p] = [j \in Jobs |-> "locking"]]
    /\ UNCHANGED <<dbVars, counts, history>>

(* The database's now() advances: every lease is a tick closer to its end. *)
Tick ==
    /\ lease' = [j \in Jobs |-> IF lease[j] >= 0 THEN lease[j] - 1 ELSE lease[j]]
    /\ overran' = overran \cup {j \in Jobs : lease[j] = 0 /\ Holders(j) # {}}
    /\ UNCHANGED <<proc, pc, openRun, abandoned, counts, lessee>>

-----------------------------------------------------------------------------

TryLock(p, j) == TryLockOk(p, j) \/ TryLockHeld(p, j) \/ TryLockFails(p, j)
StartRun(p, j) == StartRunOk(p, j) \/ StartRunFails(p, j)
FinishRun(p, j) == FinishRunOk(p, j) \/ FinishRunFails(p, j)
ReleaseLock(p, j) == ReleaseLockOk(p, j) \/ ReleaseLockFails(p, j)

Loop(p, j) ==
    \/ TryLock(p, j)
    \/ StartRun(p, j)
    \/ BodyReturns(p, j)
    \/ FinishRun(p, j)
    \/ ReleaseLock(p, j)
    \/ TickerFires(p, j)
    \/ LoopEnds(p, j)

Process(p) == Signal(p) \/ Exit(p) \/ Crash(p) \/ Start(p)

Next ==
    \/ \E p \in Procs : Process(p) \/ \E j \in Jobs : Loop(p, j)
    \/ Tick

(* Database calls are answered, tickers fire and time passes.  The body of *)
(* a returning job ends; any body ends once its context has, because every *)
(* call it makes takes that context.  Go's select picks at random among    *)
(* what is ready, so an ended context is not passed over for ever (SF).    *)
Fairness ==
    /\ WF_vars(Tick)
    /\ \A p \in Procs :
          /\ WF_vars(Exit(p))
          /\ \A j \in Jobs :
                /\ WF_vars(TryLock(p, j))
                /\ WF_vars(StartRun(p, j))
                /\ WF_vars((j \in Returning \/ Stopping(p)) /\ BodyReturns(p, j))
                /\ WF_vars(FinishRun(p, j))
                /\ WF_vars(ReleaseLock(p, j))
                /\ WF_vars(TickerFires(p, j))
                /\ SF_vars(LoopEnds(p, j))

SafeSpec == Init /\ [][Next]_vars
Spec == SafeSpec /\ Fairness

-----------------------------------------------------------------------------
(* Properties *)

(* No job is at work in two processes at a time, unless it has outlived    *)
(* its lease, and again once the overrun is over (scheduler.go:78-86,      *)
(* store.go:240-254).                                                      *)
ExclusiveUntilOverrun ==
    \A j \in Jobs : j \notin overran =>
        \A p, q \in Holders(j) : p = q

(* Why that is so, and what makes it inductive: until its lease ends,      *)
(* whoever works on a job is the one the running lease was given to.  It   *)
(* is not so once a lease has ended, because the delete at the end of a    *)
(* run frees the lock of whoever holds it by then (store.go:252).          *)
LeaseBacksHolder ==
    \A j \in Jobs \ overran : \A p \in Holders(j) :
        lease[j] >= 0 /\ lessee[j] = p

(* A running lease is somebody's to release: a lock row that only its      *)
(* expiry can free is left by a crash, by a TryLock whose answer was lost  *)
(* or by a ReleaseLock that failed, and by no path through run()           *)
(* (scheduler.go:78-90).                                                   *)
NoLockLeaks ==
    \A j \in Jobs : lease[j] >= 0 /\ lessee[j] # Nobody => Holds(lessee[j], j)

(* Without a fault, a signal or a crash every run record is closed by the  *)
(* run that opened it, failed bodies included (scheduler.go:87-99).        *)
RecordsClosed ==
    faults = 0 /\ stops = 0 /\ crashes = 0 => abandoned = {}

(* As long as some process stays up, every job whose body returns is run   *)
(* again and again, by whichever process: a lock that a crashed process or *)
(* a lost answer left behind is taken over, and a hung job blocks itself   *)
(* only (scheduler.go:38-43, 57-75, store.go:240-249).                     *)
JobsKeepRunning ==
    \A p \in Procs, j \in Returning :
        <>[]Up(p) => []<>(\E q \in Procs : pc[q][j] = "running")

(* After a signal every loop comes to its end, whatever call or body was   *)
(* under way, and the process leaves (scheduler.go:46-51, main.go:78-83).  *)
StopCompletes == \A p \in Procs : Stopping(p) ~> ~Stopping(p)

(* A process that is down has no loop running, and a process stops because *)
(* it was told to.                                                         *)
LifeCycle ==
    \A p \in Procs :
        /\ proc[p] = "down" => \A j \in Jobs : pc[p][j] = "exited"
        /\ Stopping(p) => stops > 0

(* What "job locks" promises: a job runs in one process at a time.         *)
JobExclusive == \A j \in Jobs : \A p, q \in Holders(j) : p = q

(* What "ingestion run tracking" and "graceful shutdown" promise together: *)
(* as long as there is only a signal, a run that got the id of its record  *)
(* closes that record when it ends (scheduler.go:98 calls FinishRun with   *)
(* the context the signal has ended).  A StartRun that fails is left out:  *)
(* it has no id to close.                                                  *)
StoppedRunsAreClosed ==
    [][\A p \in Procs, j \in Jobs :
          openRun[p][j] /\ ~openRun'[p][j] /\ faults' = 0 /\ crashes' = 0 =>
              abandoned' = abandoned]_vars

==============================================================================
