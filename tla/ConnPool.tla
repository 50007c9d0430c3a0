------------------------------- MODULE ConnPool ------------------------------
(***************************************************************************)
(* The connection pool shared by the API and the ingestion jobs:           *)
(* internal/store/query.go and store.go over the pool of internal/db/db.go.*)
(*                                                                         *)
(* Every query takes a connection of the pool and gives it back when its   *)
(* rows are read.  ListMarkets is the one operation that needs two: while  *)
(* the rows of the market list hold a connection, it queries the flags of  *)
(* each row over another.  The pool sets no timeout and of the handlers    *)
(* only /health does (3 s): any other wait for a connection ends with the  *)
(* client's patience.                                                      *)
(*                                                                         *)
(*   away -> acquiring -> reading <-> nested -> flags (-> reading)         *)
(***************************************************************************)
EXTENDS Integers, FiniteSets

CONSTANTS
    Listers,    \* requests for the market list that may be open at a time
    Readers,    \* everything else: jobs and handlers, one connection each
    MaxConns,   \* size of the pool (12)
    MaxRows     \* longest market list (200)

(* What the theorems need of the constants.  The runs assume it, and       *)
(* ServerProofs shows that the pool of a server meets it.                  *)
ConnPoolAssumption ==
    /\ IsFiniteSet(Listers) /\ IsFiniteSet(Readers)
    /\ MaxConns \in Nat \ {0}
    /\ MaxRows \in Nat

(* The pool is large enough for the lists that are open at a time.  The    *)
(* code does not see to it: it is what the passing run and the theorem     *)
(* assume, and what the violated run does not have.                        *)
PoolExceedsListers == Cardinality(Listers) < MaxConns

VARIABLES
    idle,       \* connections nobody holds
    list,       \* list[l]: where l is inside ListMarkets
    rowsLeft,   \* rowsLeft[l]: rows of the market list not yet read
    read        \* read[r]: where r is inside its query

vars == <<idle, list, rowsLeft, read>>

ListStages == {"away", "acquiring", "reading", "nested", "flags"}

TypeOK ==
    /\ idle \in 0..MaxConns
    /\ list \in [Listers -> ListStages]
    /\ rowsLeft \in [Listers -> 0..MaxRows]
    /\ read \in [Readers -> {"away", "acquiring", "using"}]

Init ==
    /\ idle = MaxConns
    /\ list = [l \in Listers |-> "away"]
    /\ rowsLeft = [l \in Listers |-> 0]
    /\ read = [r \in Readers |-> "away"]

(* Who holds a connection for the market list, for flags, for a reading.   *)
Outer == {l \in Listers : list[l] \in {"reading", "nested", "flags"}}
Inner == {l \in Listers : list[l] = "flags"}
Using == {r \in Readers : read[r] = "using"}

-----------------------------------------------------------------------------
(* ListMarkets *)

ListTo(l, stage) == list' = [list EXCEPT ![l] = stage]

Get == idle > 0 /\ idle' = idle - 1

Request(l) ==
    /\ list[l] = "away"
    /\ ListTo(l, "acquiring")
    /\ UNCHANGED <<idle, rowsLeft, read>>

Acquire(l) ==
    /\ list[l] = "acquiring"
    /\ Get
    /\ \E n \in 0..MaxRows : rowsLeft' = [rowsLeft EXCEPT ![l] = n]
    /\ ListTo(l, "reading")
    /\ UNCHANGED read

(* A row is scanned and ListFlags asks for its flags.                      *)
NextRow(l) ==
    /\ list[l] = "reading"
    /\ rowsLeft[l] > 0
    /\ rowsLeft' = [rowsLeft EXCEPT ![l] = @ - 1]
    /\ ListTo(l, "nested")
    /\ UNCHANGED <<idle, read>>

AcquireNested(l) ==
    /\ list[l] = "nested"
    /\ Get
    /\ ListTo(l, "flags")
    /\ UNCHANGED <<rowsLeft, read>>

(* Faulty variant: ListFlags returns without closing its rows.             *)
FaultyFlagsDone(l) ==
    /\ list[l] = "flags"
    /\ ListTo(l, "reading")
    /\ UNCHANGED <<idle, rowsLeft, read>>

FlagsDone(l) ==
    /\ list[l] = "flags"
    /\ idle' = idle + 1
    /\ ListTo(l, "reading")
    /\ UNCHANGED <<rowsLeft, read>>

(* Faulty variant: an empty list returns without closing its rows.         *)
FaultyRowsDone(l) ==
    /\ list[l] = "reading"
    /\ rowsLeft[l] = 0
    /\ ListTo(l, "away")
    /\ UNCHANGED <<idle, rowsLeft, read>>

(* The rows are exhausted: the connection goes back, the list is answered. *)
RowsDone(l) ==
    /\ list[l] = "reading"
    /\ rowsLeft[l] = 0
    /\ idle' = idle + 1
    /\ ListTo(l, "away")
    /\ UNCHANGED <<rowsLeft, read>>

(* Faulty variant: the error path gives one connection back, not both.     *)
FaultyAbandon(l) ==
    /\ list[l] # "away"
    /\ idle' = idle + (IF l \in Outer THEN 1 ELSE 0)
    /\ rowsLeft' = [rowsLeft EXCEPT ![l] = 0]
    /\ ListTo(l, "away")
    /\ UNCHANGED read

(* The client disconnects: the request's context ends, every wait and      *)
(* query under it returns, and both sets of rows are closed.               *)
Abandon(l) ==
    /\ list[l] # "away"
    /\ idle' = idle + (IF l \in Outer THEN 1 ELSE 0)
                    + (IF l \in Inner THEN 1 ELSE 0)
    /\ rowsLeft' = [rowsLeft EXCEPT ![l] = 0]
    /\ ListTo(l, "away")
    /\ UNCHANGED read

-----------------------------------------------------------------------------
(* Everything else *)

ReadTo(r, stage) == read' = [read EXCEPT ![r] = stage]

BeginRead(r) ==
    /\ read[r] = "away"
    /\ ReadTo(r, "acquiring")
    /\ UNCHANGED <<idle, list, rowsLeft>>

AcquireRead(r) ==
    /\ read[r] = "acquiring"
    /\ Get
    /\ ReadTo(r, "using")
    /\ UNCHANGED <<list, rowsLeft>>

(* The request's context ends while the query waits for a connection: the  *)
(* client goes away, or the 3 s of /health are over.                       *)
AbandonRead(r) ==
    /\ read[r] = "acquiring"
    /\ ReadTo(r, "away")
    /\ UNCHANGED <<idle, list, rowsLeft>>

(* Faulty variant: the error path releases the connection a second time.   *)
FaultyEndRead(r) ==
    /\ read[r] = "using"
    /\ \E n \in {1, 2} : idle' = idle + n
    /\ ReadTo(r, "away")
    /\ UNCHANGED <<list, rowsLeft>>

(* The query is over, with an answer or because its context ended.         *)
EndRead(r) ==
    /\ read[r] = "using"
    /\ idle' = idle + 1
    /\ ReadTo(r, "away")
    /\ UNCHANGED <<list, rowsLeft>>

-----------------------------------------------------------------------------

Lister(l) ==
    \/ Request(l) \/ Acquire(l) \/ NextRow(l) \/ AcquireNested(l)
    \/ FlagsDone(l) \/ RowsDone(l) \/ Abandon(l)

Reader(r) == BeginRead(r) \/ AcquireRead(r) \/ AbandonRead(r) \/ EndRead(r)

Next == (\E l \in Listers : Lister(l)) \/ (\E r \in Readers : Reader(r))

(* The database answers and goroutines run (WF).  The pool serves those    *)
(* who wait in turn, so nobody is passed over for ever (SF).  No client is *)
(* obliged to ask, to go away or to come back, and no wait to end before   *)
(* its turn.                                                               *)
Fairness ==
    /\ \A l \in Listers :
          /\ WF_vars(NextRow(l)) /\ WF_vars(FlagsDone(l)) /\ WF_vars(RowsDone(l))
          /\ SF_vars(Acquire(l)) /\ SF_vars(AcquireNested(l))
    /\ \A r \in Readers : WF_vars(EndRead(r)) /\ SF_vars(AcquireRead(r))

SafeSpec == Init /\ [][Next]_vars
Spec == SafeSpec /\ Fairness

-----------------------------------------------------------------------------
(* Properties *)

(* Every connection is idle or held, also after clients went away in the   *)
(* middle of a list (query.go:75-88, 160-173).                             *)
ConnsAccounted ==
    idle + Cardinality(Outer) + Cardinality(Inner) + Cardinality(Using)
        = MaxConns

(* Lists waiting for a second connection never hold the whole pool between *)
(* them: somebody with a connection is at work and will give it back       *)
(* (query.go:57, 85, db.go:15).                                            *)
NoGridlock ==
    idle = 0 =>
        \/ \E l \in Listers : list[l] \in {"reading", "flags"}
        \/ \E r \in Readers : read[r] = "using"

(* A market list that is asked for is answered or given up: no list waits  *)
(* for ever, although nobody has to give up (router.go:76-92,              *)
(* query.go:36-89).                                                        *)
ListsAnswered == \A l \in Listers : list[l] = "acquiring" ~> list[l] = "away"

(* Any other query gets its connection or is given up, whatever the lists  *)
(* hold meanwhile (query.go:130-145, router.go:51).                        *)
ReadsAnswered ==
    \A r \in Readers : read[r] = "acquiring" ~> read[r] \in {"using", "away"}

(* What the documents promise of the dashboard, that it can go on serving  *)
(* stored data: a market list that is asked for is answered.               *)
DashboardAnswers == ListsAnswered /\ ReadsAnswered

==============================================================================
