------------------------------- MODULE Scoring -------------------------------
(***************************************************************************)
(* The features job, computeFeatures of internal/ingest/scheduler.go, over *)
(* the candles that the candles job is writing meanwhile.  One run of it at*)
(* a time: it calls nobody upstream and ends long before its lease.        *)
(*                                                                         *)
(* A run reads the candles of each active coin, one query at a time, then  *)
(* upserts all features in one batch and inserts the flags in another.  A  *)
(* feature has the time of the last candle it was computed from as its     *)
(* key, so it is written again while that candle is open.                  *)
(*                                                                         *)
(*   idle --BeginScoring--> reading --UpsertFeatures--> flagging --> idle  *)
(*                                                                         *)
(* A feature is the version of its last candle, version 0 is no feature.   *)
(* The arithmetic of internal/features is left out.                        *)
(***************************************************************************)
EXTENDS Candles, FiniteSets

CONSTANT Lookback       \* periods before the current one a run reads (8 d)

ASSUME ScoringAssumption == Lookback \in Nat

VARIABLES
    features,   \* features[c][k]: version of the row of table features
    flags,      \* the coins and periods with rows in table flags
    step,       \* where the run is
    unread,     \* coins whose candles the run has not read yet
    out         \* out[c]: the features computed so far

scoringVars == <<features, flags, step, unread, out>>
vars == <<candleVars, scoringVars>>

NoFeature == [time |-> 0, version |-> 0]

(* A feature that is about to be written comes from candles that are       *)
(* stored, and no run reads coins that are not active.                     *)
TypeOK ==
    /\ CandlesTypeOK
    /\ features \in [Coins -> Series]
    /\ flags \subseteq Coins \X Periods
    /\ step \in {"idle", "reading", "flagging"}
    /\ unread \subseteq markets
    /\ out \in [Coins -> [time : Periods, version : Versions]]

Init ==
    /\ CandlesInit
    /\ features = [c \in Coins |-> NoCandles]
    /\ flags = {}
    /\ step = "idle"
    /\ unread = {}
    /\ out = [c \in Coins |-> NoFeature]

-----------------------------------------------------------------------------
(* computeFeatures *)

(* The run is over, and with it goes what it has computed.                 *)
RunEnds ==
    /\ step' = "idle"
    /\ unread' = {}
    /\ out' = [c \in Coins |-> NoFeature]

(* Without coins the run goes on and writes nothing.                       *)
BeginScoring ==
    /\ step = "idle"
    /\ unread' = ActiveCoins
    /\ step' = "reading"
    /\ UNCHANGED <<candleVars, features, flags, out>>

(* The rows a query for the candles of c answers with, up to a period: the *)
(* whole answer has cut = period.                                          *)
Rows(c, cut) ==
    {k \in Periods : period - Lookback <= k /\ k <= cut /\ stored[c][k] > 0}

(* Faulty variant: a feature is dated with the period it is computed in.   *)
FaultyCalculate(c, rows) ==
    LET end == CHOOSE k \in rows : \A i \in rows : i <= k IN
    [time |-> period, version |-> stored[c][end]]

(* Calculate over the rows of one query: dated with the last candle.       *)
Calculate(c, rows) ==
    LET end == CHOOSE k \in rows : \A i \in rows : i <= k IN
    [time |-> end, version |-> stored[c][end]]

(* The candles of c are read; fewer than two make no feature.  The error   *)
(* of the query is dropped, so an answer that breaks off is taken for the  *)
(* whole of it.                                                            *)
ReadCandles(c) ==
    /\ step = "reading"
    /\ c \in unread
    /\ \E cut \in Periods :
          /\ cut <= period
          /\ faults' = IF cut = period THEN faults ELSE faults + 1
          /\ faults' <= MaxFaults
          /\ out' = IF Cardinality(Rows(c, cut)) < 2 THEN out
                    ELSE [out EXCEPT ![c] = Calculate(c, Rows(c, cut))]
    /\ unread' = unread \ {c}
    /\ UNCHANGED <<upstream, tables, runs, history, features, flags, step>>

(* Faulty variant: the features of a coin are deleted and inserted anew.   *)
FaultyUpsertFeatures ==
    /\ step = "reading"
    /\ unread = {}
    /\ features' = [c \in Coins |->
                      IF out[c].version > 0
                      THEN [NoCandles EXCEPT ![out[c].time] = out[c].version]
                      ELSE features[c]]
    /\ step' = "flagging"
    /\ UNCHANGED <<candleVars, flags, unread, out>>

(* NormalizeCrossSection changes scores, no key; then one batch is written.*)
UpsertFeatures ==
    /\ step = "reading"
    /\ unread = {}
    /\ features' = [c \in Coins |->
                      IF out[c].version > 0
                      THEN [features[c] EXCEPT ![out[c].time] = out[c].version]
                      ELSE features[c]]
    /\ step' = "flagging"
    /\ UNCHANGED <<candleVars, flags, unread, out>>

(* Faulty variant: the error of UpsertFeatures is dropped too.             *)
FaultyUpsertFeaturesFails ==
    /\ step = "reading"
    /\ unread = {}
    /\ faults < MaxFaults
    /\ faults' = faults + 1
    /\ step' = "flagging"
    /\ UNCHANGED <<upstream, tables, runs, history, features, flags,
                   unread, out>>

(* The batch fails as a whole and the run returns before any flag.         *)
UpsertFeaturesFails ==
    /\ step = "reading"
    /\ unread = {}
    /\ faults < MaxFaults
    /\ faults' = faults + 1
    /\ RunEnds
    /\ UNCHANGED <<upstream, tables, runs, history, features, flags>>

(* GenerateFlags finds something in some of the features, and InsertFlags  *)
(* adds its rows beside those of earlier runs.  When it fails nothing is   *)
(* written and nobody is told.                                             *)
InsertFlags ==
    /\ step = "flagging"
    /\ \E found \in SUBSET {c \in Coins : out[c].version > 0} :
          flags' = flags \cup {<<c, out[c].time>> : c \in found}
    /\ RunEnds
    /\ UNCHANGED <<candleVars, features>>

(* The run ends with its process.                                          *)
Killed ==
    /\ step # "idle"
    /\ faults < MaxFaults
    /\ faults' = faults + 1
    /\ RunEnds
    /\ UNCHANGED <<upstream, tables, runs, history, features, flags>>

-----------------------------------------------------------------------------

Score ==
    \/ BeginScoring
    \/ \E c \in Coins : ReadCandles(c)
    \/ UpsertFeatures
    \/ UpsertFeaturesFails
    \/ InsertFlags
    \/ Killed

Next == (CandlesNext /\ UNCHANGED scoringVars) \/ Score

(* The candles job is run again and again, a run goes on while it can, and *)
(* its calls are answered or fail.  Nothing obliges upstream to trade, to  *)
(* list or to deliver, no fault ever has to happen, and no features to be  *)
(* computed.                                                               *)
Fairness == \A r \in Runners : WF_vars(RunStep(r) /\ UNCHANGED scoringVars)

SafeSpec == Init /\ [][Next]_vars
Spec == SafeSpec /\ Fairness

-----------------------------------------------------------------------------
(* Properties *)

(* The loop of a run takes c and nothing else off its list.                *)
ComesTo(r, c) == c \in todo[r] /\ todo'[r] = todo[r] \ {c}

(* What upstream has of an active coin reaches the database, whatever      *)
(* becomes of other coins.  Every active coin is asked for again and again,*)
(* although fetches of any coin may fail for ever; and one that is         *)
(* delivered again and again has its rows up to date again and again, as   *)
(* far back as the runs ask, those a superseded run has taken back too     *)
(* (scheduler.go:150-167).                                                 *)
CandlesArrive ==
    \A c \in Coins :
        /\ \/ []<>(c \notin markets)
           \/ []<><<\E r \in Runners : ComesTo(r, c)>>_vars
        /\ []<><<\E r \in Runners : Fetch(r, c)>>_vars =>
              []<>(\A k \in Periods :
                      k >= period - Backfill => stored[c][k] = live[c][k])

(* A feature is never dated with a candle that is not stored, nor computed *)
(* from a later state of it than the row has, although candles are written *)
(* between the reads of a run (scheduler.go:178-190, calc.go:22-25).  Rows *)
(* that overlapping candles runs have taken back are excepted.             *)
FeaturesFollowCandles ==
    \A c \in Coins, k \in Periods :
        <<c, k>> \notin takenBack => features[c][k] <= stored[c][k]

(* A run never replaces a feature by one computed from older candles, with *)
(* the same exception (scheduler.go:178-190, store.go:113-115).            *)
FeaturesNeverGoBack ==
    [][\A c \in Coins, k \in Periods :
          <<c, k>> \notin takenBack => features'[c][k] >= features[c][k]]_vars

(* No flag without its feature, whichever of the batches of a run fail     *)
(* (scheduler.go:190-194).                                                 *)
FlagsHaveFeatures == \A f \in flags : features[f[1]][f[2]] > 0

==============================================================================
