---------------------------- MODULE ScoringProofs ----------------------------
(***************************************************************************)
(* The candles and features jobs are type correct, a row of candles goes   *)
(* back only under a run that another one has overtaken, and features      *)
(* follow the candles, for every number of coins, runs, periods, versions  *)
(* and faults.                                                             *)
(***************************************************************************)
EXTENDS Scoring, FiniteSetTheorems, WellFoundedInduction, TLAPS

USE CandlesAssumption, ScoringAssumption

-----------------------------------------------------------------------------
(* The last of the rows that Calculate takes *)

LEMMA LessIsOrdered ==
  ASSUME NEW i \in Nat, NEW k \in Nat, i < k
  PROVE  <<i, k>> \in OpToRel(<, Nat)
BY Zenon DEF OpToRel

(* A nonempty set of periods has a last one.                               *)
LEMMA LastPeriod ==
  ASSUME NEW S \in SUBSET Periods, S # {}
  PROVE  \E k \in S : \A i \in S : i <= k
<1> DEFINE T == {MaxPeriod - k : k \in S}
<1>1. T \subseteq Nat /\ T # {}
  <2>1. \A k \in S : MaxPeriod - k \in Nat
    BY DEF Periods
  <2> QED BY <2>1
<1>2. PICK x \in T : \A y \in T : ~ (<<y, x>> \in OpToRel(<, Nat))
  <2> HIDE DEF T
  <2> QED BY <1>1, NatLessThanWellFounded, WFMin, Zenon
<1>3. \A y \in T : x <= y
  <2> HIDE DEF T
  <2>1. \A y \in T : y \in Nat /\ x \in Nat
    BY <1>1
  <2>2. \A y \in T : ~ (y < x)
    BY <2>1, <1>2, LessIsOrdered, Zenon
  <2> QED BY <2>1, <2>2
<1>4. PICK k \in S : x = MaxPeriod - k
  OBVIOUS
<1>5. ASSUME NEW i \in S PROVE i <= k
  <2>1. x <= MaxPeriod - i
    BY <1>3
  <2> QED BY <1>4, <2>1 DEF Periods
<1> QED BY <1>5

(* A feature made of two rows or more is dated with a stored candle and    *)
(* has its version.                                                        *)
LEMMA CalculateFact ==
  ASSUME CandlesTypeOK, NEW c \in Coins, NEW cut \in Periods,
         ~ (Cardinality(Rows(c, cut)) < 2)
  PROVE  /\ Calculate(c, Rows(c, cut)) \in [time : Periods, version : Versions]
         /\ Calculate(c, Rows(c, cut)).version > 0
         /\ Calculate(c, Rows(c, cut)).version =
               stored[c][Calculate(c, Rows(c, cut)).time]
<1> DEFINE rows == Rows(c, cut)
           end == CHOOSE k \in rows : \A i \in rows : i <= k
<1>1. rows \in SUBSET Periods
  BY DEF Rows
<1>2. rows # {}
  BY FS_EmptySet
<1>3. end \in rows
  BY <1>1, <1>2, LastPeriod
<1>4. end \in Periods /\ stored[c][end] > 0 /\ stored[c][end] \in Versions
  BY <1>1, <1>3 DEF Rows, CandlesTypeOK, Series
<1> QED BY <1>4 DEF Calculate

-----------------------------------------------------------------------------
(* Type correctness *)

LEMMA NoCandlesFact == NoCandles \in Series
BY DEF NoCandles, Series, Periods, Versions

LEMMA CandlesInitTyped == CandlesInit => CandlesTypeOK
BY NoCandlesFact DEF CandlesInit, CandlesTypeOK, Periods

(* The list of a run and where it is after the loop went on.               *)
LEMMA GoOnTyped ==
  ASSUME CandlesTypeOK, NEW r \in Runners, NEW left \in SUBSET markets, GoOn(r, left)
  PROVE  /\ phase' \in [Runners -> {"idle", "looping", "writing"}]
         /\ todo' \in [Runners -> SUBSET markets]
         /\ upTo' \in [Runners -> Periods]
         /\ phase'[r] # "writing"
         /\ \A s \in Runners \ {r} : phase'[s] = phase[s]
BY DEF GoOn, Leave, CandlesTypeOK, Periods

(* Each step of the candles job and of what it copies keeps its types.     *)
LEMMA CandlesStepTyped ==
  ASSUME CandlesTypeOK, CandlesNext
  PROVE  CandlesTypeOK'
<1> USE DEF CandlesTypeOK
<1>1. ASSUME NEW c \in Coins, Trade(c) PROVE CandlesTypeOK'
  <2>1. live' \in [Coins -> Series]
    BY <1>1 DEF Trade, Series, Versions
  <2> QED BY <1>1, <2>1 DEF Trade, tables, runs, history
<1>2. CASE NextPeriod
  BY <1>2 DEF NextPeriod, tables, runs, history, Periods
<1>3. ASSUME NEW coins \in SUBSET Coins, UpsertMarkets(coins) PROVE CandlesTypeOK'
  BY <1>3 DEF UpsertMarkets, upstream, runs, history
<1>4. ASSUME NEW r \in Runners, Begin(r) PROVE CandlesTypeOK'
  <2>1. faults' \in 0..MaxFaults
    BY <1>4 DEF Begin
  <2>2. superseded \subseteq {s \in Runners : phase'[s] = "writing"}
    BY <1>4 DEF Begin
  <2> QED BY <1>4, <2>1, <2>2 DEF Begin, ActiveCoins, upstream, tables, history
<1>5. ASSUME NEW r \in Runners, NEW c \in todo[r], Fetch(r, c) PROVE CandlesTypeOK'
  <2>1. c \in markets /\ c \in Coins
    OBVIOUS
  <2>2. [k \in Periods |-> IF k \in Window(r) THEN live[c][k] ELSE 0] \in Series
    BY <2>1 DEF Series, Versions
  <2>3. superseded \subseteq {s \in Runners : phase'[s] = "writing"}
    BY <1>5 DEF Fetch
  <2> QED BY <1>5, <2>1, <2>2, <2>3 DEF Fetch, upstream, tables, history
<1>6. ASSUME NEW r \in Runners, NEW c \in todo[r], FetchFails(r, c)
      PROVE  CandlesTypeOK'
  <2>1. GoOn(r, todo[r] \ {c}) /\ phase[r] = "looping"
    BY <1>6 DEF FetchFails, Take
  <2>2. todo[r] \ {c} \in SUBSET markets
    OBVIOUS
  <2>3. /\ phase' \in [Runners -> {"idle", "looping", "writing"}]
        /\ todo' \in [Runners -> SUBSET markets]
        /\ upTo' \in [Runners -> Periods]
        /\ phase'[r] # "writing"
        /\ \A s \in Runners \ {r} : phase'[s] = phase[s]
    BY <2>1, <2>2, GoOnTyped
  <2>4. superseded \subseteq {s \in Runners : phase'[s] = "writing"}
    BY <2>1, <2>3
  <2> QED BY <1>6, <2>3, <2>4 DEF FetchFails, upstream, tables, history
<1>7. ASSUME NEW r \in Runners, Upsert(r) PROVE CandlesTypeOK'
  <2>1. coin[r] \in Coins /\ GoOn(r, todo[r])
    BY <1>7 DEF Upsert
  <2>2. [k \in Periods |-> IF batch[r][k] > 0 THEN batch[r][k] ELSE stored[coin[r]][k]]
           \in Series
    BY <2>1 DEF Series
  <2>3. /\ phase' \in [Runners -> {"idle", "looping", "writing"}]
        /\ todo' \in [Runners -> SUBSET markets]
        /\ upTo' \in [Runners -> Periods]
        /\ phase'[r] # "writing"
        /\ \A s \in Runners \ {r} : phase'[s] = phase[s]
    BY <2>1, GoOnTyped
  <2>4. superseded' \subseteq {s \in Runners : phase'[s] = "writing"}
    BY <1>7, <2>3 DEF Upsert, Witness
  <2>5. takenBack' \subseteq Coins \X Periods
    BY <1>7, <2>1 DEF Upsert, Witness
  <2> QED
    BY <1>7, <2>1, <2>2, <2>3, <2>4, <2>5, NoCandlesFact DEF Upsert, Drop, upstream
<1>8. ASSUME NEW r \in Runners, Abort(r) PROVE CandlesTypeOK'
  <2>1. superseded' \subseteq {s \in Runners : phase'[s] = "writing"}
    BY <1>8 DEF Abort, Leave
  <2> QED
    BY <1>8, <2>1, NoCandlesFact DEF Abort, Leave, Drop, upstream, tables, Periods
<1> QED
  BY <1>1, <1>2, <1>3, <1>4, <1>5, <1>6, <1>7, <1>8 DEF CandlesNext, RunStep

(* No step but UpsertMarkets touches the list of markets, which only grows.*)
LEMMA MarketsGrow ==
  ASSUME CandlesNext
  PROVE  markets \subseteq markets'
BY DEF CandlesNext, RunStep, Trade, NextPeriod, UpsertMarkets, Begin, Fetch,
       FetchFails, Upsert, Abort, tables

(* A step of the features job leaves the candles alone, faults excepted.   *)
LEMMA ScoreLeavesCandles ==
  ASSUME CandlesTypeOK, Score
  PROVE  UNCHANGED <<upstream, tables, runs, history>> /\ CandlesTypeOK'
<1>1. UNCHANGED <<upstream, tables, runs, history>>
  BY DEF Score, BeginScoring, ReadCandles, UpsertFeatures,
         UpsertFeaturesFails, InsertFlags, Killed, candleVars
<1>2. faults' \in 0..MaxFaults
  BY DEF Score, BeginScoring, ReadCandles, UpsertFeatures,
         UpsertFeaturesFails, InsertFlags, Killed, candleVars, CandlesTypeOK
<1> QED BY <1>1, <1>2 DEF CandlesTypeOK, upstream, tables, runs, history

LEMMA NoFeatureFact == NoFeature \in [time : Periods, version : Versions]
BY DEF NoFeature, Periods, Versions

(* Each step of the features job keeps the types.                          *)
LEMMA ScoreTyped ==
  ASSUME TypeOK, Score
  PROVE  TypeOK'
<1> USE DEF TypeOK
<1>1. CandlesTypeOK' /\ markets' = markets
  BY ScoreLeavesCandles DEF tables
<1>2. CASE BeginScoring
  BY <1>1, <1>2 DEF BeginScoring, ActiveCoins
<1>3. ASSUME NEW c \in Coins, ReadCandles(c) PROVE TypeOK'
  <2>1. out' \in [Coins -> [time : Periods, version : Versions]]
    BY <1>3, CalculateFact DEF ReadCandles
  <2> QED BY <1>1, <1>3, <2>1 DEF ReadCandles
<1>4. CASE UpsertFeatures
  <2>1. features' \in [Coins -> Series]
    BY <1>4 DEF UpsertFeatures, Series
  <2> QED BY <1>1, <1>4, <2>1 DEF UpsertFeatures
<1>5. CASE UpsertFeaturesFails
  BY <1>1, <1>5, NoFeatureFact DEF UpsertFeaturesFails, RunEnds
<1>6. CASE InsertFlags
  <2>1. flags' \subseteq Coins \X Periods
    BY <1>6 DEF InsertFlags
  <2> QED BY <1>1, <1>6, <2>1, NoFeatureFact DEF InsertFlags, RunEnds
<1>7. CASE Killed
  BY <1>1, <1>7, NoFeatureFact DEF Killed, RunEnds
<1> QED BY <1>2, <1>3, <1>4, <1>5, <1>6, <1>7 DEF Score

LEMMA TypedStep ==
  ASSUME TypeOK, [Next]_vars
  PROVE  TypeOK'
<1>1. CASE CandlesNext /\ UNCHANGED scoringVars
  BY <1>1, CandlesStepTyped, MarketsGrow DEF TypeOK, scoringVars
<1>2. CASE Score
  BY <1>2, ScoreTyped
<1>3. CASE UNCHANGED vars
  BY <1>3 DEF TypeOK, CandlesTypeOK, vars, candleVars, scoringVars, upstream,
              tables, runs, history
<1> QED BY <1>1, <1>2, <1>3 DEF Next

LEMMA InitTyped == Init => TypeOK
BY CandlesInitTyped, NoCandlesFact, NoFeatureFact DEF Init, TypeOK

(* Tables, runs and what upstream has keep their types through both jobs;  *)
(* a feature on its way to the database is dated with a period.            *)
THEOREM ScoringTypeCorrect == SafeSpec => []TypeOK
<1>1. Init => TypeOK
  BY InitTyped
<1>2. TypeOK /\ [Next]_vars => TypeOK'
  BY TypedStep
<1> QED BY <1>1, <1>2, PTL DEF SafeSpec

-----------------------------------------------------------------------------
(* Who takes a row of candles back *)

(* What a run is about to write is as new as the row it will replace, until*)
(* another run replaces that row first.                                    *)
LEMMA BatchStaysNewest ==
  ASSUME CandlesTypeOK, StoredBehindUpstream, CandlesNext
  PROVE  StoredBehindUpstream'
<1> USE DEF CandlesTypeOK, Series, Versions
<1>1. ASSUME NEW c \in Coins, Trade(c) PROVE StoredBehindUpstream'
  <2>1. /\ live' \in [Coins -> Series]
        /\ \A d \in Coins, k \in Periods : live[d][k] <= live'[d][k]
    BY <1>1 DEF Trade
  <2> QED BY <1>1, <2>1 DEF Trade, tables, runs, history, StoredBehindUpstream
<1>2. CASE NextPeriod
  BY <1>2 DEF NextPeriod, tables, runs, history, StoredBehindUpstream
<1>3. ASSUME NEW coins \in SUBSET Coins, UpsertMarkets(coins)
      PROVE  StoredBehindUpstream'
  BY <1>3 DEF UpsertMarkets, upstream, runs, history, StoredBehindUpstream
<1>4. ASSUME NEW r \in Runners, Begin(r) PROVE StoredBehindUpstream'
  BY <1>4 DEF Begin, upstream, tables, history, StoredBehindUpstream
<1>5. ASSUME NEW r \in Runners, NEW c \in todo[r], Fetch(r, c)
      PROVE  StoredBehindUpstream'
  <2>1. UNCHANGED <<live, stored, superseded>> /\ c \in Coins /\ coin'[r] = c
    BY <1>5 DEF Fetch, upstream, tables, history
  <2>2. \A k \in Periods :
           batch'[r][k] = IF k \in Window(r) THEN live[c][k] ELSE 0
    BY <1>5 DEF Fetch
  <2>3. ASSUME NEW s \in Runners \ {r}
        PROVE  phase'[s] = phase[s] /\ coin'[s] = coin[s] /\ batch'[s] = batch[s]
    BY <1>5 DEF Fetch
  <2> QED BY <2>1, <2>2, <2>3 DEF StoredBehindUpstream
<1>6. ASSUME NEW r \in Runners, NEW c \in todo[r], FetchFails(r, c)
      PROVE  StoredBehindUpstream'
  <2>1. GoOn(r, todo[r] \ {c}) /\ UNCHANGED <<live, stored, superseded, coin, batch>>
    BY <1>6 DEF FetchFails, upstream, tables, history
  <2>2. phase'[r] # "writing" /\ \A s \in Runners \ {r} : phase'[s] = phase[s]
    BY <2>1, GoOnTyped
  <2> QED BY <2>1, <2>2 DEF StoredBehindUpstream
<1>7. ASSUME NEW r \in Runners, Upsert(r) PROVE StoredBehindUpstream'
  <2>1. live' = live /\ coin[r] \in Coins /\ GoOn(r, todo[r])
    BY <1>7 DEF Upsert, upstream
  <2>2. phase'[r] # "writing" /\ \A s \in Runners \ {r} : phase'[s] = phase[s]
    BY <2>1, GoOnTyped
  <2>3. \A d \in Coins, k \in Periods :
           \/ stored'[d][k] = stored[d][k]
           \/ d = coin[r] /\ stored'[d][k] = batch[r][k]
    BY <1>7 DEF Upsert
  <2>4. \A d \in Coins, k \in Periods : stored'[d][k] <= live[d][k]
    BY <1>7, <2>3 DEF Upsert, StoredBehindUpstream
  <2>5. ASSUME NEW s \in Runners, phase'[s] = "writing", NEW k \in Periods
        PROVE  /\ batch'[s][k] <= live[coin'[s]][k]
               /\ s \notin superseded' /\ batch'[s][k] > 0 =>
                     stored'[coin'[s]][k] <= batch'[s][k]
    <3>1. s # r /\ phase[s] = "writing" /\ coin[s] \in Coins
      BY <2>2, <2>5
    <3>2. coin'[s] = coin[s] /\ batch'[s] = batch[s]
      BY <1>7, <3>1 DEF Upsert, Drop
    <3>3. s \notin superseded' => s \notin superseded /\ coin[s] # coin[r]
      BY <1>7, <3>1 DEF Upsert, Witness
    <3>4. s \notin superseded' => stored'[coin[s]][k] = stored[coin[s]][k]
      BY <2>3, <3>1, <3>3
    <3> QED BY <3>1, <3>2, <3>3, <3>4 DEF StoredBehindUpstream
  <2> QED BY <2>1, <2>4, <2>5 DEF StoredBehindUpstream
<1>8. ASSUME NEW r \in Runners, Abort(r) PROVE StoredBehindUpstream'
  <2>1. UNCHANGED <<live, stored>> /\ phase'[r] # "writing"
    BY <1>8 DEF Abort, Leave, upstream, tables
  <2>2. ASSUME NEW s \in Runners \ {r}
        PROVE  /\ phase'[s] = phase[s] /\ coin'[s] = coin[s] /\ batch'[s] = batch[s]
               /\ s \in superseded' <=> s \in superseded
    BY <1>8 DEF Abort, Leave, Drop
  <2> QED BY <2>1, <2>2 DEF StoredBehindUpstream
<1> QED
  BY <1>1, <1>2, <1>3, <1>4, <1>5, <1>6, <1>7, <1>8 DEF CandlesNext, RunStep

(* Hence the one action that writes rows lowers a version only when the run*)
(* is superseded, and what it lowers is remembered.                        *)
LEMMA StoredGrows ==
  ASSUME CandlesTypeOK, StoredBehindUpstream, CandlesNext
  PROVE  \A c \in Coins, k \in Periods :
            \/ stored'[c][k] >= stored[c][k]
            \/ /\ <<c, k>> \in takenBack'
               /\ \E r \in superseded : coin[r] = c /\ phase'[r] # "writing"
<1> USE DEF CandlesTypeOK, Series, Versions
<1>1. ASSUME NEW r \in Runners, Upsert(r), NEW c \in Coins, NEW k \in Periods,
             ~ (stored'[c][k] >= stored[c][k])
      PROVE  /\ <<c, k>> \in takenBack'
             /\ r \in superseded /\ coin[r] = c /\ phase'[r] # "writing"
  <2>1. coin[r] \in Coins /\ phase[r] = "writing" /\ GoOn(r, todo[r])
    BY <1>1 DEF Upsert
  <2>2. \/ stored'[c][k] = stored[c][k]
        \/ c = coin[r] /\ batch[r][k] > 0 /\ stored'[c][k] = batch[r][k]
    BY <1>1 DEF Upsert
  <2>3. stored[c][k] \in Int /\ batch[r][k] \in Int
    BY <2>1
  <2>4. r \notin superseded /\ batch[r][k] > 0 => stored[coin[r]][k] <= batch[r][k]
    BY <2>1 DEF StoredBehindUpstream
  <2>5. c = coin[r] /\ batch[r][k] > 0 /\ stored'[c][k] = batch[r][k]
    BY <1>1, <2>2, <2>3
  <2>6. r \in superseded
    BY <1>1, <2>3, <2>4, <2>5
  <2>7. stored'[coin[r]][k] < stored[coin[r]][k]
    BY <1>1, <2>3, <2>5
  <2>8. <<c, k>> \in takenBack'
    BY <1>1, <2>5, <2>7 DEF Upsert, Witness
  <2>9. phase'[r] # "writing"
    BY <2>1, GoOnTyped
  <2> QED BY <2>5, <2>6, <2>8, <2>9
<1>2. \/ stored' = stored
      \/ \E r \in Runners : Upsert(r)
  BY DEF CandlesNext, RunStep, Trade, NextPeriod, UpsertMarkets, Begin, Fetch,
         FetchFails, Abort, tables
<1>3. \A c \in Coins, k \in Periods : stored[c][k] \in Int
  OBVIOUS
<1>4. stored' = stored => \A c \in Coins, k \in Periods : stored'[c][k] >= stored[c][k]
  BY <1>3
<1>5. (\E r \in Runners : Upsert(r)) =>
         \A c \in Coins, k \in Periods :
            \/ stored'[c][k] >= stored[c][k]
            \/ /\ <<c, k>> \in takenBack'
               /\ \E r \in superseded : coin[r] = c /\ phase'[r] # "writing"
  BY <1>1, Zenon
<1> QED BY <1>2, <1>4, <1>5, Zenon

LEMMA BehindStep ==
  ASSUME TypeOK, StoredBehindUpstream, [Next]_vars
  PROVE  StoredBehindUpstream'
<1>1. CASE CandlesNext
  BY <1>1, BatchStaysNewest DEF TypeOK
<1>2. CASE Score
  BY <1>2, ScoreLeavesCandles
     DEF TypeOK, StoredBehindUpstream, upstream, tables, runs, history
<1>3. CASE UNCHANGED vars
  BY <1>3 DEF StoredBehindUpstream, vars, candleVars, upstream, tables, runs, history
<1> QED BY <1>1, <1>2, <1>3 DEF Next

LEMMA BehindInit == Init => StoredBehindUpstream
BY DEF Init, CandlesInit, StoredBehindUpstream, NoCandles

LEMMA NeverBackStep ==
  ASSUME TypeOK, StoredBehindUpstream, [Next]_vars
  PROVE  \A c \in Coins, k \in Periods :
            stored'[c][k] < stored[c][k] =>
               \E r \in superseded : coin[r] = c /\ phase'[r] # "writing"
<1> USE DEF TypeOK, CandlesTypeOK, Series, Versions
<1>1. CASE CandlesNext
  <2>1. \A c \in Coins, k \in Periods :
           stored[c][k] \in Int /\ stored'[c][k] \in Int
    BY <1>1, CandlesStepTyped
  <2>2. \A c \in Coins, k \in Periods :
           \/ stored'[c][k] >= stored[c][k]
           \/ \E r \in superseded : coin[r] = c /\ phase'[r] # "writing"
    <3> HIDE DEF StoredBehindUpstream
    <3> QED BY <1>1, StoredGrows, Zenon
  <2>3. \A c \in Coins, k \in Periods :
           stored'[c][k] < stored[c][k] => ~ (stored'[c][k] >= stored[c][k])
    BY <2>1
  <2> QED BY <2>2, <2>3, Zenon
<1>2. CASE Score
  BY <1>2, ScoreLeavesCandles DEF tables
<1>3. CASE UNCHANGED vars
  BY <1>3 DEF vars, candleVars, tables
<1> QED BY <1>1, <1>2, <1>3 DEF Next

(* However many runs of the candles job overlap and fail, a row goes back  *)
(* to an older state of its candle only under a run that another one has   *)
(* overtaken between its fetch and its write (scheduler.go:150-167).       *)
THEOREM CandlesGoBackOnlySuperseded == SafeSpec => CandlesNeverGoBack
<1>1. Init => TypeOK /\ StoredBehindUpstream
  BY InitTyped, BehindInit
<1>2. TypeOK /\ StoredBehindUpstream /\ [Next]_vars =>
         TypeOK' /\ StoredBehindUpstream'
  BY TypedStep, BehindStep
<1>3. TypeOK /\ StoredBehindUpstream /\ [Next]_vars =>
         [\A c \in Coins, k \in Periods :
             stored'[c][k] < stored[c][k] =>
                \E r \in superseded : coin[r] = c /\ phase'[r] # "writing"]_candleVars
  BY NeverBackStep
<1> QED BY <1>1, <1>2, <1>3, PTL DEF SafeSpec, CandlesNeverGoBack

-----------------------------------------------------------------------------
(* Flags have features *)

(* What is about to be flagged has just been written.                      *)
FlagsInv ==
    /\ FlagsHaveFeatures
    /\ step = "flagging" =>
          \A c \in Coins : out[c].version > 0 => features[c][out[c].time] > 0

LEMMA FlagsStep ==
  ASSUME TypeOK, FlagsInv, [Next]_vars
  PROVE  FlagsInv'
<1> USE DEF TypeOK, Series, Versions, FlagsInv, FlagsHaveFeatures
<1>1. CASE BeginScoring
  BY <1>1 DEF BeginScoring
<1>2. ASSUME NEW c \in Coins, ReadCandles(c) PROVE FlagsInv'
  BY <1>2 DEF ReadCandles
<1>3. CASE UpsertFeatures
  <2>1. ASSUME NEW c \in Coins, NEW k \in Periods
        PROVE  features'[c][k] = IF out[c].version > 0 /\ k = out[c].time
                                 THEN out[c].version ELSE features[c][k]
    BY <1>3 DEF UpsertFeatures
  <2>2. \A c \in Coins, k \in Periods : features[c][k] > 0 => features'[c][k] > 0
    BY <2>1
  <2>3. \A f \in flags : f[1] \in Coins /\ f[2] \in Periods
    OBVIOUS
  <2>4. FlagsHaveFeatures'
    BY <1>3, <2>2, <2>3 DEF UpsertFeatures
  <2>5. \A c \in Coins : out[c].version > 0 => features'[c][out[c].time] > 0
    BY <2>1
  <2> QED BY <1>3, <2>4, <2>5 DEF UpsertFeatures
<1>4. CASE UpsertFeaturesFails
  BY <1>4 DEF UpsertFeaturesFails, RunEnds
<1>5. CASE InsertFlags
  <2>1. PICK found \in SUBSET {c \in Coins : out[c].version > 0} :
           flags' = flags \cup {<<c, out[c].time>> : c \in found}
    BY <1>5 DEF InsertFlags
  <2>2. \A c \in found : features[c][out[c].time] > 0
    BY <1>5 DEF InsertFlags
  <2>3. \A f \in flags' : features[f[1]][f[2]] > 0
    BY <2>1, <2>2
  <2> QED BY <1>5, <2>3 DEF InsertFlags, RunEnds
<1>6. CASE Killed
  BY <1>6 DEF Killed, RunEnds
<1>7. CASE UNCHANGED scoringVars
  BY <1>7 DEF scoringVars
<1> QED
  BY <1>1, <1>2, <1>3, <1>4, <1>5, <1>6, <1>7 DEF Next, Score, vars

(* Whichever of the batches of a run fail, and wherever its process is     *)
(* killed, no flag is without its feature.                                 *)
THEOREM FlagsNeverAlone == SafeSpec => []FlagsHaveFeatures
<1>1. Init => TypeOK /\ FlagsInv
  BY InitTyped DEF Init, FlagsInv, FlagsHaveFeatures
<1>2. TypeOK /\ FlagsInv /\ [Next]_vars => TypeOK' /\ FlagsInv'
  BY TypedStep, FlagsStep
<1>3. FlagsInv => FlagsHaveFeatures
  BY DEF FlagsInv
<1> QED BY <1>1, <1>2, <1>3, PTL DEF SafeSpec

-----------------------------------------------------------------------------
(* Features follow candles *)

(* What a run has computed is no newer than the row it came from, and until*)
(* it is written at least as new as the feature it will replace.           *)
FeaturesInv ==
    /\ FeaturesFollowCandles
    /\ \A c \in Coins :
          <<c, out[c].time>> \notin takenBack =>
             /\ out[c].version <= stored[c][out[c].time]
             /\ step # "flagging" /\ out[c].version > 0 =>
                   features[c][out[c].time] <= out[c].version

LEMMA UpsertFeaturesFact ==
  ASSUME TypeOK, UpsertFeatures, NEW c \in Coins, NEW k \in Periods
  PROVE  features'[c][k] = IF out[c].version > 0 /\ k = out[c].time
                           THEN out[c].version ELSE features[c][k]
BY DEF UpsertFeatures, TypeOK, Series

(* What has been taken back is never forgotten.                            *)
LEMMA TakenBackGrows ==
  ASSUME CandlesNext
  PROVE  takenBack \subseteq takenBack'
BY DEF CandlesNext, RunStep, Trade, NextPeriod, UpsertMarkets, Begin, Fetch,
       FetchFails, Upsert, Witness, Abort, history

(* A step of the candles job raises what the features came from, or takes  *)
(* it back.                                                                *)
LEMMA FeaturesUnderCandles ==
  ASSUME TypeOK, StoredBehindUpstream, FeaturesInv,
         CandlesNext, UNCHANGED scoringVars
  PROVE  FeaturesInv'
<1> USE DEF TypeOK, CandlesTypeOK, Series, Versions
<1>1. \A c \in Coins, k \in Periods :
         <<c, k>> \notin takenBack' =>
            stored'[c][k] >= stored[c][k] /\ <<c, k>> \notin takenBack
  BY StoredGrows, TakenBackGrows
<1>2. stored' \in [Coins -> Series]
  BY CandlesStepTyped
<1>3. \A c \in Coins, k \in Periods :
         <<c, k>> \notin takenBack' => features[c][k] <= stored'[c][k]
  BY <1>1, <1>2 DEF FeaturesInv, FeaturesFollowCandles
<1>4. \A c \in Coins :
         <<c, out[c].time>> \notin takenBack' =>
            out[c].version <= stored'[c][out[c].time]
  BY <1>1, <1>2 DEF FeaturesInv
<1>5. \A c \in Coins :
         <<c, out[c].time>> \notin takenBack' => <<c, out[c].time>> \notin takenBack
  BY TakenBackGrows
<1> QED
  BY <1>3, <1>4, <1>5 DEF FeaturesInv, FeaturesFollowCandles, scoringVars

LEMMA FeaturesUnderScore ==
  ASSUME TypeOK, FeaturesInv, Score
  PROVE  FeaturesInv'
<1> USE DEF TypeOK, CandlesTypeOK, Series, Versions
<1>0. UNCHANGED <<stored, takenBack>>
  BY ScoreLeavesCandles DEF tables, history
<1>1. ASSUME RunEnds, UNCHANGED features PROVE FeaturesInv'
  BY <1>0, <1>1
     DEF RunEnds, NoFeature, FeaturesInv, FeaturesFollowCandles, Periods
<1>2. CASE BeginScoring
  BY <1>0, <1>2 DEF BeginScoring, FeaturesInv, FeaturesFollowCandles
<1>3. ASSUME NEW c \in Coins, ReadCandles(c) PROVE FeaturesInv'
  <2>1. UNCHANGED <<features, step>>
    BY <1>3 DEF ReadCandles
  <2>2. CASE out' = out
    BY <1>0, <2>1, <2>2 DEF FeaturesInv, FeaturesFollowCandles
  <2>3. CASE out' # out
    <3>1. PICK f \in [time : Periods, version : Versions] :
             out' = [out EXCEPT ![c] = f] /\ f.version = stored[c][f.time]
      <4>1. PICK cut \in Periods :
               out' = IF Cardinality(Rows(c, cut)) < 2 THEN out
                      ELSE [out EXCEPT ![c] = Calculate(c, Rows(c, cut))]
        BY <1>3 DEF ReadCandles
      <4>2. ~ (Cardinality(Rows(c, cut)) < 2)
        BY <4>1, <2>3
      <4> QED BY <4>1, <4>2, CalculateFact
    <3>3. f.time \in Periods /\ f.version \in Versions
      OBVIOUS
    <3>4. \A d \in Coins : out'[d] = IF d = c THEN f ELSE out[d]
      BY <3>1
    <3>5. stored'[c][f.time] = f.version /\ f.version <= f.version
      BY <1>0, <3>1
    <3>6. FeaturesFollowCandles'
      BY <1>0, <2>1 DEF FeaturesInv, FeaturesFollowCandles
    <3>2. <<c, f.time>> \notin takenBack => features[c][f.time] <= f.version
      BY <3>1 DEF FeaturesInv, FeaturesFollowCandles
    <3>7. ASSUME NEW d \in Coins, <<d, out'[d].time>> \notin takenBack'
          PROVE  /\ out'[d].version <= stored'[d][out'[d].time]
                 /\ step' # "flagging" /\ out'[d].version > 0 =>
                       features'[d][out'[d].time] <= out'[d].version
      <4>1. CASE d = c
        BY <1>0, <2>1, <3>2, <3>4, <3>5, <3>7, <4>1
      <4>2. CASE d # c
        BY <1>0, <2>1, <3>4, <3>7, <4>2 DEF FeaturesInv
      <4> QED BY <4>1, <4>2
    <3> QED BY <3>6, <3>7 DEF FeaturesInv
  <2> QED BY <2>2, <2>3
<1>4. CASE UpsertFeatures
  <2>1. \A c \in Coins, k \in Periods :
           <<c, k>> \notin takenBack => features'[c][k] <= stored[c][k]
    BY <1>4, UpsertFeaturesFact DEF FeaturesInv, FeaturesFollowCandles
  <2> QED BY <1>0, <1>4, <2>1 DEF UpsertFeatures, FeaturesInv, FeaturesFollowCandles
<1> QED
  BY <1>1, <1>2, <1>3, <1>4 DEF Score, UpsertFeaturesFails, InsertFlags, Killed,
     candleVars

LEMMA FeaturesStep ==
  ASSUME TypeOK, StoredBehindUpstream, FeaturesInv, [Next]_vars
  PROVE  FeaturesInv'
<1>1. CASE CandlesNext /\ UNCHANGED scoringVars
  BY <1>1, FeaturesUnderCandles
<1>2. CASE Score
  BY <1>2, FeaturesUnderScore
<1>3. CASE UNCHANGED vars
  BY <1>3 DEF vars, candleVars, tables, history, scoringVars, FeaturesInv,
              FeaturesFollowCandles
<1> QED BY <1>1, <1>2, <1>3 DEF Next

LEMMA FeaturesGrow ==
  ASSUME TypeOK, FeaturesInv, [Next]_vars
  PROVE  \A c \in Coins, k \in Periods :
            <<c, k>> \notin takenBack => features'[c][k] >= features[c][k]
<1> USE DEF TypeOK, Series, Versions
<1>1. CASE UpsertFeatures
  <2>1. step = "reading"
    BY <1>1 DEF UpsertFeatures
  <2> QED BY <1>1, <2>1, UpsertFeaturesFact DEF FeaturesInv
<1>2. features' = features \/ UpsertFeatures
  BY DEF Next, Score, vars, scoringVars, BeginScoring, ReadCandles,
         UpsertFeaturesFails, InsertFlags, Killed
<1> QED BY <1>1, <1>2

LEMMA FeaturesInitially == Init => FeaturesInv
BY DEF Init, CandlesInit, FeaturesInv, FeaturesFollowCandles, NoCandles,
       NoFeature, Periods

(* A feature, stored or in hand, lies between the one in the table and the  *)
(* candle it came from.                                                    *)
FeaturesTrue == TypeOK /\ StoredBehindUpstream /\ FeaturesInv

LEMMA FeaturesTrueAlways == SafeSpec => []FeaturesTrue
<1>1. Init => FeaturesTrue
  BY InitTyped, BehindInit, FeaturesInitially DEF FeaturesTrue
<1>2. FeaturesTrue /\ [Next]_vars => FeaturesTrue'
  BY TypedStep, BehindStep, FeaturesStep DEF FeaturesTrue
<1> QED BY <1>1, <1>2, PTL DEF SafeSpec

(* However reads of candles and their writes interleave, a feature has the *)
(* time of a stored candle and no later state of it than the row, unless   *)
(* the row was taken back (scheduler.go:171-196, store.go:110-134).        *)
THEOREM FeaturesStayTrue == SafeSpec => []FeaturesFollowCandles
<1>1. FeaturesTrue => FeaturesFollowCandles
  BY DEF FeaturesTrue, FeaturesInv
<1> QED BY <1>1, FeaturesTrueAlways, PTL

(* No run of the features job replaces a feature by one from older candles,*)
(* however late it writes, unless the row of its last candle was taken back*)
(* (scheduler.go:178-195).                                                 *)
THEOREM FeaturesStayFresh == SafeSpec => FeaturesNeverGoBack
<1>1. FeaturesTrue /\ [Next]_vars =>
         [\A c \in Coins, k \in Periods :
             <<c, k>> \notin takenBack => features'[c][k] >= features[c][k]]_vars
  BY FeaturesGrow DEF FeaturesTrue
<1> QED BY <1>1, FeaturesTrueAlways, PTL DEF SafeSpec, FeaturesNeverGoBack

==============================================================================
