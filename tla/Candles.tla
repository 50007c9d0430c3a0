------------------------------- MODULE Candles -------------------------------
(***************************************************************************)
(* The candles job, ingestCandles of internal/ingest/scheduler.go, with    *)
(* the tables it reads and writes and the upstream it copies.  Several     *)
(* runs of it may be under way: the job lock lets the next one in when a   *)
(* run outlives its lease (JobExclusive of module JobRuns).                *)
(*                                                                         *)
(* A run asks for the active coins, fetches the candles of each and        *)
(* upserts what came.  The last candle of a coin is still open: upstream   *)
(* changes it until its period is over, so the same row is written again   *)
(* by run after run.  A fetch that fails is skipped, an upsert that fails  *)
(* ends the run.                                                           *)
(*                                                                         *)
(*   idle --Begin--> looping --Fetch--> writing                            *)
(*     ^                |  ^                 |                             *)
(*     |   FetchFails --+--+                 |                             *)
(*     +--(last coin)---+--+----- Upsert ----+                             *)
(*                                                                         *)
(* A candle is its version, the number of times upstream has changed it;   *)
(* version 0 is no candle.  One interval stands for each of those that are *)
(* configured: the job treats them alike, one after the other.             *)
(***************************************************************************)
EXTENDS Integers

CONSTANTS
    Coins,          \* coins upstream may list
    Broken,         \* coins whose candles upstream never delivers
    Runners,        \* numbers of the runs that may be under way at a time
    Backfill,       \* periods before the current one a run asks for (14 d)
    MaxPeriod,      \* bounds the clock
    MaxVersion,     \* bounds the changes of a candle
    MaxFaults       \* database failures, killed runs, leases outlived

ASSUME CandlesAssumption ==
    /\ Broken \subseteq Coins /\ Runners \subseteq Nat
    /\ Backfill \in Nat /\ MaxPeriod \in Nat
    /\ MaxVersion \in Nat /\ MaxFaults \in Nat

VARIABLES
    period,     \* the current period
    live,       \* live[c][k]: version of c's candle of period k upstream
    markets,    \* the coins of table markets, all of them active
    stored,     \* stored[c][k]: version of the row of table candles
    phase,      \* where each run is
    todo,       \* the coins a run has not asked for yet
    upTo,       \* the period a run asks for, fixed when it begins
    coin,       \* the coin a run is about to write
    batch,      \* what was fetched: batch[r][k], 0 for no candle
    faults,     \* how many there have been
    superseded, \* the runs whose coin another run has written since they
                \* fetched it
    takenBack   \* the coins and periods of rows that have ever gone back

upstream == <<period, live>>
tables == <<markets, stored>>
runs == <<phase, todo, upTo, coin, batch>>
history == <<superseded, takenBack>>    \* in no state of the program
candleVars == <<upstream, tables, runs, faults, history>>

-----------------------------------------------------------------------------
(* Type *)

Periods == 0..MaxPeriod
Versions == 0..MaxVersion
Series == [Periods -> Versions]
NoCandles == [k \in Periods |-> 0]
NoCoin == "none"

CandlesTypeOK ==
    /\ period \in Periods
    /\ live \in [Coins -> Series]
    /\ markets \subseteq Coins
    /\ stored \in [Coins -> Series]
    /\ phase \in [Runners -> {"idle", "looping", "writing"}]
    /\ todo \in [Runners -> SUBSET markets]
    /\ upTo \in [Runners -> Periods]
    /\ coin \in [Runners -> markets \cup {NoCoin}]
    /\ batch \in [Runners -> Series]
    /\ faults \in 0..MaxFaults
    /\ superseded \subseteq {r \in Runners : phase[r] = "writing"}
    /\ takenBack \subseteq Coins \X Periods
    /\ \A r \in Runners :
          phase[r] = "writing" => coin[r] \in markets

CandlesInit ==
    /\ period = 0
    /\ live = [c \in Coins |-> NoCandles]
    /\ markets = {}
    /\ stored = [c \in Coins |-> NoCandles]
    /\ phase = [r \in Runners |-> "idle"]
    /\ todo = [r \in Runners |-> {}]
    /\ upTo = [r \in Runners |-> 0]
    /\ coin = [r \in Runners |-> NoCoin]
    /\ batch = [r \in Runners |-> NoCandles]
    /\ faults = 0
    /\ superseded = {}
    /\ takenBack = {}

-----------------------------------------------------------------------------
(* Upstream, and the job that fills table markets *)

(* The open candle of c changes.  Nobody ever sees those of a broken coin. *)
Trade(c) ==
    /\ c \notin Broken
    /\ live[c][period] < MaxVersion
    /\ live' = [live EXCEPT ![c][period] = @ + 1]
    /\ UNCHANGED <<period, tables, runs, faults, history>>

NextPeriod ==
    /\ period < MaxPeriod
    /\ period' = period + 1
    /\ UNCHANGED <<live, tables, runs, faults, history>>

(* ingestMeta upserts the coins of the universe in one batch, all or none. *)
(* No code ever takes is_active away again.                                *)
UpsertMarkets(coins) ==
    /\ markets' = markets \cup coins
    /\ UNCHANGED <<upstream, stored, runs, faults, history>>

-----------------------------------------------------------------------------
(* A run of the job *)

(* Faulty variant: every coin with a snapshot, and allMids brings others.  *)
FaultyActiveCoins == Coins

ActiveCoins == markets

(* The active coins are read and the window of the run is fixed.  Without  *)
(* coins, or when they cannot be read, there is nothing to do.  A run that *)
(* is let in beside another counts as a fault.  Runs have no names of      *)
(* their own: a new one takes the first free number.                       *)
Begin(r) ==
    /\ phase[r] = "idle"
    /\ \A s \in Runners : s < r => phase[s] # "idle"
    /\ ActiveCoins # {}
    /\ faults' = IF \A s \in Runners : phase[s] = "idle" THEN faults ELSE faults + 1
    /\ faults' <= MaxFaults
    /\ todo' = [todo EXCEPT ![r] = ActiveCoins]
    /\ upTo' = [upTo EXCEPT ![r] = period]
    /\ phase' = [phase EXCEPT ![r] = "looping"]
    /\ UNCHANGED <<upstream, tables, coin, batch, history>>

Window(r) == {k \in Periods : upTo[r] - Backfill <= k /\ k <= upTo[r]}

(* The run is over, and with it go its coins and its window.               *)
Leave(r) ==
    /\ phase' = [phase EXCEPT ![r] = "idle"]
    /\ todo' = [todo EXCEPT ![r] = {}]
    /\ upTo' = [upTo EXCEPT ![r] = 0]

(* The loop goes on with the coins that are left, if any.                  *)
GoOn(r, left) ==
    IF left = {} THEN Leave(r)
    ELSE /\ phase' = [phase EXCEPT ![r] = "looping"]
         /\ todo' = [todo EXCEPT ![r] = left]
         /\ UNCHANGED upTo

(* The loop comes to c: the coins have the order of their volume, which is *)
(* left open.                                                              *)
Take(r, c) ==
    /\ phase[r] = "looping"
    /\ c \in todo[r]

(* CandleSnapshot answers with the candles of the window as they are now.  *)
Fetch(r, c) ==
    /\ Take(r, c)
    /\ c \notin Broken
    /\ batch' = [batch EXCEPT ![r] =
          [k \in Periods |-> IF k \in Window(r) THEN live[c][k] ELSE 0]]
    /\ coin' = [coin EXCEPT ![r] = c]
    /\ todo' = [todo EXCEPT ![r] = @ \ {c}]
    /\ phase' = [phase EXCEPT ![r] = "writing"]
    /\ UNCHANGED <<upstream, tables, upTo, faults, history>>

(* What a run has in hand is written or dropped.                           *)
Drop(r) ==
    /\ batch' = [batch EXCEPT ![r] = NoCandles]
    /\ coin' = [coin EXCEPT ![r] = NoCoin]

(* Faulty variant: a failed fetch ends the run.                            *)
FaultyFetchFails(r, c) ==
    /\ Take(r, c)
    /\ Leave(r)
    /\ UNCHANGED <<upstream, tables, coin, batch, faults, history>>

(* A fetch that fails is logged, the run goes on with the next coin.       *)
FetchFails(r, c) ==
    /\ Take(r, c)
    /\ GoOn(r, todo[r] \ {c})
    /\ UNCHANGED <<upstream, tables, coin, batch, faults, history>>

(* The history of a write: who has fetched this coin before it, and which  *)
(* rows it takes back.                                                     *)
Witness(r) ==
    /\ superseded' = (superseded \ {r}) \cup
          {s \in Runners \ {r} : phase[s] = "writing" /\ coin[s] = coin[r]}
    /\ takenBack' = takenBack \cup
          {<<coin[r], k>> : k \in {i \in Periods :
                                     stored'[coin[r]][i] < stored[coin[r]][i]}}

(* Faulty variant: the series is deleted and inserted anew.                *)
FaultyUpsert(r) ==
    /\ phase[r] = "writing"
    /\ stored' = [stored EXCEPT ![coin[r]] = batch[r]]
    /\ GoOn(r, todo[r])
    /\ Drop(r)
    /\ Witness(r)
    /\ UNCHANGED <<upstream, markets, faults>>

(* UpsertCandles writes the batch over the rows with the same key.         *)
Upsert(r) ==
    /\ phase[r] = "writing"
    /\ stored' = [stored EXCEPT ![coin[r]] =
                    [k \in Periods |-> IF batch[r][k] > 0 THEN batch[r][k] ELSE @[k]]]
    /\ GoOn(r, todo[r])
    /\ Drop(r)
    /\ Witness(r)
    /\ UNCHANGED <<upstream, markets, faults>>

(* The upsert fails, which undoes the batch and ends the run, or the run   *)
(* is killed with its process.                                             *)
Abort(r) ==
    /\ phase[r] # "idle"
    /\ faults < MaxFaults
    /\ faults' = faults + 1
    /\ Leave(r)
    /\ Drop(r)
    /\ superseded' = superseded \ {r}
    /\ UNCHANGED <<upstream, tables, takenBack>>

RunStep(r) ==
    \/ Begin(r)
    \/ \E c \in todo[r] : Fetch(r, c) \/ FetchFails(r, c)
    \/ Upsert(r)

CandlesNext ==
    \/ \E c \in Coins : Trade(c)
    \/ NextPeriod
    \/ \E coins \in (SUBSET Coins) \ (SUBSET markets) : UpsertMarkets(coins)
    \/ \E r \in Runners : RunStep(r) \/ Abort(r)

CandlesSpec == CandlesInit /\ [][CandlesNext]_candleVars

-----------------------------------------------------------------------------
(* Properties *)

(* A row of candles goes back to an older state of its candle only when a  *)
(* run writes what it fetched before another run wrote the same coin: runs *)
(* that follow each other, however they fail, never take a row back        *)
(* (scheduler.go:150-167, store.go:93-95).                                 *)
CandlesNeverGoBack ==
    [][\A c \in Coins, k \in Periods :
          stored'[c][k] < stored[c][k] =>
             \E r \in superseded :
                coin[r] = c /\ phase'[r] # "writing"]_candleVars

(* The strengthening: what is about to be written is no newer than upstream*)
(* and, unless its run is superseded, at least as new as the row.          *)
StoredBehindUpstream ==
    /\ \A c \in Coins, k \in Periods : stored[c][k] <= live[c][k]
    /\ \A r \in Runners, k \in Periods :
          phase[r] = "writing" =>
             /\ batch[r][k] <= live[coin[r]][k]
             /\ r \notin superseded /\ batch[r][k] > 0 =>
                   stored[coin[r]][k] <= batch[r][k]

==============================================================================
