----------------------------- MODULE MarketData -----------------------------
(***************************************************************************)
(* Tier 1: the meta and mids jobs of internal/ingest/scheduler.go over the *)
(* tables markets and market_snapshots, and the market list the dashboard  *)
(* reads from them (ListMarkets of internal/store/query.go).               *)
(*                                                                         *)
(*   meta:  idle --FetchMeta--> markets --> snapshots --> idle             *)
(*   mids:  idle --FetchMids--> snapshots --> idle                         *)
(*                                                                         *)
(* Both jobs write rows of the same table.  Of a row only its key and its  *)
(* volume are kept; open interest and funding come and go with the volume. *)
(***************************************************************************)
EXTENDS Integers, FiniteSetsExt

CONSTANTS
    Coins,          \* coins upstream may name
    Volumes,        \* daily volumes upstream may report, above zero
    MaxTime,        \* bounds the clock
    MaxFaults       \* batches that fail

VARIABLES
    now,
    markets,        \* the coins of table markets
    snaps,          \* rows of table market_snapshots
    phase,          \* phase[j]: where job j is
    universe,       \* the coins the meta job is to store
    inHand,         \* inHand[j]: rows of snapshots j is to write
    faults

vars == <<now, markets, snaps, phase, universe, inHand, faults>>

Jobs == {"tier1_meta", "tier1_mids"}
MarketSnapshot ==
    [coin : Coins, time : 0..MaxTime, volume : Volumes \cup {0}]

TypeOK ==
    /\ now \in 0..MaxTime
    /\ markets \subseteq Coins
    /\ snaps \subseteq MarketSnapshot
    /\ phase \in [Jobs -> {"idle", "markets", "snapshots"}]
    /\ universe \subseteq Coins
    /\ inHand \in [Jobs -> SUBSET MarketSnapshot]
    /\ faults \in 0..MaxFaults

Init ==
    /\ now = 0
    /\ markets = {}
    /\ snaps = {}
    /\ phase = [j \in Jobs |-> "idle"]
    /\ universe = {}
    /\ inHand = [j \in Jobs |-> {}]
    /\ faults = 0

-----------------------------------------------------------------------------
(* The jobs *)

GoTo(j, stage) == phase' = [phase EXCEPT ![j] = stage]

(* The universe comes with a context for some of its coins, and each of    *)
(* these makes a row, stamped when the answer is there.                    *)
FetchMeta ==
    /\ phase["tier1_meta"] = "idle"
    /\ \E coins \in SUBSET Coins : \E priced \in SUBSET coins :
       \E volume \in [priced -> Volumes] :
          /\ universe' = coins
          /\ inHand' = [inHand EXCEPT !["tier1_meta"] =
                {[coin |-> c, time |-> now, volume |-> volume[c]] : c \in priced}]
    /\ GoTo("tier1_meta", "markets")
    /\ UNCHANGED <<now, markets, snaps, faults>>

(* allMids knows prices only, also of coins outside the universe.          *)
FetchMids ==
    /\ phase["tier1_mids"] = "idle"
    /\ \E coins \in SUBSET Coins :
          inHand' = [inHand EXCEPT !["tier1_mids"] =
                {[coin |-> c, time |-> now, volume |-> 0] : c \in coins}]
    /\ GoTo("tier1_mids", "snapshots")
    /\ UNCHANGED <<now, markets, snaps, universe, faults>>

(* A statement is refused: the batch is undone as a whole, and the job     *)
(* returns with its error.                                                 *)
BatchFails(j) ==
    /\ faults < MaxFaults
    /\ faults' = faults + 1
    /\ inHand' = [inHand EXCEPT ![j] = {}]
    /\ GoTo(j, "idle")
    /\ UNCHANGED <<now, markets, snaps, universe>>

UpsertMarkets ==
    /\ phase["tier1_meta"] = "markets"
    /\ markets' = markets \cup universe
    /\ GoTo("tier1_meta", "snapshots")
    /\ UNCHANGED <<now, snaps, universe, inHand, faults>>

UpsertMarketsFails ==
    /\ phase["tier1_meta"] = "markets"
    /\ universe # {} /\ BatchFails("tier1_meta")

(* A row takes the place of the one with its coin and time.                *)
InsertMarketSnapshots(j) ==
    /\ phase[j] = "snapshots"
    /\ snaps' = inHand[j] \cup
         {s \in snaps : \A r \in inHand[j] : r.coin # s.coin \/ r.time # s.time}
    /\ inHand' = [inHand EXCEPT ![j] = {}]
    /\ GoTo(j, "idle")
    /\ UNCHANGED <<now, markets, universe, faults>>

InsertSnapshotsFails(j) ==
    /\ phase[j] = "snapshots"
    /\ inHand[j] # {} /\ BatchFails(j)

Tick ==
    /\ now < MaxTime
    /\ now' = now + 1
    /\ UNCHANGED <<markets, snaps, phase, universe, inHand, faults>>

Next ==
    \/ FetchMeta \/ UpsertMarkets \/ UpsertMarketsFails
    \/ FetchMids
    \/ \E j \in Jobs : InsertMarketSnapshots(j) \/ InsertSnapshotsFails(j)
    \/ Tick

Spec == Init /\ [][Next]_vars

-----------------------------------------------------------------------------
(* The market list *)

(* The snapshots of c, and the volume its latest one tells.                *)
Rows(c) == {s \in snaps : s.coin = c}

Volume24H(c) ==
    IF Rows(c) = {} THEN 0
    ELSE LET last == CHOOSE s \in Rows(c) : s.time = Max({r.time : r \in Rows(c)})
         IN last.volume

(* The coins of a list with the filter min_volume, 0 for none.             *)
ListMarkets(minVolume) ==
    {c \in markets : minVolume = 0 \/ Volume24H(c) >= minVolume}

(* What the documents promise of the dashboard while an endpoint is paused,*)
(* that it continues serving what is stored: a coin whose volume is stored *)
(* is found by that volume (query.go:36-89, scheduler.go:129-140).         *)
StoredVolumeServed ==
    \A c \in markets : \A r \in Rows(c) :
        r.volume > 0 => c \in ListMarkets(Min(Volumes))

==============================================================================
