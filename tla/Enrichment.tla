----------------------------- MODULE Enrichment -----------------------------
(***************************************************************************)
(* Tier 3: a job of internal/ingest/scheduler.go that keeps the order      *)
(* books, or the recent trades, of the coins with the best scores.         *)
(*                                                                         *)
(*   idle --Begin--> todo: c, d, ... --Fetch each--> rows --Insert--> idle *)
(*                                                                         *)
(* The features job moves the shortlist underneath (its steps are in       *)
(* Scoring; here it is one).  The lock of the job is a lease, so two runs  *)
(* may overlap.  The two jobs of the tier are alike and share no table: a  *)
(* row carries the summary that either of them would make.                 *)
(***************************************************************************)
EXTENDS Features, Books

CONSTANTS
    Coins,          \* numbered in the order of their names
    Broken,         \* coins upstream never answers for
    Runners,        \* runs of the job that may overlap
    Series,         \* series of candles that coins have, one after the other
    BookOf,         \* BookOf[v]: the levels of version v of an order book
    TradesOf,       \* TradesOf[v]: the trades of version v
    ShortlistSize,
    MaxTime,        \* bounds the clock, which counts the changes upstream
    MaxFaults       \* queries and batches that fail, and kills

ASSUME EnrichmentAssumption ==
    /\ Coins \subseteq Nat /\ IsFiniteSet(Coins)
    /\ Broken \subseteq Coins
    /\ ShortlistSize \in Int
    /\ MaxTime \in Nat \ {0} /\ MaxFaults \in Nat
    /\ Series \in Seq(CandleSeries)
    /\ BookOf \in [1..MaxTime -> Seq(Levels)]
    /\ TradesOf \in [1..MaxTime -> Seq([side : STRING, sz : Nat])]

VARIABLES
    now,
    markets,        \* active coins
    seen,           \* seen[c]: the series of c the last scoring read, or 0
    features,       \* the latest features, of the coins that have some
    live,           \* live[c]: what upstream has of c
    stored,         \* the latest rows, of the coins that have some
    todo,           \* todo[r]: coins run r has not asked for yet
    rows,           \* rows[r]: rows r is to write
    record,         \* record[r]: of ingestion_runs, for the run of r or its last
    faults

vars == <<now, markets, seen, features, live, stored, todo, rows,
          record, faults>>

Versions == DOMAIN BookOf

(* An upsert: what is new takes the place of what is there.                *)
Over(new, old) ==
    [x \in DOMAIN new \cup DOMAIN old |-> IF x \in DOMAIN new THEN new[x] ELSE old[x]]

Row == [coin : Coins, version : Versions, time : 1..MaxTime]
Record == [status : {"running", "succeeded", "failed"},
           reported : 0..Cardinality(Coins), kept : 0..Cardinality(Coins)]
NoRecord == [status |-> "succeeded", reported |-> 0, kept |-> 0]
Busy(r) == record[r].status = "running"

(* The time of a row, and the row without the summary it carries.          *)
At(row) == row.snap.l2book.time
Key(row) == [coin |-> row.coin, version |-> row.version, time |-> At(row)]

TypeOK ==
    /\ now \in 1..MaxTime
    /\ markets \subseteq Coins
    /\ seen \in [Coins -> {0} \cup DOMAIN Series]
    /\ DOMAIN features \subseteq markets
    /\ \A c \in DOMAIN features : features[c].research \in ResearchScores
    /\ live \in [Coins -> [version : Versions, time : 0..MaxTime]]
    /\ DOMAIN stored \subseteq markets
    /\ \A c \in DOMAIN stored : Key(stored[c]) \in Row /\ stored[c].coin = c
    /\ \A r \in Runners :
          /\ \A i \in DOMAIN todo[r] : todo[r][i] \in markets
          /\ \A row \in rows[r] : Key(row) \in Row
    /\ record \in [Runners -> Record]
    /\ faults \in 0..MaxFaults

Init ==
    /\ now = 1
    /\ markets = {}
    /\ seen = [c \in Coins |-> 0]
    /\ features = <<>>
    /\ live = [c \in Coins |-> [version |-> 1, time |-> 0]]
    /\ stored = <<>>
    /\ todo = [r \in Runners |-> <<>>]
    /\ rows = [r \in Runners |-> {}]
    /\ record = [r \in Runners |-> NoRecord]
    /\ faults = 0

-----------------------------------------------------------------------------
(* Upstream and the features job *)

NewMarket(c) ==
    /\ c \notin markets
    /\ markets' = markets \cup {c}
    /\ UNCHANGED <<now, seen, features, live, stored, todo, rows, record, faults>>

(* The book of c changes, or c is traded.  Before that upstream gives its  *)
(* answers no time.                                                        *)
Change(c) ==
    /\ now < MaxTime
    /\ now' = now + 1
    /\ live' = [live EXCEPT ![c] = [version |-> @.version + 1, time |-> now']]
    /\ UNCHANGED <<markets, seen, features, stored, todo, rows, record, faults>>

(* The feature of each series: without snapshots, and with a fixed spread. *)
Calculated == [s \in DOMAIN Series |-> Calculate(Series[s], <<>>, 2)]

(* The coins with fewer than two candles are skipped and keep the feature  *)
(* of an earlier run.                                                      *)
ScorableIn(candles) ==
    {c \in DOMAIN candles : candles[c] # 0 /\ Len(Series[candles[c]]) >= 2}

ComputeFeatures ==
    /\ \E candles \in [markets -> DOMAIN Series] :
          /\ \A c \in markets : candles[c] >= seen[c]
          /\ seen' = Over(candles, seen)
          /\ features' =
               Over(NormalizeCrossSection(
                       [c \in ScorableIn(candles) |-> Calculated[candles[c]]]),
                    features)
    /\ UNCHANGED <<now, markets, live, stored, todo, rows, record, faults>>

-----------------------------------------------------------------------------
(* The job *)

Score(c) == IF c \in DOMAIN features THEN features[c].research ELSE 0

(* The active coins in the order of their scores, then of their names.     *)
Rank(c) ==
    Cardinality({d \in markets : \/ Score(d) > Score(c)
                                 \/ Score(d) = Score(c) /\ d <= c})

Limit == IF ShortlistSize <= 0 THEN 20 ELSE ShortlistSize

ShortlistCoins ==
    [i \in 1..Min({Limit, Cardinality(markets)}) |->
        CHOOSE c \in markets : Rank(c) = i]

Begin(r) ==
    /\ ~Busy(r)
    /\ UNCHANGED <<now, markets, seen, features, live, stored, rows, faults>>
    /\ record' = [record EXCEPT ![r] =
                    [status |-> "running", reported |-> 0, kept |-> 0]]
    /\ todo' = [todo EXCEPT ![r] = ShortlistCoins]

(* The summaries of version v of a coin, that upstream says is of time at  *)
(* (0 for none), in an answer that arrives at n.                           *)
BookSummary(v, at, n) ==
    OrderbookSnapshot([levels |-> BookOf[v], time |-> at], n)

TradeSummary(v, at, n) ==
    TradeSnapshot([i \in DOMAIN TradesOf[v] |->
                      [time |-> at, side |-> TradesOf[v][i].side,
                       sz |-> TradesOf[v][i].sz]], n)

Summary ==
    [v \in Versions |-> [at \in 0..MaxTime |-> [n \in 1..MaxTime |->
        [l2book |-> BookSummary(v, at, n), recent_trades |-> TradeSummary(v, at, n)]]]]

Asking(r) == Busy(r) /\ todo[r] # <<>>

Fetch(r) ==
    /\ Asking(r)
    /\ todo' = [todo EXCEPT ![r] = Tail(@)]
    /\ UNCHANGED <<now, markets, seen, features, live, stored, record, faults>>
    /\ LET c == Head(todo[r]) IN
          /\ c \notin Broken
          /\ rows' = [rows EXCEPT ![r] = @ \cup
                {[coin |-> c, version |-> live[c].version,
                  snap |-> Summary[live[c].version][live[c].time][now]]}]

(* The run ends, with what its record says and what was stored.            *)
Finish(r, status, reported, kept) ==
    /\ record' = [record EXCEPT ![r] =
                    [status |-> status, reported |-> reported, kept |-> kept]]
    /\ todo' = [todo EXCEPT ![r] = <<>>]
    /\ rows' = [rows EXCEPT ![r] = {}]

(* Faulty variant: the first failure ends the run.                         *)
FaultyFetchFails(r) ==
    /\ Asking(r)
    /\ Finish(r, "failed", 0, 0)
    /\ UNCHANGED <<now, markets, seen, features, live, stored, faults>>

(* The coin is skipped, also when the limiter has deferred the request: it *)
(* may, for ever, while other jobs keep the budget below the reserve.      *)
FetchFails(r) ==
    /\ Asking(r)
    /\ todo' = [todo EXCEPT ![r] = Tail(@)]
    /\ UNCHANGED <<now, markets, seen, features, live, stored, rows, record, faults>>

Writing(r) == Busy(r) /\ todo[r] = <<>>

(* The latest rows when these are written too: a row takes the place of    *)
(* the one with its coin and time.                                         *)
With(written) ==
    LET latest(row) ==
          row.coin \notin DOMAIN stored
          \/ At(row) >= At(stored[row.coin])
        new == {row \in written : latest(row)}
    IN Over([c \in {row.coin : row \in new} |-> CHOOSE row \in new : row.coin = c],
            stored)

(* Faulty variant: the rows are stamped when they are written.             *)
FaultyInsert(r) ==
    /\ Writing(r)
    /\ stored' = With({[row EXCEPT !.snap.l2book.time = now] : row \in rows[r]})
    /\ Finish(r, "succeeded", Cardinality(rows[r]), Cardinality(rows[r]))
    /\ UNCHANGED <<now, markets, seen, features, live, faults>>

Insert(r) ==
    /\ Writing(r)
    /\ UNCHANGED <<now, markets, seen, features, live, faults>>
    /\ Finish(r, "succeeded", Cardinality(rows[r]), Cardinality(rows[r]))
    /\ stored' = With(rows[r])

Fault(r) ==
    /\ faults < MaxFaults
    /\ faults' = faults + 1
    /\ UNCHANGED <<now, markets, seen, features, live>>

(* Faulty variant: a batch that fails counts as written.                   *)
FaultyInsertFails(r) ==
    /\ Writing(r)
    /\ rows[r] # {}
    /\ Fault(r)
    /\ Finish(r, "succeeded", Cardinality(rows[r]), 0)
    /\ UNCHANGED stored

(* A statement is refused and takes the whole batch with it, or the        *)
(* connection breaks and the batch is stored all the same.  The run fails  *)
(* with the statements that were acknowledged until then.                  *)
InsertFails(r) ==
    /\ Writing(r)
    /\ rows[r] # {}
    /\ Fault(r)
    /\ \E n \in 0..Cardinality(rows[r]) - 1 :
          \/ Finish(r, "failed", n, 0) /\ UNCHANGED stored
          \/ /\ Finish(r, "failed", n, Cardinality(rows[r]))
             /\ stored' = With(rows[r])

ShortlistFails(r) ==
    /\ ~Busy(r)
    /\ Fault(r)
    /\ Finish(r, "failed", 0, 0)
    /\ UNCHANGED stored

(* The process is gone with what the run has in hand; its record stays as  *)
(* it is, which JobRuns is about, and is forgotten here.                   *)
Killed(r) ==
    /\ Busy(r)
    /\ Fault(r)
    /\ Finish(r, "failed", 0, 0)
    /\ UNCHANGED stored

-----------------------------------------------------------------------------

Run(r) ==
    \/ Begin(r) \/ ShortlistFails(r) \/ Fetch(r) \/ FetchFails(r)
    \/ Insert(r) \/ InsertFails(r) \/ Killed(r)

Next ==
    \/ \E c \in Coins : NewMarket(c) \/ Change(c)
    \/ ComputeFeatures
    \/ \E r \in Runners : Run(r)

(* Runs are started again and again and go on, in one process at least.    *)
(* Nothing obliges upstream or the limiter ever to let a request through.  *)
Fairness ==
    WF_vars(\E r \in Runners : Begin(r) \/ Fetch(r) \/ FetchFails(r) \/ Insert(r))

SafeSpec == Init /\ [][Next]_vars
Spec == SafeSpec /\ Fairness

-----------------------------------------------------------------------------
(* Properties of the scores *)

(* The coins the last scoring has compared, and the raw score of one.      *)
Compared == ScorableIn([c \in {d \in Coins : seen[d] # 0} |-> seen[c]])
Raw(c, field) == Calculated[seen[c]][field]

(* The normalisation keeps the order: of two coins of one scoring, the one *)
(* that is as good or better in each raw score has no lower research score *)
(* (calc.go:98-109; the shortlist is cut by it, query.go:226).             *)
DominanceKept ==
    \A c, d \in Compared :
        (\A field \in {"liquidity", "volumeAnomaly", "momentum"} :
            Raw(c, field) >= Raw(d, field))
        => features[c].research >= features[d].research

(* The label is given after the normalisation, against a fixed bound: the  *)
(* least liquid coin of a scoring is labelled as illiquid, however liquid  *)
(* it is, unless all are equally liquid (calc.go:107, 112).                *)
LeastLiquidIgnored ==
    \A c \in Compared :
        /\ \A d \in Compared : Raw(c, "liquidity") <= Raw(d, "liquidity")
        /\ \E d \in Compared : Raw(c, "liquidity") < Raw(d, "liquidity")
        => features[c].label = "ignore_low_liquidity"

-----------------------------------------------------------------------------
(* Properties of the job *)

(* A run recorded as succeeded has stored as many rows as it says, and a   *)
(* failed one has stored all of its batch or nothing and says less than it *)
(* had in hand (store.go:168-191, 204-227, scheduler.go:92-99).            *)
RecordsCountRows ==
    \A r \in Runners :
        /\ record[r].status = "succeeded" => record[r].reported = record[r].kept
        /\ record[r].status = "failed" /\ record[r].kept > 0
              => record[r].reported < record[r].kept

(* A book says what is on both sides of a narrow spread, its depths grow   *)
(* with the distance and the imbalance is a share; and of the trades no    *)
(* more than all are buys (scheduler.go:232-316).                          *)
SummariesAgree ==
    \A c \in DOMAIN stored :
        LET book == stored[c].snap.l2book
            trades == stored[c].snap.recent_trades
        IN /\ book.bestBid > 0 /\ book.spreadBps \in 0..19
                 => book.bidDepth10 > 0 /\ book.askDepth10 > 0
           /\ book.bidDepth10 <= book.bidDepth50
           /\ book.bidDepth50 <= book.bidDepth100
           /\ book.askDepth10 <= book.askDepth50
           /\ book.askDepth50 <= book.askDepth100
           /\ book.imbalance50 \in -100..100
           /\ trades.aggressiveRatio \in 0..100
           /\ trades.largeTradeCount <= trades.tradeCount
           /\ trades.tradeCount > 0 => book.time = trades.time

(* However two runs overlap, the latest row of a coin never goes back to   *)
(* an older state of upstream: rows are keyed by upstream's own time       *)
(* (scheduler.go:233-236, 292-294; lease overruns, store.go:240-249).      *)
BooksInOrder ==
    [][\A c \in DOMAIN stored : stored'[c].version >= stored[c].version]_vars

Listed(c) == c \in Range(ShortlistCoins)

(* The loop of a run has come to c and takes nothing else off its list.    *)
ComesTo(r, c) ==
    todo[r] # <<>> /\ Head(todo[r]) = c /\ todo'[r] = Tail(todo[r])

(* A coin that stays on the shortlist is asked for again and again, although*)
(* requests for any coin may be refused for ever; and one whose requests   *)
(* are answered again and again is up to date again and again, whatever    *)
(* becomes of the other coins (scheduler.go:204-211).                      *)
EnrichmentArrives ==
    \A c \in Coins :
        /\ \/ []<>~Listed(c)
           \/ []<><<\E r \in Runners : ComesTo(r, c)>>_vars
        /\ []<><<\E r \in Runners : ComesTo(r, c) /\ Fetch(r)>>_vars =>
              []<>(\/ ~Listed(c)
                   \/ c \in DOMAIN stored /\ stored[c].version = live[c].version)

=============================================================================
