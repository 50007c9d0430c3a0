# Maelstrom, specified

TLA+ modules for the Maelstrom backend (`src/backend`, Go): the weighted rate limiter, the
Hyperliquid client on top of it, the ingestion jobs with their locks and run records, what each of
the six jobs does to its tables, the scores, the connection pool under jobs and dashboard, and the
server process around all of them. TLC checks them on small instances; TLAPS proves most of the
safety properties for every value of the constants.

## The system

One process (`cmd/server/main.go`) opens PostgreSQL and Redis, applies the migrations, starts the
scheduler and serves a REST API until SIGINT or SIGTERM. Several processes may share a database.

| component | state | operations | meets |
|---|---|---|---|
| limiter (`limiter/weighted.go`) | bucket, last refill, pauses and cooldowns per endpoint, queue depth | `Wait`, `Record`, `Budget`, `Metrics` | every goroutine that calls the client, through one mutex |
| client (`hyperliquid/client.go`) | the call in progress: attempt, answer | `info` and its typed wrappers | limiter; the upstream API |
| scheduler (`ingest/scheduler.go`) | one goroutine per job, its place in `run` | `Start`, `Stop`, `loop`, `run`, six bodies | store, client; other replicas through `job_locks` |
| store (`store/store.go`, `store/query.go`) | tables, connection pool | locks, run records, batches of writes, reads for the dashboard | scheduler, router |
| router (`api/router.go`) | requests in progress | seven handlers | store, limiter (`/metrics`), client (`/health`) |
| server (`cmd/server/main.go`) | the context a signal ends | start, shutdown | everything |
| features (`features/calc.go`) | none | `Calculate`, `NormalizeCrossSection`, `GenerateFlags` | the features job |
| config, migrations, models, Redis cache, frontend | parsed settings; schema; records; a value nobody reads | | |

What is hard, and what makes each component correct:

- **Limiter.** Its mutex protects regions, not calls: a caller of `Wait` leaves and re-enters the lock
  with every poll, while others take tokens, are cancelled, or report a 429 that was earned long
  before. It must never grant more than a bucket plus what time has paid for, never cut a pause
  short, count its queue exactly, and let somebody through.
- **Client.** One grant, up to four requests. Retries must end, and so must the pauses they renew.
- **Scheduler.** Leases, lost answers, crashes and signals in the middle of a run: a job is to run in
  one process at a time, again and again, leave no lock and no open record behind, and not stop
  another job; `Stop` must return.
- **Job bodies.** They read, fetch and write one coin at a time while other jobs write the tables they
  read. No row may go back to an older state, what is derived must follow what it was derived from,
  and a failed fetch must be made up for.
- **Store.** A pool of twelve connections, and one query that needs two of them. A batch is one
  transaction, with a count that is kept outside it. Whoever reads "the latest row" of a table that two
  jobs write gets the row of whichever came last.
- **Features.** A cross-section is normalised and then labelled by bounds that know nothing of the
  normalisation; the order of the coins must survive it, since the shortlist is cut by it.
- **Server.** The signal may fall into any call of any job and any row of any list. The HTTP shutdown
  may time out, `Scheduler.Stop` waits without a deadline, and then the pool is closed: no lock may be
  left behind by then, no connection be missing, and the process must end.

`PROJECT.json` lists the hazards one by one, at their lines, with the properties that would notice.

## Modules

| module | extends | models |
|---|---|---|
| `TokenBucket` | | abstract: a bucket that fills with the clock, observed through a window |
| `Limiter` | | `weighted.go`, one action per locked region or sleep |
| `LimiterWindow` | `Limiter` | the limiter with the window as history; refinement of `TokenBucket` |
| `Client` | `Limiter` | `info()` composed with the limiter |
| `JobRuns` | | `loop`, `run`, `Start`, `Stop`, `TryLock`, `StartRun`, `FinishRun`, `ReleaseLock`, the processes around them |
| `ConnPool` | | who holds connections: `ListMarkets` with its nested `ListFlags`, and every other query |
| `Candles` | | `ingestCandles` with `UpsertCandles`, `ActiveCoins`, `UpsertMarkets` and the candles upstream |
| `Scoring` | `Candles` | `computeFeatures` beside it, with `UpsertFeatures` and `InsertFlags` |
| `Server` | `JobRuns`, instance of `ConnPool` | `main` from serving to the end: the jobs' calls and the lists over one pool, and the shutdown |
| `MarketData` | | `ingestMeta` and `ingestMids` with `UpsertMarkets` and `InsertMarketSnapshots`, and the market list that reads them |
| `Features` | | `calc.go` as operators, but for the rules of the flags |
| `Books` | | `orderbookSnapshot`, `depthWithin`, `tradeSnapshot` as operators |
| `Enrichment` | `Features`, `Books` | `ingestL2Books` and `ingestRecentTrades` over the shortlist, with `computeFeatures` moving it |
| `MC...` | | model values and sets for TLC |
| `...Proofs` | | the theorems about a module |

### Limiter

`pc[c]` is where goroutine `c` is inside `Wait`: `idle`, `admitted` (past the reserve check, which is a
locked region of its own in `Budget()`), `polling` (counted in `queueDepth`), `asleep` in
`sleepContext`, `ticking` in the `select`, `granted` or `cancelled` (the deferred decrement is still to
run). Instants become differences: `sinceRefill` for `lastRefill`, `pauseLeft[e]` for
`pausedUntil[e]`. The float `tokens` is counted in grains, `Grain` to a unit of weight, so that a
refill can add a fraction of a unit; `Budget` rounds down as `int()` does. The ticker of 100 to 180 ms
is not timed: a caller waiting for it may look again at any moment. `sinceRefill` stops growing once it
more than fills the bucket, which changes nothing the code can see. Statistics are left out.

### Client

`stage[c]` is where `c` is inside `info()`: `waiting` in `Wait`, `sending`, `inflight`, `backoff`. A
request has three outcomes: it is answered or fails for good, it is answered 429 (`Record429`), or it
meets a 5xx or a deadline. The backoff is slept out after the last attempt too, as in the code. All
actions of `Limiter` are used as they are, each with `UNCHANGED clientVars` or the caller's own move.

### JobRuns

`pc[p][j]` names the database call that process `p` has under way for job `j`, so that a signal, a
crash or the end of the lease can fall before its answer. `lease[j]` is the row of `job_locks`: absent,
expired, or the ticks to `locked_until`. A call fails by a fault (at most `MaxFaults`), or because its
context ended; a failed `TryLock` or `StartRun` may have written its row before it failed. A call made
after the signal fails at once, and that is folded into the step before it (`BodyReturns` in a process
that is stopping leaves the record open), except `ReleaseLock`, which has `context.Background()`.
Locks are not owned: `ReleaseLockOk` deletes the row of whoever holds it, as the SQL does. `lessee` and
`overran` are history variables that no action reads in its guard.

### ConnPool

`list[l]` follows a request through `ListMarkets`: it takes a connection for the market rows
(`acquiring`, `reading`), and for each row a second one for the flags (`nested`, `flags`). `read[r]` is
any operation that needs one connection: the other handlers, one query at a time, and the jobs'
calls. `Abandon` is the client going away: the request's context ends every wait and query under it.
`AbandonRead` is the same while another query waits, or the end of the 3 s of `/health`.

### Candles and Scoring

A candle is its version: how often upstream has changed it. The last one is open and changes until
its period is over, so run after run writes the same row; `stored[c][k]` is the version in the table.
A run of the candles job (`phase[r]`) takes the active coins and fixes its window, then fetches and
upserts coin by coin; `batch[r]` is what lies between fetch and upsert. A failed fetch skips the coin, a
failed upsert ends the run. Several runs may be under way, as after the end of a lease that a run has
outlived (a pass outlives it with default settings, see `jobs_overrun`); letting a run in beside
another counts as a fault, which bounds how often that happens. `superseded` and `takenBack` are
history: the runs whose fetch another run of the same coin has overtaken, and the rows that such a run
took back. One interval stands for the configured ones, and the order by volume is
left open. The features job (`step`) reads coin by coin while candles are written, dates each feature
with its last candle, and writes features and flags in two batches. `ReadCandles` may get an answer that
breaks off (`cut`), since the code drops that error. Of a feature only its time and the version of its
last candle are kept; flags that are inserted again fall together.

### Server

`JobRuns` and `ConnPool` with `Readers <- Jobs`: every database call of a job, the queries of its body
included, is asked for (`Ask`), gets its connection (`Connect`), and gives it back with its answer
(`Answer`, `QueryDone`). `GiveUp` is a call whose context ends while it waits; the pool refuses such a
context at once too, so after the signal only `ReleaseLock` still asks. `stage` is how far `main`
has come. `ShutdownReturns` may come at any time, since `Shutdown` gives up after 15 s; `StopReturns`
needs every loop to have returned; a pool that is closing refuses the list whose turn it is (`Refuse`),
and `MainReturns` needs every connection back and cuts off who still waits. This is one life of one
process: kills and restarts are in `JobRuns`.

### MarketData

The two jobs of tier 1 with their batches. Both write `market_snapshots`, keyed by coin and the instant at
which the answer came (`FetchMeta`, `FetchMids`); `ListMarkets` reads the latest row of a coin. Of a row
only its volume is kept, which stands for every number that `allMids` does not know.

### Features and Books

Pure operators, in integers rounded down: returns in thousandths, z-scores in tenths, squared
volatilities in millionths, the research score in hundredths, so that each comparison with a constant
of the code is one with an integer. Fields that no score and no label is derived from are left out, and
so are the rules of `GenerateFlags`: `Scoring` lets any of the coins be flagged.
The mid price is kept doubled.

### Enrichment

Tier 3. The two jobs are alike and share no table, so one machine stands for both, and its rows carry
both summaries. `live[c]` is the state of a coin upstream, a version and the time upstream gives it (0 as long as
there is none: the row is then stamped on arrival); `rows[r]` is what run `r` has fetched and not yet
written, `record[r]` what `ingestion_runs` says of it next to what it stored. `seen` is the candles each
coin had when it was last scored; a coin's candles go through the series of `Series` in order. The shortlist is read once
per run, by the scores of that moment. Of the tables only the latest rows are kept. A statement that
fails takes its batch with it, or the connection breaks and the batch is stored all the same; that the
commit itself fails after every statement was acknowledged is left out (no constraint is deferred).

### Definitions named `Faulty...`

Each is a definition of the code changed by one plausible mistake (a refill without its cap, a
decrement on one way out only, an upsert without its `WHERE`). No specification uses them. They
stand before the definition they vary, and `PROJECT.json` pairs each with a property that must fail
when it takes that definition's place: that is how the project knows its properties can fail.

## Runs

| run | instance | shows |
|---|---|---|
| `limiter` | 2 callers, 2 endpoints, capacity 2, cooldown 1 then 2, window 2 | `QueueDepthExact`, `WindowBound`, `PauseNeverShortened`, refinement of `TokenBucket`; 1.0 million states, symmetric in the callers |
| `client` | 2 callers, 2 endpoints, bucket of 2 units in 4 grains, 2 attempts | `PausesEnd`, `QueueMoves`; 240 thousand states |
| `client_paused` | the same | **violated**: a retry is sent into a pause |
| `jobs` | 2 processes, 1 job, lease of 2 ticks, 2 faults, 1 signal, 1 crash | exclusivity, no leaked lock, closed records, jobs go on, stop completes |
| `jobs_isolated` | `Server`: 2 jobs of which one may hang, 1 list of 1 row, 2 connections, 1 signal | jobs and lists go on beside a hung job; shutdown ends, with every lock freed before the pool closes and every connection accounted for |
| `jobs_overrun` | 2 processes, no faults | **violated**: a job beyond its lease runs twice |
| `jobs_stop` | 2 processes, 1 signal | **violated**: a run that ends after the signal leaves the record it has opened as running |
| `pool` | 3 lists, 2 readers, 4 connections, 2 rows | no connection lost, no gridlock, lists answered, other queries answered or given up |
| `scoring` | 2 coins of which one is never delivered, 2 runs of the candles job, 3 periods, 2 versions, 1 fault or overlap, fetch window of 2 periods | only an overtaken run takes a candle back, features follow candles and do not go back, flags have features, coins are asked for again and again and what is delivered arrives; 710 thousand states |
| `enrichment` | 2 overlapping runs, 2 coins of which one is never answered for, 3 series, 2 versions, 1 fault | books in order, records count rows, listed coins are asked for again and again and, if answered, kept up to date; scores keep the order of the coins, the least liquid is ignored |
| `market_volume` | 2 coins, 2 instants | **violated**: a price hides the stored volume |
| `pool_starved` | 2 lists, 1 reader, 2 connections | **violated**: the lists gridlock the pool |

Why the bounds are enough. Two callers make every pair of locked regions meet in every order, and the
capacity of 2 makes a single grant decide whether the next caller is deferred (the reserve is
1), granted or short; a heavy request takes the whole bucket. Cooldowns of 1 and 2 ticks have a first,
a doubled and a capped value. A grain of half a unit lets a poll find a fraction (`client`); with
whole units the fraction would never exist. The lease of 2 ticks can end at every point of a run, and
a second lease can be taken and end while the first holder is still at work; three replicas add no
new kind of meeting at one row. Two rows make a list go through the nested query twice; four
connections for three lists is the smallest pool for which `PoolExceedsListers` holds, two for two the
smallest that gridlocks. Three periods and a fetch window of two let a period leave the window while a
run is under way, and a features job that reads three can lose the last row and still score; two versions make an old and a new state of a candle, and one fault can hit any one call
(the faults of a read, a batch and a kill do not add up in this code: each ends its run), or let one run in beside
another, which is enough for the older of two states to be written last. In `Server` a list
that reads its flags holds both connections, so that jobs wait for it at every call, in the signal's
path too; failed calls and leases that end are left to `jobs`. In `enrichment` one change upstream is enough for an
old and a new book to be in the hands of two runs; a coin that is never answered for may stand before or behind the
other, as the scores say; the short series is skipped, of the other two one is better in every score, so that the order and
the least liquid coin are decided. The shortlist has room for both coins: its cut is in the model and not in the
instance. What the bounds leave open, the theorems close for the safety properties.

### Fairness

- `Client`: weak fairness for the clock, for a caller's own steps (goroutines are scheduled, timers
  and tickers fire) and for the answer (`http.Client.Timeout` is 12 s). None for new calls, for
  cancellation or for `Metrics`. Grants are not fair to any one caller: the code has no order among
  the waiting, and `QueueMoves` says only that somebody is let through.
- `JobRuns`: weak fairness for the answers of the database, the tickers, the clock and the exit; for
  the end of a body only if the job is in `Returning` or the context has ended, since every call a
  body makes takes that context. Strong fairness for `LoopEnds`: Go's `select` picks at random among
  the ready cases. None for signals, crashes and restarts.
- `Scoring`: weak fairness for each run of the candles job, which the scheduler starts again and again
  and whose calls return (the client has a timeout, and see `jobs`). None for trades, new periods,
  listings, deliveries, faults and features: a fetch may fail for ever, because upstream is down, paused
  or, for this as for any job, short of budget. `CandlesArrive` therefore says two things: every active
  coin is asked for again and again, whatever becomes of the others; and one that is delivered again and
  again is up to date again and again.
- `ConnPool`: weak fairness for a query's own progress, strong fairness for acquiring, as the pool
  serves its waiters in turn. None for requests or for clients that give up. A single query is answered
  or given up; a list is answered if its client stays.
- `Server`: that of its parts. `BodyDone` is strongly fair for a body that returns: it is between two
  queries again and again, and makes finitely many of them.
- `Enrichment`: weak fairness for some run going on, and nothing else. Nobody obliges the limiter to let
  a request through: books and trades are not critical, `Wait` refuses them outright while the budget is at the
  reserve or below, and the candles job alone can keep it there. A deferred request is a failed one, and
  `EnrichmentArrives` has the form of `CandlesArrive`.
- `Limiter`, `LimiterWindow` and `TokenBucket` have no liveness and no fairness.

### What the violated runs say

1. `client_paused`: `info()` asks the limiter once. An answer 429 pauses the endpoint for 10 s or more
   and is retried 150 ms later, up to three times, each 429 doubling the cooldown. The README says that
   a 429 pauses the endpoint class, `docs/architecture.md` that workers do not spam the API meanwhile.
2. `jobs_overrun`: a lease of ten minutes, never renewed. With default settings the candles job needs
   about 16 minutes for 200 coins, so two replicas run it side by side, and the first to finish deletes
   the other's lock.
3. `jobs_stop`: a run has opened its record and its body ends after the signal. `FinishRun` takes the context
   that the signal has ended; its error is dropped and the run stays `running`. (The property leaves out a
   `StartRun` that fails after it has inserted: that run has no id to close.) `ReleaseLock`, in the same function, takes a context that has not ended.
4. `pool_starved`: as many market lists as connections. Nothing times out, so the gridlock lasts until
   clients go away; the jobs wait behind it, and so does the `ReleaseLock` that `Scheduler.Stop` waits
   for.
5. `market_volume`: `ingestMids` writes prices as whole snapshots. The coin's volume, open interest and
   funding read 0 until the meta job runs again, which a 429 on `metaAndAssetCtxs` puts off by minutes;
   meanwhile `min_volume` hides the coin, and the order by volume, which `ActiveCoins` follows too, is lost. The
   README says that stored data continues to be served while an endpoint is paused.

One more disagreement is read off a single line and needs no run: the README (`README.md:91-103`) lists open interest
with 0.20 and funding with 0.10 among the components of the research score, and `computeFeatures` calls
`Calculate` without snapshots (`scheduler.go:183`), so that the first is 50 and the second 0 for every coin,
whatever the market does, and no flag about either is raised. `Calculated` in `Enrichment` does the same.

## Proofs

Proved with tlapm for every value of the constants that satisfies the `ASSUME` of the module; those
say what the code makes sure of (finitely many goroutines, a default weight above zero) and no more.

- **`LimiterProofs`.** `LimiterTypeOK` is inductive; the arithmetic is in `RefilledRange` and
  `TakeStep`. `QueueDepthExact` goes by the one caller that moves in or out of `Queue`.
  `PauseNeverShortened` needs `PauseWithinCooldown`: the next cooldown is no shorter than the last,
  hence no shorter than what is left of the pause that was set from it.
- **`LimiterWindowProofs`.** Every step of the limiter maps to a grant, a tick, an opening of the window
  or a stutter of `TokenBucket`, with `budget <- Refilled`: a refill changes the variables and not what
  they stand for. In the abstract bucket `WindowBound` is not inductive: granting is bounded by what
  the bucket holds, about which it says nothing. `BudgetConserved` (spent plus budget is at most a full
  bucket plus what the ticks paid for) is, and implies it; `LimiterWindowBound` follows.
- **`ClientProofs`.** Type correctness includes that `stage` and `pc` agree. Each client action is a limiter
  step or leaves the limiter alone, by the way the module is built (`ClientUsesLimiter`, a lemma), so the
  limiter's theorems carry over (`ClientKeepsLimiter`). `DynamicWeightFact`: the weight of a history request is monotone in its
  window and at most 10.
- **`JobRunsProofs`.** Exclusivity is not inductive. `LeaseBacksHolder` is, together with `LifeCycle`:
  as long as a job has not overrun, whoever is at work on it is the process the running lease was
  written for. That is false after an overrun, which is why the property excludes those jobs, and
  true again when the last of them is done. `NoLockLeaks` and `RecordsClosed` go by the phases of `run`.
- **`ConnPoolProofs`.** `ConnsAccounted` by counting: each action moves one process in or out of one or
  two of the sets of holders. `NoGridlock` follows from it when `PoolExceedsListers`, which the code does
  not ensure (`PoolTypeCorrect` needs no such thing): it is a hypothesis of the theorem, and `pool_starved` shows what happens without it.
  So is `ConnPoolAssumption`, that there are finitely many processes, some of them `Listers`: a definition
  that `MCConnPool` checks and that `ServerProofs` meets with the jobs and requests of the server.
- **`ScoringProofs`.** `CandlesNeverGoBack` needs `StoredBehindUpstream`: what a run holds is no newer than
  upstream and, unless another run has overtaken it, at least as new as the row it will replace. On top
  of it `FeaturesInv`: until it is written, a computed feature lies between the feature in the table and
  the candle it came from, but for the rows that were taken back. No theorem assumes that runs of the
  candles job keep apart. `FlagsNeverAlone` needs none of this. That the last of a set of rows exists, which
  `Calculate` relies on, is the lemma `LastPeriod`.
- **`ServerProofs`.** `ServerImplementsJobs` step by step: for the jobs a wait for a connection is a call
  that takes a while, and one that is refused or given up is a call that fails; everything else is a
  stutter. The theorems about leases and records carry over (`ServerKeepsLocks`). `PoolKept`
  strengthens `ConnsAccounted` and reuses the counting of `ConnPoolProofs`, the exit of the process
  included, where all holders go at once. `LocksFreedBeforeClose` needs two facts: the stage of `main` follows what the process has
  been told (`StageFollowsProcess`), and nobody is inside a call outside a run (`CallsInsideRuns`).
- **`EnrichmentProofs`.** Two invariants side by side. For the rows (`RowsInv`, `RunsInv`): whatever is
  stored, in hand or still upstream is stamped no later than the clock upstream and is, pairwise, in
  order of time as it is in order of version, so that the later row of a batch is the newer one, in
  whatever order overlapping runs write. A run has one row per coin, because the shortlist names no
  coin twice (`ShortlistFact`, by ranks), hence `RecordsCountRows`. For the scores (`ScoresInv`): the
  features compared are those of the last scoring, of coins still on the list. The rest is arithmetic for
  every series, book and list of trades of the types in `EnrichmentAssumption`: sums over finite sets
  (`SumFact`, by `SmallerFirst`, which inducts over the subsets of a finite set without an operator
  parameter), `NoNegativeVariance`, without which a standard deviation is not defined,
  `NormalizeFact` (monotone, for `DominanceKept`; the least is 0, for `LeastLiquidIgnored`),
  `DepthFact` (a wider band is no shallower, for `SummariesAgree`). The types are an assumption
  about upstream, which the code does not check: a level has a price and a size above nothing, no
  trade and no candle has a negative number. No relation is assumed between them: a book may be
  crossed, unsorted or empty, a low above a high.

Only model-checked: all liveness (`CandlesArrive`, `EnrichmentArrives`, `PausesEnd`, `QueueMoves`, `JobsKeepRunning`, `StopCompletes`,
`ListsAnswered`, `ReadsAnswered`), which TLAPS cannot prove under fairness. `MarketData` has no theorem:
the property it is checked against is violated. Every invariant and every action property of a passing
run is a theorem.

## Not modelled

- `MarketDetail`, `ListFlags`, `LatestRuns`: selections whose contents depend on one table each; they
  take part as users of connections. Paging and sorting of the market list, `SuggestDirection`.
- What a commit that fails after its statements would do to a run's count, and flags inserted again by
  every run of the features job (they are never counted).
- Return over 1 h, ATR, autocorrelation and Hurst estimate, which nothing is derived from; the rules of the
  flags, one comparison of one feature each; rounding of floats.
- Parsing of settings and parameters, JSON, logging, CORS; statistics of the limiter that nothing reads
  back; decoding of answers.
- Migrations (one idempotent pass), the Redis value (written, never read), record types, the frontend.

## Plan

1. `MarketData`: what the price snapshots do keep (prices that never go back in time), as an invariant
   of its own with its proof.
