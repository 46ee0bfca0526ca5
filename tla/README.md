# A TLA+ verification project for auto-trader

auto-trader is a Rust/tokio program that trades crypto CFDs and FX on several
accounts: paper accounts, which only exist in the database, and live accounts
on bitFlyer, GMO and OANDA. It is one process of many tasks that share a Postgres database, a few
in-memory stores and a set of bounded channels. Its core has no crate-wide lock: what
keeps it correct are the WHERE clauses of single UPDATE statements, the order
of calls to an exchange that may fail with or without effect, and what is done
again after a crash. That is what these modules model.

Contents: [inventory](#1-inventory), [modules](#2-modules),
[runs](#3-runs), [proofs](#4-proofs), [findings](#5-findings),
[what is not modelled](#6-what-is-not-modelled), [plan](#7-plan),
[how to run](#8-how-to-run).

## 1. Inventory

| component | state | operations | talks to |
|---|---|---|---|
| feeds (`crates/market/src/bitflyer`, `gmo_fx.rs`, `oanda`) | connection, candle builders | tick, completed candle, market closed | price store, price channel |
| price store (`market/src/price_store.rs`) | latest tick and closed mark per feed | `update`, `mark_market_closed`, `health_at` | read by executor, monitors, watchdog |
| engine loop and strategies (`app/src/runtime/engine_loop.rs`, `crates/strategy`) | strategy state, indicator history | price event to signals and exits | signal and exit channels |
| executor (`app/src/runtime/executor_loop.rs`) | none between signals | `process_signal`, the gates, `Trader::execute` | database, exchange, trade channel |
| trader (`crates/executor/src/trader`) | none: everything is in `trades` and on the exchange | `execute`, `close_position` | exchange, database |
| closers: price monitor, exit executor, stop-fill loop (`app/src/closer.rs`, `runtime/crypto_monitor.rs`, `runtime/exit_executor.rs`, `runtime/stop_fill_loop.rs`) | none | decide on an open trade, `close_position`, publish | trader, trade channel |
| trades and accounts in the database (`crates/db/src/trades`, `trading_accounts`) | `status` open/closing/closed, `closing_started_at`, `fees`, `quantity`, `stop_order_id`, `exchange_position_id`; `current_balance`, `active` | close lock, its release, settlement, fees, margin, activation | every task |
| startup reconciliation (`app/src/startup_reconcile.rs`) | none | compare rows with the exchange; refuse, release or close | exchange, database |
| fee jobs (`runtime/sfd_accrual.rs`, `runtime/overnight.rs`) | last hour, last date, in memory only | charge the open trades of paper accounts | database |
| recorder and daily batch (`runtime/recorder.rs`, `runtime/daily_batch.rs`, `db/src/summary.rs`) | `daily_summary` rows, last date | count closed trades, store drawdowns, backfill | trade channel, database |
| feed watchdog (`app/src/feed_watchdog.rs`) | last wall clock, grace period, alert per feed | a round of checks per interval | price store, notifications |
| exchange clients (`market/src/bitflyer_private`, `gmo_fx_private`, `oanda_private`) | none | orders, executions, positions, stop status | HTTP |
| account risk (`executor/src/position_sizer.rs`, `core/src/margin.rs`, `app/src/liquidation.rs`, `margin_alert.rs`, `balance_drift.rs`) | cool-down of the margin alerts | size an entry, liquidate a dry-run account, warn, compare with the exchange | database, price store, exchange, notifications |
| account administration (`app/src/api/accounts.rs`, `db/src/trading_accounts`, `app/src/startup.rs`) | rows of `trading_accounts` | create, update, activate, deactivate, delete; load at startup | operators, database |
| channels and shutdown (`app/src/runtime/pipeline.rs`, `channels.rs`, `shutdown.rs`) | messages in bounded channels | spawn, drain, abort | every task |
| notifications (`app/src/lib.rs`, `crates/notify`) | one task per alert | send, retry with growing delays | Slack |
| weekly batch (`app/src/weekly_batch`) | proposals, notifications | ask a language model for parameters, record, announce | daily batch, database |
| simulator (`crates/sim`) | batches, runs, candles, indicator cache | backfill, sweep, run, evaluate | database, GMO klines, scripts |
| backtest (`crates/backtest`) | none | replay stored candles through a strategy | database |
| the rest: macro analyst, knowledge store, dashboard, bootstrap | see `PROJECT.json` | | |

`PROJECT.json` lists every component with its status, and under `hazards` every
place in the code that is hard to reach with a test. The hard behaviours:

- **Concurrency without locks.** Three tasks may close one trade, two jobs add
  to the fees that a close overwrites, the operator switches accounts off while
  an execution is under way. Every `.await` is a point where they interleave.
- **An exchange with a mind of its own.** The protective stop fires while it is being
  canceled; an order fills after the wait for it was given up; a call that failed
  may have worked.
- **Crashes.** Nothing records that an order is about to be sent. Startup
  reconciliation works from the rows and the positions alone.
- **Clocks.** Dates and hours are compared with what a job remembers in memory;
  hosts are suspended, clocks set back, midnight falls between two statements.
- **Verdicts from several reads.** Liquidation, alerts, the drift check, the
  answers of the clients and of the account API are put together from reads
  between which the world goes on.
- **Bounded channels.** Eight kinds of task wait for each other's queues, also
  while the process is being shut down.

What makes the components correct, in short: an account's balance is settled
once per trade; stop and market order do not both trade; nothing on the
exchange is forgotten silently; no trade stays half closed; fees are charged once
and only for time held; summaries count a trade once; an outage is reported;
candles and indicators are those of the ticks received; a position that was sized
survives to its stop; a shutdown loses no event; what the simulator reports
follows from its bars and from nothing later.

## 2. Modules

| module | part of the system | proofs |
|---|---|---|
| `CloseProtocol`, refines `TradeLifecycle` | closing a trade | `CloseProtocolProofs` |
| `OpenProtocol` | opening a trade | `OpenProtocolProofs` |
| `ExchangeClient` | what the exchange clients answer | `OpenProtocolProofs` |
| `AccountRisk` | sizing, ledger, liquidation, margin alerts, drift check | `AccountProofs` |
| `AccountAdmin` | accounts, changed by operators and loaded at startup | `AccountProofs` |
| `FeeAccrual` | fee jobs | `BatchProofs` |
| `DailySummary`, `WeeklyBatch` | recorder and the two halves of the daily task | `BatchProofs` |
| `FeedWatchdog`, `AlertDelivery` | detection and delivery of feed alerts | `FeedWatchdogProofs` |
| `CandleFeed`, `FxStrategy` | ticks to candles, candles to decisions | `PipelineProofs` |
| `Pipeline`, refines `EventStream` | tasks, channels, shutdown | `PipelineProofs` |
| `Sweep` over `ParamGrid`, `Backfill` | commands of the simulator | `SimulatorProofs` |
| `SimEngine` over `SimBenchmark` over `SimSeries` | a run of the simulator | `SimulatorProofs` |
| `Backtest` | the older backtest | `BatchProofs` |

`SumLemmas` has facts about sums over finite sets, folds over sequences, drawdowns and integer
division that `AccountProofs`, `BatchProofs` and `SimulatorProofs` use.

Modules named `MC...` are instances for TLC. Several put two modules side by
side that share no variable: in a behaviour either the one or the other takes
steps, chosen in the initial state (`part`), and the state of the idle one is fixed.
That is a matter of running them, not a claim about the system.

Money, sizes, prices and fees are small integers. Calls that can fail have a
failing branch, bounded by a counter (`MaxApiFails`, `MaxDbFails`, ...), with
and without effect where the code cannot tell. Names beginning with `Mutant` in
a comment are deliberately wrong variants of the definition below them; no
specification uses them. They serve to show that a property can fail.

### CloseProtocol, refining TradeLifecycle

One trade and everything that may close it (`Trader::close_position`). The
variables are the columns of the row (`status`, `lockStale` for the age of
`closing_started_at`, `fees`, `positionId`, `stopId`, `pnl`), the balance of the account,
the exchange (`pos`, `opposite`, `stop`, `stopFills`, and of each order what is still
`working` or, if nobody waits for it, `lost`), and the local state of each
closer (`pc`, the fees it read `snap`, its `size`). One action stands for the
code between two awaits:

| action | code |
|---|---|
| `Decide` | monitor, exit executor and stop-fill loop choose a trade from a list of open trades |
| `AcquireCloseLock`, `AcquireRefused` | `acquire_close_lock`: Phase 1 |
| `SimulateFill` | `fill_close` of a dry run |
| `FillCloseWithStaleRecovery` | the look at the positions after taking over a stale lock |
| `StopGuard`, `CancelStop`, `RecheckStop` | `stop_guard_before_close` |
| `SendCloseOrder`, `PollExecutions` | `fill_close_live` |
| `ReleaseCloseLock` | `release_close_lock` after a failed Phase 2 |
| `PersistClosedTrade` | `persist_closed_trade`: Phase 3 |
| `ApplyFee` | `apply_fee_inner` of the fee jobs |
| `LockAges` | the threshold of 300 s passes |
| `Restart`, `Reconcile`, `CloseTradeReconciled` | crash, `reconcile_live_accounts_at_startup` |
| `FillWorking`, `FillLost`, `ListStop`, `StopTriggers`, `StopDropped` | the exchange (external) |

What a task knows of the stop need not be so. The row has the identifier of the stop or
not (`stopId`), whether the exchange has a stop or not: the answer to the request that places it may be lost
(`place_protective_stop_order`). And `StopAnswers` are the answers that `ExchangeClient`
finds the clients to give: Gone for a stop that is accepted and not listed yet, and, when
bitFlyer leaves out the state of the parent order, Executed for one that has filled in part and Active for
one that is canceled. `missed` and `partly` record that a task has believed such an answer;
the properties say what holds with and without.

`suspends` is fixed in the initial state: only with `suspends = TRUE` may a lock
become stale while its holder is still at work. A close sends about ten
requests at most and polls for 5 s, and each request has a timeout (15 s
bitFlyer, 30 s GMO and OANDA): slow answers reach the threshold of 300 s only
if nearly every one of them runs into its timeout, a suspended host at once.
Both cases are checked and proved about.

`TradeLifecycle` is the abstract specification: a trade is locked and unlocked
any number of times, charged while it is open, and settled once, with its
margin and profit or loss. `CloseProtocol` implements it under the identity
mapping (`ImplementsLifecycle`). `OpenProtocol` and `FeeAccrual` take their
view of a trade (`CloseLock`, `CloseUnlock`, `CloseSettle`; `LockTrade`,
`UnlockTrade`, `CloseTrade`) from it.

### OpenProtocol

A signal on its way to a trade: `process_signal`, the second look at the
account, `account_has_open_position`, and `Trader::execute` with all its error
paths (timeout of the poll, second query, lookup of the order, cancel,
identifier of a GMO position, stop, the writing transaction). Each execution has a
number `k`; of each the exchange knows what is `unfilled`, `filled`, `closed`
and the size of its `stop`. Other tasks close trades, the operator switches
the account, the process is restarted. `excuse` records why a row may disagree
with the exchange: an error was reported, a partial fill was taken for the
whole, or the process died.

### FeeAccrual

The SFD job (hourly) and the overnight job (daily) with what they remember, the
catch-up of missed hours with its limit, stale feeds, failed statements and restarts,
against trades that are opened, locked, unlocked and closed. `entryAt` may lie
one tick before the row is written, as in `execute`. `lapse` records the
charges that can no longer be made, and why is visible at each place that adds
to it.

### DailySummary

`daily_summary` and its three writers: the recorder with the bounded trade
channel, startup reconciliation, and the daily batch with its backfill. Each
takes its date from another reading of the clock. A count is represented by how
often each trade is counted in each row; the stored drawdown by the trades it
was computed from.

### FeedWatchdog

One GMO feed, the store, the candle path back into the store through the engine
loop, and the watchdog. Times are ages relative to the present wall clock, so
that the state space is finite; ages stop growing at `Old`, a bound above every
threshold. The clock may be set back, and the host suspended for any time: a suspension shorter than
`SuspendGap` gives no grace period, but adds to the age of the last tick as silence does (`slept`). `WatchdogAssumption`
asks of the intervals what `FeedWatchdogConfig::validate` checks, and of `Old`
that no comparison can tell two ages beyond it apart.

### ExchangeClient

One order and the calls that ask about it. The exchange triggers, fills and
drops the order, lists executions and positions late, and its clock differs
from ours by `skew`; `past` collects the states the order went through since
the call began. A call is a sequence of requests (`request`), each of which may
fail: `stop_order_status` of bitFlyer asks for the parent order, its children
and their executions (`GetParentOrder`, `GetChildOrdersByParent`,
`StopExecutions`), OANDA follows the fills one by one (`FetchFilledOrder`,
`FetchExecution`), GMO looks for the position of an order among those listed
(`ResolvePositionId`). An answer is judged against `past`, not against the
present. `CloseProtocol` gives its tasks the answers found here (`StopAnswers`), `OpenProtocol`
the late and partial lists of executions.

### AccountRisk

One account and the pairs of one exchange. `PrepareEntry` to `PersistEntryFails`
and `LockTrade` to `PersistCloseFails` are the ledger's side of opening and closing:
`lock_margin` and `release_margin` against `cash`, the collateral at the
exchange. Everything that can fail does so with and without effect: an entry or a close may
trade although its call fails (`FillFails`, `CloseFails`), the transaction after a fill may fail
(`PersistEntryFails`, `PersistCloseFails`), and the stop may execute while the row is open
(`StopExecutes`). A position at the exchange without a row is `stray`, until somebody closes it
(`StraySettles`); a row whose position has gone has the price of its end in `gone`; what moved in
`cash` and never reaches the books adds up in `astray`.

The position monitor (`ListTrades`, `ReadAccount`, `ReadPrice`,
`JudgeLiquidation` or `JudgeMarginAlert`, then `Liquidate`, `SkipTarget`,
`CheckExit`) and the drift check (`DriftListAccounts`, `DriftGetCollateral`,
`DriftLoadTrades`, `DriftReadPrice`, `DriftCompare`) take one step per read, for the prices one per
pair, and pass an account over when a read fails (`SkipAccount`, `DriftSkips`); a behaviour has one
of them (`judge`). Ratios are compared by multiplication, so that nothing is
rounded that the code does not round.

What the monitor concludes from reads of different moments may be wrong for every moment. What can be
asked of it is that it does not stay wrong: `MonitorActs` says that as long as price events come
an account does not stay below its level with nobody closing its trades, and a critical one not
without an alert.

### AccountAdmin

Handlers of the account API, each between `Arrive` and its answer with one step
per query; signals that insert and settle trades; restarts with another table
of liquidation levels. The conditions of the writing statements (the unique index on
live accounts, the deactivation guard, the foreign key) are part of the step
that writes. `witnessed[h]` collects what was true at some moment of a request.

### CandleFeed and FxStrategy

A tick is its time stamp and a candle the set of its ticks, from which open,
high, low, close and volume follow; so it can be said exactly which candle
misses which tick. Both candle builders of a feed, the upsert, the
history of the indicators with its warm-up, the drain into the price store, and the connection of
bitFlyer with its heartbeat are modelled; GMO and OANDA are polled. `mixed`
records candles that a late tick, a restart or a closed market tore. A tick is late
if its period lies before that of the newest tick, whether or not a candle is open: after
a late tick, a restart and another late tick of a candle that is no longer open,
a row holds a part of its candle and the history is out of order.

`FxStrategy` is `FxNewV1`, which builds M15 bars from M5 candles. It takes any
sequence of candles that `CandleFeed` can publish, gaps, repetitions and late
ones included. The filters on volatility and trend need decimals and may say
either. `late` remembers whether a candle was late since the last start, or ever.

### Pipeline, refining EventStream

Every task of the process with the channel it reads, the messages it still has
to send (`out`), and whether it runs, has returned or has panicked. A task
handles one message at a time and waits while the next channel is full. `main`
drops its senders at Ctrl+C, aborts feeds and background loops, and waits for
the rest, for a limited time. `EventStream` is what the position monitors rely on: each sees the
events of a feed in order, none skipped, none twice. `Pipeline` implements it
with the same variables (`MonitorsSeeTheStream`).

### AlertDelivery and WeeklyBatch

`AlertDelivery`: each alert of the watchdog is sent by a task of its own, which
retries after growing delays; failed requests may have been delivered. The
powers of two are a table, since `validate` allows at most ten retries.
`WeeklyBatch`: the part of the daily task that runs on Sundays of Japan; a UTC
day has two halves, because the day in Japan changes at 15:00.

### Simulator and backtest

`Sweep` has the worker threads, the queue, the bounded channel, the shared
indicator cache with its budget (computed outside the mutex; the LRU order is kept
as `age`, for each key the number of other keys used since), and the rows of the batch. `ParamGrid` has the
integer and float parameters: what a script may declare (`IsValidParam`), what `run` accepts (`ResolvedParams`),
and the numbering of combinations. A number is a whole multiple of some small unit, and so is the tolerance of
1e-9 that floats are compared with: a default may lie off its grid point by the tolerance, and the last candidate
exceed the maximum by it. `run` is given any parameters that `resolve_params` accepts.
`CompletedIsWhole` has two halves: `RunsAreSaved`, about threads and failures,
and `SelectionIsWhole`, about the numbering: the sets that were run are different, as many as there should be,
each of them would be accepted by `run`, and one is the default within the tolerance. `Backfill`
fetches both sides of a day, joins and saves them; a failed save may have been committed. `SimSeries` aggregates
bars and computes rolling indicators as the code does, index by index;
`AnswersFromThePast` compares them with definitions over the ended bars alone.
`SimEngine` executes signals and stops on the bars for a script that is any
sequence of answers, costs and keys; `SimBenchmark` finds the legs of the price. `Backtest`
replays candles with a strategy that may signal, with a target or without, and exit at any of them.

## 3. Runs

| run | instance | shows |
|---|---|---|
| `close_safety` | `MCCloseSafety.cfg` | `MoneySettledOnce`: balance, margin and fees are settled once; `StopAndMarketExclusive`: a stop that the row knew and the exchange had listed does not trade beside the market order; `ClosedIsCovered`: nothing stays on the exchange that no order covers, but for a stop taken for executed when it had filled in part; `ReversalIsAccounted`: what an opposite position comes from; `ImplementsLifecycle` |
| `close_liveness` | `MCCloseLiveness.cfg` | `StopFillRecorded`: an executed stop is recorded; `ClosingEnds` |
| `close_reversal` | `MCCloseReversal.cfg` | finding: an opposite position beside a stop that the row does not know |
| `open` | `MCOpen.cfg` | `NoSilentOrphan`: what the exchange holds is recorded, reported or explained; `EntriesRespectAccount`: a second trade only when the check was blind, an inactive account is flat; `ClientAnswersTrue`: answers of the clients agree with a state of the order during the call |
| `accrual` | `MCAccrual.cfg` | `FeesAreExact`: charged once, only while held, no hour skipped silently; `JobsCatchUp` |
| `summary` | `MCSummary.cfg` | `SummariesSound`: only late events are counted twice, drawdowns are complete; `ClosedIsCounted`; `SundayAccounted`: the weekly batch runs once and announces its results |
| `watchdog` | `MCWatchdog.cfg` | `OutageReported` in time and again; `AlertIsReal`: only after a silence of `StaleAfter`, in which the unnoticed suspensions count; `AlarmEnds`; `AlertsInOrder`: which retries can overtake each other |
| `pipeline` | `MCPipeline.cfg` | `MonitorsSeeTheStream`: refinement of `EventStream`; `CleanShutdown`: what a shutdown may lose; `DrainTerminates`: no circle of full channels |
| `candles` | `MCCandles.cfg` | `MarketDataIsTrue`: rows, indicators and price store are those of the ticks; `SilentReplaced`: a silent connection is replaced; `StrategySeesThePast`: bars are whole and exits earned |
| `risk` | `MCRisk.cfg` | `BooksMatchExchange`: through failures with and without effect; `SizedSurvivesStop`; `MonitorActs` and `DriftVerdict`: what comes of several reads; `AccountsAreSound`; `AnswerIsTrue`: of some moment of the request |
| `sim` | `MCSim.cfg` | `CompletedIsWhole`: one row per combination, the right combinations; `CacheAccounted`; `RangeWhole`: exit code 0 of the backfill means a whole range; `CommandEnds` |
| `sim_engine` | `MCEngine.cfg` | `AnswersFromThePast`: no look-ahead; `TradesExplainPositions`; `ReportAddsUp`; `RunIsBounded`; `BacktestIsHonest` |

Every property of a passing run has a mutant in `PROJECT.json`: a plausible bug
in one definition that makes the run fail on that property. The
type invariants are not part of the runs, whose states are better spent on the
properties above; the modules that are proved about have one as the first
conjunct of their inductive invariant.

**Bounds.**

- `close_safety`: two closers are enough to compete, one that decides as it likes, as the monitor and the exit
  executor do, and the stop-fill loop; size 2 allows partial fills, of an order and of the stop; two failing exchange
  calls and one failing statement per behaviour, with two crashes, reach every
  error path and every error path followed by a recovery.
- `close_liveness` has three closers, of which two may hold up the stop-fill loop, and no
  failing statements: a failed Phase 3 of a paper trade is what section 5
  describes under 2.
- `open`: two executions are the smallest number that can overlap; size 2 for
  partial fills; one fault of each kind, and two switches (off and on again).
  For the clients: an order of size 2, so that it has two executions;
  clocks that differ by less and by more than the margin of the cutoff; a
  foreign position before the cutoff, at it and after the order; three tries.
- `accrual`: two ticks per hour, so that a trade can be opened between
  boundaries; a catch-up limit of 2 with 3 hours makes the limit bite; one trade,
  because charges of different trades are independent but for the order
  of the list.
- `summary`: a channel of one slot, so that it is full with one event waiting; three
  midnights against a backfill of two days; one failure and one crash. The
  Sunday is the second of three days, so that days before and after it occur.
- `watchdog`: the smallest thresholds with the order of the configured ones
  (check 60 s < suspend gap 300 s < stale 900 s < re-alert 3600 s), one
  suspension of any length, noticed or not, and one setback. Delivery: two tries per alert and three alerts, the
  last of which can meet the retries of both others.
- `pipeline`: every channel has one slot, the tightest case for waiting on each other; two
  feeds, because the events of OANDA go to the FX drain; two events each; the
  executor or the engine may panic.
- `candles`: periods of 2 and 4 over six instants, so that a long candle has two short ones and
  the next one begins; channels and history of two entries, which overflow; two
  faults. The strategy has bars of two candles instead of three, and sees six candles, one of them late or
  repeated, or a restart.
- `risk`: two pairs, one bought and one sold; three prices, which reach stop loss, take
  profit and the liquidation level, and one move between them; one read that the monitor misses. For a dry-run
  account two entries and an incident; for a live one two entries, or one entry and an incident, which is anything that fails or moves
  past the books (all three together are too many states). The theorems have no such limit.
  Two requests under way among three, one signal, one restart.
- `sim`: two workers, three of at most four combinations, of an integer and of a float parameter whose default is off the grid
  and whose last value is beyond the maximum, both by the tolerance; a cache that holds some but not
  all series, two faults. Backfill: two dates, two attempts, two commands.
- `sim_engine`: five bars with gaps, timeframes of one and two bars and a day of two, budgets of 2 and
  4 operations, three segments (five is not divisible). Backtest: four candles, signals with and without a target.

**Deadlock.** In every instance a behaviour may end: all trades closed, bounds
used up, a start that is refused, a process that has exited. Deadlock is therefore not
checked by TLC; waiting for ever is covered by the liveness properties
(`DrainTerminates`, `CommandEnds`, `ClosingEnds`).

**Fairness.** `CloseProtocol`: a closer that has begun goes on, because every
call returns or times out; the stop-fill loop runs every 60 s; accepted orders
are worked off and time passes; startup runs to its end. Nothing forces a price,
a strategy exit, a fee, a fault or a stop. `FeeAccrual`: both jobs wake up every
minute; feeds reconnect. `DailySummary`: recorder, batch,
publication and startup go on; no trade has to be closed, no day has to end.
`FeedWatchdog`: the timer of the watchdog, `update` returns, and time passes:
strongly fair, since the feed may poll at any moment, and each poll interrupts
the passing of time for an instant. `CandleFeed`: the timeout of the heartbeat and the
reconnect loop, both on timers. `Pipeline`: tokio polls every task that can go on,
and its channels serve waiting senders in order, hence weak fairness per task;
an aborted task ends at its next await. The
timeout of the drain is not assumed to happen. `Sweep`: the threads are scheduled and calls
return. `AccountRisk`: price events come, the monitor handles each, a close that has begun ends; nothing
forces an exit, a failure to end or a price to move. The other modules assume no fairness and have no liveness properties.

## 4. Proofs

TLAPS proves the theorems below for every value of the constants that the named
assumption allows: any number of closers, attempts, handlers, trades, days, feeds, workers, and any
bound on faults. The bounds of the runs are no restriction there. Each
assumption says that numbers are numbers, that capacities and intervals are
positive, and what the code checks of its settings before it starts.

| module, assumption | theorem | says |
|---|---|---|
| `CloseProtocolProofs`, `CloseAssumption` | `TypeCorrect`, `InductiveInvariant` | `TypeOK`; `IInv` |
| | `BalanceCorrect`, `LockExclusive`, `FeesKept`, `MoneyCorrect` | `BalanceSettledOnce`, `OneHolder`, `NoChargeLost` and all of it together, `MoneySettledOnce` |
| | `StopExclusive`, `ClosedCovered` | `StopAndMarketExclusive`, `ClosedIsCovered` |
| | `GmoCloseNeverReverses`, `ReversalCause` | `GmoNeverReverses`, `ReversalIsAccounted` |
| | `Refinement`, `ClosedFinal` | `ImplementsLifecycle`, the action property `ClosedIsFinal` |
| `OpenProtocolProofs`, `OpenAssumption` | `OpenTypeCorrect` | `TypeOK` |
| | `NoOrphanCorrect`, `EntriesCorrect` | `NoSilentOrphan`, `EntriesRespectAccount` |
| the same, `ClientAssumption` | `ClientsCorrect` | `ClientAnswersTrue` |
| `AccountProofs`, `AdminAssumption` | `AccountsCorrect`, `AnswersCorrect` | `AccountsAreSound`, `AnswerIsTrue` |
| the same, `RiskAssumption` | `RiskInvariant`, `BooksCorrect` | `RiskInv`, `BooksMatchExchange` |
| | `SizedCorrect` | `SizedSurvivesStop` |
| | `DriftCorrect` | the action property `DriftVerdict` |
| `BatchProofs`, `AccrualAssumption` | `AccrualTypeCorrect`, `FeesCorrect` | `FeeTypeOK`, `FeesAreExact` |
| the same, `SummaryAssumption` | `SummaryInvariant`, `SummariesCorrect` | `SummariesSound` |
| the same, `WeeklyAssumption` | `WeeklyInvariant`, `SundaysCorrect` | `SundayAccounted` |
| `FeedWatchdogProofs`, `WatchdogAssumption` | `OutageCorrect`, `AlertCorrect` | `OutageReported`, the action property `AlertIsReal` |
| the same, `DeliveryAssumption` | `DeliveryCorrect` | `AlertsInOrder` |
| `PipelineProofs`, `CapAssumption`, `FeedAssumption` | `ShutdownCorrect`, `StreamImplemented` | `CleanShutdown`, `MonitorsSeeTheStream` |
| `PipelineProofs`, `FxAssumption` | `StrategyCorrect` | `StrategySeesThePast` |
| the same, `FrameAssumption` | `MarketDataCorrect` | `MarketDataIsTrue` |
| `SimulatorProofs`, `BackfillAssumption` | `BackfillCorrect` | `RangeWhole` |
| the same, `SweepAssumption`, `ToleranceAssumption` | `SweepCorrect`, `CompletedCorrect` | `RunsAreSaved`, and with it `CompletedIsWhole` |
| the same, with `CacheAssumption` | `CacheCorrect` | `CacheAccounted` |
| the same, `EngineAssumption` | `TradesCorrect`, `BudgetCorrect`, `AnswersCorrect` | `TradesExplainPositions`, `RunIsBounded`, `AnswersFromThePast` |
| | `ReportCorrect` | `ReportAddsUp` |
| `BatchProofs`, `BacktestAssumption` | `BacktestCorrect` | `BacktestIsHonest` |

Every proof has the same shape. A property is strengthened to an invariant that
every step keeps; a lemma for each part of it goes through the actions; the
theorem combines them with `PTL`. Where one action does much, a lemma first says
what it does to the variables of the part (`...Cases`, `...Is`), so that the
cases share one argument. What the strengthening is, and why the property needs it:

**CloseProtocol.** None of the invariants but the balance is inductive by itself. `IInv` is the conjunction of:

- `AppInv`: no task runs during startup reconciliation, which closes only an
  unclosed trade without position. Without it, reconciliation could settle twice.
- `LockInv`: unless the host was suspended, a holder has a fresh lock, is alone, and *the fees
  it read are those of the row*: this is what makes overwriting them safe,
  together with the fee jobs' `status = 'open'`.
- `FeeInv`: the row of an unclosed trade knows every charge.
- `StopInv`: a closer that is about to send has seen that the stop is gone, unless the row
  does not know it or it was missed. A stop that is gone or absent stays so.
- `GmoInv`: without an identifier there is neither stop nor order.
- `NetInv`: the stop and the orders take from one position, so what the stop has traded is not
  left of it, and an opposite position leaves nothing of it.
- `CoverInv`: a closer never works with a size smaller than the position, and
  whoever is about to record the trade leaves nothing uncovered, unless a stop filled in part passed for executed.
- `ReverseInv`: as long as every fill was recorded, no order exceeds what is left of the position by more than
  the stop has taken from under it (`OrdersFit`), only the stop has traded until an order is sent
  (`Untouched`), and an order of an unclosed trade has an owner
  (`OrderOwned`), so that nobody else can be about to send another.

Each part has a lemma `...Step` with one case per action; `IInvStep` combines
them, and the theorems follow with `PTL`. `Refinement` maps each action to a
lifecycle step or a stutter; it uses `IInv` for the closing step of
reconciliation.

**OpenProtocol** (`OpenInv`). That an orphan is excused can only be kept if it is
known what the executor has in its hands: `CurrentInv` says at each program
point how the attempt at work relates to what was filled and to the row, `OverInv` that an
attempt which is over and not excused agrees with its row, `FreshInv` that one
which has not begun left no trace. `EntriesRespectAccount` needs what the gate
saw (`BlindInv`) to hold until the row is written, and that an account is
switched off only while nothing is open or under way (`FlatInv`).

**ExchangeClient** (`ClientInv`). An answer is judged by `past`, so what a
client has learned from its earlier requests must be said in terms of `past` as well:
`CallInv` does so for each request it may send next, and `PastInv` keeps the present in
`past` and no more fills there than there are now.

**AccountAdmin** (`AdminInv`). `AnswerIsTrue` needs `WitnessInv`: all that holds now, and
all that the handler read and does not read again (`ReadEarlier`), is in
`witnessed`. `AccountsAreSound` needs that trades are only on accounts that exist
(`TradesInv`), which holds the deleting statement to the foreign key.

**AccountRisk** (`RiskInv`). The ledger is a balance and sums over finite sets of
trades, and the sums are defined by choosing one element after the other. That any
summand can be split off (`SumRemove`) is induction over finite sets; it is done by taking a
smallest set for which it fails (`SmallestPart`), since strict inclusion is well-founded on finite
sets (`SumLemmas`). Then every step either leaves the ledger alone (`Kept`) or replaces one trade and moves balance and cash by what
the replacement is worth (`Replaced`), and `BooksMatchExchange` is kept because the sums move
by the same (`ChangeAt`). `SizesInv` remembers that every size was affordable when it was computed
(`QuantityIs`, from the rounding down); `SizeSurvives` is the inequality that makes it
outlast the stop loss. An order that trades after its call failed and a stop that executes under an open row change
the trade (`TradedStep`) or the position without a row (`OrderStray`), a failed write leaves an entry to the latter (`StrayStep`).
`DriftVerdict` needs that what the check loaded was open and that
an open trade has no exit (`DriftInv`, `SizesInv`); the difference between what the exchange answers and what the books
give is then split, trade by trade, into the positions that are there and those that are gone (`PositionsAndGone`).

**FeeAccrual** (`AccrualInv`). `Passed(t, h)` is what a job has dealt with since it was started, in terms
of the hour it remembers, its place in the catch-up and its list. A charge is in the
passed part and never repeated (`SfdInv`); an hour in the passed part is charged or has
lapsed (`AccountedInv`). Both need that the program point determines the hour
at work and that this hour has begun (`WorkInv`). Lemmas on `\div` give the order of hours and days.

**DailySummary** (`SummaryInv`). `TradeInv` says for each step of a close in which row,
how often and by whom the trade can have been counted; `QueueInv` that an event is
in the queue at most once; `DrawInv` that a past day has a complete drawdown unless
the batch has it still before it (`BatchInv`) or passed it over. **WeeklyBatch**
(`WeeklyInv`): a run belongs to the Sunday it was started on (`RunsInv`), and the
results not announced yet are those of the strategies still to come, or the run was cut off (`TellInv`).

**FeedWatchdog** (`WatchInv`). `OutageReported` is about running time and the watchdog reads
wall clocks, so their ages are bounded from below by the time since the last sign, less
the setbacks (`AgesInv`), the watchdog is late only after a suspension
(`PunctualInv`), and a round that came late enough has put the feed on record
(`ReportInv`). `AlertIsReal` needs the opposite bound (`FreshInv`). **AlertDelivery** (`DeliveryInv`):
the time a task may still take after its n-th request is bounded (`SpanInv`), hence
a message read after a younger one was raised at most `RetrySpan` before it
(`ReadInv`). The repeats are further apart because of the last check of `validate`.

**Pipeline** (`PipeInv`). `Placed` says where the events of a feed are: up to one number
with the monitor, then in its channel, then with the engine, the rest in the price channel, each part in
order (`StreamInv`, `RouteInv`); after the engine's death what is behind it is
lost, and nothing overtakes. A finished task had an empty channel and no sender
left (`DoneInv`); trade events not recorded are in the channel, in the hands of a
task or with the stop-fill loop, unless a task has died (`OwedInv`). The refinement maps a monitor's step to a
step of `EventStream` and all others to publishing or a stutter.

**FxStrategy** (`FxInv`). The pending candles are of one bar and one for each period, every bar
has the candles of all its periods, nothing is of a period to come, and
without late candles all of it was stored; then a bar touched after an entry has a stored
candle that touched, in the bar of the entry or later. A restart needs the same of what
`WarmedUp` builds. That a recursive function exists, and that each
of its values is right, is shown by looking at the first period for which it is not
(`WarmExists`, `WarmedUpOK`); the same argument on sets gives the `Max` and `Min` of a bar.

**CandleFeed** (`FeedInv`). The period of the newest tick (`TopOf`) is the one of the open
candle, or it is torn, or a closed market has published it (`TopInv`); no row and no
open candle is of a later one (`RowInv`, `BuilderInv`), so that an untorn candle has all its ticks
when it is saved and never gets another. The end of bitFlyer's
history is older than the open candle (`HistoryInv`), also after the warm-up, whose
candles are rows. The open candles of the two timeframes have the same last tick, hence the H1
candle ends no earlier than its last primary candle (`HourInv`); this uses that `Primary` divides
`H1` (`PeriodsNest`). A tick not dropped is in the channel or not newer than the
store (`DrainInv`). Lemmas on `%` give the order of periods, and `OrderExists` that every
finite set of numbers has an ascending order.

**Backfill** (`BackfillInv`). A date that the running command has left and not
listed is whole (`PassedWhole`), and what is stored is what the join accepts, also by
earlier commands. **Sweep** (`SweepInv`). Unless the sweep has failed, every combination
claimed is in exactly one place: held by a worker, in the channel, or saved (`PlaceInv`); the number
received is the number saved (`CountInv`), so a drain that received all has
saved all; and a queue is cancelled only for a reason that fails the sweep (`CancelInv`).
That a completed sweep has no parameter set twice, and that `run` would accept each of them (`SelectionInv`, `SelectionSets`), needs that the numbering of
`ParamGrid` is one to one. The number of combinations is a fold over the parameters, and so is the number of the
default. A fold is the last value of a function that goes up the sequence by its steps
(`TotalIs`, `DefaultIs`; a first part for which that fails is empty), from which the weights of the
digits follow (`Weights`). The quotients of a number by the weights split off one digit at a time
(`Quotients`), so numbers with the same digits are the same (`CombinationsDiffer`), and the
digits of the default's number are those of the default values, up to the tolerance (`DefaultCombination`); this is where
what the compiler checks of a script's parameters (`IsParamSpecs`) is needed: the number of the nearest
grid point of a default that is within the tolerance is one of the candidates, although the search for the last of
them stops after four corrections (`Candidates`, from the bounds of rounding, `RoundedBounds`).
For the cache (`CacheInv`): entries have slots of their own (`EntryInv`), and a worker that waits
for a slot, computes it or registers it holds the slot of the key it asks for or of no
entry any more (`AskInv`). So an entry that is ready and not counted has somebody
about to count it (`CountedInv`), and nobody counts one twice. That the counter stays the sum of the
entries (`SizeInv`) through an eviction is splitting a sum (`SumWithout`); that it stays within the budget, that
the oldest entry which is not evicted fits together with all younger ones
(`VictimsEnough`), or the new entry alone exceeds the budget and goes too.

**SimEngine** (`TradesInv`). The open position is a trade without exit: `BookOk` says of the
closed trades and the open one together that they are disjoint, explain the position of every bar so far and
that no bar since the entry has reached the stop (`OpenOk`). One bar takes it through
three lemmas in the order of the code: the pending signal at the open (`SignalKeeps`), which may
close one trade and open another in the same bar, the stop (`StopKeeps`), which needs that a price of the open
lies between low and high (`IsShape`, what `is_valid_pair` lets through), and the end of
the period (`EndKeeps`). Loading and cutting the bars must leave them such bars (`WindowIs`).
`BudgetInv`: a run that goes on has used an operation for every bar, and the keys grow
by one for which there was room (`KeysWithin`, a fold).

What a script reads (`AnswersFromThePast`) depends on the bars being in the order of their times,
which loading and cutting keep (`TimesInv`). Then the buckets are in order too, and each bar of an aggregated
series stands for the bars of its bucket (`SeriesOk`, kept by a bar that is merged and by one that is
appended: `SeriesMerges`, `SeriesGrows`). So the buckets that have ended are the first bars of
the series (`FirstOnes`, `RankIs`), and it is enough that each entry of an indicator is right for its own window. For the
sums that is `RollingSum`; for the channel, that a deque descends and has for every index of the window one at least as
high (`DequeOk`, kept by a push: `PushKeeps`), so that its front is the extreme. Sums are exact
integers here; the code's floating-point residue is not represented.

The report (`ReportInv`: it is the evaluation of the trades and positions of all bars) needs what the
scan for turns knows at each bar (`TurnsOk`): before the first turn the highest and the lowest
close, which are less than the swing size apart; afterwards the list so far is a chain of swings
(`Joined`), and from its last turn to the extreme so far is a swing as well, after which the price has
not yet come back by its size (`Trailing`). An extreme may be moved (`SwingExtends`) or become
a turn, seen from the other side (`SwingTurns`; `Facing` mirrors the closes, so that one lemma
serves both directions). The legs are then consecutive swings (`LegsSwing`), their bars
are disjoint (`ChainOrdered`), and what is counted leg by leg is counted once (`PartsCounted`). A trade
raises one segment by its result (`SumBump`).

**Backtest** (`BacktestInv`). The log holds a trade when it is opened and again when it is closed.
`Balanced` relates the log to the balance; it is kept by each push (`BalancedAppend`), because appending to a
sequence appends to the fold that filters it (`ClosedAppend`) and adds to the one that sums it
(`EquityAppend`). The drawdown of the report is a fold over pairs of peak and largest fall; `LargestFall`
shows by the least index at which it fails that this is the maximum over all pairs of an
earlier and a later equity.

All of it rests on one lemma on folds (`FoldPrefix`): a fold is the last of its prefixes, each made from the
one before by a step. A position that the balance cannot pay is not opened, and
neither is one at a price that is not positive (`UnitsFor`).

Only model-checked is liveness (`StopFillRecorded`, `ClosingEnds`, `JobsCatchUp`, `ClosedIsCounted`,
`AlarmEnds`, `MonitorActs`, `DrainTerminates`, `SilentReplaced`, `CommandEnds`), which the prover does not handle under
fairness. Every safety property of the passing runs is stated by a theorem.

## 5. Findings

1. `close_reversal`: when the answer to the request that places the stop is lost, the row has no
   identifier of it, the close goes on without looking for it (`close.rs:24`), and on a netting exchange the market order
   and the stop both trade. The same comes of a close order whose answer is lost, or
   which fills after the wait: it is followed by a second one. The plan
   excludes this; `PROJECT.json` has the quotation. `ReversalIsAccounted`
   states what a reversal comes from and is proved.

The following came up while modelling. The properties of the passing runs
state what holds instead.

2. After a failed Phase 3 the log says of a paper trade that self-healing will
   free the lock (`executor/src/trader/order_executor/close_position.rs:115`). Taking over a stale lock needs a
   caller, and all callers look for trades in 'open'. The trade stays in 'closing'; for a
   live account the next start resolves it. Hence `ClosingEnds` is checked
   without failing statements.
3. The check for an existing position (`app/src/runtime/executor_loop.rs:307`) does not see a trade
   in 'closing'; if that close gives its lock back, two trades of one pair are open.
   `SecondTradeIsBlind` is what holds.
4. The overnight job (`app/src/runtime/overnight.rs:134`) does not look at the entry time: a trade
   opened between midnight and the wake-up pays for the night before. For the hourly fee,
   `SfdOnlyWhileHeld` holds.
5. The row inserted by the daily batch (`db/src/summary.rs:94`) and the event still in the
   channel both count a trade. `OnlyLateEventsDoubled` is what holds.
6. `stop_order_status` of bitFlyer answers Executed for a stop that has filled in part when the parent order comes without
   a state (`market/src/bitflyer_private/orders.rs:334`): the trade is recorded as closed, and the rest of the position stays.
   And it answers Gone for a stop that is accepted and not listed yet: the market order goes out beside it.
   `ClosedIsCovered` and `StopAndMarketExclusive` hold in all other cases.
7. When the process dies between the two statements with which startup reconciliation
   records an executed stop (`app/src/startup_reconcile.rs:449`), the next start charges the commission of
   the stop again. `NoChargeLost` therefore bounds the fees from below.

## 6. What is not modelled

The macro analyst and the knowledge store send texts to external services and keep no trading
state. The dashboard reads. Bootstrap and configuration are sequential set-up;
what they guarantee to other parts is assumed there (liquidation
levels in `AccountAdmin`, the retry schedule in `AlertDelivery`). HTTP, signatures and
JSON of the clients are left out: a request answers or fails. Of the
strategies only `FxNewV1` builds state of its own from candles; the others are decimal
decisions on the indicators of one event, as are the SFD and swap tables.
`recalculate_balance` and `update_balance` have no caller in the program. `PROJECT.json` gives the reason for
each component.

Limits of what is modelled: `CloseProtocol` has one trade on its account and
pair, so sums over several trades in the reconciliation are not covered there
(`OpenProtocol` has them, without the case of rows without position). Under contention
`acquire_close_lock` may report a takeover that was none; the only effect is an
extra look at the positions, and it is left out. Fees are charged to paper
accounts only, as in the code. In `FeedWatchdog` a tick is at most `MaxLag` old
on arrival, and its candles come from one builder (`CandleFeed` has both). Prices are integers:
where the code rounds decimals, only the rounding that changes a decision is
represented (`CalculateQuantity`). `AccountRisk` has no fees, which `CloseProtocol` has, and leaves to it and to `OpenProtocol`
orders that fill in part, stops that trade after the position has gone, and two closers of one trade.
`ParamGrid` computes exactly: the rounding of f64, integers that f64 cannot hold (beyond 2^53) and the error
for more than 2^63 combinations are not represented. `SimSeries` has one fixed spread for all bars, where the code has a bid
and an ask for each. In `AlertDelivery` timers and requests are never late beyond their timeout.
`NoSilentOrphan` excuses a partial fill that was taken for the whole and the attempt that a crash interrupted, for which
the code keeps no record; `EntriesRespectAccount` excuses an account switched off between the second look and the
write; `MarketDataIsTrue` says nothing of candles that a late tick tore.

## 7. Plan

The modules of section 2 are done, and each of them is proved about. What is left to TLC alone is
liveness. The parts of section 6 that could be modelled next are the other strategies and the
indicators with a recursive average (EMA, ATR, ADX), for which exact integers are no longer enough.

## 8. How to run

    tlc -workers 2 -config MCCloseSafety.cfg MCClose
    tlapm CloseProtocolProofs.tla

and likewise for the other configurations and the other `...Proofs` modules;
`PROJECT.json` names the module of each run. Only `MCCloseReversal.cfg` ends with a counterexample, the one of section 5.
