---------------------------- MODULE AccountRisk ----------------------------
(***************************************************************************)
(* The money of one account, and the tasks that judge it from several      *)
(* reads: the executor sizes a position from the balance, the position     *)
(* monitor liquidates a dry-run account or warns about a live one, and the *)
(* balance drift check compares the books with the exchange.  Balance,     *)
(* trades, the price of each pair and the exchange are read one after the  *)
(* other while the others go on changing them.  Orders may fail with and   *)
(* without effect at the exchange, the writes that record them may fail,   *)
(* and the protective stop of a trade may execute at any time.  Monitor    *)
(* and drift check read the same state and influence each other only       *)
(* through the trades that are closed, which StrategyExit may close at any *)
(* time as well, so that a behaviour has one of them.                      *)
(*                                                                         *)
(* Left to OpenProtocol and CloseProtocol: orders that fill in part, what  *)
(* a stop does that trades after the position has gone, and two closers    *)
(* of one trade.  A stop that executes between the fill of an entry and    *)
(* its row is taken to execute just after the row is written.              *)
(*                                                                         *)
(* Money and prices are whole numbers, rates are percentages.              *)
(***************************************************************************)
EXTENDS Integers, FiniteSets, FiniteSetsExt

CONSTANTS
  Pairs,          \* pairs that the account trades on its exchange
  Signals,        \* Signals[p]: directions that the strategy asks for
  AccountTypes,   \* "paper", "live"
  DryRunFlags,    \* values of live_forces_dry_run
  InitialBalance,
  Prices,         \* prices that a pair takes, and the one it starts at
  StartPrice,
  Spread,         \* ask minus bid
  Leverage,
  AllocationPct,  \* share of the balance that a signal asks for
  StopLossPct, TakeProfitPct,
  LiquidationLevel, \* liquidation_margin_level of the exchange
  MarginBuffer,   \* sizing_margin_buffer
  DriftFloor,     \* DRIFT_THRESHOLD_FLOOR_JPY
  CoolDown,       \* steps of time after which an alert is repeated
  ExternalSums,   \* what may move at the exchange past the books
  MaxOpens, MaxMoves, MaxTicks, MaxIncidents, MaxSkips  \* bounds

ASSUME RiskAssumption ==
  /\ IsFiniteSet(Pairs) /\ Signals \in [Pairs -> SUBSET {"long", "short"}] /\ ExternalSums \subseteq Int
  /\ InitialBalance \in Nat /\ Spread \in Nat /\ MarginBuffer \in Nat /\ DriftFloor \in Nat
  /\ Leverage \in Nat \ {0} /\ StopLossPct \in 1..100 /\ AllocationPct \in 1..100
  /\ LiquidationLevel \in Nat \ {0} /\ CoolDown \in Nat
  /\ Prices \subseteq Nat \ {0} /\ StartPrice \in Prices

VARIABLES
  dryRun,     \* effective_dry_run of the account
  judge,      \* bound: the judge that runs in this behaviour, "monitor" or "drift"
  balance,    \* trading_accounts.current_balance
  trade,      \* trade[p]: the trade of pair p, or NoTrade
  opening,    \* the entry that the executor works on, or NoEntry
  price,      \* price[p]: best bid in the price store
  cash,       \* collateral at the exchange without open positions
  stray,      \* stray[p]: position at the exchange that belongs to no row
  astray,     \* history: what moved in cash and never reaches the books
  monitor,    \* the position monitor: where it is and what it has read
  lastAlert,  \* lastAlert[l]: time since a margin alert of level l, up to CoolDown + 1
  drift,      \* the drift check: where it is and what it has read
  opens, moves, ticks, incidents, skips \* counters of the bounds

exchangeVars == <<cash, stray, astray>>
ledger == <<balance, trade, opening, exchangeVars>>
riskBounds == <<opens, moves, ticks, incidents, skips>>
judges == <<dryRun, judge, monitor, lastAlert, drift>>
vars == <<judges, ledger, price, riskBounds>>

NoTrade == [status |-> "none"]
NoEntry == [step |-> "none"]
Flat == [qty |-> 0, cost |-> 0]
Levels == {"warn", "critical"}
-----------------------------------------------------------------------------
(* Arithmetic                                                              *)

Bid(p) == price[p]
Ask(p) == price[p] + Spread

\* A position is entered at the ask and left at the bid, or the reverse.
EntrySide(p, d) == IF d = "long" THEN Ask(p) ELSE Bid(p)
CloseSideAt(bid, d) == IF d = "long" THEN bid ELSE bid + Spread
CloseSide(p, d) == CloseSideAt(price[p], d)
Opposite(d) == IF d = "long" THEN "short" ELSE "long"

Pnl(d, entry, exit, qty) == (IF d = "long" THEN exit - entry ELSE entry - exit) * qty
PnlOf(t, exit) == Pnl(t.dir, t.entry, exit, t.qty)

\* A signed position after an order in direction d, and what it is worth.
WithOrder(s, d, qty, x) ==
  LET signed == IF d = "long" THEN qty ELSE -qty
  IN  [qty |-> s.qty + signed, cost |-> s.cost + signed * x]
Worth(p, s) == s.qty * CloseSide(p, IF s.qty > 0 THEN "long" ELSE "short") - s.cost

\* Rounded toward zero to a whole yen.
RequiredMargin(t) == (t.entry * t.qty) \div Leverage

\* Mutant: the stop distance is not levered.
CalculateQuantityUnlevered(bal, entry) ==
  LET maxAlloc == (bal * Leverage * 100) \div ((LiquidationLevel + MarginBuffer + StopLossPct) * entry)
  IN  Min({maxAlloc, (bal * Leverage * AllocationPct) \div (100 * entry)})

\* PositionSizer: the asked share of the balance, or 1 / (level + buffer +
\* leverage * stop distance) of it, cut to whole lots; below a lot, nothing.
CalculateQuantity(bal, entry) ==
  LET yEff == LiquidationLevel + MarginBuffer
      maxAlloc == (bal * Leverage * 100) \div ((yEff + Leverage * StopLossPct) * entry)
      asked == (bal * Leverage * AllocationPct) \div (100 * entry)
  IN  IF bal <= 0 THEN 0 ELSE Min({maxAlloc, asked})

\* Margin of the trades ts (a function on pairs), and their unrealized profit
\* at the bids that quotes gives for their pairs.
Required(ts) == MapThenSumSet(LAMBDA p : RequiredMargin(ts[p]), DOMAIN ts)
Unrealized(ts, quotes) ==
  MapThenSumSet(LAMBDA p : PnlOf(ts[p], CloseSideAt(quotes[p], ts[p].dir)), DOMAIN ts)

\* compute_maintenance_ratio is below pct percent; without margin there is none.
RatioBelow(bal, ts, quotes, pct) ==
  Required(ts) > 0 /\ (bal + Required(ts) + Unrealized(ts, quotes)) * 100 < pct * Required(ts)

\* classify_alert_level: 1.1 and 1.3 times the liquidation level.
AlertLevel(bal, ts, quotes) ==
  CASE RatioBelow(bal, ts, quotes, (LiquidationLevel * 11) \div 10) -> "critical"
    [] ~RatioBelow(bal, ts, quotes, (LiquidationLevel * 11) \div 10)
       /\ RatioBelow(bal, ts, quotes, (LiquidationLevel * 13) \div 10) -> "warn"
    [] OTHER -> "none"

IsDrift(exchangeEquity, botEquity) ==
  LET diff == exchangeEquity - botEquity
  IN  (IF diff < 0 THEN -diff ELSE diff) > Max({exchangeEquity \div 100, DriftFloor})

\* Trades that are open, and trades that still hold margin.
OpenTrades == [p \in {x \in Pairs : trade[x].status = "open"} |-> trade[p]]
Unsettled == [p \in {x \in Pairs : trade[x].status # "none"} |-> trade[p]]

\* detect_exit_reason: stop loss, take profit or the time limit.
ExitDue(t, current, timeUp) ==
  \/ timeUp
  \/ t.dir = "long" /\ (current * 100 <= t.entry * (100 - StopLossPct)
                        \/ current * 100 >= t.entry * (100 + TakeProfitPct))
  \/ t.dir = "short" /\ (current * 100 >= t.entry * (100 + StopLossPct)
                         \/ current * 100 <= t.entry * (100 - TakeProfitPct))
-----------------------------------------------------------------------------
EffectiveDryRun(type, forced) == type = "paper" \/ forced

Init ==
  /\ \E type \in AccountTypes, forced \in DryRunFlags : dryRun = EffectiveDryRun(type, forced)
  /\ judge \in IF dryRun THEN {"monitor"} ELSE {"monitor", "drift"}
  /\ balance = InitialBalance /\ cash = InitialBalance /\ astray = 0
  /\ trade = [p \in Pairs |-> NoTrade]
  /\ stray = [p \in Pairs |-> Flat]
  /\ opening = NoEntry
  /\ price = [p \in Pairs |-> StartPrice]
  /\ monitor = [step |-> "idle"]
  /\ lastAlert = [l \in Levels |-> CoolDown + 1]
  /\ drift = [step |-> "idle", alert |-> FALSE]
  /\ moves = 0 /\ ticks = 0 /\ skips = 0
  /\ opens \in 0..MaxOpens /\ incidents \in 0..MaxIncidents

\* A bound on what fails or moves at the exchange.
Incident == incidents < MaxIncidents /\ incidents' = incidents + 1

\* A tick of the feed changes the best bid and ask of a pair.
PriceMoves(p) ==
  /\ moves < MaxMoves
  /\ \E x \in Prices \ {price[p]} : price' = [price EXCEPT ![p] = x]
  /\ moves' = moves + 1
  /\ UNCHANGED <<judges, ledger, opens, ticks, incidents, skips>>

\* External: a deposit, swap or commission at the exchange.
ExternalCash(d) ==
  /\ judge = "drift" /\ Incident
  /\ cash' = cash + d /\ astray' = astray + d
  /\ UNCHANGED <<judges, balance, trade, opening, stray, price, opens, moves, ticks, skips>>

TimePasses ==
  /\ ticks < MaxTicks /\ \E l \in Levels : lastAlert[l] <= CoolDown
  /\ ticks' = ticks + 1
  /\ lastAlert' = [l \in Levels |-> Min({lastAlert[l] + 1, CoolDown + 1})]
  /\ UNCHANGED <<dryRun, judge, ledger, price, monitor, drift, opens, moves, incidents, skips>>
-----------------------------------------------------------------------------
(* Executor                                                                *)

\* prepare_entry: the size follows from the balance and the price of now.
PrepareEntry(p, d) ==
  /\ opening = NoEntry /\ trade[p] = NoTrade /\ opens < MaxOpens
  /\ LET qty == CalculateQuantity(balance, EntrySide(p, d))
     IN  /\ qty > 0
         /\ opening' = [step |-> "sized", pair |-> p, dir |-> d, qty |-> qty,
                        hint |-> EntrySide(p, d), bal |-> balance]
  /\ opens' = opens + 1
  /\ UNCHANGED <<judges, balance, trade, exchangeVars, price, moves, ticks, incidents, skips>>

\* fill_open: the price may have moved.
FillEntry ==
  /\ opening.step = "sized"
  /\ opening' = [step |-> "filled", pair |-> opening.pair,
                 entry |-> EntrySide(opening.pair, opening.dir), dir |-> opening.dir,
                 qty |-> opening.qty, hint |-> opening.hint, bal |-> opening.bal]
  /\ UNCHANGED <<judges, balance, trade, exchangeVars, price, riskBounds>>

\* The exchange holds a position that no row will account for.
LeftAtExchange(p, d, qty, x) == stray' = [stray EXCEPT ![p] = WithOrder(@, d, qty, x)]

\* fill_open fails: nothing is held; or the order has filled, and its answer,
\* or every answer about it, was lost.
FillFails ==
  /\ opening.step = "sized" /\ Incident
  /\ opening' = NoEntry
  /\ \/ UNCHANGED stray
     \/ ~dryRun /\ LeftAtExchange(opening.pair, opening.dir, opening.qty, EntrySide(opening.pair, opening.dir))
  /\ UNCHANGED <<judges, balance, trade, cash, astray, price, opens, moves, ticks, skips>>

\* persist_open_trade: the row and the margin in one transaction.
PersistEntry ==
  /\ opening.step = "filled"
  /\ trade' = [trade EXCEPT ![opening.pair] =
                 [status |-> "open", dir |-> opening.dir, entry |-> opening.entry,
                  qty |-> opening.qty, id |-> opens, exit |-> 0, gone |-> 0, holder |-> "none",
                  hint |-> opening.hint, bal |-> opening.bal]]
  /\ balance' = balance - RequiredMargin(opening)
  /\ opening' = NoEntry
  /\ UNCHANGED <<judges, exchangeVars, price, riskBounds>>

\* The transaction fails after the fill: the position is an orphan (a dry run
\* has none).  When only the answer to the commit is lost, it is PersistEntry.
PersistEntryFails ==
  /\ opening.step = "filled" /\ Incident
  /\ opening' = NoEntry
  /\ IF dryRun THEN UNCHANGED stray
     ELSE LeftAtExchange(opening.pair, opening.dir, opening.qty, opening.entry)
  /\ UNCHANGED <<judges, balance, trade, cash, astray, price, opens, moves, ticks, skips>>

\* External: the operator, or the stop of an orphan, closes what is astray.
StraySettles(p) ==
  /\ stray[p] # Flat
  /\ stray' = [stray EXCEPT ![p] = Flat]
  /\ cash' = cash + Worth(p, stray[p]) /\ astray' = astray + Worth(p, stray[p])
  /\ UNCHANGED <<judges, balance, trade, opening, price, riskBounds>>
-----------------------------------------------------------------------------
(* Closing (CloseProtocol has the details)                                 *)

LockTrade(p, who) ==
  /\ trade[p].status = "open"
  /\ trade' = [trade EXCEPT ![p].status = "closing", ![p].holder = who]
  /\ UNCHANGED <<balance, opening, exchangeVars>>

\* The exit executor closes a trade on a signal of its strategy, or the
\* stop-fill loop one whose stop has executed.
StrategyExit(p) ==
  /\ LockTrade(p, "exit")
  /\ UNCHANGED <<judges, price, riskBounds>>

\* acquire_close_lock: the lock that a failed close left behind has expired.
TakeOverLock(p) ==
  /\ trade[p].status = "closing" /\ trade[p].holder = "none"
  /\ trade' = [trade EXCEPT ![p].holder = "exit"]
  /\ UNCHANGED <<judges, balance, opening, exchangeVars, price, riskBounds>>

InFlight(p) == trade[p].status = "closing" /\ trade[p].holder # "none"

\* An order that closes p trades at x and leaves the row as t: the position
\* has gone; if it had gone before (an exchange that nets does not refuse the
\* order), it is open again the other way round.
OrderTrades(p, x, t) ==
  /\ trade' = [trade EXCEPT ![p] = [t EXCEPT !.gone = IF @ = 0 THEN x ELSE @]]
  /\ IF trade[p].gone = 0
     THEN cash' = cash + PnlOf(trade[p], x) /\ UNCHANGED stray
     ELSE LeftAtExchange(p, Opposite(trade[p].dir), trade[p].qty, x) /\ UNCHANGED cash
  /\ UNCHANGED <<balance, opening, astray>>

\* fill_close: the price of the market for a dry run; for a live account the
\* fill of a market order at the close side, or one that the exchange already
\* has: of the stop, or of an order whose answer was lost.
FillClose(p) ==
  /\ InFlight(p) /\ trade[p].exit = 0
  /\ LET x == CloseSide(p, trade[p].dir)
     IN  \/ ~dryRun /\ OrderTrades(p, x, [trade[p] EXCEPT !.exit = x])
         \/ \E y \in (IF dryRun THEN {x} ELSE {trade[p].gone} \ {0}) :
              trade' = [trade EXCEPT ![p].exit = y] /\ UNCHANGED <<balance, opening, exchangeVars>>
  /\ UNCHANGED <<judges, price, riskBounds>>

\* The close fails, with or without an order that trades, and the lock is
\* released.
CloseFails(p) ==
  /\ InFlight(p) /\ trade[p].exit = 0 /\ Incident
  /\ LET released == [trade[p] EXCEPT !.status = "open", !.holder = "none"]
     IN  \/ trade' = [trade EXCEPT ![p] = released] /\ UNCHANGED <<balance, opening, exchangeVars>>
         \/ ~dryRun /\ OrderTrades(p, CloseSide(p, trade[p].dir), released)
  /\ UNCHANGED <<judges, price, opens, moves, ticks, skips>>

\* The protective stop executes, whoever is closing the trade.
StopExecutes(p) ==
  /\ ~dryRun /\ trade[p] # NoTrade /\ trade[p].gone = 0
  /\ LET x == CloseSide(p, trade[p].dir)
     IN  /\ PnlOf(trade[p], x) * 100 <= -(StopLossPct * trade[p].entry * trade[p].qty)
         /\ OrderTrades(p, x, trade[p])
  /\ UNCHANGED <<judges, price, riskBounds>>

\* release_margin returns margin and profit: of the fill that the closer took.
\* A dry run has no exchange; its cash follows the books.
PersistCloseReturning(p, margin) ==
  /\ InFlight(p) /\ trade[p].exit # 0
  /\ LET profit == PnlOf(trade[p], trade[p].exit)
     IN  /\ balance' = balance + margin + profit
         /\ IF dryRun THEN cash' = cash + profit /\ UNCHANGED astray
            ELSE astray' = astray + PnlOf(trade[p], trade[p].gone) - profit /\ UNCHANGED cash
  /\ trade' = [trade EXCEPT ![p] = NoTrade]
  /\ UNCHANGED <<judges, opening, stray, price, riskBounds>>

\* Mutant: the margin stays locked.
PersistCloseKeepsMargin(p) == PersistCloseReturning(p, 0)

\* persist_closed_trade.
PersistClose(p) == PersistCloseReturning(p, RequiredMargin(trade[p]))

\* The transaction fails: the trade stays in 'closing' with nobody working on
\* it, and the fill is forgotten.
PersistCloseFails(p) ==
  /\ InFlight(p) /\ trade[p].exit # 0 /\ Incident
  /\ trade' = [trade EXCEPT ![p].holder = "none", ![p].exit = 0]
  /\ UNCHANGED <<judges, balance, opening, exchangeVars, price, opens, moves, ticks, skips>>
-----------------------------------------------------------------------------
(* Position monitor: one price event at a time                             *)

\* The event carries the price of its candle; the open trades are listed first.
ListTrades(p) ==
  /\ monitor.step = "idle" /\ judge = "monitor" /\ DOMAIN OpenTrades # {}
  /\ monitor' = [step |-> "listed", pair |-> p, current |-> price[p], trades |-> OpenTrades]
  /\ UNCHANGED <<dryRun, judge, ledger, price, lastAlert, drift, riskBounds>>

\* Then the account is read,
ReadAccount ==
  /\ monitor.step = "listed"
  /\ monitor' = [step |-> "read", pair |-> monitor.pair, current |-> monitor.current,
                 trades |-> monitor.trades, bal |-> balance, quotes |-> << >>]
  /\ UNCHANGED <<dryRun, judge, ledger, price, lastAlert, drift, riskBounds>>

\* The quotes q with the bid b of pair p.
WithQuote(q, p, b) == [x \in DOMAIN q \cup {p} |-> IF x = p THEN b ELSE q[x]]

\* Mutant: the quotes are not kept by pair.
NextQuotesUnkeyed(q, ts) ==
  {WithQuote(q, p, IF q = << >> THEN price[p] ELSE q[CHOOSE x \in DOMAIN q : TRUE]) : p \in DOMAIN ts \ DOMAIN q}

\* build_close_side_positions: the bid and ask of the next pair, then kept.
NextQuotes(q, ts) == {WithQuote(q, p, price[p]) : p \in DOMAIN ts \ DOMAIN q}

\* and the prices last, pair by pair.
ReadPrice ==
  /\ monitor.step = "read"
  /\ \E q \in NextQuotes(monitor.quotes, monitor.trades) : monitor' = [monitor EXCEPT !.quotes = q]
  /\ UNCHANGED <<dryRun, judge, ledger, price, lastAlert, drift, riskBounds>>

Judging == monitor.step = "read" /\ DOMAIN monitor.quotes = DOMAIN monitor.trades

Acting(todo) == [step |-> "acting", pair |-> monitor.pair, current |-> monitor.current,
                 trades |-> monitor.trades, todo |-> todo]

\* detect_liquidation_targets: every listed trade of the account, or none.
LiquidationTargets(bal, ts, quotes) ==
  IF RatioBelow(bal, ts, quotes, LiquidationLevel) THEN DOMAIN ts ELSE {}

\* A dry-run account below the level is liquidated.
JudgeLiquidation ==
  /\ Judging /\ dryRun
  /\ monitor' = Acting(LiquidationTargets(monitor.bal, monitor.trades, monitor.quotes))
  /\ UNCHANGED <<dryRun, judge, ledger, price, lastAlert, drift, riskBounds>>

AlertDue(l) == l # "none" /\ lastAlert[l] > CoolDown

\* The owner of a live account is warned, once per level and cool-down.
JudgeMarginAlert ==
  /\ Judging /\ ~dryRun
  /\ LET l == AlertLevel(monitor.bal, monitor.trades, monitor.quotes)
     IN  lastAlert' = IF AlertDue(l) THEN [lastAlert EXCEPT ![l] = 0] ELSE lastAlert
  /\ monitor' = Acting({})
  /\ UNCHANGED <<dryRun, judge, ledger, price, drift, riskBounds>>

\* The account cannot be read, or a pair has no bid and ask: no judgement.
SkipAccount ==
  /\ monitor.step \in {"listed", "read"} /\ skips < MaxSkips /\ skips' = skips + 1
  /\ monitor' = Acting({})
  /\ UNCHANGED <<dryRun, judge, ledger, price, lastAlert, drift, opens, moves, ticks, incidents>>

\* The monitor awaits each close before it goes on.
MonitorFree == monitor.step = "acting" /\ \A p \in Pairs : trade[p] # NoTrade => trade[p].holder # "monitor"

SameTrade(p) == trade[p] # NoTrade /\ trade[p].id = monitor.trades[p].id

Liquidate(p) ==
  /\ MonitorFree /\ p \in monitor.todo
  /\ SameTrade(p) /\ LockTrade(p, "monitor")
  /\ monitor' = Acting(monitor.todo \ {p})
  /\ UNCHANGED <<dryRun, judge, price, lastAlert, drift, riskBounds>>

\* A trade that is no longer open is left to whoever closes it.
SkipTarget(p) ==
  /\ MonitorFree /\ p \in monitor.todo
  /\ ~(SameTrade(p) /\ trade[p].status = "open")
  /\ monitor' = Acting(monitor.todo \ {p})
  /\ UNCHANGED <<dryRun, judge, ledger, price, lastAlert, drift, riskBounds>>

\* At last the stop loss, take profit and time limit of the pair of the event.
CheckExit ==
  /\ MonitorFree /\ monitor.todo = {}
  /\ monitor' = [step |-> "idle"]
  /\ \E timeUp \in BOOLEAN :
       IF /\ monitor.pair \in DOMAIN monitor.trades
          /\ ExitDue(monitor.trades[monitor.pair], monitor.current, timeUp)
          /\ SameTrade(monitor.pair) /\ trade[monitor.pair].status = "open"
       THEN LockTrade(monitor.pair, "monitor")
       ELSE UNCHANGED ledger
  /\ UNCHANGED <<dryRun, judge, price, lastAlert, drift, riskBounds>>
-----------------------------------------------------------------------------
(* Balance drift check of a live account                                   *)

\* What the exchange answers: collateral plus the profit of open positions.
Positions == [p \in {x \in Pairs : trade[x] # NoTrade /\ trade[x].gone = 0} |-> trade[p]]
Entry == [p \in {x \in Pairs : opening.step = "filled" /\ x = opening.pair} |-> opening]
StrayWorth == MapThenSumSet(LAMBDA p : Worth(p, stray[p]), Pairs)
ExchangeEquity == cash + Unrealized(Positions, price) + Unrealized(Entry, price) + StrayWorth

DriftListAccounts ==
  /\ drift.step = "idle" /\ judge = "drift"
  /\ drift' = [step |-> "listed", bal |-> balance, alert |-> FALSE]
  /\ UNCHANGED <<dryRun, judge, ledger, price, monitor, lastAlert, riskBounds>>

DriftGetCollateral ==
  /\ drift.step = "listed"
  /\ drift' = [step |-> "collateral", bal |-> drift.bal, equity |-> ExchangeEquity, alert |-> FALSE]
  /\ UNCHANGED <<dryRun, judge, ledger, price, monitor, lastAlert, riskBounds>>

\* Mutant: a trade that is closing counts as open.
SplitForEquityAll == [ok |-> TRUE, trades |-> Unsettled]

\* split_for_equity: no comparison while a trade is closing.
SplitForEquity == [ok |-> Unsettled = OpenTrades, trades |-> OpenTrades]

DriftLoadTrades ==
  /\ drift.step = "collateral"
  /\ drift' = IF SplitForEquity.ok
              THEN [step |-> "trades", bal |-> drift.bal, equity |-> drift.equity,
                    trades |-> SplitForEquity.trades, quotes |-> << >>, alert |-> FALSE]
              ELSE [step |-> "idle", alert |-> FALSE]
  /\ UNCHANGED <<dryRun, judge, ledger, price, monitor, lastAlert, riskBounds>>

DriftReadPrice ==
  /\ drift.step = "trades"
  /\ \E q \in NextQuotes(drift.quotes, drift.trades) : drift' = [drift EXCEPT !.quotes = q]
  /\ UNCHANGED <<dryRun, judge, ledger, price, monitor, lastAlert, riskBounds>>

DriftCompare ==
  /\ drift.step = "trades" /\ DOMAIN drift.quotes = DOMAIN drift.trades
  /\ drift' = [step |-> "idle",
               alert |-> IsDrift(drift.equity,
                                 drift.bal + Required(drift.trades) + Unrealized(drift.trades, drift.quotes))]
  /\ UNCHANGED <<dryRun, judge, ledger, price, monitor, lastAlert, riskBounds>>

\* The accounts, the collateral, the trades or a price cannot be had: no verdict.
DriftSkips ==
  /\ drift.step # "idle"
  /\ drift' = [step |-> "idle", alert |-> FALSE]
  /\ UNCHANGED <<dryRun, judge, ledger, price, monitor, lastAlert, riskBounds>>
-----------------------------------------------------------------------------
MonitorStep ==
  \/ ReadAccount \/ ReadPrice \/ JudgeLiquidation \/ JudgeMarginAlert \/ CheckExit
  \/ \E p \in Pairs : Liquidate(p) \/ SkipTarget(p)

Next ==
  \/ \E p \in Pairs : PriceMoves(p)
  \/ \E d \in ExternalSums : ExternalCash(d)
  \/ TimePasses
  \/ \E p \in Pairs : \E d \in Signals[p] : PrepareEntry(p, d)
  \/ FillEntry \/ FillFails \/ PersistEntry \/ PersistEntryFails
  \/ \E p \in Pairs : \/ StrategyExit(p) \/ TakeOverLock(p) \/ FillClose(p) \/ CloseFails(p)
                      \/ PersistClose(p) \/ PersistCloseFails(p) \/ StopExecutes(p) \/ StraySettles(p)
  \/ \E p \in Pairs : ListTrades(p)
  \/ MonitorStep \/ SkipAccount
  \/ DriftListAccounts \/ DriftGetCollateral \/ DriftLoadTrades \/ DriftReadPrice \/ DriftCompare \/ DriftSkips

Spec == Init /\ [][Next]_vars

\* Price events go on coming, the monitor handles each, and every close that
\* has begun ends.
FairSpec ==
  /\ Spec
  /\ WF_vars(\E p \in Pairs : ListTrades(p))
  /\ WF_vars(MonitorStep)
  /\ \A p \in Pairs : WF_vars(FillClose(p)) /\ WF_vars(PersistClose(p))
-----------------------------------------------------------------------------
(* Properties                                                              *)

TypeOK ==
  /\ dryRun \in BOOLEAN /\ balance \in Int /\ cash \in Int /\ astray \in Int
  /\ \A p \in Pairs : trade[p].status \in {"none", "open", "closing"}
  /\ stray \in [Pairs -> [qty : Int, cost : Int]]
  /\ price \in [Pairs -> Prices]
  /\ lastAlert \in [Levels -> 0..CoolDown + 1]
  /\ monitor.step \in {"idle", "listed", "read", "acting"}
  /\ drift.step \in {"idle", "listed", "collateral", "trades"}

\* Profit that the exchange has settled and the books have not.
Gone == {p \in Pairs : trade[p] # NoTrade /\ trade[p].gone # 0}
Unbooked == MapThenSumSet(LAMBDA p : PnlOf(trade[p], trade[p].gone), Gone)

\* The balance and the margins that it lacks add up to the collateral at the
\* exchange but for the profits of positions that are gone and still on the
\* books, and for what is astray: money that moved on no trade, settled
\* positions without a row, and fills that the books took for another.
\* lock_margin and release_margin cancel out, whichever task closes, whichever
\* order took effect and whichever write failed.
BooksMatchExchange == balance + Required(Unsettled) + Unbooked + astray = cash

\* A position that was sized on the whole balance and filled at the price it
\* was sized for is not liquidated before the price is beyond its stop loss:
\* what calculate_quantity is for.
SizedSurvivesStop ==
  \A p \in Pairs :
    (/\ DOMAIN Unsettled = {p}
     /\ trade[p].entry = trade[p].hint
     /\ balance + RequiredMargin(trade[p]) = trade[p].bal
     /\ ~(trade[p].dir = "long" /\ Bid(p) * 100 < trade[p].entry * (100 - StopLossPct))
     /\ ~(trade[p].dir = "short" /\ Ask(p) * 100 > trade[p].entry * (100 + StopLossPct)))
    => ~RatioBelow(balance, Unsettled, price, LiquidationLevel)

\* A dry-run account does not stay below the liquidation level with its trades
\* open, and a live one does not stay in the critical band without an alert
\* after the cool-down: although the monitor judges balance, trades and prices
\* of different times, skips an account that it cannot read, and may be about
\* to act on an old judgement (process_price_event).
MonitorActs ==
  /\ []<>~(dryRun /\ RatioBelow(balance, OpenTrades, price, LiquidationLevel))
  /\ []<>~(~dryRun /\ judge = "monitor" /\ AlertDue("critical")
           /\ AlertLevel(balance, OpenTrades, price) = "critical")

\* What the exchange has and the books do not know of: money astray, positions
\* without a row, an entry before its row is written, and what positions that
\* are gone while their rows are open have settled at, not at the price of now.
GoneUnnoticed == {p \in Gone : trade[p].status = "open"}
Unaccounted ==
  astray + StrayWorth + Unrealized(Entry, price)
  + MapThenSumSet(LAMBDA p : PnlOf(trade[p], trade[p].gone) - PnlOf(trade[p], CloseSide(p, trade[p].dir)),
                  GoneUnnoticed)

\* When nothing that the check has read changed while it ran, the operator is
\* alerted if and only if what the books do not know of exceeds the threshold.
DriftVerdict ==
  [][DriftCompare /\ drift.bal = balance /\ drift.trades = Unsettled
     /\ (\A p \in DOMAIN drift.trades : drift.quotes[p] = price[p]) /\ drift.equity = ExchangeEquity =>
       (drift'.alert <=> IsDrift(ExchangeEquity, ExchangeEquity - Unaccounted))]_vars
=============================================================================
