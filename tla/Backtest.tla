------------------------------ MODULE Backtest ------------------------------
(***************************************************************************)
(* The backtest: BacktestRunner::run replays stored candles, oldest first, *)
(* through a strategy.  For every candle it closes the positions whose     *)
(* stop or target was hit, opens a position for a signal, and closes those *)
(* the strategy gives up; at the end the trades become a report.           *)
(*                                                                         *)
(* One pair and one strategy, hence at most one position.  Prices are      *)
(* integers, the spread is an amount, and the strategy may signal and exit *)
(* at any candle.                                                          *)
(***************************************************************************)
EXTENDS Integers, Sequences, SequencesExt, FiniteSetsExt

CONSTANTS
  ReplayShapes,    \* candles: [high, low, close]
  MaxReplay,       \* bound: stored candles, 10000 in the code
  InitialBalance,  \* initial_balance
  PricePerUnit,    \* divisor of the position sizer
  SpreadAmount,    \* spread_pct, as an amount
  StopPct,         \* stop_loss_pct, as an amount
  TakePct          \* take_profit_pct, as an amount

ASSUME BacktestAssumption ==
  /\ MaxReplay \in Nat /\ PricePerUnit \in Nat \ {0}
  /\ {InitialBalance, SpreadAmount, StopPct, TakePct} \subseteq Nat
  /\ \A c \in ReplayShapes : c \in [high : Int, low : Int, close : Int]

NoTrade == [direction |-> "none"]

VARIABLES
  replayed,   \* the candles so far
  balance,    \* SimTrader.balance
  openTrade,  \* SimTrader.positions
  log,        \* trades: a copy of a trade when it is opened and when it is closed
  executionFailures,
  report      \* BacktestReport, NoTrade while the replay runs

backtestVars == <<replayed, balance, openTrade, log, executionFailures, report>>

BacktestInit ==
  /\ replayed = <<>> /\ balance = InitialBalance /\ openTrade = NoTrade
  /\ log = <<>> /\ executionFailures = 0 /\ report = NoTrade

-----------------------------------------------------------------------------
(* apply_spread.                                                           *)
ApplySpread(price, isBuy) == IF isBuy THEN price + SpreadAmount ELSE price - SpreadAmount

(* PositionSizer::calculate_quantity, by balance and price; 0 is None.     *)
UnitsFor(money, price) ==
  IF money <= 0 \/ price <= 0 THEN 0 ELSE money \div (price * PricePerUnit)

(* SimTrader::open; the signal has at most one target.                     *)
OpenedTrade(direction, close, quantity, targets) ==
  LET price == ApplySpread(close, direction = "Long")
      sign == IF direction = "Long" THEN 1 ELSE -1
  IN  [direction |-> direction, entry |-> price, quantity |-> quantity,
       stop |-> price - sign * StopPct, take |-> {price + sign * pct : pct \in targets},
       since |-> Len(replayed) + 1, status |-> "open", pnl |-> 0]

(* SimTrader::close.                                                       *)
SettledTrade(t, rawPrice) ==
  LET price == ApplySpread(rawPrice, t.direction = "Short")
      diff == IF t.direction = "Long" THEN price - t.entry ELSE t.entry - price
  IN  [t EXCEPT !.status = "closed", !.pnl = diff * t.quantity]

(* fixed_exit_for: the stop comes before the target; {} when neither hit.  *)
FixedExitFor(t, c) ==
  LET stopped == IF t.direction = "Long" THEN c.low <= t.stop ELSE c.high >= t.stop
      Reached(p) == IF t.direction = "Long" THEN c.high >= p ELSE c.low <= p
  IN  IF stopped THEN {t.stop} ELSE {p \in t.take : Reached(p)}

PnlOf(t) == IF t = NoTrade THEN 0 ELSE t.pnl
Pushed(t) == IF t = NoTrade THEN <<>> ELSE <<t>>

(* One round of the loop of run: close_hit_fixed_exits, try_open_new_entry *)
(* with the signal of the strategy, close_strategy_driven_exits if the     *)
(* strategy gives up what is open then.                                    *)
Replay(c, signal, targets, givesUp) ==
  LET exits == IF openTrade = NoTrade THEN {} ELSE FixedExitFor(openTrade, c)
      hit == IF exits = {} THEN NoTrade ELSE SettledTrade(openTrade, CHOOSE p \in exits : TRUE)
      cash == balance + PnlOf(hit)
      kept == IF hit = NoTrade THEN openTrade ELSE NoTrade
      wanted == signal # "none" /\ kept = NoTrade
      units == UnitsFor(cash, ApplySpread(c.close, signal = "Long"))
      entered == IF wanted /\ units > 0 THEN OpenedTrade(signal, c.close, units, targets) ELSE NoTrade
      held == IF entered = NoTrade THEN kept ELSE entered
      left == IF givesUp /\ held # NoTrade THEN SettledTrade(held, c.close) ELSE NoTrade
  IN  /\ report = NoTrade /\ Len(replayed) < MaxReplay
      /\ replayed' = Append(replayed, c)
      /\ balance' = cash + PnlOf(left)
      /\ openTrade' = (IF left = NoTrade THEN held ELSE NoTrade)
      /\ log' = log \o Pushed(hit) \o Pushed(entered) \o Pushed(left)
      /\ executionFailures' = executionFailures + (IF wanted /\ units = 0 THEN 1 ELSE 0)
      /\ UNCHANGED report

-----------------------------------------------------------------------------
ClosedOf(trades) == FoldLeft(LAMBDA s, t : IF t.status = "closed" THEN Append(s, t) ELSE s, <<>>, trades)
ClosedTrades == ClosedOf(log)

\* Mutant: the drawdown is counted from the initial balance.
DrawdownStepFromStart(d, pnl) ==
  LET equity == d.equity + pnl
  IN  [equity |-> equity, peak |-> d.peak, max |-> Max({d.max, d.peak - equity})]

(* A round of the loop that follows the equity.                            *)
DrawdownStep(d, pnl) ==
  LET equity == d.equity + pnl
      peak == Max({d.peak, equity})
  IN  [equity |-> equity, peak |-> peak, max |-> Max({d.max, peak - equity})]

(* BacktestReport::from_trades_with_failures.                              *)
FromTrades ==
  LET pnls == [i \in 1..Len(ClosedTrades) |-> ClosedTrades[i].pnl]
      equity == FoldLeft(DrawdownStep, [equity |-> InitialBalance, peak |-> InitialBalance, max |-> 0], pnls)
  IN  [direction |-> "report", total |-> Len(pnls),
       wins |-> Len(SelectSeq(pnls, LAMBDA p : p > 0)),
       losses |-> Len(pnls) - Len(SelectSeq(pnls, LAMBDA p : p > 0)),
       pnl |-> FoldLeft(LAMBDA a, p : a + p, 0, pnls),
       drawdown |-> equity.max, final |-> balance]

Finish ==
  /\ report = NoTrade /\ replayed # <<>>
  /\ report' = FromTrades
  /\ UNCHANGED <<replayed, balance, openTrade, log, executionFailures>>

BacktestNext ==
  \/ \E c \in ReplayShapes, s \in {"none", "Long", "Short"}, t \in {{}, {TakePct}}, g \in BOOLEAN :
       Replay(c, s, t, g)
  \/ Finish

BacktestSpec == BacktestInit /\ [][BacktestNext]_backtestVars

-----------------------------------------------------------------------------
(* Properties.                                                             *)

Equity(trades, n) == FoldLeft(LAMBDA a, t : a + t.pnl, InitialBalance, SubSeq(trades, 1, n))
EquityAfter(n) == Equity(ClosedTrades, n)

(* The report agrees with the account: the balance is the initial one plus *)
(* the profits of the trades, although the log holds a trade twice, once   *)
(* open and once closed; and the drawdown is the greatest fall of the      *)
(* equity between two trades (from_trades_with_failures).                  *)
BacktestAddsUp ==
  /\ balance = EquityAfter(Len(ClosedTrades))
  /\ report # NoTrade =>
       /\ report.final = InitialBalance + report.pnl
       /\ report.drawdown =
            Max({EquityAfter(p[1]) - EquityAfter(p[2]) :
                   p \in {q \in (0..report.total) \X (0..report.total) : q[1] <= q[2]}})

(* No position outlives a candle that crossed its stop, except the candle  *)
(* on whose close it was opened (close_hit_fixed_exits before              *)
(* try_open_new_entry).                                                    *)
StopsAreKept ==
  openTrade # NoTrade =>
    \A i \in (openTrade.since + 1)..Len(replayed) :
      IF openTrade.direction = "Long" THEN replayed[i].low > openTrade.stop
      ELSE replayed[i].high < openTrade.stop

(* The result of a backtest is that of its trades, and its trades are the  *)
(* ones the candles allow (run, from_trades_with_failures).                *)
BacktestIsHonest == BacktestAddsUp /\ StopsAreKept
=============================================================================
