----------------------------- MODULE SimEngine -----------------------------
(***************************************************************************)
(* One run of a script by the simulator: the stored bars are cut to the    *)
(* evaluation period, the script decides at every bar within its budgets,  *)
(* its signal is executed at the open of the next bar, a protective stop   *)
(* may hit in any bar, and the closed trades are evaluated against the     *)
(* benchmark.                                                              *)
(***************************************************************************)
EXTENDS SimBenchmark

CONSTANTS
  Shapes,     \* bars the market can make, as bid prices
  MaxBars,    \* bound: stored bars
  MaxTime,    \* bound: M5 slots
  Warmups,    \* values of warmup_bars
  Calls,      \* calls of on_bar: operations wanted, keys asked for, whether
              \* the script catches errors, result
  StopOffset, \* protective_stop_pips in price units
  Theta,      \* swing size of the benchmark
  Period,     \* period of the indicators
  BarMax,     \* max_operations_per_bar
  RunMax,     \* max_operations_per_run
  MaxKeys,    \* MAX_INDICATOR_KEYS_PER_RUN
  Parts       \* segments of the evaluation, 6 in the code

\* A bar of the market: is_valid_pair drops every other one.
IsShape(shape) ==
  /\ shape \in [open : Int, high : Int, low : Int, close : Int]
  /\ {shape.open, shape.close} \subseteq shape.low .. shape.high

\* Options are validated when they are loaded; a script may ask for anything.
ASSUME EngineAssumption ==
  /\ \A shape \in Shapes : IsShape(shape)
  /\ {MaxBars, MaxTime, BarMax, RunMax, MaxKeys} \cup Warmups \subseteq Nat
  /\ {StopOffset, Theta, Period, Parts} \subseteq Nat \ {0}
  /\ \A call \in Calls :
       /\ call.ops \in Nat /\ call.catches \in BOOLEAN /\ call.result \in Int
       /\ call.keys \in Seq({call.keys[i] : i \in DOMAIN call.keys})

VARIABLES
  phase,   \* "load", "rejected", "bars", "script_error", "fatal", "ok"
  bars,    \* sim_candles, then the window of the dataset
  offset,  \* eval_start
  trades, positions, position, entryPrice, entryIdx, pending,
  ops,     \* run_total_ops
  keys,    \* requested_keys
  metrics  \* result of evaluate

runVars == <<trades, positions, position, entryPrice, entryIdx, pending>>
budgetVars == <<ops, keys>>
vars == <<phase, bars, offset, runVars, budgetVars, metrics>>

NoSignal == 2
Fatal == 3 \* result of a call whose dataset failed
NoMetrics == <<>>
Eval == SubSeq(bars, offset + 1, Len(bars))

Init ==
  /\ phase = "load" /\ bars = <<>> /\ offset = 0
  /\ trades = <<>> /\ positions = <<>>
  /\ position = 0 /\ entryPrice = 0 /\ entryIdx = 0 /\ pending = NoSignal
  /\ ops = 0 /\ keys = {} /\ metrics = NoMetrics

\* load_bars returns the stored bars by open time; bars may be missing.
LoadBar(time, shape) ==
  /\ phase = "load" /\ Len(bars) < MaxBars
  /\ bars # <<>> => Last(bars).time < time
  /\ bars' = Append(bars, [time |-> time, open |-> shape.open, high |-> shape.high,
                           low |-> shape.low, close |-> shape.close])
  /\ UNCHANGED <<phase, offset, runVars, budgetVars, metrics>>

\* resolve_period and Dataset::new; an error ends the command.
NewDataset(from, to, warmup) ==
  /\ phase = "load"
  /\ LET period == ResolvePeriod(bars, from, to, warmup)
         window == IF period = <<>> THEN <<>> ELSE DatasetOf(bars, period[1], period[2], warmup)
     IN  IF window = <<>>
         THEN phase' = "rejected" /\ UNCHANGED <<bars, offset>>
         ELSE phase' = "bars" /\ bars' = window /\ offset' = warmup
  /\ UNCHANGED <<runVars, budgetVars, metrics>>
-----------------------------------------------------------------------------
(* simulate: the position and the trades as a bar is worked off            *)

PnlMilli(direction, entry, exit) == IF direction = 1 THEN exit - entry ELSE entry - exit

ClosedTrade(book, t, exit, reason) ==
  [direction |-> book.position, entryIdx |-> book.entryIdx, exitIdx |-> t,
   entry |-> book.entryPrice, exit |-> exit,
   pnl |-> PnlMilli(book.position, book.entryPrice, exit), reason |-> reason]

ClosingPrice(direction, bid) == IF direction = 1 THEN bid ELSE Ask(bid)
OpeningPrice(direction, bid) == IF direction = 1 THEN Ask(bid) ELSE bid

\* apply_signal_pending_from_previous_bar
ApplySignal(book, signal, t, bar) ==
  LET out == IF book.position = 0 THEN book.trades
             ELSE Append(book.trades,
                         ClosedTrade(book, t, ClosingPrice(book.position, bar.open), "signal"))
  IN  IF signal \in {NoSignal, book.position} THEN book
      ELSE IF signal = 0 THEN [book EXCEPT !.trades = out, !.position = 0]
      ELSE [trades |-> out, position |-> signal, entryIdx |-> t,
            entryPrice |-> OpeningPrice(signal, bar.open)]

\* Mutant: the stop is always filled at its price.
StopFillAtPrice(direction, stop, bar) == stop

\* A bar that opens beyond the stop fills at its open.
StopFill(direction, stop, bar) ==
  IF direction = 1 THEN SmallerOf(stop, bar.open) ELSE LargerOf(stop, Ask(bar.open))

\* apply_protective_stop_which_can_trigger_on_the_entry_bar
ApplyStop(book, t, bar) ==
  LET stop == book.entryPrice - book.position * StopOffset
      hit == \/ book.position = 1 /\ bar.low <= stop
             \/ book.position = -1 /\ Ask(bar.high) >= stop
  IN  IF ~hit THEN book
      ELSE [book EXCEPT !.position = 0,
              !.trades = Append(@, ClosedTrade(book, t, StopFill(book.position, stop, bar), "stop"))]

\* close_at_period_end
CloseAtPeriodEnd(book, t, bar) ==
  IF book.position = 0 THEN book
  ELSE [book EXCEPT !.position = 0,
          !.trades = Append(@, ClosedTrade(book, t, ClosingPrice(book.position, bar.close), "end"))]

\* check_progress stops a call with the first operation over a limit.
Limit == SmallerOf(BarMax, RunMax - ops)
Executed(wanted) == SmallerOf(wanted, Limit + 1)

\* Mutant: the total is replaced by the operations of the call.
TotalOfCall(executed) == executed

\* take_last_call_ops is added to the total of the run.
TotalOps(executed) == ops + executed

\* track_key for the keys a call asks for, in order: a known one is free, a
\* new one needs room.
KeysTracked(call) ==
  FoldLeft(LAMBDA known, k : IF k \notin known /\ Cardinality(known) >= MaxKeys THEN known
                             ELSE known \cup {k}, keys, call.keys)
KeyRefused(call) == \E i \in DOMAIN call.keys : call.keys[i] \notin KeysTracked(call)

\* on_bar: a limit, a refused key that the script does not catch or another
\* value is a script error; an error of the dataset is fatal.
Verdict(call) ==
  IF Executed(call.ops) > Limit \/ (KeyRefused(call) /\ ~call.catches) THEN "script_error"
  ELSE IF call.result = Fatal THEN "fatal"
  ELSE IF call.result \in -1..1 THEN "ok" ELSE "script_error"
-----------------------------------------------------------------------------
(* evaluate                                                                *)

Sum(seq) == FoldLeft(+, 0, seq)
Pnls(ts) == [i \in DOMAIN ts |-> ts[i].pnl]

\* max_drawdown
EquityStep(m, trade) ==
  LET cum == m.cum + trade.pnl
      peak == LargerOf(m.peak, cum)
  IN  [cum |-> cum, peak |-> peak, dd |-> LargerOf(m.dd, peak - cum)]
MaxDrawdown(ts) == FoldLeft(EquityStep, [cum |-> 0, peak |-> 0, dd |-> 0], ts).dd

\* Mutant: an exit in the remainder belongs to no segment.
SegmentIndexEven(n, exitIdx) ==
  LET over == {i \in 1..Parts : exitIdx <= i * (n \div Parts)}
  IN  IF over = {} THEN 0 ELSE Min(over)

\* segment_index: the last segment takes the remainder.
SegmentIndex(n, exitIdx) ==
  LET over == {i \in 1..Parts - 1 : exitIdx <= i * (n \div Parts)}
  IN  IF over = {} THEN Parts ELSE Min(over)

\* compute_segments
Segments(n, ts) ==
  FoldLeft(LAMBDA s, trade : [s EXCEPT ![SegmentIndex(n, trade.exitIdx)] = @ + trade.pnl],
           [i \in 1..Parts |-> 0], ts)

\* evaluate_leg
EvaluateLeg(leg, pos) ==
  LET held(p) == {t \in leg.a + 1 .. SmallerOf(leg.b, Len(pos)) : pos[t] = p}
  IN  [matched |-> Cardinality(held(leg.direction)), flat |-> Cardinality(held(0)),
       opposite |-> Cardinality(held(-leg.direction)), total |-> leg.b - leg.a,
       lag |-> IF held(leg.direction) = {} THEN None ELSE Min(held(leg.direction)) - (leg.a + 1)]

\* theta_metrics: bars on the correct side, and the legs held for less than half.
ThetaMetrics(pos, bm) ==
  LET evals == [i \in DOMAIN bm.legs |-> EvaluateLeg(bm.legs[i], pos)]
      labeled == {t \in DOMAIN bm.labels : bm.labels[t] # 0}
  IN  [evals |-> evals, labeled |-> Cardinality(labeled),
       matched |-> Cardinality({t \in labeled : pos[t] = bm.labels[t]}),
       missed |-> {i \in DOMAIN evals : evals[i].matched * 2 < evals[i].total}]

Evaluate(ts, pos) ==
  [total |-> Sum(Pnls(ts)), drawdown |-> MaxDrawdown(ts), segments |-> Segments(Len(Eval), ts),
   inMarket |-> Cardinality({t \in DOMAIN pos : pos[t] # 0}),
   theta |-> ThetaMetrics(pos, Benchmark(Eval, Theta))]
-----------------------------------------------------------------------------
\* The signal of the last bar is dropped.
PendingAfter(t, signal) == IF t < Len(Eval) THEN signal ELSE NoSignal

\* One turn of the loop of simulate, and after the last bar the end of the
\* period and, in run_one, the evaluation.
OnBar(call) ==
  /\ phase = "bars"
  /\ LET t == Len(positions) + 1
         bar == Eval[t]
         before == [trades |-> trades, position |-> position,
                    entryPrice |-> entryPrice, entryIdx |-> entryIdx]
         after == ApplyStop(ApplySignal(before, pending, t, bar), t, bar)
         ended == Verdict(call) = "ok" /\ t = Len(Eval)
         book == IF ended THEN CloseAtPeriodEnd(after, t, bar) ELSE after
     IN  /\ trades' = book.trades /\ position' = book.position
         /\ entryPrice' = book.entryPrice /\ entryIdx' = book.entryIdx
         /\ positions' = Append(positions, after.position)
         /\ pending' = IF Verdict(call) = "ok" THEN PendingAfter(t, call.result) ELSE pending
         /\ phase' = IF Verdict(call) = "ok" /\ ~ended THEN "bars" ELSE Verdict(call)
         /\ metrics' = IF ended THEN Evaluate(trades', positions') ELSE NoMetrics
  /\ ops' = TotalOps(Executed(call.ops))
  /\ keys' = KeysTracked(call)
  /\ UNCHANGED <<bars, offset>>

Days == 0..MaxTime \div Day

Next ==
  \/ \E time \in 0..MaxTime, shape \in Shapes : LoadBar(time, shape)
  \/ \E from, to \in Days \cup {None}, w \in Warmups : NewDataset(from, to, w)
  \/ \E call \in Calls : OnBar(call)

Spec == Init /\ [][Next]_vars
-----------------------------------------------------------------------------
\* The buckets that have ended with bar t, and the bars of the k-th of them.
EndedWith(tf, t) ==
  {bars[i].time \div tf : i \in {j \in 1..t : (bars[j].time \div tf + 1) * tf <= bars[t].time + 1}}
NthOf(set, k) == CHOOSE x \in set : Cardinality({y \in set : y < x}) = k - 1
BarsIn(tf, t, k) ==
  LET bucket == NthOf(EndedWith(tf, t), k)
  IN  {i \in 1..t : bars[i].time \div tf = bucket}

\* The close of the k-th bucket, and what it has gained and lost.
CloseIn(tf, t, k) == Mid2(bars[Max(BarsIn(tf, t, k))].close)
Gained(tf, t, k) == LargerOf(CloseIn(tf, t, k) - CloseIn(tf, t, k - 1), 0)
Lost(tf, t, k) == LargerOf(CloseIn(tf, t, k - 1) - CloseIn(tf, t, k), 0)

\* What a script can read at bar t, in any timeframe, is made of bars that have
\* ended with bar t: a series computed over the whole dataset, partial buckets
\* and gaps included, and indicators with rolling sums and deques answer what
\* the last Period ended buckets, recomputed from their own bars, give.
AnswersFromThePast ==
  phase = "bars" /\ positions = <<>> =>
    \A tf \in Frames, t \in DOMAIN bars, shift \in 0..1 :
      LET last == Cardinality(EndedWith(tf, t)) - shift
          window == last - Period + 1 .. last
          read == BarsIn(tf, t, last)
          all == UNION {BarsIn(tf, t, k) : k \in window}
          answer == Answer(bars, tf, t, shift, Period)
      IN  IF last < 1 THEN answer = <<>>
          ELSE /\ answer[1].open = Mid2(bars[Min(read)].open)
               /\ answer[1].close = Mid2(bars[Max(read)].close)
               /\ answer[1].high = Max({Mid2(bars[i].high) : i \in read})
               /\ answer[1].low = Min({Mid2(bars[i].low) : i \in read})
               /\ answer[2] = IF last < Period THEN None
                              ELSE SumFunction([k \in window |-> CloseIn(tf, t, k)])
               /\ answer[3] = IF last < Period + 1 THEN <<None, None>>
                              ELSE <<SumFunction([k \in window |-> Gained(tf, t, k)]),
                                     SumFunction([k \in window |-> Lost(tf, t, k)])>>
               /\ answer[4] = IF last < Period THEN <<None, None>>
                              ELSE <<Min({Mid2(bars[i].low) : i \in all}),
                                     Max({Mid2(bars[i].high) : i \in all})>>

\* The closed trades are disjoint in time and explain the position of every bar;
\* every fill is at a price its bar traded at; a trade is closed by the stop in
\* the first of its bars that reaches the stop, and never for less than its loss.
TradesExplainPositions ==
  LET open == IF position = 0 \/ phase \notin {"bars", "script_error", "fatal"} THEN {}
              ELSE {[direction |-> position, entryIdx |-> entryIdx, exitIdx |-> Len(Eval) + 1]}
      spans == {[direction |-> trades[i].direction, entryIdx |-> trades[i].entryIdx,
                 exitIdx |-> trades[i].exitIdx + (IF trades[i].reason = "end" THEN 1 ELSE 0)]
                  : i \in DOMAIN trades} \cup open
      side(direction, bid) == IF direction = 1 THEN bid ELSE Ask(bid)
      reaches(trade, t) ==
        IF trade.direction = 1 THEN Eval[t].low <= trade.entry - StopOffset
        ELSE Ask(Eval[t].high) >= trade.entry + StopOffset
  IN  /\ \A i \in DOMAIN trades \ {1} : trades[i - 1].exitIdx <= trades[i].entryIdx
      /\ \A t \in DOMAIN positions :
           LET over == {s \in spans : s.entryIdx <= t /\ t < s.exitIdx}
           IN  IF over = {} THEN positions[t] = 0
               ELSE \A s \in over : positions[t] = s.direction
      /\ \A i \in DOMAIN trades :
           LET trade == trades[i]
               bar == Eval[trade.exitIdx]
           IN  /\ trade.exit \in side(trade.direction, bar.low) .. side(trade.direction, bar.high)
               /\ \A t \in trade.entryIdx .. trade.exitIdx - 1 : ~reaches(trade, t)
               /\ trade.reason = "stop" => reaches(trade, trade.exitIdx) /\ trade.pnl <= -StopOffset
               /\ trade.reason = "end" => ~reaches(trade, trade.exitIdx)

\* What a field of the evaluated legs adds up to.
TotalOf(evals, field) == FoldLeft(LAMBDA s, e : s + e[field], 0, evals)

\* An evaluated run has a position for every bar; its segments add up to the
\* total, its drawdown is the largest fall between two trades, and the bars of
\* the legs add up to the labelled bars.
MetricsAddUp ==
  phase = "ok" =>
    LET cum(i) == Sum(Pnls(SubSeq(trades, 1, i)))
        th == metrics.theta
    IN  /\ Len(positions) = Len(Eval)
        /\ Sum(metrics.segments) = metrics.total
        /\ metrics.drawdown = Max({cum(p[1]) - cum(p[2]) : p \in
                                     {q \in (0..Len(trades)) \X (0..Len(trades)) : q[1] <= q[2]}})
        /\ \A i \in DOMAIN th.evals : LET e == th.evals[i] IN e.matched + e.flat + e.opposite = e.total
        /\ TotalOf(th.evals, "total") = th.labeled /\ TotalOf(th.evals, "matched") = th.matched

\* The legs of the benchmark alternate and follow one another; each is a move of
\* at least Theta from its first bar to the first bar of its extreme, with no
\* counter-move of Theta inside.
LegsAreSwings ==
  phase = "bars" /\ positions = <<>> =>
    LET legs == Benchmark(Eval, Theta).legs
        level(leg, t) == leg.direction * Mid2(Eval[t].close)
    IN  \A i \in DOMAIN legs :
          LET leg == legs[i] IN
          /\ leg.a < leg.b /\ leg.b < Len(Eval)
          /\ level(leg, leg.b) - level(leg, leg.a) >= Theta
          /\ \A t \in leg.a .. leg.b - 1 : level(leg, t) < level(leg, leg.b)
          /\ \A t \in leg.a + 1 .. leg.b : level(leg, t) >= level(leg, leg.a)
          /\ \A s, t \in leg.a .. leg.b : s < t => level(leg, s) - level(leg, t) < Theta
          /\ i > 1 => legs[i - 1].b = leg.a /\ legs[i - 1].direction = -leg.direction

\* What a run reports is what its bars and trades say: the metrics add up, and
\* they are measured against legs that are real swings of the price
\* (eval.rs, benchmark.rs).
ReportAddsUp == MetricsAddUp /\ LegsAreSwings

\* The operations of a run are limited however they are spread over the bars,
\* and so are its indicators: with calls that cost at least one operation no run
\* goes on for more than RunMax bars.
RunIsBounded ==
  /\ Cardinality(keys) <= MaxKeys
  /\ (\A c \in Calls : c.ops > 0) /\ phase \in {"bars", "ok"} => Len(positions) <= RunMax
=============================================================================
