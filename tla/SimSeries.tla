----------------------------- MODULE SimSeries -----------------------------
(***************************************************************************)
(* The data of a simulator run: the bars of the evaluation period with     *)
(* their warm-up, the bars aggregated to longer timeframes, what a script  *)
(* may read of them at a bar, and the indicators computed with rolling     *)
(* state.  Times are counted in M5 bars, prices are bid prices and the ask *)
(* is a fixed spread above.  Sequences start at 1: index t stands for the  *)
(* code's t - 1.                                                           *)
(***************************************************************************)
EXTENDS Integers, Sequences, FiniteSets, SequencesExt, FiniteSetsExt

CONSTANTS
  Frames,  \* lengths of the timeframes M5, M15, H1 and H4, in M5 bars
  Day,     \* M5 bars of a day
  Spread   \* ask minus bid

ASSUME SeriesAssumption == Day \in Nat \ {0} /\ Frames \subseteq Nat \ {0} /\ Spread \in Nat

None == -1
Ask(bid) == bid + Spread
Mid2(bid) == bid + Ask(bid)
LargerOf(a, b) == IF a > b THEN a ELSE b
SmallerOf(a, b) == IF a < b THEN a ELSE b

\* aggregate: consecutive bars of the same bucket become one bar.
BarOf(tf, bar) ==
  [open |-> Mid2(bar.open), high |-> Mid2(bar.high), low |-> Mid2(bar.low),
   close |-> Mid2(bar.close), end |-> (bar.time \div tf + 1) * tf]
Merged(last, new) ==
  [open |-> last.open, high |-> LargerOf(new.high, last.high), low |-> SmallerOf(new.low, last.low),
   close |-> new.close, end |-> last.end]
AggregateStep(tf, series, bar) ==
  LET new == BarOf(tf, bar)
  IN  IF series # <<>> /\ Last(series).end = new.end
      THEN [series EXCEPT ![Len(series)] = Merged(Last(series), new)]
      ELSE Append(series, new)
Aggregate(candles, tf) ==
  FoldLeft(LAMBDA series, bar : AggregateStep(tf, series, bar), <<>>, candles)

\* Mutant: the bucket counts one bar before its end.
BucketEndsNext(end, openTime) == end <= openTime + 2

\* bucket_end_time_has_arrived_independent_of_any_later_bar
BucketEnded(end, openTime) == end <= openTime + 1

\* completed_counts: aggregated bars that have ended with bar t.
Completed(bars, tf, t) ==
  LET series == Aggregate(bars, tf)
  IN  Cardinality({i \in DOMAIN series : BucketEnded(series[i].end, bars[t].time)})

\* resolve_index: position in the series, 0 when the script gets ().
ResolveIndex(bars, tf, t, shift) ==
  LET completed == Completed(bars, tf, t)
  IN  IF shift >= completed THEN 0 ELSE completed - shift
-----------------------------------------------------------------------------
(* Indicators: None stands for NaN.                                        *)

\* sma_series, as the sum of the window: the sum is carried from bar to bar.
SmaStep(closes, period, acc, i) ==
  LET sum == acc.sum + closes[i] - (IF i > period THEN closes[i - period] ELSE 0)
  IN  [sum |-> sum, out |-> Append(acc.out, IF i >= period THEN sum ELSE None)]
SmaSums(closes, period) ==
  FoldLeft(LAMBDA acc, i : SmaStep(closes, period, acc, i), [sum |-> 0, out |-> <<>>],
           [i \in DOMAIN closes |-> i]).out

\* rsi_series, as the pair of the sums of gains and of losses.
Gain(closes, k) == IF closes[k + 1] > closes[k] THEN closes[k + 1] - closes[k] ELSE 0
Loss(closes, k) == IF closes[k + 1] > closes[k] THEN 0 ELSE closes[k] - closes[k + 1]
RsiStep(closes, period, acc, k) ==
  LET old == k - period
      g == acc.gain + Gain(closes, k) - (IF old > 0 THEN Gain(closes, old) ELSE 0)
      l == acc.loss + Loss(closes, k) - (IF old > 0 THEN Loss(closes, old) ELSE 0)
  IN  [gain |-> g, loss |-> l,
       out |-> Append(acc.out, IF k >= period THEN <<g, l>> ELSE <<None, None>>)]
RsiSums(closes, period) ==
  IF Len(closes) < period + 1 THEN [i \in DOMAIN closes |-> <<None, None>>]
  ELSE FoldLeft(LAMBDA acc, k : RsiStep(closes, period, acc, k),
                [gain |-> 0, loss |-> 0, out |-> <<<<None, None>>>>],
                [k \in 1..Len(closes) - 1 |-> k]).out

\* The index at the front of a deque has left the window.
Expired(front, period, i) == front + period <= i

\* A deque keeps the candidates for an extreme of the window: those that i
\* beats leave at the back, those that are too old at the front.
Push(deque, i, period, beaten) ==
  LET kept == SubSeq(deque, 1, Max({0} \cup {k \in DOMAIN deque : deque[k] \notin beaten}))
      pushed == Append(kept, i)
  IN  SubSeq(pushed, Min({k \in DOMAIN pushed : ~Expired(pushed[k], period, i)}), Len(pushed))

\* donchian_series, with one deque for the highs and one for the lows.
DonchianStep(highs, lows, period, acc, i) ==
  LET maxDq == Push(acc.maxDq, i, period, {j \in DOMAIN highs : highs[j] <= highs[i]})
      minDq == Push(acc.minDq, i, period, {j \in DOMAIN lows : lows[j] >= lows[i]})
  IN  [maxDq |-> maxDq, minDq |-> minDq,
       out |-> Append(acc.out, IF i >= period THEN <<lows[Head(minDq)], highs[Head(maxDq)]>>
                               ELSE <<None, None>>)]
Donchian(highs, lows, period) ==
  FoldLeft(LAMBDA acc, i : DonchianStep(highs, lows, period, acc, i),
           [maxDq |-> <<>>, minDq |-> <<>>, out |-> <<>>], [i \in DOMAIN highs |-> i]).out

\* compute: the indicators over a whole aggregated series.
Compute(series, period) ==
  LET closes == [i \in DOMAIN series |-> series[i].close]
      highs == [i \in DOMAIN series |-> series[i].high]
      lows == [i \in DOMAIN series |-> series[i].low]
  IN  [sma |-> SmaSums(closes, period), rsi |-> RsiSums(closes, period),
       donchian |-> Donchian(highs, lows, period)]

\* What ohlc, single_indicator and channel_indicator answer at bar t.
Answer(bars, tf, t, shift, period) ==
  LET i == ResolveIndex(bars, tf, t, shift)
      series == Aggregate(bars, tf)
      computed == Compute(series, period)
  IN  IF i = 0 THEN <<>>
      ELSE <<[open |-> series[i].open, high |-> series[i].high, low |-> series[i].low,
              close |-> series[i].close],
             computed.sma[i], computed.rsi[i], computed.donchian[i]>>
-----------------------------------------------------------------------------
(* Evaluation period                                                       *)

\* earliest_from
EarliestFrom(all, warmup) ==
  IF warmup = 0 THEN (Head(all).time \div Day) * Day
  ELSE IF Len(all) < warmup THEN None ELSE (all[warmup].time \div Day + 1) * Day

\* resolve_period: missing dates are filled in; <<>> is an error.
ResolvePeriod(all, from, to, warmup) ==
  IF all = <<>> THEN <<>>
  ELSE LET f == IF from = None THEN EarliestFrom(all, warmup) ELSE from * Day
           e == IF to = None THEN (Last(all).time \div Day + 1) * Day ELSE to * Day
       IN  IF f = None \/ f >= e THEN <<>> ELSE <<f, e>>

\* Dataset::new: the bars of [from, to) and the warm-up before; <<>> is an error.
DatasetOf(all, from, to, warmup) ==
  LET start == Cardinality({i \in DOMAIN all : all[i].time < from})
      end == Cardinality({i \in DOMAIN all : all[i].time < to})
  IN  IF end <= start \/ start < warmup THEN <<>>
      ELSE SubSeq(all, start - warmup + 1, end)
=============================================================================
