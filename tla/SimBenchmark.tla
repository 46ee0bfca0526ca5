---------------------------- MODULE SimBenchmark ----------------------------
(***************************************************************************)
(* The benchmark a run is compared with: turning points of the closes for  *)
(* a swing size theta, and the legs between successive turning points.     *)
(***************************************************************************)
EXTENDS SimSeries

\* strictly_exceeds_so_ties_keep_earlier_position
Exceeds(v, extreme, up) == IF up THEN v > extreme ELSE v < extreme

\* A turn at pos ends a wave; bar t is the extreme of the next one so far.
Turned(s, t, pos, kind, dir) ==
  [dir |-> dir, hi |-> s.hi, lo |-> s.lo, pos |-> t,
   turns |-> Append(s.turns, [pos |-> pos, kind |-> kind])]

\* Before the first turn both extremes are followed.
Seek(closes, theta, s, t) ==
  LET v == closes[t]
      hi == IF Exceeds(v, closes[s.hi], TRUE) THEN t ELSE s.hi
      lo == IF Exceeds(v, closes[s.lo], FALSE) THEN t ELSE s.lo
      n == [s EXCEPT !.hi = hi, !.lo = lo]
  IN  IF v - closes[lo] >= theta THEN Turned(n, t, lo, "low", "up")
      ELSE IF closes[hi] - v >= theta THEN Turned(n, t, hi, "high", "down") ELSE n

\* Then the extreme of the wave, until the price is theta away from it.
Follow(closes, theta, s, t) ==
  LET up == s.dir = "up"
      back == IF up THEN closes[s.pos] - closes[t] ELSE closes[t] - closes[s.pos]
  IN  IF Exceeds(closes[t], closes[s.pos], up) THEN [s EXCEPT !.pos = t]
      ELSE IF back < theta THEN s
      ELSE IF up THEN Turned(s, t, s.pos, "high", "down") ELSE Turned(s, t, s.pos, "low", "up")

TurnStep(closes, theta, s, t) ==
  IF s.dir = "none" THEN Seek(closes, theta, s, t) ELSE Follow(closes, theta, s, t)

\* extract_turns: one pass over the closes.
Closes(candles) == [t \in DOMAIN candles |-> Mid2(candles[t].close)]
NoTurns == [dir |-> "none", hi |-> 1, lo |-> 1, pos |-> 1, turns |-> <<>>]
ExtractTurns(candles, theta) ==
  LET closes == Closes(candles)
  IN  FoldLeft(LAMBDA s, t : TurnStep(closes, theta, s, t), NoTurns,
               [k \in 1..Len(candles) - 1 |-> k + 1]).turns

LegOf(candles, start, end) ==
  LET a == start.pos
      b == end.pos
  IN  IF start.kind = "low"
      THEN [a |-> a, b |-> b, direction |-> 1,
            ideal |-> candles[b].close - Ask(candles[a].close),
            realizable |-> candles[b + 1].open - Ask(candles[a + 1].open)]
      ELSE [a |-> a, b |-> b, direction |-> -1,
            ideal |-> candles[a].close - Ask(candles[b].close),
            realizable |-> candles[a + 1].open - Ask(candles[b + 1].open)]

\* build_legs: a leg per pair of turns whose bar b + 1 exists.
BuildLegs(candles, turns) ==
  FoldLeft(LAMBDA legs, k : IF turns[k + 1].pos < Len(candles)
                            THEN Append(legs, LegOf(candles, turns[k], turns[k + 1])) ELSE legs,
           <<>>, [k \in 1..Len(turns) - 1 |-> k])

\* Label of a bar: the direction of the leg it lies in, 0 for none.
Label(legs, t) ==
  LET in == {i \in DOMAIN legs : t \in legs[i].a + 1 .. legs[i].b}
  IN  IF in = {} THEN 0 ELSE legs[Max(in)].direction

\* compute
Benchmark(bars, theta) ==
  LET legs == BuildLegs(bars, ExtractTurns(bars, theta))
  IN  [legs |-> legs, labels |-> [t \in DOMAIN bars |-> Label(legs, t)],
       ideal |-> FoldLeft(LAMBDA s, l : s + l.ideal, 0, legs),
       realizable |-> FoldLeft(LAMBDA s, l : s + l.realizable, 0, legs)]
=============================================================================
