----------------------------- MODULE FxStrategy -----------------------------
(***************************************************************************)
(* The strategy FxNewV1 on one pair: it builds M15 bars from the M5        *)
(* candles it is given, enters on a breakout of the channel of the bars,   *)
(* and leaves a position, once the price was one risk unit in profit, when *)
(* a candle closes beyond the channel.  M5 candles may be missing, late,   *)
(* given twice (see CandleFeed), and a restart rebuilds the bars from the  *)
(* stored candles.                                                         *)
(*                                                                         *)
(* Time counts M5 periods.  The filters that need decimals, the volatility *)
(* against its baseline and the trend of the H1 averages, may say either.  *)
(***************************************************************************)
EXTENDS Integers, Sequences, FiniteSets, FiniteSetsExt

CONSTANTS
  PerBar,        \* M5 candles of an M15 bar, 3 in the code
  EntryChannel,  \* bars of the entry channel, ENTRY_CHANNEL
  ExitChannel,   \* bars of the exit channel, EXIT_CHANNEL
  HistoryLen,    \* bars that are kept, HISTORY_LEN
  CandleShapes,  \* candles the market can make: [high, low, close]
  StopDistance,  \* distance of the stop loss
  MaxCandles,    \* bound: M5 periods
  MaxAgain       \* bound: late candles and restarts

ASSUME FxAssumption ==
  /\ {PerBar, EntryChannel, ExitChannel, HistoryLen, StopDistance} \subseteq Nat \ {0}
  /\ PerBar > 1
  /\ EntryChannel < HistoryLen /\ ExitChannel <= HistoryLen
  /\ {MaxCandles, MaxAgain} \subseteq Nat
  /\ CandleShapes \subseteq [high : Int, low : Int, close : Int]

NoPosition == [direction |-> "none"]

VARIABLES
  m5,        \* the M5 period that comes next
  m5Pending, \* candles of the bar that is being built
  m15,       \* bars, oldest first: their start and their candles
  stored,    \* database: M5 candles, one for each period
  held,      \* open position of the strategy
  exit,      \* the last exit: position, candle and channel it was taken on
  late,      \* history: "yes" if a candle was late since the last start, "before" if
             \* before that only, "no" if never
  again      \* late candles and restarts so far

fxVars == <<m5, m5Pending, m15, stored, held, exit, late, again>>

Bucket(t) == t - (t % PerBar)
High(b) == Max({c.high : c \in b.candles})
Low(b) == Min({c.low : c \in b.candles})
Close(b) == (CHOOSE c \in b.candles : \A d \in b.candles : d.t <= c.t).close
BarEnd(b) == b.t + PerBar
BarsOf(s) == {s[i] : i \in 1..Len(s)}

FxInit ==
  /\ m5 = 0 /\ m5Pending = {} /\ m15 = <<>> /\ stored = {}
  /\ held = NoPosition /\ exit = NoPosition /\ late = "no" /\ again = 0

-----------------------------------------------------------------------------
\* Mutant: what is left of an unfinished bar is kept for the next one.
KeptPending(pending, c) == pending

(* The first candle of another bar discards what was pending.              *)
FreshPending(pending, c) ==
  IF \E d \in pending : Bucket(d.t) # Bucket(c.t) THEN {} ELSE pending

(* aggregate_m15: a second candle of a period is ignored, the last missing *)
(* one completes the bar.                                                  *)
AggregateM15(pending, c) ==
  LET fresh == FreshPending(pending, c)
      all == IF \E d \in fresh : d.t = c.t THEN fresh ELSE fresh \cup {c}
  IN  IF all # fresh /\ Cardinality(all) = PerBar
      THEN [pending |-> {}, bars |-> <<[t |-> Bucket(c.t), candles |-> all]>>]
      ELSE [pending |-> all, bars |-> <<>>]

(* push_limited.                                                           *)
PushLimited(s, bs) ==
  LET r == s \o bs IN SubSeq(r, Max({1, Len(r) - HistoryLen + 1}), Len(r))

(* donchian_channel over the last n of s.                                  *)
ChannelBars(s, n) == BarsOf(SubSeq(s, Len(s) - n + 1, Len(s)))
Lowest(bs) == Min({Low(b) : b \in bs})
Highest(bs) == Max({High(b) : b \in bs})

(* on_price with a new bar: a breakout of the channel before it, in the    *)
(* direction of the trend, if the volatility is high enough.               *)
EntrySignals(s) ==
  IF Len(s) <= EntryChannel THEN {}
  ELSE LET before == ChannelBars(SubSeq(s, 1, Len(s) - 1), EntryChannel)
           close == Close(s[Len(s)])
       IN  {d \in {"Long", "Short"} :
              IF d = "Long" THEN close > Highest(before) ELSE close < Lowest(before)}

(* The executor opens the position, at the close of the bar or a little    *)
(* later (OpenProtocol).                                                   *)
Opened(direction, price, at) ==
  [direction |-> direction, entry |-> price, at |-> at,
   stop |-> IF direction = "Long" THEN price - StopDistance ELSE price + StopDistance]

Touches(p, high, low) ==
  LET oneR == p.entry - p.stop
  IN  IF p.direction = "Long" THEN high >= p.entry + oneR ELSE low <= p.entry + oneR

(* reached_one_r: a bar that ended after the entry, or the current candle. *)
ReachedOneR(p, s, c) ==
  \/ \E b \in BarsOf(s) : BarEnd(b) > p.at /\ Touches(p, High(b), Low(b))
  \/ Touches(p, c.high, c.low)

(* Where in s the bars are that had ended when the candle began, and the   *)
(* last n of the bars at these places.                                     *)
EndedBars(s, c) == {i \in 1..Len(s) : BarEnd(s[i]) <= c.t}
LastBars(s, places, n) ==
  {s[i] : i \in {j \in places : Cardinality({k \in places : k > j}) < n}}

(* on_open_positions, with the positions the database has when the candle  *)
(* comes in, at the end of its period or later.                            *)
ExitsOn(p, s, c) ==
  LET ended == EndedBars(s, c)
      channel == LastBars(s, ended, ExitChannel)
  IN  /\ p # NoPosition /\ p.at <= m5' /\ Cardinality(ended) >= ExitChannel
      /\ ReachedOneR(p, s, c)
      /\ IF p.direction = "Long" THEN c.close < Lowest(channel) ELSE c.close > Highest(channel)

(* on_price_with_positions: first the bar and the signal, then the exits,  *)
(* for the position that was open before the event.                        *)
OnEvent(c) ==
  LET r == AggregateM15(m5Pending, c)
      s == PushLimited(m15, r.bars)
  IN  /\ m5Pending' = r.pending /\ m15' = s
      /\ stored' = {d \in stored : d.t # c.t} \cup {c}
      /\ \/ /\ ExitsOn(held, s, c)
            /\ held' = NoPosition
            /\ exit' = [direction |-> held.direction, position |-> held, candle |-> c,
                        channel |-> LastBars(s, EndedBars(s, c), ExitChannel)]
         \/ /\ ~ExitsOn(held, s, c)
            /\ UNCHANGED exit
            /\ \/ UNCHANGED held
               \/ /\ held = NoPosition /\ r.bars # <<>>
                  /\ \E d \in EntrySignals(s), wait \in 0..1 :
                       held' = Opened(d, Close(r.bars[1]), m5' + wait)

CandleOf(t, shape) == [t |-> t, high |-> shape.high, low |-> shape.low, close |-> shape.close]

NextCandle ==
  /\ m5 < MaxCandles /\ m5' = m5 + 1
  /\ \E h \in CandleShapes : OnEvent(CandleOf(m5, h))
  /\ UNCHANGED <<late, again>>

\* Nothing came in a period.
NoCandleInPeriod ==
  /\ m5 < MaxCandles /\ m5' = m5 + 1
  /\ UNCHANGED <<m5Pending, m15, stored, held, exit, late, again>>

\* A late tick makes the feed send a candle of an earlier period (CandleFeed).
LateCandle ==
  /\ again < MaxAgain /\ again' = again + 1
  /\ late' = "yes" /\ UNCHANGED m5
  /\ \E t \in 0..(m5 - 1), h \in CandleShapes : OnEvent(CandleOf(t, h))

(* A restart: warmup takes the stored candles in the order of time.        *)
WithStored(before, found) ==
  IF found = {} THEN before
  ELSE LET r == AggregateM15(before.pending, CHOOSE c \in found : TRUE)
       IN  [pending |-> r.pending, bars |-> PushLimited(before.bars, r.bars)]
WarmedUp[n \in 0..MaxCandles] ==
  IF n = 0 THEN [pending |-> {}, bars |-> <<>>]
  ELSE WithStored(WarmedUp[n - 1], {c \in stored : c.t = n - 1})

FxRestart ==
  /\ again < MaxAgain /\ again' = again + 1
  /\ m5Pending' = WarmedUp[m5].pending /\ m15' = WarmedUp[m5].bars
  /\ late' = (IF late = "no" THEN "no" ELSE "before")
  /\ UNCHANGED <<m5, stored, held, exit>>

FxNext == NextCandle \/ NoCandleInPeriod \/ LateCandle \/ FxRestart

FxSpec == FxInit /\ [][FxNext]_fxVars

-----------------------------------------------------------------------------
(* Properties.                                                             *)

(* Whatever is missing, late or repeated, a bar consists of all the M5     *)
(* candles of its own 15 minutes, and as long as none was late since the   *)
(* last start the bars are in the order of time, each one once, also those *)
(* that a restart made from the stored candles (aggregate_m15, warmup).    *)
BarsAreWhole ==
  /\ \A b \in BarsOf(m15) : {c.t : c \in b.candles} = b.t..(b.t + PerBar - 1)
  /\ late # "yes" => \A i \in 1..(Len(m15) - 1) : m15[i].t < m15[i + 1].t

(* A position is given up on a closing price beyond what was known before  *)
(* the candle began, never on a bar the candle is itself a part of; and    *)
(* only if some candle was one risk unit in profit since the beginning of  *)
(* the bar in which the position was opened: what that bar did before the  *)
(* entry counts, too (on_open_positions, reached_one_r).  A late candle    *)
(* replaces the stored one, so this is said of candles that came in time.  *)
ExitIsEarned ==
  exit # NoPosition =>
    /\ \A b \in exit.channel : \A c \in b.candles : c.t < exit.candle.t
    /\ late = "no" =>
         \E c \in stored : c.t >= Bucket(exit.position.at) /\ Touches(exit.position, c.high, c.low)

(* The strategy trades on what really happened.                            *)
StrategySeesThePast == BarsAreWhole /\ ExitIsEarned
=============================================================================
