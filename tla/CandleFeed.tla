----------------------------- MODULE CandleFeed -----------------------------
(***************************************************************************)
(* A market feed: ticks become candles of the primary timeframe and of H1, *)
(* candles become rows of price_candles, entries of the indicator history  *)
(* and price events, and ticks go to the price store.  bitFlyer pushes     *)
(* ticks over a WebSocket that drops, falls silent and is reopened; GMO FX *)
(* is polled and closes at the weekend; OANDA is polled for candles.       *)
(* A tick is its time stamp; a candle is its start and the set of its      *)
(* ticks, from which open, high, low, close and volume follow.             *)
(***************************************************************************)
EXTENDS Integers, Sequences, FiniteSets, FiniteSetsExt

CONSTANTS
  Kinds,      \* feeds to look at: "bitflyer", "gmo", "oanda"
  Primary, H1,\* lengths of the two timeframes in time stamps
  DrainCap,   \* PRICE_STORE_TICK_CHANNEL_CAP
  HistoryCap, \* candles kept for the indicators (200), and loaded at a start
  BackoffCap, \* largest delay before a reconnect (60 s)
  MaxTime,    \* bound on time
  MaxFaults   \* bound on late ticks, failed saves, lost connections and restarts together

ASSUME FrameAssumption ==
  /\ {Primary, H1, DrainCap, HistoryCap, BackoffCap} \subseteq Nat \ {0}
  /\ H1 % Primary = 0
  /\ {MaxTime, MaxFaults} \subseteq Nat
  /\ Kinds \subseteq {"bitflyer", "gmo", "oanda"}

None == -1
Frames == {"primary", "h1"}
Length == [primary |-> Primary, h1 |-> H1]
Times == 0..MaxTime

VARIABLES
  kind,     \* which feed
  now,      \* time
  got,      \* ticks that the feed has received, in all its lives
  builder,  \* builder[f]: start and ticks of the open candle; start None: no candle
  rows,     \* rows[f]: stored candles, a function from starts to sets of ticks
  history,  \* starts of the candles in the history of the primary indicators
  last,     \* last[f]: start of the last candle published
  indicators, \* latest_indicators: start of the candle they were computed for
  attached, \* start of the primary candle whose indicators the last H1 event carries
  queue, store, dropped, \* tick drain: channel, tick in the price store, ticks it never got
  conn,     \* connection: "up", "silent" (no message comes any more), "down"
  backoff,  \* delay before the next attempt to connect
  mixed,    \* candles hit by a late tick, a closed market or a restart
  faults    \* how many of the faults have happened

feedVars == <<builder, rows, history, last, indicators, attached>>
drainVars == <<queue, store, dropped>>
connVars == <<conn, backoff>>
allFeedVars == <<kind, now, got, feedVars, drainVars, connVars, mixed, faults>>

Fault(n) == faults + n <= MaxFaults /\ faults' = faults + n

PeriodStart(f, ts) == ts - (ts % Length[f])
NoCandle == [start |-> None, ticks |-> {}]
Newest(s) == Max(s \cup {None})
TicksOf(f, start) == {ts \in Times : PeriodStart(f, ts) = start}

\* The elements of a set of numbers in ascending order.
InOrder(s) ==
  CHOOSE e \in [1..Cardinality(s) -> s] : \A i, j \in 1..Cardinality(s) : i < j => e[i] < e[j]

\* The last candles of a series, oldest first.
LastOf(s, n) == SubSeq(s, Max({1, Len(s) - n + 1}), Len(s))

FeedInit ==
  /\ kind \in Kinds
  /\ now = 0 /\ got = {}
  /\ builder = [f \in Frames |-> NoCandle]
  /\ rows = [f \in Frames |-> <<>>]
  /\ history = <<>>
  /\ last = [f \in Frames |-> None]
  /\ indicators = None /\ attached = None
  /\ queue = <<>> /\ store = None /\ dropped = {}
  /\ conn = "up" /\ backoff = 1
  /\ mixed = {}
  /\ faults = 0
-----------------------------------------------------------------------------
(* Candle builder                                                          *)

\* on_tick: a tick of another period ends the open candle.
Finished(f, ts) ==
  IF builder[f].start \notin {None, PeriodStart(f, ts)} THEN builder[f] ELSE NoCandle

OnTick(f, ts) ==
  IF builder[f].start = PeriodStart(f, ts)
  THEN [builder[f] EXCEPT !.ticks = @ \cup {ts}]
  ELSE [start |-> PeriodStart(f, ts), ticks |-> {ts}]

\* try_complete at time t: the open candle if its period has ended.
Completed(f, t) ==
  IF builder[f].start # None /\ t >= builder[f].start + Length[f] THEN builder[f] ELSE NoCandle

\* upsert_candle overwrites the row of the same start; a failure is logged.
Upsert(r, c) == [s \in DOMAIN r \cup {c.start} |-> IF s = c.start THEN c.ticks ELSE r[s]]

\* The primary candle of a tick is processed before the H1 candle, whose
\* event carries the latest indicators of the primary timeframe.
HourIndicators == indicators'

\* The finished candles c[f] (or NoCandle) are saved, added to the history
\* and published.  unsaved: the timeframes whose save fails.
Publish(c, unsaved) ==
  LET done == {f \in Frames : c[f].start # None}
  IN  /\ unsaved \subseteq done
      /\ rows' = [f \in Frames |->
                    IF f \in done \ unsaved THEN Upsert(rows[f], c[f]) ELSE rows[f]]
      /\ last' = [f \in Frames |-> IF f \in done THEN c[f].start ELSE last[f]]
      /\ IF kind = "bitflyer" /\ "primary" \in done
         THEN /\ history' = LastOf(Append(history, c["primary"].start), HistoryCap)
              /\ indicators' = c["primary"].start
         ELSE UNCHANGED <<history, indicators>>
      /\ attached' = IF "h1" \in done THEN HourIndicators ELSE attached

\* Both builders take the tick in.  A tick of a period that has already been
\* published, or of one before that of another tick, tears two candles.
TakeTick(ts, unsaved) ==
  LET torn == {f \in Frames : \/ PeriodStart(f, ts) < PeriodStart(f, Newest(got))
                              \/ PeriodStart(f, ts) <= last[f]}
  IN  /\ got' = got \cup {ts}
      /\ builder' = [f \in Frames |-> OnTick(f, ts)]
      /\ Publish([f \in Frames |-> Finished(f, ts)], unsaved)
      /\ mixed' = mixed \cup {<<f, PeriodStart(f, ts)>> : f \in torn}
                        \cup {<<f, builder[f].start>> : f \in torn}
-----------------------------------------------------------------------------
(* Price store                                                             *)

\* PriceStore::update keeps the newer tick.
Stored(ts) == IF store < ts THEN ts ELSE store

\* The drain task moves one tick from its channel to the price store.
Drain ==
  /\ queue # <<>>
  /\ store' = Stored(Head(queue)) /\ queue' = Tail(queue)
  /\ UNCHANGED <<kind, now, got, feedVars, dropped, connVars, mixed, faults>>
-----------------------------------------------------------------------------
(* bitFlyer                                                                *)

\* forward_tick drops the tick when the channel of the drain is full.
ForwardTick(ts) ==
  /\ IF Len(queue) < DrainCap THEN queue' = Append(queue, ts) /\ UNCHANGED dropped
                              ELSE dropped' = dropped \cup {ts} /\ UNCHANGED queue
  /\ UNCHANGED store

\* A ticker message: the tick of now, or one that comes late.
Receive(ts, unsaved) ==
  /\ kind = "bitflyer" /\ conn = "up"
  /\ ts \in 0..now /\ ts \notin got
  /\ Fault(Cardinality(unsaved) + (IF ts < now THEN 1 ELSE 0))
  /\ ForwardTick(ts)
  /\ TakeTick(ts, unsaved)
  /\ UNCHANGED <<kind, now, connVars>>

\* The stream ends: the server closes it, or it fails.
StreamCloses ==
  /\ kind = "bitflyer" /\ conn = "up" /\ Fault(1)
  /\ conn' = "down" /\ backoff' = 1
  /\ UNCHANGED <<kind, now, got, feedVars, drainVars, mixed>>

Doubled == IF backoff * 2 > BackoffCap THEN BackoffCap ELSE backoff * 2

StreamFails ==
  /\ kind = "bitflyer" /\ conn = "up" /\ Fault(1)
  /\ conn' = "down" /\ backoff' = Doubled
  /\ UNCHANGED <<kind, now, got, feedVars, drainVars, mixed>>

\* The connection stays open but no message comes through it any more.
FallsSilent ==
  /\ kind = "bitflyer" /\ conn = "up" /\ Fault(1)
  /\ conn' = "silent"
  /\ UNCHANGED <<kind, now, got, feedVars, drainVars, backoff, mixed>>

\* Mutant: read.next() is awaited without a timeout.
HeartbeatNever == FALSE /\ UNCHANGED allFeedVars

\* receive_next_message gives up after HEARTBEAT_TIMEOUT.
HeartbeatTimeout ==
  /\ conn = "silent"
  /\ conn' = "down" /\ backoff' = Doubled
  /\ UNCHANGED <<kind, now, got, feedVars, drainVars, mixed, faults>>

ConnectFails ==
  /\ conn = "down" /\ backoff' = Doubled
  /\ UNCHANGED <<kind, now, got, feedVars, drainVars, conn, mixed, faults>>

\* Mutant: a new connection starts new candles.
ReconnectAfresh ==
  /\ conn = "down" /\ conn' = "up"
  /\ indicators' = None /\ builder' = [f \in Frames |-> NoCandle]
  /\ UNCHANGED <<kind, now, got, rows, history, last, attached, drainVars, backoff,
                 mixed, faults>>

\* A new stream has no latest_indicators; builders and histories go on.
Reconnect ==
  /\ conn = "down" /\ conn' = "up"
  /\ indicators' = None
  /\ UNCHANGED <<kind, now, got, builder, rows, history, last, attached, drainVars,
                 backoff, mixed, faults>>
-----------------------------------------------------------------------------
(* GMO FX and OANDA                                                        *)

\* A poll finds the market open: the ticker has a tick not older than before.
PollOpen(ts, unsaved) ==
  /\ kind = "gmo"
  /\ ts \in Newest(got)..now /\ ts # None
  /\ Fault(Cardinality(unsaved))
  /\ store' = Stored(ts) /\ dropped' = dropped \ {ts}
  /\ TakeTick(ts, unsaved)
  /\ UNCHANGED <<kind, now, queue, connVars>>

\* A poll finds the market closed: candles whose period has ended go out.
PollClosed(unsaved) ==
  LET done == [f \in Frames |-> Completed(f, now)]
  IN  /\ kind = "gmo"
      /\ \E f \in Frames : done[f] # NoCandle
      /\ Fault(Cardinality(unsaved))
      /\ builder' = [f \in Frames |-> IF done[f] # NoCandle THEN NoCandle ELSE builder[f]]
      /\ Publish(done, unsaved)
      /\ UNCHANGED <<kind, now, got, drainVars, connVars, mixed>>

\* fetch_and_emit: the complete candles of the last periods are all saved
\* again, except those whose save fails, and the newest goes out.
FetchAndEmit(unsaved) ==
  LET complete == {s \in Times : s % Primary = 0 /\ s + Primary <= now}
  IN  /\ kind = "oanda" /\ complete # {}
      /\ unsaved \subseteq complete /\ Fault(Cardinality(unsaved))
      /\ got' = got \cup UNION {TicksOf("primary", s) : s \in complete}
      /\ rows' = [rows EXCEPT !["primary"] =
                    [s \in DOMAIN @ \cup (complete \ unsaved) |-> TicksOf("primary", s)]]
      /\ last' = [last EXCEPT !["primary"] = Max(complete)]
      /\ history' = InOrder(complete)
      /\ UNCHANGED <<kind, now, builder, indicators, attached, drainVars, connVars, mixed>>
-----------------------------------------------------------------------------
\* The stored primary candles seed the history: get_candles returns the
\* newest first, and the warm-up turns them round.
Warmup == LastOf(InOrder(DOMAIN rows["primary"]), HistoryCap)

\* The process stops and starts again; rows stay, the candles being built
\* are lost.  The warm-up seeds bitFlyer's history, if it can be read.
Restart(read) ==
  /\ Fault(1)
  /\ mixed' = mixed \cup {<<f, builder[f].start>> : f \in Frames}
  /\ builder' = [f \in Frames |-> NoCandle]
  /\ history' = IF kind = "bitflyer" /\ read THEN Warmup ELSE <<>>
  /\ indicators' = None
  /\ queue' = <<>> /\ store' = None /\ dropped' = got
  /\ conn' = "up" /\ backoff' = 1
  /\ UNCHANGED <<kind, now, got, rows, last, attached>>

Advance ==
  /\ now < MaxTime /\ now' = now + 1
  /\ UNCHANGED <<kind, got, feedVars, drainVars, connVars, mixed, faults>>

FeedNext ==
  \/ Advance \/ Drain
  \/ \E ts \in Times, unsaved \in SUBSET Frames : Receive(ts, unsaved) \/ PollOpen(ts, unsaved)
  \/ \E unsaved \in SUBSET Frames : PollClosed(unsaved)
  \/ \E unsaved \in SUBSET Times : FetchAndEmit(unsaved)
  \/ StreamCloses \/ StreamFails \/ FallsSilent \/ HeartbeatTimeout \/ ConnectFails \/ Reconnect
  \/ \E read \in BOOLEAN : Restart(read)

FeedSpec == FeedInit /\ [][FeedNext]_allFeedVars

\* A timer that runs fires, and an attempt to connect succeeds in the end.
FairFeedSpec == FeedSpec /\ WF_allFeedVars(HeartbeatTimeout) /\ WF_allFeedVars(Reconnect)
-----------------------------------------------------------------------------
FeedTypeOK ==
  /\ kind \in Kinds /\ now \in Times /\ got \subseteq Times
  /\ \A f \in Frames : /\ builder[f].start \in Times \cup {None} /\ builder[f].ticks \subseteq Times
                       /\ DOMAIN rows[f] \subseteq Times
  /\ Len(queue) <= DrainCap /\ (kind = "oanda" \/ Len(history) <= HistoryCap)
  /\ conn \in {"up", "silent", "down"} /\ backoff \in 1..BackoffCap

\* A stored candle holds every tick of its period that the feed has received,
\* across reconnects, failed saves and polls that bring a tick twice, unless
\* a late tick or a restart tore it: upsert_candle then replaced a whole
\* candle by a part of it.
RowsComplete ==
  \A f \in Frames : \A s \in DOMAIN rows[f] :
    <<f, s>> \notin mixed => rows[f][s] = got \cap TicksOf(f, s)

\* The indicators are computed over candles in the order of time, each one
\* once, also when the history was seeded from the database by the warm-up.
HistoryAscending ==
  \A i \in 1..(Len(history) - 1) :
    history[i] < history[i + 1] \/ <<"primary", history[i + 1]>> \in mixed

\* An H1 event of bitFlyer carries the indicators of a primary candle of the
\* hour that it closes, never those of an earlier hour and never none, also
\* after a reconnect has cleared latest_indicators.
H1CarriesFreshPrimary ==
  kind = "bitflyer" /\ last["h1"] # None => attached # None /\ PeriodStart("h1", attached) = last["h1"]

\* What a strategy is given with an event is computed from the right candles:
\* in order, each once, and for an H1 event from the hour itself.
IndicatorsFollowCandles == HistoryAscending /\ H1CarriesFreshPrimary

\* When the drain has caught up, the price store has the newest of the ticks
\* that forward_tick did not drop, whatever order they came in.
StoreUpToDate ==
  queue = <<>> => store = Newest(got \ dropped) \/ kind = "oanda"

\* What the database, the strategies and the readers of prices are told is
\* what the feed has received, whatever is lost, late, dropped, saved twice
\* or not saved at all on the way (CandleBuilder::on_tick, upsert_candle,
\* emit_candle_event, PriceStore::update).
MarketDataIsTrue == RowsComplete /\ IndicatorsFollowCandles /\ StoreUpToDate

\* A connection that no message comes through is replaced by a new one.
SilentReplaced == (conn = "silent") ~> (conn = "up")
=============================================================================
