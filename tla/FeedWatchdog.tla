--------------------------- MODULE FeedWatchdog ---------------------------
(***************************************************************************)
(* One GMO FX price feed, the PriceStore it fills and the watchdog that    *)
(* reports when the feed goes silent. The feed polls the exchange, which   *)
(* answers with a tick, with a closed market, with an error or not at all; *)
(* the watchdog wakes up at an interval and judges the feed by the wall    *)
(* clock, while the host may be suspended and the clock may be set back.   *)
(* A bitFlyer feed is the same without marks for a closed market. The      *)
(* candles the feed completes come back through the price channel: the     *)
(* engine loop stores their closing price as well. The two candle builders *)
(* of a pair (primary timeframe and H1) are alike; one is modelled.        *)
(*                                                                         *)
(* Times are ages: how long before the present reading of the wall clock   *)
(* an event was stamped. An age is negative after the clock was set back,  *)
(* and stops growing at Old, where it exceeds every threshold.             *)
(***************************************************************************)
EXTENDS Integers, FiniteSets

CONSTANTS
  CheckInterval,    \* feed_watchdog.check_interval_secs
  SuspendGap,       \* feed_watchdog.suspend_gap_secs
  StaleAfter,       \* feed_watchdog.stale_after_secs
  RealertInterval,  \* feed_watchdog.realert_interval_secs
  MaxLag,           \* how old the time stamp of a tick may be on arrival
  MaxBack,          \* bound: how far the clock is set back altogether
  MaxSuspends,      \* bound: suspensions of the host
  Old               \* bound: ages stop growing here

(* FeedWatchdogConfig::validate, and Old is above every threshold.         *)
ASSUME WatchdogAssumption ==
  /\ {CheckInterval, SuspendGap, StaleAfter, RealertInterval} \subseteq Nat \ {0}
  /\ {MaxLag, MaxBack, MaxSuspends, Old} \subseteq Nat
  /\ CheckInterval < SuspendGap /\ CheckInterval <= StaleAfter
  /\ \A age \in {SuspendGap, StaleAfter, RealertInterval, MaxLag} : age + CheckInterval + MaxBack < Old

Ages == (-MaxBack)..Old
Never == Old + 1  \* no tick, no mark, no alert

VARIABLES
  feed,       \* "poll": waits for the next poll; "store": inside update; "down": ended
  lag,        \* age of the tick that update is about to store
  building,   \* the candle builder has an open candle
  queued,     \* a completed candle waits in the price channel
  tickAge,    \* latest[key].ts
  closedAge,  \* market_closed[key]
  skew,       \* how far the clock has been set back
  startAge,   \* watchdog_started_at
  prevAge,    \* previous_wall_clock
  ran,        \* running time since the last round
  graceAge,   \* resumed_at of the suspension whose grace period may still run
  alertAge,   \* last_alert_at of the feed in FeedFreshnessTracker
  seen,       \* history: running time since the feed last gave a tick or a mark
  slept,      \* history: time since that in suspensions too short to be found
  calm,       \* history: running time since that, a suspension or a setback
  unmarked,   \* history: since that, a candle took the mark of a closed market away
  masked,     \* history: since that, a setback hid a gap from the watchdog
  suspends

storeVars == <<tickAge, closedAge>>
watchVars == <<startAge, prevAge, ran, graceAge, alertAge>>
candleVars == <<building, queued>>
history == <<seen, slept, calm, unmarked, masked>>
vars == <<feed, lag, candleVars, storeVars, skew, watchVars, history, suspends>>

(* The feed is on record as stale; an alert was sent when that began.      *)
Alerted == alertAge # Never

TypeOK ==
  /\ feed \in {"poll", "store", "down"} /\ lag \in Ages
  /\ {tickAge, closedAge, startAge, prevAge, graceAge, alertAge} \subseteq Ages \cup {Never}
  /\ {startAge, prevAge} \subseteq Ages /\ (graceAge # Never => suspends > 0)
  /\ skew \in 0..MaxBack
  /\ ran \in 0..CheckInterval
  /\ seen \in 0..Old /\ slept \in 0..Old /\ calm \in 0..seen
  /\ {building, queued, unmarked, masked} \subseteq BOOLEAN
  /\ suspends \in 0..MaxSuspends

Init ==
  /\ feed = "poll" /\ lag = 0 /\ building = FALSE /\ queued = FALSE
  /\ tickAge = Never /\ closedAge = Never /\ skew = 0
  /\ startAge = 0 /\ prevAge = 0 /\ ran = 0 /\ graceAge = Never /\ alertAge = Never
  /\ seen = 0 /\ slept = 0 /\ calm = 0 /\ unmarked = FALSE /\ masked = FALSE /\ suspends = 0

-----------------------------------------------------------------------------
(* The feed task and the store.                                            *)

(* The feed gives a sign of life.                                          *)
Sign == seen' = 0 /\ slept' = 0 /\ calm' = 0 /\ unmarked' = FALSE /\ masked' = FALSE

(* An open market: handle_open_market_item calls PriceStore::update, which *)
(* first clears the mark of a closed market ...                            *)
ClearMarketClosedOnTick ==
  /\ feed = "poll" /\ feed' = "store"
  /\ \E l \in 0..MaxLag : lag' = l - skew
  /\ closedAge' = Never
  /\ Sign
  /\ UNCHANGED <<candleVars, tickAge, skew, watchVars, suspends>>

(* is_newer_than_stored.                                                   *)
IsNewerThanStored == tickAge = Never \/ lag < tickAge

(* ... and then, under another lock, stores the tick if it is newer. The   *)
(* tick goes into the open candle, or completes it and opens the next one. *)
StoreTick ==
  /\ feed = "store" /\ feed' = "poll" /\ lag' = 0
  /\ tickAge' = (IF IsNewerThanStored THEN lag ELSE tickAge)
  /\ building' = TRUE
  /\ queued' \in (IF building THEN {queued, TRUE} ELSE {queued})
  /\ UNCHANGED <<closedAge, skew, watchVars, history, suspends>>

(* A closed market or maintenance: mark_market_closed. A closed market also*)
(* completes the open candle when its period is over. Any other status, a  *)
(* price that cannot be read or no answer leaves everything as it is.      *)
MarkMarketClosed ==
  /\ feed = "poll"
  /\ closedAge' = 0
  /\ Sign
  /\ \/ UNCHANGED candleVars
     \/ building /\ building' = FALSE /\ queued' = TRUE
  /\ UNCHANGED <<feed, lag, tickAge, skew, watchVars, suspends>>

(* handle_price_event of the engine loop: PriceStore::update with the start*)
(* of the period of the candle, which is not newer than the stored tick,   *)
(* but clears the mark of a closed market.                                 *)
StoreFromCandle ==
  /\ queued /\ queued' = FALSE
  /\ closedAge' = Never
  /\ unmarked' = (unmarked \/ closedAge # Never)
  /\ UNCHANGED <<feed, lag, building, tickAge, skew, watchVars, seen, slept, calm, masked, suspends>>

(* The task returns or panics; it is not started again                     *)
(* (spawn_feed_supervisor only sends an alert).                            *)
FeedEnds ==
  /\ feed = "poll" /\ feed' = "down"
  /\ UNCHANGED <<lag, candleVars, storeVars, skew, watchVars, history, suspends>>

-----------------------------------------------------------------------------
(* The watchdog.                                                           *)

(* wall_clock_backward_secs.                                               *)
WallClockBackward == prevAge < 0

(* detect_suspend_gap.                                                     *)
SuspendGapFound == prevAge >= SuspendGap

\* Mutant: a gap is reported, but no grace period begins.
GraceNotNoted == graceAge

(* note_suspend_resumed: the grace period begins now.                      *)
GraceAfter == IF SuspendGapFound THEN 0 ELSE graceAge

\* Mutant: every check after a suspension is suppressed.
GraceForEver == GraceAfter # Never

(* in_grace_period.                                                        *)
InGracePeriod == GraceAfter # Never /\ GraceAfter < StaleAfter

\* Mutant: a mark counts for as long as it stays.
MarkedClosed == closedAge # Never

(* is_effectively_market_closed: a mark counts for StaleAfter.             *)
EffectivelyMarketClosed == closedAge # Never /\ closedAge < StaleAfter

(* is_stale_now of evaluate: by the latest tick, whose age is at least zero*)
(* (health_at), or by the start of the watchdog.                           *)
IsStaleNow ==
  IF tickAge = Never THEN startAge >= StaleAfter
  ELSE tickAge >= StaleAfter

(* evaluate, with the clock read at the beginning of the round.            *)
Evaluate ==
  IF InGracePeriod THEN alertAge
  ELSE IF EffectivelyMarketClosed \/ ~IsStaleNow THEN Never
  ELSE IF ~Alerted \/ alertAge >= RealertInterval THEN 0
  ELSE alertAge

(* A round of run. When the clock went back there are no checks.           *)
Round ==
  /\ prevAge' = 0 /\ ran' = 0
  /\ IF WallClockBackward
     THEN UNCHANGED <<graceAge, alertAge>>
     ELSE graceAge' = GraceAfter /\ alertAge' = Evaluate
  /\ calm' = (IF SuspendGapFound THEN 0 ELSE calm)
  /\ UNCHANGED <<feed, lag, candleVars, storeVars, skew, startAge>>
  /\ UNCHANGED <<seen, slept, unmarked, masked, suspends>>

-----------------------------------------------------------------------------
(* Time (external).                                                        *)

(* An age after n more units of time.                                      *)
Older(a, n) == IF a = Never THEN Never ELSE IF a + n > Old THEN Old ELSE a + n

AllOlder(n) ==
  /\ lag' = (IF feed = "store" THEN Older(lag, n) ELSE 0)
  /\ tickAge' = Older(tickAge, n) /\ closedAge' = Older(closedAge, n)
  /\ startAge' = Older(startAge, n) /\ prevAge' = Older(prevAge, n)
  /\ graceAge' = Older(graceAge, n) /\ alertAge' = Older(alertAge, n)

(* While the host runs the watchdog is not late, and update does not take  *)
(* a unit of time. The timer of the watchdog counts running time only: a   *)
(* round may come any time up to an interval after a suspension.           *)
Tick ==
  /\ ran < CheckInterval /\ ran' = ran + 1 /\ feed # "store"
  /\ AllOlder(1)
  /\ seen' = Older(seen, 1) /\ calm' = Older(calm, 1)
  /\ UNCHANGED <<feed, candleVars, skew, slept, unmarked, masked, suspends>>

(* The host is suspended: the wall clock goes on, the process does not.    *)
(* detect_suspend_gap does not find it while the clock has moved less than *)
(* SuspendGap since the last round.                                        *)
Suspend ==
  /\ suspends < MaxSuspends /\ suspends' = suspends + 1
  /\ \E n \in 1..Old :
       AllOlder(n) /\ slept' = (IF SuspendGapFound' THEN slept ELSE Older(slept, n))
  /\ calm' = 0
  /\ UNCHANGED <<feed, candleVars, skew, ran, seen, unmarked, masked>>

(* The wall clock is set back by one unit.                                 *)
ClockSetBack ==
  /\ skew < MaxBack /\ skew' = skew + 1
  /\ AllOlder(-1)
  /\ calm' = 0 /\ masked' = (masked \/ (SuspendGapFound /\ ~SuspendGapFound'))
  /\ UNCHANGED <<feed, candleVars, ran, seen, slept, unmarked, suspends>>

-----------------------------------------------------------------------------
FeedStep ==
  ClearMarketClosedOnTick \/ StoreTick \/ MarkMarketClosed \/ StoreFromCandle \/ FeedEnds

Next == FeedStep \/ Round \/ Tick \/ Suspend \/ ClockSetBack

Spec == Init /\ [][Next]_vars

(* Time passes however often the feed polls, the interval timer wakes the  *)
(* watchdog, and update returns.                                           *)
FairSpec == Spec /\ SF_vars(Tick) /\ WF_vars(Round) /\ WF_vars(StoreTick)

-----------------------------------------------------------------------------
(* Properties.                                                             *)

(* A feed that gives neither a tick nor a mark is on record as stale after *)
(* StaleAfter, the amount the clock was set back and an interval, counted  *)
(* from its last sign, the last setback, the last suspension or the round  *)
(* that found it, whichever came last (run, evaluate, the grace period and *)
(* the life of a mark), and the latest alert about it is then no older     *)
(* than the re-alert interval.                                             *)
OutageReported ==
  calm > StaleAfter + MaxBack + CheckInterval =>
    Alerted /\ alertAge <= RealertInterval + CheckInterval

(* A feed is newly reported as stale only if it has been silent for        *)
(* StaleAfter less the lag of a tick, not counting suspensions that        *)
(* detect_suspend_gap finds (a shorter one has no grace period and counts: *)
(* the feed is then blamed for it); or while the first tick after a closed *)
(* market is being stored, when the mark is gone and the tick is not there *)
(* yet (PriceStore::update takes two locks); or while a candle that the    *)
(* engine loop stored has taken away the mark of a closed market; or after *)
(* a setback of the clock took away a gap that the next round would have   *)
(* found.                                                                  *)
AlertIsReal ==
  [][~Alerted /\ Alerted' =>
       seen + slept + MaxLag >= StaleAfter \/ feed = "store" \/ unmarked \/ masked]_vars

(* While the feed keeps giving signs, every record of it as stale ends.    *)
AlarmEnds == <>[](seen + MaxLag < StaleAfter) => []<>~Alerted
=============================================================================
