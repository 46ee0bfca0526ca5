------------------------ MODULE FeedWatchdogProofs ------------------------
(***************************************************************************)
(* Proofs about the feed watchdog: a silent feed is reported, and only a   *)
(* silent feed is, for every interval, threshold, lag of a tick, amount of *)
(* setting the clock back and number of suspensions.                       *)
(*                                                                         *)
(* Neither property is inductive.  The first needs the age of everything   *)
(* the watchdog reads to be bounded below by the running time since the    *)
(* last sign, less what the clock was set back; the second needs that some *)
(* piece of what the watchdog reads is bounded above by the running time   *)
(* since the last sign.  The last part is about the delivery of what it    *)
(* reports: that alerts arrive in order needs a bound on how long a task   *)
(* can still be sending.                                                   *)
(***************************************************************************)
EXTENDS FeedWatchdog, AlertDelivery, TLAPS

(* An age is at least the running time since the last sign, suspension or  *)
(* setback, less the amount that the clock has been set back.              *)
AtLeastCalm(a) == a \in Int /\ a >= calm - skew

(* What the watchdog reads: each is as old as the calm, but for the clock  *)
(* of the last round, which is newer when a round was run since.           *)
AgesInv ==
  /\ \A a \in {tickAge, closedAge, startAge, graceAge} : AtLeastCalm(a)
  /\ feed = "store" => AtLeastCalm(lag)
  /\ AtLeastCalm(prevAge) \/ prevAge >= 0
  /\ alertAge >= -skew

(* The clock has moved further since the last round than the host has run  *)
(* only if a suspension came in between.                                   *)
PunctualInv == prevAge > ran => calm <= ran /\ suspends > 0

(* A round that came StaleAfter and all setbacks after the last sign put   *)
(* the feed on record, and repeats the alert in time.                      *)
ReportInv ==
  calm - ran >= StaleAfter + MaxBack =>
    Alerted /\ alertAge <= RealertInterval + ran

(* The time since the last sign, without the suspensions that were found.  *)
Silence == seen + slept

(* A suspension that the watchdog finds in its next round, or whose grace  *)
(* period began after the last sign.                                       *)
SuspendNoted == SuspendGapFound \/ (graceAge # Never /\ graceAge <= Silence)

(* Something the watchdog reads is not older than the silence and the lag  *)
(* of a tick.                                                              *)
FreshInv ==
  ~masked =>
    \/ SuspendNoted
    \/ feed = "store" /\ lag <= Silence + MaxLag
    \/ /\ feed # "store"
       /\ \/ unmarked
          \/ closedAge # Never /\ closedAge <= Silence
          \/ tickAge # Never /\ tickAge <= Silence + MaxLag
          \/ tickAge = Never /\ startAge <= Silence

(* The inductive invariant.                                                *)
WatchInv == TypeOK /\ AgesInv /\ PunctualInv /\ ReportInv /\ FreshInv

-----------------------------------------------------------------------------
(* What the configuration that validate accepts says of the thresholds.    *)
LEMMA Constants ==
  /\ CheckInterval \in Nat /\ SuspendGap \in Nat /\ StaleAfter \in Nat /\ RealertInterval \in Nat
  /\ MaxLag \in Nat /\ MaxBack \in Nat /\ MaxSuspends \in Nat
  /\ CheckInterval > 0 /\ CheckInterval < SuspendGap /\ CheckInterval <= StaleAfter
  /\ Old \in Nat /\ SuspendGap + CheckInterval + MaxBack < Old /\ StaleAfter + CheckInterval + MaxBack < Old
  /\ RealertInterval + CheckInterval + MaxBack < Old /\ MaxLag + CheckInterval + MaxBack < Old
  /\ Never = Old + 1
BY WatchdogAssumption DEF Never

(* The types of the variables, one by one.                                 *)
LEMMA Types ==
  ASSUME TypeOK
  PROVE  /\ lag \in Int /\ tickAge \in Int /\ closedAge \in Int /\ startAge \in Int
         /\ prevAge \in Int /\ graceAge \in Int /\ alertAge \in Int
         /\ seen \in Int /\ calm \in Int /\ skew \in Int /\ suspends \in Int
         /\ lag <= Old /\ tickAge <= Never /\ closedAge <= Never /\ startAge <= Old
         /\ prevAge <= Old /\ graceAge <= Never /\ alertAge <= Never
         /\ lag >= -MaxBack /\ prevAge >= -MaxBack
         /\ skew >= 0 /\ skew <= MaxBack
         /\ 0 <= calm /\ calm <= seen /\ seen <= Old
         /\ ran \in Int /\ 0 <= ran /\ ran <= CheckInterval /\ slept \in Int /\ 0 <= slept /\ slept <= Old
         /\ 0 <= suspends /\ suspends <= MaxSuspends
         /\ graceAge # Never => suspends > 0
BY Constants DEF TypeOK, Ages


(* The age b is the age a after n more units of time.                      *)
AgedBy(a, b, n) ==
  /\ b \in Ages \cup {Never} /\ b \in Int /\ b <= Never
  /\ b = Never <=> a = Never
  /\ a # Never => b \in Ages
  /\ b >= a + n \/ b >= Old
  /\ b <= a + n \/ a = Never
  /\ a # Never /\ a + n <= Old => b = a + n

(* What Older computes: an age that does not pass Old.                     *)
LEMMA OlderIs ==
  ASSUME NEW a \in Int, NEW n \in Int, n >= -1, a <= Never, NEW b \in Int, b >= 0, b <= MaxBack,
         a >= -b, n = -1 => b < MaxBack
  PROVE  AgedBy(a, Older(a, n), n)
BY Constants DEF Older, Ages, AgedBy

(* All that the watchdog and the feed remember grows older together, or    *)
(* younger when the clock is set back.                                     *)
LEMMA TimePasses ==
  ASSUME TypeOK, AgesInv, NEW n \in Int, n >= -1, n = -1 => skew < MaxBack, AllOlder(n)
  PROVE  /\ AgedBy(tickAge, tickAge', n) /\ AgedBy(closedAge, closedAge', n)
         /\ AgedBy(startAge, startAge', n) /\ AgedBy(prevAge, prevAge', n)
         /\ AgedBy(graceAge, graceAge', n) /\ AgedBy(alertAge, alertAge', n)
         /\ feed = "store" => AgedBy(lag, lag', n)
         /\ lag' \in Ages /\ startAge' \in Ages /\ prevAge' \in Ages
<1>1. /\ tickAge >= -skew /\ closedAge >= -skew /\ startAge >= -skew /\ prevAge >= -skew
      /\ graceAge >= -skew /\ alertAge >= -skew
      /\ feed = "store" => lag >= -skew
  BY Types DEF AgesInv, AtLeastCalm
<1>a. \A a \in Int : a <= Never /\ a >= -skew => AgedBy(a, Older(a, n), n)
  BY Types, OlderIs, Constants
<1>2. /\ AgedBy(tickAge, tickAge', n) /\ AgedBy(closedAge, closedAge', n)
      /\ AgedBy(startAge, startAge', n) /\ AgedBy(prevAge, prevAge', n)
      /\ AgedBy(graceAge, graceAge', n) /\ AgedBy(alertAge, alertAge', n)
  BY <1>1, <1>a, Types, Constants DEF AllOlder
<1>3. CASE feed = "store"
  <2>1. AgedBy(lag, lag', n)
    BY <1>1, <1>a, <1>3, Types, Constants DEF AllOlder
  <2> QED BY <1>2, <1>3, <2>1, Types, Constants DEF AgedBy
<1>4. CASE feed # "store"
  <2>1. lag' = 0
    BY <1>4 DEF AllOlder
  <2> QED BY <1>2, <1>4, <2>1, Types, Constants DEF AgedBy, Ages
<1> QED BY <1>3, <1>4

-----------------------------------------------------------------------------
(* Every step keeps the types.                                             *)
LEMMA TypeStep ==
  ASSUME TypeOK, AgesInv, PunctualInv, Next
  PROVE  TypeOK'
<1> USE DEF storeVars, watchVars, candleVars, history
<1>1. CASE ClearMarketClosedOnTick
  <2>1. PICK l \in 0..MaxLag : lag' = l - skew
    BY <1>1 DEF ClearMarketClosedOnTick
  <2>2. lag' \in Ages /\ seen' \in 0..Old /\ slept' \in 0..Old /\ calm' \in 0..seen'
    BY <1>1, <2>1, Types, Constants DEF ClearMarketClosedOnTick, Sign, Ages
  <2>3. {building', queued', unmarked', masked'} \subseteq BOOLEAN
    BY <1>1, Zenon DEF ClearMarketClosedOnTick, Sign, TypeOK
  <2>4. closedAge' = Never /\ feed' = "store"
    BY <1>1 DEF ClearMarketClosedOnTick
  <2>5. UNCHANGED <<tickAge, skew, startAge, prevAge, ran, graceAge, alertAge, suspends>>
    BY <1>1, Zenon DEF ClearMarketClosedOnTick
  <2> QED BY <2>2, <2>3, <2>4, <2>5 DEF TypeOK
<1>2. CASE StoreTick
  <2>1. tickAge' \in Ages \cup {Never} /\ lag' \in Ages
    BY <1>2, Types, Constants DEF StoreTick, TypeOK, Ages
  <2>2. queued' \in {queued, TRUE}
    BY <1>2, Zenon DEF StoreTick
  <2>3. queued' \in BOOLEAN
    BY <2>2, Zenon DEF TypeOK
  <2> QED BY <1>2, <2>1, <2>3 DEF StoreTick, TypeOK
<1>3. CASE MarkMarketClosed
  <2>1. closedAge' \in Ages /\ seen' \in 0..Old /\ slept' \in 0..Old /\ calm' \in 0..seen'
    BY <1>3, Constants DEF MarkMarketClosed, Ages, Sign
  <2>2. {building', queued', unmarked', masked'} \subseteq BOOLEAN
    BY <1>3, Zenon DEF MarkMarketClosed, TypeOK, Sign
  <2>3. UNCHANGED <<feed, lag, tickAge, skew, startAge, prevAge, ran, graceAge, alertAge, suspends>>
    BY <1>3, Zenon DEF MarkMarketClosed
  <2> QED BY <2>1, <2>2, <2>3 DEF TypeOK
<1>4. CASE StoreFromCandle
  BY <1>4 DEF StoreFromCandle, TypeOK
<1>5. CASE FeedEnds
  BY <1>5 DEF FeedEnds, TypeOK
<1>6. CASE Round
  <2>1. prevAge' \in Ages /\ 0 \in Ages /\ ran' \in 0..CheckInterval /\ calm' \in 0..seen
    BY <1>6, Types, Constants DEF Round, Ages
  <2>2. graceAge' = graceAge \/ (graceAge' = 0 /\ suspends > 0)
    BY <1>6, Types, Constants DEF Round, GraceAfter, SuspendGapFound, PunctualInv
  <2>3. alertAge' \in Ages \cup {Never}
    BY <1>6, <2>1 DEF Round, Evaluate, TypeOK
  <2> QED BY <1>6, <2>1, <2>2, <2>3, Types DEF Round, TypeOK
<1>7. CASE Tick
  <2>1. /\ AgedBy(seen, seen', 1) /\ AgedBy(calm, calm', 1) /\ seen' \in 0..Old /\ calm' \in 0..seen'
        /\ ran' \in 0..CheckInterval
    BY <1>7, Types, Constants DEF Tick, Older, AgedBy, Ages
  <2>2. AllOlder(1)
    BY <1>7 DEF Tick
  <2>3. graceAge' # Never => graceAge # Never
    BY <2>2, TimePasses DEF AgedBy
  <2> QED BY <1>7, <2>1, <2>2, <2>3, TimePasses DEF Tick, TypeOK, AgedBy
<1>8. CASE Suspend
  <2>1. PICK n \in 1..Old : AllOlder(n) /\ slept' = (IF SuspendGapFound' THEN slept ELSE Older(slept, n))
    BY <1>8 DEF Suspend
  <2>2. n \in Int /\ n >= 0 /\ slept' \in 0..Old
    BY <2>1, Types, Constants DEF Older
  <2>3. suspends' \in 0..MaxSuspends /\ suspends' > 0 /\ calm' \in 0..seen'
    BY <1>8, Types, Constants DEF Suspend
  <2>4. masked' \in BOOLEAN
    BY <1>8, Zenon DEF Suspend, TypeOK
  <2> QED BY <1>8, <2>1, <2>2, <2>3, <2>4, TimePasses DEF Suspend, TypeOK, AgedBy
<1>9. CASE ClockSetBack
  <2>1. AllOlder(-1) /\ skew < MaxBack /\ skew' \in 0..MaxBack /\ calm' \in 0..seen'
    BY <1>9, Types, Constants DEF ClockSetBack
  <2>2. graceAge' # Never => graceAge # Never
    BY <2>1, TimePasses DEF AgedBy
  <2>3. masked' \in BOOLEAN
    BY <1>9 DEF ClockSetBack
  <2> QED BY <1>9, <2>1, <2>2, <2>3, TimePasses DEF ClockSetBack, TypeOK, AgedBy
<1> QED BY <1>1, <1>2, <1>3, <1>4, <1>5, <1>6, <1>7, <1>8, <1>9 DEF Next, FeedStep

(* Every step keeps the ages at least as large as the calm.                *)
LEMMA AgesStep ==
  ASSUME TypeOK, AgesInv, PunctualInv, Next
  PROVE  AgesInv'
<1> USE DEF storeVars, watchVars, candleVars, history, AgesInv, AtLeastCalm
<1>1. CASE ClearMarketClosedOnTick
  <2>1. PICK l \in 0..MaxLag : lag' = l - skew
    BY <1>1 DEF ClearMarketClosedOnTick
  <2> QED BY <1>1, <2>1, Types, Constants DEF ClearMarketClosedOnTick, Sign
<1>2. CASE StoreTick
  BY <1>2, Types, Constants DEF StoreTick
<1>3. CASE MarkMarketClosed
  BY <1>3, Types, Constants DEF MarkMarketClosed, Sign
<1>4. CASE StoreFromCandle
  BY <1>4, Types, Constants DEF StoreFromCandle
<1>5. CASE FeedEnds
  BY <1>5 DEF FeedEnds
<1>6. CASE Round
  <2>1. \/ graceAge' = graceAge /\ calm' = calm
        \/ graceAge' \in {graceAge, 0} /\ calm' = 0
    BY <1>6 DEF Round, GraceAfter
  <2>2. alertAge' \in {alertAge, 0, Never}
    BY <1>6 DEF Round, Evaluate
  <2> QED BY <1>6, <2>1, <2>2, Types, Constants DEF Round
<1>7. CASE Tick
  <2>1. AllOlder(1) /\ feed # "store" /\ feed' = feed /\ skew' = skew
    BY <1>7 DEF Tick
  <2>2. calm' <= calm + 1 /\ calm' <= Old /\ calm' \in Int
    BY <1>7, Types, Constants DEF Tick, Older
  <2> QED BY <2>1, <2>2, TimePasses, Types, Constants DEF AgedBy
<1>8. CASE Suspend
  <2>1. PICK n \in 1..Old : AllOlder(n)
    BY <1>8 DEF Suspend
  <2>2. n \in Int /\ n >= 0
    BY Constants
  <2>3. calm' = 0 /\ feed' = feed /\ skew' = skew
    BY <1>8 DEF Suspend
  <2> QED BY <2>1, <2>2, <2>3, TimePasses, Types, Constants DEF AgedBy
<1>9. CASE ClockSetBack
  <2>1. AllOlder(-1) /\ skew < MaxBack /\ skew' = skew + 1 /\ calm' = 0 /\ feed' = feed
    BY <1>9 DEF ClockSetBack
  <2> QED BY <2>1, TimePasses, Types, Constants DEF AgedBy
<1> QED BY <1>1, <1>2, <1>3, <1>4, <1>5, <1>6, <1>7, <1>8, <1>9 DEF Next, FeedStep

(* Every step keeps the watchdog punctual and its record of a silent feed: *)
(* a round that finds all ages at StaleAfter is not in a grace period and  *)
(* puts the feed on record.                                                *)
LEMMA ReportStep ==
  ASSUME TypeOK, AgesInv, PunctualInv, ReportInv, Next
  PROVE  PunctualInv' /\ ReportInv'
<1> USE DEF storeVars, watchVars, candleVars, history, PunctualInv, ReportInv, Alerted
<1>1. CASE ClearMarketClosedOnTick \/ MarkMarketClosed
  <2>1. calm' = 0 /\ UNCHANGED <<prevAge, ran, alertAge, suspends>>
    BY <1>1, Zenon DEF ClearMarketClosedOnTick, MarkMarketClosed, Sign
  <2> QED BY <2>1, Types, Constants
<1>2. CASE StoreTick \/ StoreFromCandle \/ FeedEnds
  <2>1. UNCHANGED <<calm, prevAge, ran, alertAge, suspends>>
    BY <1>2, Zenon DEF StoreTick, StoreFromCandle, FeedEnds
  <2> QED BY <2>1
<1>3. CASE Round
  <2>1. prevAge' = 0 /\ ran' = 0 /\ (calm' = 0 \/ calm' = calm) /\ suspends' = suspends
    BY <1>3 DEF Round
  <2>2. ASSUME calm >= StaleAfter + MaxBack, ~SuspendGapFound
        PROVE  alertAge' # Never /\ alertAge' <= RealertInterval
    <3>1. ~WallClockBackward /\ ~SuspendGapFound
      BY <2>2, Types, Constants DEF WallClockBackward, AgesInv, AtLeastCalm
    <3>2. ~InGracePeriod
      BY <2>2, <3>1, Types, Constants DEF InGracePeriod, GraceAfter, AgesInv, AtLeastCalm
    <3>3. ~EffectivelyMarketClosed /\ IsStaleNow
      BY <2>2, Types, Constants DEF EffectivelyMarketClosed, IsStaleNow, AgesInv, AtLeastCalm
    <3>4. alertAge' = IF alertAge = Never \/ alertAge >= RealertInterval THEN 0 ELSE alertAge
      BY <1>3, <3>1, <3>2, <3>3 DEF Round, Evaluate
    <3>5. CASE alertAge = Never \/ alertAge >= RealertInterval
      <4>1. alertAge' = 0
        BY <3>4, <3>5
      <4> QED BY <4>1, Constants
    <3>6. CASE ~(alertAge = Never \/ alertAge >= RealertInterval)
      <4>1. alertAge' = alertAge
        BY <3>4, <3>6
      <4> QED BY <4>1, <3>6, Types, Constants
    <3> QED BY <3>5, <3>6
  <2>3. SuspendGapFound => calm' = 0
    BY <1>3 DEF Round
  <2>4. CASE SuspendGapFound
    BY <2>1, <2>3, <2>4, Types, Constants
  <2>5. CASE ~SuspendGapFound
    BY <2>1, <2>2, <2>5, Types, Constants
  <2> QED BY <2>4, <2>5
<1>4. CASE Tick
  <2>1. AllOlder(1) /\ ran < CheckInterval /\ ran' = ran + 1 /\ suspends' = suspends
    BY <1>4 DEF Tick
  <2>2. calm' <= calm + 1 /\ calm' \in Int
    BY <1>4, Types, Constants DEF Tick, Older
  <2> QED BY <2>1, <2>2, TimePasses, Types, Constants DEF AgedBy
<1>5. CASE Suspend
  <2>1. PICK n \in 1..Old : AllOlder(n)
    BY <1>5 DEF Suspend
  <2>2. calm' = 0 /\ suspends' = suspends + 1 /\ ran' = ran
    BY <1>5 DEF Suspend
  <2>3. n \in Int /\ n >= 0
    BY Constants
  <2> QED BY <2>1, <2>2, <2>3, TimePasses, Types, Constants DEF AgedBy, Ages
<1>6. CASE ClockSetBack
  <2>1. AllOlder(-1) /\ skew < MaxBack /\ calm' = 0 /\ suspends' = suspends /\ ran' = ran
    BY <1>6 DEF ClockSetBack
  <2> QED BY <2>1, TimePasses, Types, Constants DEF AgedBy, Ages
<1> QED BY <1>1, <1>2, <1>3, <1>4, <1>5, <1>6 DEF Next, FeedStep

(* Every step keeps something fresh for the watchdog to find, while the    *)
(* feed gives signs.                                                       *)
LEMMA FreshStep ==
  ASSUME TypeOK, AgesInv, PunctualInv, FreshInv, Next
  PROVE  FreshInv'
<1> USE DEF storeVars, watchVars, candleVars, history, FreshInv, SuspendNoted, SuspendGapFound, Silence
<1>1. CASE ClearMarketClosedOnTick
  <2>1. PICK l \in 0..MaxLag : lag' = l - skew
    BY <1>1 DEF ClearMarketClosedOnTick
  <2>2. feed' = "store" /\ seen' = 0 /\ slept' = 0
    BY <1>1 DEF ClearMarketClosedOnTick, Sign
  <2> QED BY <2>1, <2>2, Types, Constants
<1>2. CASE StoreTick
  <2>1. /\ feed = "store" /\ feed' = "poll" /\ tickAge' = (IF IsNewerThanStored THEN lag ELSE tickAge)
        /\ UNCHANGED <<seen, slept, prevAge, graceAge>>
    BY <1>2, Zenon DEF StoreTick
  <2>2. masked' = masked
    BY <1>2, Zenon DEF StoreTick
  <2>3. lag <= Silence + MaxLag => tickAge' # Never /\ tickAge' <= Silence + MaxLag
    BY <2>1, Types, Constants DEF IsNewerThanStored
  <2> QED BY <2>1, <2>2, <2>3
<1>3. CASE MarkMarketClosed
  <2>1. closedAge' = 0 /\ seen' = 0 /\ slept' = 0 /\ feed' = "poll"
    BY <1>3 DEF MarkMarketClosed, Sign
  <2> QED BY <2>1, Constants
<1>4. CASE StoreFromCandle
  <2>1. closedAge' = Never /\ UNCHANGED <<feed, lag, tickAge, seen, slept, startAge, prevAge, graceAge>>
    BY <1>4, Zenon DEF StoreFromCandle
  <2>2. masked' = masked
    BY <1>4, Zenon DEF StoreFromCandle
  <2>3. unmarked \/ closedAge # Never => unmarked'
    BY <1>4, Zenon DEF StoreFromCandle
  <2> QED BY <2>1, <2>2, <2>3
<1>5. CASE FeedEnds
  <2>1. feed = "poll" /\ feed' = "down" /\ UNCHANGED <<lag, tickAge, closedAge, seen, slept, startAge, prevAge, graceAge>>
    BY <1>5, Zenon DEF FeedEnds
  <2>2. masked' = masked /\ unmarked' = unmarked
    BY <1>5, Zenon DEF FeedEnds
  <2> QED BY <2>1, <2>2
<1>6. CASE Round
  <2>1. UNCHANGED <<feed, lag, tickAge, closedAge, seen, slept, startAge>>
    BY <1>6, Zenon DEF Round
  <2>2. masked' = masked /\ unmarked' = unmarked
    BY <1>6, Zenon DEF Round
  <2>3. graceAge' = (IF SuspendGapFound THEN 0 ELSE graceAge)
    BY <1>6, Types, Constants DEF Round, WallClockBackward, GraceAfter
  <2>4. CASE SuspendGapFound
    <3>1. graceAge' = 0
      BY <2>3, <2>4
    <3> QED BY <2>1, <3>1, Types, Constants
  <2>5. CASE ~SuspendGapFound
    <3>1. graceAge' = graceAge
      BY <2>3, <2>5
    <3> QED BY <2>1, <2>2, <2>5, <3>1
  <2> QED BY <2>4, <2>5
<1>7. CASE Tick
  <2>1. AllOlder(1) /\ slept' = slept /\ feed # "store" /\ feed' = feed
    BY <1>7 DEF Tick
  <2>2. masked' = masked /\ unmarked' = unmarked
    BY <1>7, Zenon DEF Tick
  <2>3. (seen' = seen + 1 \/ seen' = Old) /\ seen' >= seen /\ seen' \in Int
    BY <1>7, Types, Constants DEF Tick, Older
  <2>4. AgedBy(tickAge, tickAge', 1) /\ AgedBy(closedAge, closedAge', 1)
        /\ AgedBy(startAge, startAge', 1) /\ AgedBy(graceAge, graceAge', 1)
        /\ AgedBy(prevAge, prevAge', 1)
    BY <2>1, TimePasses
  <2>5. SuspendNoted => SuspendNoted'
    BY <2>1, <2>3, <2>4, Types, Constants DEF AgedBy, Ages
  <2>6. closedAge # Never /\ closedAge <= Silence => closedAge' # Never /\ closedAge' <= Silence'
    BY <2>1, <2>3, <2>4, Types, Constants DEF AgedBy, Ages
  <2>7. tickAge # Never /\ tickAge <= Silence + MaxLag => tickAge' # Never /\ tickAge' <= Silence' + MaxLag
    <3>1. tickAge # Never => tickAge' # Never /\ tickAge' <= tickAge + 1 /\ tickAge' <= Old /\ tickAge' \in Int
      BY <2>4, Types, Constants DEF AgedBy, Ages
    <3> QED BY <2>1, <2>3, <3>1, Types, Constants
  <2>8. tickAge = Never /\ startAge <= Silence => tickAge' = Never /\ startAge' <= Silence'
    BY <2>1, <2>3, <2>4, Types, Constants DEF AgedBy, Ages
  <2>9. HIDE DEF SuspendNoted
  <2> QED BY <2>1, <2>2, <2>5, <2>6, <2>7, <2>8
<1>8. CASE Suspend
  <2>1. PICK n \in 1..Old : AllOlder(n) /\ slept' = (IF SuspendGapFound' THEN slept ELSE Older(slept, n))
    BY <1>8 DEF Suspend
  <2>2. UNCHANGED <<feed, seen>>
    BY <1>8, Zenon DEF Suspend
  <2>3. masked' = masked /\ unmarked' = unmarked
    BY <1>8, Zenon DEF Suspend
  <2>4. CASE SuspendGapFound'
    BY <2>4
  <2>5. CASE ~SuspendGapFound'
    <3>1. (slept' = slept + n \/ slept' = Old) /\ slept' >= slept /\ slept' \in Int
      BY <2>1, <2>5, Types, Constants DEF Older
    <3>2. /\ AgedBy(tickAge, tickAge', n) /\ AgedBy(closedAge, closedAge', n) /\ AgedBy(startAge, startAge', n)
          /\ AgedBy(graceAge, graceAge', n) /\ AgedBy(prevAge, prevAge', n)
          /\ feed = "store" => AgedBy(lag, lag', n)
      BY <2>1, TimePasses, Constants
    <3>3. \A a, b \in Int : AgedBy(a, b, n) /\ a # Never /\ a <= Silence + MaxLag
                              => b # Never /\ b <= Silence' + MaxLag
      BY <2>2, <3>1, Types, Constants DEF AgedBy, Ages
    <3>4. \A a, b \in Int : AgedBy(a, b, n) /\ a # Never /\ a <= Silence => b # Never /\ b <= Silence'
      BY <2>2, <3>1, Types, Constants DEF AgedBy, Ages
    <3>5. ~SuspendGapFound
      BY <2>5, <3>2, Types, Constants DEF AgedBy
    <3>6. tickAge = Never => tickAge' = Never
      BY <3>2 DEF AgedBy
    <3>7. /\ tickAge' \in Int /\ closedAge' \in Int /\ startAge' \in Int /\ graceAge' \in Int
          /\ feed = "store" => lag' \in Int
      BY <3>2 DEF AgedBy
    <3> HIDE DEF Silence
    <3> QED BY <2>2, <2>3, <2>5, <3>2, <3>3, <3>4, <3>5, <3>6, <3>7, Types, Constants
  <2> QED BY <2>4, <2>5
<1>9. CASE ClockSetBack
  <2>1. AllOlder(-1) /\ skew < MaxBack /\ UNCHANGED <<feed, seen, slept>>
    BY <1>9, Zenon DEF ClockSetBack
  <2>2. (masked \/ (SuspendGapFound /\ ~SuspendGapFound')) => masked'
    BY <1>9, Zenon DEF ClockSetBack
  <2>3. unmarked' = unmarked
    BY <1>9, Zenon DEF ClockSetBack
  <2> QED BY <2>1, <2>2, <2>3, TimePasses, Types, Constants DEF AgedBy, Ages
<1> QED BY <1>1, <1>2, <1>3, <1>4, <1>5, <1>6, <1>7, <1>8, <1>9 DEF Next, FeedStep

-----------------------------------------------------------------------------
(* The watchdog starts with nothing to report, and everything as old as    *)
(* the process.                                                            *)
LEMMA InitInv ==
  ASSUME Init
  PROVE  WatchInv
<1> USE Constants DEF Init
<1>0. 0 \in Ages /\ 0 # Never
  BY DEF Ages
<1>1. TypeOK
  <2>1. /\ feed \in {"poll", "store", "down"} /\ lag \in Ages
        /\ {tickAge, closedAge, startAge, prevAge, graceAge, alertAge} \subseteq Ages \cup {Never}
        /\ {startAge, prevAge} \subseteq Ages
    BY <1>0
  <2>2. {building, queued, unmarked, masked} \subseteq BOOLEAN
    BY Zenon
  <2>3. skew \in 0..MaxBack /\ seen \in 0..Old /\ slept \in 0..Old /\ ran \in 0..CheckInterval /\ calm \in 0..seen /\ suspends \in 0..MaxSuspends
    OBVIOUS
  <2> QED BY <2>1, <2>2, <2>3 DEF TypeOK
<1>2. AgesInv /\ PunctualInv
  BY DEF AgesInv, AtLeastCalm, PunctualInv
<1>3. ReportInv /\ FreshInv
  BY DEF ReportInv, FreshInv, Silence
<1> QED BY <1>1, <1>2, <1>3 DEF WatchInv

(* A step that changes nothing keeps the invariant.                        *)
LEMMA StutterInv ==
  ASSUME WatchInv, UNCHANGED vars
  PROVE  WatchInv'
<1>1. /\ UNCHANGED <<feed, lag, tickAge, closedAge, skew, startAge, prevAge, graceAge, alertAge>>
      /\ UNCHANGED <<seen, slept, ran, calm, suspends>>
  BY DEF vars, storeVars, watchVars, candleVars, history
<1>2. building' = building /\ queued' = queued /\ masked' = masked /\ unmarked' = unmarked
  BY Zenon DEF vars, storeVars, watchVars, candleVars, history
<1>3. TypeOK'
  BY <1>1, <1>2 DEF WatchInv, TypeOK
<1>4. AgesInv' /\ PunctualInv' /\ ReportInv'
  BY <1>1 DEF WatchInv, AgesInv, AtLeastCalm, PunctualInv, ReportInv, Alerted
<1>5. FreshInv'
  BY <1>1, <1>2 DEF WatchInv, FreshInv, SuspendNoted, SuspendGapFound, Silence
<1> QED BY <1>3, <1>4, <1>5 DEF WatchInv

(* The invariant holds in every reachable state.                           *)
LEMMA WatchInvariant == Spec => []WatchInv
<1>1. WatchInv /\ [Next]_vars => WatchInv'
  <2> SUFFICES ASSUME WatchInv, [Next]_vars PROVE WatchInv'
    OBVIOUS
  <2>1. CASE Next
    BY <2>1, TypeStep, AgesStep, ReportStep, FreshStep DEF WatchInv
  <2>2. CASE UNCHANGED vars
    BY <2>2, StutterInv
  <2> QED BY <2>1, <2>2
<1> QED BY InitInv, <1>1, PTL DEF Spec

(* A feed that falls silent is on record as stale, with an alert that is   *)
(* no older than the re-alert interval, once StaleAfter, all setbacks of   *)
(* the clock and an interval have passed: whatever the thresholds that     *)
(* validate accepts, wherever suspensions and setbacks fall.               *)
THEOREM OutageCorrect == Spec => []OutageReported
<1>1. WatchInv => OutageReported
  BY Types, Constants DEF WatchInv, PunctualInv, ReportInv, OutageReported, Alerted
<1> QED BY <1>1, WatchInvariant, PTL

(* Only a silent feed is newly put on record as stale, up to the three     *)
(* races that AlertIsReal names.                                           *)
THEOREM AlertCorrect == Spec => AlertIsReal
<1> DEFINE Real == seen + slept + MaxLag >= StaleAfter \/ feed = "store" \/ unmarked \/ masked
<1>1. WatchInv /\ [Next]_vars => [~Alerted /\ Alerted' => Real]_vars
  <2> SUFFICES ASSUME WatchInv, Next, alertAge = Never, alertAge' # Never PROVE Real
    BY DEF Alerted
  <2> USE DEF WatchInv
  <2>1. CASE FeedStep
    BY <2>1, Zenon DEF FeedStep, ClearMarketClosedOnTick, StoreTick, MarkMarketClosed, StoreFromCandle, FeedEnds, watchVars
  <2>2. CASE Tick \/ Suspend \/ ClockSetBack
    BY <2>2 DEF Tick, Suspend, ClockSetBack, AllOlder, Older
  <2>3. CASE Round
    <3> SUFFICES ASSUME ~Real PROVE FALSE
      OBVIOUS
    <3>1. /\ ~WallClockBackward /\ ~InGracePeriod /\ ~EffectivelyMarketClosed /\ IsStaleNow
      BY <2>3 DEF Round, Evaluate
    <3>2. ~SuspendGapFound
      <4>1. SuspendGapFound => GraceAfter = 0
        BY DEF GraceAfter
      <4>2. GraceAfter = 0 => InGracePeriod
        BY Constants DEF InGracePeriod
      <4> QED BY <3>1, <4>1, <4>2
    <3>3. graceAge = Never \/ graceAge >= StaleAfter
      BY <3>1, <3>2, Types, Constants DEF InGracePeriod, GraceAfter
    <3>4. Silence < StaleAfter /\ Silence + MaxLag < StaleAfter
      BY Types, Constants DEF Silence
    <3>5. ~SuspendNoted
      BY <3>2, <3>3, <3>4, Types, Constants DEF SuspendNoted, Silence
    <3>6. \/ closedAge # Never /\ closedAge <= Silence
          \/ tickAge # Never /\ tickAge <= Silence + MaxLag
          \/ tickAge = Never /\ startAge <= Silence
      BY <3>5 DEF FreshInv
    <3> QED BY <3>1, <3>4, <3>6, Types, Constants DEF Silence, EffectivelyMarketClosed, IsStaleNow
  <2> QED BY <2>1, <2>2, <2>3 DEF Next
<1>2. Spec => []WatchInv /\ [][Next]_vars
  BY WatchInvariant, PTL DEF Spec
<1> QED BY <1>1, <1>2, PTL DEF AlertIsReal
-----------------------------------------------------------------------------
(* The delivery of the alerts.                                             *)

AlertTypes == [kind : {"stale", "recovered"}, at : Nat, step : {"sending", "waiting", "delivered", "lost"},
               attempt : Nat, left : Nat]

DeliveryTypes ==
  /\ now \in Nat /\ lastRound \in 0..now /\ onRecord \in BOOLEAN
  /\ alerts \in Seq(AlertTypes)
  /\ lastWord \in 0..Len(alerts) /\ forgotten \in 0..Len(alerts)

(* Alerts are raised in the order of time, by rounds.                      *)
RaisedInv ==
  /\ \A k \in DOMAIN alerts : alerts[k].at <= lastRound
  /\ \A j, k \in DOMAIN alerts : j <= k => alerts[j].at <= alerts[k].at

(* The feed is on record if the last alert says so and is not forgotten.   *)
RecordInv ==
  onRecord <=> forgotten < Len(alerts) /\ alerts[Len(alerts)].kind = "stale"

(* What the task of an alert may take after request number n, counted from *)
(* zero: the delays and the requests that follow.                          *)
Later(n) ==
  (Attempts - n) * SendTimeout + InitialSecs * (DoubledTo[Attempts + 1] - DoubledTo[n + 1])

(* A task ends within RetrySpan of its alert.                              *)
EndsBy(alert, time) ==
  /\ alert.step = "sending" =>
       /\ alert.attempt \in 0..Attempts
       /\ time - alert.at + alert.left + Later(alert.attempt) <= RetrySpan
  /\ alert.step = "waiting" =>
       /\ alert.attempt \in 0..Attempts
       /\ time - alert.at + alert.left + SendTimeout + Later(alert.attempt) <= RetrySpan
SpanInv == \A k \in DOMAIN alerts : EndsBy(alerts[k], now)

(* An alert that was read before an older one was raised within RetrySpan  *)
(* of it.                                                                  *)
ReadInv ==
  \A j \in DOMAIN alerts : alerts[j].step = "delivered" /\ lastWord < j =>
    lastWord # 0 /\ alerts[j].at - alerts[lastWord].at <= RetrySpan

(* The inductive invariant.                                                *)
DeliveryInv ==
  DeliveryTypes /\ RaisedInv /\ RecordInv /\ SpanInv /\ ReadInv /\ RepeatsDoNotOverlap

(* Each delay is twice the one before.                                     *)
LEMMA Doubles ==
  /\ \A n \in 1..11 : DoubledTo[n] \in Nat \ {0} /\ DoubledTo[n] <= DoubledTo[11]
  /\ \A n \in 1..10 : DoubledTo[n + 1] = 2 * DoubledTo[n]
  /\ \A n \in 1..11, m \in 1..11 : n <= m => DoubledTo[n] <= DoubledTo[m]
  /\ DoubledTo[1] = 1
BY DEF DoubledTo

(* The settings that validate accepts.                                     *)
LEMMA Settings ==
  /\ Attempts \in 0..10 /\ InitialSecs \in Nat \ {0} /\ SendTimeout \in Nat \ {0}
  /\ RoundSecs \in Nat \ {0} /\ RealertSecs \in Nat \ {0}
  /\ RetrySpan \in Nat /\ RetrySpan < RealertSecs
<1>1. /\ Attempts \in 0..10 /\ InitialSecs \in Nat \ {0} /\ SendTimeout \in Nat \ {0}
      /\ RoundSecs \in Nat \ {0} /\ RealertSecs \in Nat \ {0} /\ RetrySpan < RealertSecs
  BY DeliveryAssumption
<1>2. DoubledTo[Attempts + 1] - 1 \in Nat
  BY <1>1, Doubles
<1>3. \A a, b \in Nat : a * b \in Nat
  OBVIOUS
<1>4. (Attempts + 1) * SendTimeout \in Nat /\ InitialSecs * (DoubledTo[Attempts + 1] - 1) \in Nat
  BY <1>1, <1>2, <1>3
<1> QED BY <1>1, <1>4 DEF RetrySpan

(* The time that is left after a request, request by request.              *)
LEMMA LaterIs ==
  /\ \A n \in 0..Attempts : Later(n) \in Nat
  /\ \A n \in 0..Attempts : n + 1 <= Attempts =>
       /\ RetryDelay(n + 1) \in Nat
       /\ Later(n) = RetryDelay(n + 1) + SendTimeout + Later(n + 1)
  /\ SendTimeout + Later(0) = RetrySpan
<1>0. Attempts \in 0..10 /\ InitialSecs \in Nat /\ SendTimeout \in Nat
  BY Settings
<1> DEFINE top == DoubledTo[Attempts + 1]
<1>1. top \in Nat
  BY <1>0, Doubles
<1>2. \A a, b \in Nat : a * b \in Nat
  OBVIOUS
<1>3. ASSUME NEW n \in 0..Attempts
      PROVE  Later(n) \in Nat
  <2>0. n + 1 \in 1..11 /\ Attempts + 1 \in 1..11 /\ n + 1 <= Attempts + 1 /\ Attempts - n \in Nat
    BY <1>0
  <2>1. Attempts - n \in Nat /\ top - DoubledTo[n + 1] \in Nat
    BY <2>0, Doubles, SMTT(30)
  <2>2. (Attempts - n) * SendTimeout \in Nat /\ InitialSecs * (top - DoubledTo[n + 1]) \in Nat
    BY <1>0, <1>2, <2>1
  <2> QED BY <2>2 DEF Later
<1>4. \A a, b, c \in Int : a * (b - 2 * c) = a * (b - c) - a * c
  OBVIOUS
<1>5. \A a, b \in Int : (a - 1) * b = a * b - b /\ (a + 1) * b = a * b + b
  OBVIOUS
<1>6. ASSUME NEW n \in 0..Attempts, n + 1 <= Attempts
      PROVE  /\ RetryDelay(n + 1) \in Nat
             /\ Later(n) = RetryDelay(n + 1) + SendTimeout + Later(n + 1)
  <2> DEFINE d == DoubledTo[n + 1]
  <2>1. d \in Nat /\ DoubledTo[n + 2] = 2 * d
    BY <1>0, <1>6, Doubles
  <2>2. RetryDelay(n + 1) = InitialSecs * d /\ InitialSecs * d \in Nat
    BY <1>0, <1>2, <2>1 DEF RetryDelay
  <2> HIDE DEF d, top
  <2>3. InitialSecs * (top - 2 * d) = InitialSecs * (top - d) - InitialSecs * d
    BY <1>0, <1>1, <1>4, <2>1
  <2>4. (Attempts - (n + 1)) * SendTimeout = (Attempts - n) * SendTimeout - SendTimeout
    <3>1. Attempts - n \in Int /\ SendTimeout \in Int /\ Attempts - (n + 1) = (Attempts - n) - 1
      BY <1>0
    <3> QED BY <3>1, <1>5
  <2>5. Later(n + 1) = (Attempts - (n + 1)) * SendTimeout + InitialSecs * (top - 2 * d)
    BY <1>0, <2>1 DEF Later, top
  <2>6. Later(n) = (Attempts - n) * SendTimeout + InitialSecs * (top - d)
    BY DEF Later, top, d
  <2>7. (Attempts - n) * SendTimeout \in Int /\ InitialSecs * (top - d) \in Int
    BY <1>0, <1>1, <2>1
  <2> QED BY <1>0, <2>2, <2>3, <2>4, <2>5, <2>6, <2>7
<1>7. SendTimeout + Later(0) = RetrySpan
  <2>1. Later(0) = Attempts * SendTimeout + InitialSecs * (top - 1)
    BY <1>0, Doubles DEF Later
  <2>2. RetrySpan = (Attempts + 1) * SendTimeout + InitialSecs * (top - 1)
    BY DEF RetrySpan
  <2>3. (Attempts + 1) * SendTimeout = Attempts * SendTimeout + SendTimeout
    BY <1>0, <1>5
  <2>4. Attempts * SendTimeout \in Int /\ InitialSecs * (top - 1) \in Int
    BY <1>0, <1>1
  <2> QED BY <1>0, <2>1, <2>2, <2>3, <2>4
<1> QED BY <1>3, <1>6, <1>7

(* What the invariant says of one alert.                                   *)
LEMMA AlertIs ==
  ASSUME DeliveryTypes, NEW k \in DOMAIN alerts
  PROVE  /\ k \in 1..Len(alerts) /\ Len(alerts) \in Nat /\ alerts[k] \in AlertTypes
         /\ alerts[k].kind \in {"stale", "recovered"} /\ alerts[k].at \in Nat
         /\ alerts[k].attempt \in Nat /\ alerts[k].left \in Nat
         /\ alerts[k].step \in {"sending", "waiting", "delivered", "lost"}
<1>1. k \in 1..Len(alerts) /\ Len(alerts) \in Nat /\ alerts[k] \in AlertTypes
  BY DEF DeliveryTypes
<1> QED BY <1>1 DEF AlertTypes

(* The task of an alert that is RetrySpan old has ended.                   *)
LEMMA EndsInTime ==
  ASSUME DeliveryTypes, SpanInv, NEW k \in DOMAIN alerts, Running(k)
  PROVE  now - alerts[k].at <= RetrySpan
<1>1. alerts[k].attempt \in 0..Attempts => Later(alerts[k].attempt) \in Nat
  BY LaterIs
<1>2. now \in Nat /\ SendTimeout \in Nat /\ RetrySpan \in Nat
  BY Settings DEF DeliveryTypes
<1>3. alerts[k].at \in Nat /\ alerts[k].left \in Nat
  BY AlertIs
<1>4. CASE alerts[k].step = "sending"
  BY <1>1, <1>2, <1>3, <1>4 DEF SpanInv, EndsBy
<1>5. CASE alerts[k].step = "waiting"
  BY <1>1, <1>2, <1>3, <1>5 DEF SpanInv, EndsBy
<1> QED BY <1>4, <1>5 DEF Running

(* An alert is raised: the newest one.                                     *)
LEMMA RaiseKeeps ==
  ASSUME DeliveryInv, NEW kind \in {"stale", "recovered"}, Raise(kind),
         now = lastRound + RoundSecs, lastRound' = now, onRecord' = (kind = "stale"),
         kind = "stale" => ~onRecord \/ now - LastAlertAt >= RealertSecs,
         UNCHANGED <<now, lastWord, forgotten>>
  PROVE  DeliveryInv'
<1> DEFINE new == [kind |-> kind, at |-> now, step |-> "sending", attempt |-> 0, left |-> SendTimeout]
<1> DEFINE n == Len(alerts) + 1
<1>0. DeliveryTypes /\ now \in Nat /\ lastRound \in Nat /\ lastRound < now /\ Len(alerts) \in Nat
  BY Settings DEF DeliveryInv, DeliveryTypes
<1>1. new \in AlertTypes
  BY <1>0, Settings DEF AlertTypes
<1>2. alerts' = Append(alerts, new)
  BY DEF Raise
<1> HIDE DEF new
<1>3. /\ Len(alerts') = n /\ DOMAIN alerts = 1..Len(alerts) /\ DOMAIN alerts' = 1..n /\ alerts'[n] = new
      /\ \A k \in DOMAIN alerts : k \in DOMAIN alerts' /\ k < n /\ alerts'[k] = alerts[k]
      /\ \A k \in DOMAIN alerts' : k \in DOMAIN alerts \/ k = n
  BY <1>0, <1>1, <1>2 DEF DeliveryTypes
<1>4. new.kind = kind /\ new.at = now /\ new.step = "sending" /\ new.attempt = 0 /\ new.left = SendTimeout
  BY DEF new
<1>5. DeliveryTypes'
  BY <1>0, <1>1, <1>2, <1>3 DEF DeliveryTypes
<1>6. RaisedInv'
  <2>1. \A k \in DOMAIN alerts : alerts[k].at \in Nat /\ alerts[k].at <= now
    BY <1>0, AlertIs DEF DeliveryInv, RaisedInv
  <2> QED BY <1>0, <1>3, <1>4, <2>1 DEF DeliveryInv, RaisedInv
<1>7. RecordInv'
  <2>1. forgotten' < Len(alerts') /\ alerts'[Len(alerts')].kind = kind
    BY <1>0, <1>3, <1>4 DEF DeliveryTypes
  <2> QED BY <2>1 DEF RecordInv
<1>8. SpanInv'
  <2>1. EndsBy(new, now)
    BY <1>0, <1>4, LaterIs, Settings DEF EndsBy
  <2>2. \A k \in DOMAIN alerts : EndsBy(alerts[k], now)
    BY DEF DeliveryInv, SpanInv
  <2> QED BY <1>3, <2>1, <2>2 DEF SpanInv
<1>9. ReadInv'
  <2>1. lastWord \in 0..Len(alerts)
    BY <1>0 DEF DeliveryTypes
  <2> QED BY <1>0, <1>3, <1>4, <2>1 DEF DeliveryInv, ReadInv
<1>10. RepeatsDoNotOverlap'
  <2> SUFFICES ASSUME NEW k \in DOMAIN alerts' \ {1},
                      alerts'[k].kind = "stale", alerts'[k - 1].kind = "stale", forgotten # k - 1, alerts'[k].at = now
               PROVE  ~Running(k - 1)'
    BY DEF RepeatsDoNotOverlap
  <2>1. k = n
    <3>1. ASSUME k \in DOMAIN alerts PROVE FALSE
      BY <1>0, <1>3, <3>1, AlertIs DEF DeliveryInv, RaisedInv
    <3> QED BY <1>3, <3>1
  <2>2. k - 1 = Len(alerts) /\ Len(alerts) \in DOMAIN alerts
    BY <1>0, <1>3, <2>1
  <2>3. alerts'[Len(alerts)] = alerts[Len(alerts)] /\ kind = "stale"
    BY <1>3, <1>4, <2>1, <2>2
  <2>4. onRecord
    <3>1. forgotten < Len(alerts)
      BY <1>0, <2>2 DEF DeliveryTypes
    <3> QED BY <2>2, <2>3, <3>1 DEF DeliveryInv, RecordInv
  <2>5. now - alerts[Len(alerts)].at >= RealertSecs
    BY <2>3, <2>4 DEF LastAlertAt
  <2>6. ~Running(Len(alerts))
    BY <1>0, <2>2, <2>5, EndsInTime, Settings, AlertIs DEF DeliveryInv
  <2> QED BY <2>2, <2>3, <2>6 DEF Running
<1> QED BY <1>5, <1>6, <1>7, <1>8, <1>9, <1>10 DEF DeliveryInv

(* A round raises no alert, and may drop the record.                       *)
LEMMA QuietKeeps ==
  ASSUME DeliveryInv, now = lastRound + RoundSecs, lastRound' = now,
         UNCHANGED <<now, alerts, lastWord>>,
         \/ UNCHANGED <<onRecord, forgotten>>
         \/ onRecord' = FALSE /\ forgotten' = Len(alerts)
  PROVE  DeliveryInv'
<1>0. DeliveryTypes /\ now \in Nat /\ lastRound \in Nat /\ lastRound < now /\ Len(alerts) \in Nat
  BY Settings DEF DeliveryInv, DeliveryTypes
<1>1. DeliveryTypes'
  <2>1. onRecord' \in BOOLEAN
    BY <1>0, Zenon DEF DeliveryTypes
  <2>2. forgotten' \in 0..Len(alerts) /\ lastRound' \in 0..now
    BY <1>0 DEF DeliveryTypes
  <2> QED BY <1>0, <2>1, <2>2, Zenon DEF DeliveryTypes
<1>2. \A k \in DOMAIN alerts : alerts[k].at \in Nat /\ alerts[k].at < now
  BY <1>0, AlertIs DEF DeliveryInv, RaisedInv
<1>3. RaisedInv' /\ RepeatsDoNotOverlap'
  BY <1>0, <1>2 DEF DeliveryInv, RaisedInv, RepeatsDoNotOverlap
<1>4. RecordInv'
  BY <1>0 DEF DeliveryInv, RecordInv
<1>5. SpanInv' /\ ReadInv'
  BY DEF DeliveryInv, SpanInv, ReadInv
<1> QED BY <1>1, <1>3, <1>4, <1>5 DEF DeliveryInv

(* The task of an alert goes on or ends, and the operator may read it.     *)
LEMMA TaskKeeps ==
  ASSUME DeliveryInv, NEW k \in DOMAIN alerts, Running(k), NEW x \in AlertTypes,
         alerts' = [alerts EXCEPT ![k] = x], x.kind = alerts[k].kind, x.at = alerts[k].at, EndsBy(x, now),
         x.step = "delivered" => lastWord' = k,
         lastWord' \in {lastWord, k}, UNCHANGED <<now, lastRound, onRecord, forgotten>>
  PROVE  DeliveryInv'
<1>0. DeliveryTypes /\ now \in Nat /\ Len(alerts) \in Nat
  BY DEF DeliveryInv, DeliveryTypes
<1>1. /\ DOMAIN alerts' = DOMAIN alerts /\ Len(alerts') = Len(alerts) /\ alerts' \in Seq(AlertTypes)
      /\ \A j \in DOMAIN alerts : alerts'[j] = IF j = k THEN x ELSE alerts[j]
  BY <1>0 DEF DeliveryTypes
<1>2. \A j \in DOMAIN alerts : alerts'[j].kind = alerts[j].kind /\ alerts'[j].at = alerts[j].at
  BY <1>1
<1>3. DeliveryTypes'
  BY <1>0, <1>1, AlertIs DEF DeliveryTypes
<1>4. RaisedInv'
  BY <1>1, <1>2 DEF DeliveryInv, RaisedInv
<1>5. RecordInv'
  <2>1. forgotten < Len(alerts) => Len(alerts) \in DOMAIN alerts
    BY <1>0 DEF DeliveryTypes
  <2> QED BY <1>1, <1>2, <2>1 DEF DeliveryInv, RecordInv
<1>6. SpanInv'
  <2>1. \A j \in DOMAIN alerts : EndsBy(alerts[j], now)
    BY DEF DeliveryInv, SpanInv
  <2> QED BY <1>1, <2>1 DEF SpanInv
<1>7. ReadInv'
  <2> SUFFICES ASSUME NEW j \in DOMAIN alerts, alerts'[j].step = "delivered", lastWord' < j
               PROVE  lastWord' # 0 /\ alerts[j].at - alerts'[lastWord'].at <= RetrySpan
    BY <1>1, <1>2 DEF ReadInv
  <2>1. CASE lastWord' = k
    <3>1. k # 0 /\ alerts'[k].at = alerts[k].at
      BY <1>1, <1>2, <1>0, AlertIs
    <3>2. now - alerts[k].at <= RetrySpan
      BY <1>0, EndsInTime DEF DeliveryInv
    <3>3. alerts[j].at <= now /\ alerts[j].at \in Nat /\ alerts[k].at \in Nat
      BY <1>0, AlertIs DEF DeliveryInv, RaisedInv, DeliveryTypes
    <3> QED BY <1>0, <2>1, <3>1, <3>2, <3>3, Settings
  <2>2. CASE lastWord' # k
    <3>1. lastWord' = lastWord /\ alerts[j].step = "delivered"
      BY <1>1, <2>2
    <3>2. lastWord # 0 /\ alerts[j].at - alerts[lastWord].at <= RetrySpan
      BY <3>1 DEF DeliveryInv, ReadInv
    <3>3. lastWord \in DOMAIN alerts
      BY <1>0, <3>2 DEF DeliveryTypes
    <3> QED BY <1>2, <3>1, <3>2, <3>3
  <2> QED BY <2>1, <2>2
<1>8. RepeatsDoNotOverlap'
  <2>1. \A j \in DOMAIN alerts : Running(j)' => Running(j)
    BY <1>1 DEF Running
  <2>2. \A j \in DOMAIN alerts \ {1} : j - 1 \in DOMAIN alerts
    BY <1>0, AlertIs
  <2> QED BY <1>1, <1>2, <2>1, <2>2 DEF DeliveryInv, RepeatsDoNotOverlap
<1> QED BY <1>3, <1>4, <1>5, <1>6, <1>7, <1>8 DEF DeliveryInv

(* A restart ends every task and drops the record.                         *)
LEMMA RestartKeeps == ASSUME DeliveryInv, Restart PROVE DeliveryInv'
<1>0. DeliveryTypes /\ now \in Nat /\ lastRound \in 0..now /\ Len(alerts) \in Nat /\ alerts \in Seq(AlertTypes)
  BY DEF DeliveryInv, DeliveryTypes
<1> DEFINE Ended(alert) == IF alert.step \in {"sending", "waiting"} THEN [alert EXCEPT !.step = "lost"] ELSE alert
<1>1. alerts' = [k \in DOMAIN alerts |-> Ended(alerts[k])]
  BY DEF Restart
<1>2. \A alert \in AlertTypes :
        /\ Ended(alert) \in AlertTypes /\ Ended(alert).kind = alert.kind /\ Ended(alert).at = alert.at
        /\ Ended(alert).step \notin {"sending", "waiting"}
        /\ Ended(alert).step = "delivered" => alert.step = "delivered"
  BY DEF AlertTypes
<1> HIDE DEF Ended
<1>3. \A k \in DOMAIN alerts : alerts[k] \in AlertTypes
  BY <1>0
<1>4. DOMAIN alerts = 1..Len(alerts) /\ \A k \in 1..Len(alerts) : Ended(alerts[k]) \in AlertTypes
  BY <1>0, <1>2, <1>3
<1>5. alerts' \in Seq(AlertTypes) /\ Len(alerts') = Len(alerts) /\ DOMAIN alerts' = DOMAIN alerts
  BY <1>0, <1>1, <1>4
<1>6. \A k \in DOMAIN alerts :
        /\ alerts'[k].kind = alerts[k].kind /\ alerts'[k].at = alerts[k].at
        /\ alerts'[k].step \notin {"sending", "waiting"}
        /\ alerts'[k].step = "delivered" => alerts[k].step = "delivered"
  BY <1>1, <1>2, <1>3
<1>7. /\ onRecord' = FALSE /\ forgotten' = Len(alerts) /\ lastRound' = now
      /\ now' = now /\ lastWord' = lastWord /\ lastWord \in 0..Len(alerts)
  BY DEF Restart, DeliveryInv, DeliveryTypes
<1>8. DeliveryTypes'
  <2>1. onRecord' \in BOOLEAN
    BY <1>7, Zenon
  <2>2. now' \in Nat /\ lastRound' \in 0..now' /\ lastWord' \in 0..Len(alerts') /\ forgotten' \in 0..Len(alerts')
    BY <1>0, <1>5, <1>7
  <2> QED BY <1>5, <2>1, <2>2, Zenon DEF DeliveryTypes
<1>9. RaisedInv'
  <2>1. \A k \in DOMAIN alerts : alerts[k].at <= now
    BY <1>0, AlertIs DEF DeliveryInv, RaisedInv
  <2> QED BY <1>5, <1>6, <1>7, <2>1 DEF DeliveryInv, RaisedInv
<1>10. RecordInv'
  BY <1>0, <1>5, <1>7 DEF RecordInv
<1>11. SpanInv' /\ RepeatsDoNotOverlap'
  <2>1. \A k \in DOMAIN alerts' \ {1} : k - 1 \in DOMAIN alerts
    BY <1>0, <1>5, AlertIs
  <2> QED BY <1>5, <1>6, <2>1 DEF SpanInv, EndsBy, RepeatsDoNotOverlap, Running
<1>12. ReadInv'
  <2>1. lastWord # 0 => lastWord \in DOMAIN alerts
    BY <1>0, <1>7
  <2> QED BY <1>5, <1>6, <1>7, <2>1 DEF DeliveryInv, ReadInv
<1> QED BY <1>8, <1>9, <1>10, <1>11, <1>12 DEF DeliveryInv

(* Time passes: what a task has before it grows shorter.                   *)
LEMMA ClockKeeps == ASSUME DeliveryInv, ClockTick PROVE DeliveryInv'
<1>0. DeliveryTypes /\ now \in Nat /\ lastRound \in 0..now /\ Len(alerts) \in Nat /\ alerts \in Seq(AlertTypes)
  BY DEF DeliveryInv, DeliveryTypes
<1>1. /\ now' = now + 1 /\ UNCHANGED <<lastRound, onRecord, lastWord, forgotten>>
      /\ \A k \in DOMAIN alerts : Running(k) => alerts[k].left > 0
      /\ alerts' = [k \in DOMAIN alerts |->
                      IF Running(k) THEN [alerts[k] EXCEPT !.left = @ - 1] ELSE alerts[k]]
  BY DEF ClockTick
<1>2. ASSUME NEW k \in DOMAIN alerts
      PROVE  /\ alerts'[k] \in AlertTypes /\ alerts'[k].kind = alerts[k].kind /\ alerts'[k].at = alerts[k].at
             /\ alerts'[k].step = alerts[k].step /\ alerts'[k].attempt = alerts[k].attempt
             /\ Running(k) => alerts'[k].left = alerts[k].left - 1
  <2>1. alerts[k] \in AlertTypes /\ alerts[k].left \in Nat
    BY <1>0, AlertIs
  <2>2. CASE Running(k)
    <3>1. alerts'[k] = [alerts[k] EXCEPT !.left = alerts[k].left - 1] /\ alerts[k].left - 1 \in Nat
      BY <1>1, <2>1, <2>2
    <3> QED BY <2>1, <3>1 DEF AlertTypes
  <2>3. CASE ~Running(k)
    BY <1>1, <2>1, <2>3
  <2> QED BY <2>2, <2>3
<1>3. DOMAIN alerts = 1..Len(alerts) /\ DOMAIN alerts' = DOMAIN alerts
  BY <1>0, <1>1
<1>4. alerts' \in Seq(AlertTypes) /\ Len(alerts') = Len(alerts)
  <2>1. alerts' = [k \in 1..Len(alerts) |-> alerts'[k]]
    BY <1>1, <1>3
  <2>2. \A k \in 1..Len(alerts) : alerts'[k] \in AlertTypes
    BY <1>2, <1>3
  <2> QED BY <1>0, <2>1, <2>2
<1>5. DeliveryTypes'
  BY <1>0, <1>1, <1>4 DEF DeliveryTypes
<1>6. RaisedInv'
  BY <1>0, <1>1, <1>2, <1>3, AlertIs DEF DeliveryInv, RaisedInv
<1>7. RecordInv'
  <2>1. forgotten < Len(alerts) => Len(alerts) \in DOMAIN alerts
    BY <1>0, <1>3 DEF DeliveryTypes
  <2> QED BY <1>1, <1>2, <1>4, <2>1 DEF DeliveryInv, RecordInv
<1>8. SpanInv'
  <2> SUFFICES ASSUME NEW k \in DOMAIN alerts PROVE EndsBy(alerts'[k], now + 1)
    BY <1>1, <1>3 DEF SpanInv
  <2>1. EndsBy(alerts[k], now)
    BY DEF DeliveryInv, SpanInv
  <2>2. /\ now \in Nat /\ alerts[k].at \in Nat /\ alerts[k].left \in Nat
        /\ SendTimeout \in Nat /\ RetrySpan \in Nat
    BY <1>0, AlertIs, Settings
  <2>3. alerts[k].attempt \in 0..Attempts => Later(alerts[k].attempt) \in Nat
    BY LaterIs
  <2>4. CASE alerts[k].step = "sending"
    <3>1. alerts'[k].left = alerts[k].left - 1
      BY <1>2, <2>4 DEF Running
    <3>2. alerts'[k].step = "sending" /\ alerts'[k].attempt = alerts[k].attempt /\ alerts'[k].at = alerts[k].at
      BY <1>2, <2>4
    <3>3. /\ alerts[k].attempt \in 0..Attempts /\ Later(alerts[k].attempt) \in Nat
          /\ now - alerts[k].at + alerts[k].left + Later(alerts[k].attempt) <= RetrySpan
      BY <2>1, <2>3, <2>4 DEF EndsBy
    <3>4. (now + 1) - alerts[k].at + (alerts[k].left - 1) + Later(alerts[k].attempt) <= RetrySpan
      BY <2>2, <3>3
    <3> QED BY <3>1, <3>2, <3>3, <3>4 DEF EndsBy
  <2>5. CASE alerts[k].step = "waiting"
    <3>1. alerts'[k].left = alerts[k].left - 1
      BY <1>2, <2>5 DEF Running
    <3>2. alerts'[k].step = "waiting" /\ alerts'[k].attempt = alerts[k].attempt /\ alerts'[k].at = alerts[k].at
      BY <1>2, <2>5
    <3>3. /\ alerts[k].attempt \in 0..Attempts /\ Later(alerts[k].attempt) \in Nat
          /\ now - alerts[k].at + alerts[k].left + SendTimeout + Later(alerts[k].attempt) <= RetrySpan
      BY <2>1, <2>3, <2>5 DEF EndsBy
    <3>4. (now + 1) - alerts[k].at + (alerts[k].left - 1) + SendTimeout + Later(alerts[k].attempt) <= RetrySpan
      BY <2>2, <3>3
    <3> QED BY <3>1, <3>2, <3>3, <3>4 DEF EndsBy
  <2> QED BY <1>2, <2>4, <2>5 DEF EndsBy
<1>9. ReadInv'
  <2>1. lastWord # 0 => lastWord \in DOMAIN alerts
    BY <1>0, <1>3 DEF DeliveryTypes
  <2> QED BY <1>1, <1>2, <1>3, <2>1 DEF DeliveryInv, ReadInv
<1>10. RepeatsDoNotOverlap'
  BY <1>0, <1>1, <1>2, <1>3, AlertIs DEF DeliveryInv, RaisedInv, RepeatsDoNotOverlap
<1> QED BY <1>5, <1>6, <1>7, <1>8, <1>9, <1>10 DEF DeliveryInv

(* The requests and delays of a task.                                      *)
LEMMA SendKeeps ==
  ASSUME DeliveryInv, NEW k \in DOMAIN alerts, SendSucceeds(k) \/ SendFails(k) \/ Resend(k)
  PROVE  DeliveryInv'
<1>0. DeliveryTypes /\ now \in Nat /\ alerts[k] \in AlertTypes /\ alerts[k].at \in Nat
      /\ alerts[k].attempt \in Nat /\ alerts[k].left \in Nat /\ EndsBy(alerts[k], now)
  BY AlertIs DEF DeliveryInv, DeliveryTypes, SpanInv
<1>1. SendTimeout \in Nat /\ RetrySpan \in Nat /\ Attempts \in Nat
  BY Settings
<1>2. CASE SendSucceeds(k)
  <2> DEFINE x == [alerts[k] EXCEPT !.step = "delivered"]
  <2>1. /\ x \in AlertTypes /\ x.kind = alerts[k].kind /\ x.at = alerts[k].at /\ x.step = "delivered"
        /\ EndsBy(x, now)
    BY <1>0 DEF AlertTypes, EndsBy
  <2>2. /\ alerts[k].step = "sending" /\ alerts' = [alerts EXCEPT ![k] = x] /\ lastWord' = k
        /\ UNCHANGED <<now, lastRound, onRecord, forgotten>>
    BY <1>2 DEF SendSucceeds
  <2> QED BY <2>1, <2>2, TaskKeeps DEF Running
<1>3. CASE SendFails(k)
  <2> DEFINE n == alerts[k].attempt + 1
  <2>1. /\ alerts[k].step = "sending" /\ lastWord' \in {lastWord, k}
        /\ UNCHANGED <<now, lastRound, onRecord, forgotten>>
    BY <1>3 DEF SendFails
  <2>2. CASE n > Attempts
    <3> DEFINE x == [alerts[k] EXCEPT !.step = "lost"]
    <3>1. /\ x \in AlertTypes /\ x.kind = alerts[k].kind /\ x.at = alerts[k].at /\ x.step = "lost"
          /\ EndsBy(x, now)
      BY <1>0 DEF AlertTypes, EndsBy
    <3>2. alerts' = [alerts EXCEPT ![k] = x]
      BY <1>3, <2>2 DEF SendFails
    <3> QED BY <2>1, <3>1, <3>2, TaskKeeps DEF Running
  <2>3. CASE ~(n > Attempts)
    <3> DEFINE x == [alerts[k] EXCEPT !.step = "waiting", !.attempt = n, !.left = RetryDelay(n)]
    <3>1. alerts' = [alerts EXCEPT ![k] = x]
      BY <1>3, <2>3 DEF SendFails
    <3>2. /\ n \in 0..Attempts /\ n \in Nat /\ RetryDelay(n) \in Nat /\ Later(n) \in Nat
          /\ Later(alerts[k].attempt) = RetryDelay(n) + SendTimeout + Later(n)
      BY <1>0, <1>1, <2>3, LaterIs
    <3>3. now - alerts[k].at + alerts[k].left + Later(alerts[k].attempt) <= RetrySpan
      BY <1>0, <2>1 DEF EndsBy
    <3>4. now - alerts[k].at + RetryDelay(n) + SendTimeout + Later(n) <= RetrySpan
      BY <1>0, <1>1, <3>2, <3>3
    <3>5. /\ x \in AlertTypes /\ x.kind = alerts[k].kind /\ x.at = alerts[k].at /\ x.step = "waiting"
          /\ x.attempt = n /\ x.left = RetryDelay(n)
      BY <1>0, <3>2 DEF AlertTypes
    <3>6. EndsBy(x, now)
      BY <3>2, <3>4, <3>5 DEF EndsBy
    <3> QED BY <2>1, <3>1, <3>5, <3>6, TaskKeeps DEF Running
  <2> QED BY <2>2, <2>3
<1>4. CASE Resend(k)
  <2> DEFINE x == [alerts[k] EXCEPT !.step = "sending", !.left = SendTimeout]
  <2>1. /\ x \in AlertTypes /\ x.kind = alerts[k].kind /\ x.at = alerts[k].at /\ x.step = "sending"
        /\ x.attempt = alerts[k].attempt /\ x.left = SendTimeout
    BY <1>0, <1>1 DEF AlertTypes
  <2>2. /\ alerts[k].step = "waiting" /\ alerts[k].left = 0 /\ alerts' = [alerts EXCEPT ![k] = x]
        /\ lastWord' = lastWord /\ UNCHANGED <<now, lastRound, onRecord, forgotten>>
    BY <1>4 DEF Resend
  <2>3. EndsBy(x, now)
    <3>1. alerts[k].attempt \in 0..Attempts /\ Later(alerts[k].attempt) \in Nat
      BY <1>0, <2>2, LaterIs DEF EndsBy
    <3> QED BY <1>0, <1>1, <2>1, <2>2, <3>1 DEF EndsBy
  <2> QED BY <2>1, <2>2, <2>3, TaskKeeps DEF Running
<1> QED BY <1>2, <1>3, <1>4

(* A round of the watchdog.                                                *)
LEMMA FindKeeps == ASSUME DeliveryInv, Find PROVE DeliveryInv'
<1>0. now = lastRound + RoundSecs /\ lastRound' = now /\ UNCHANGED <<now, lastWord, failures>>
  BY DEF Find
<1>1. CASE ~onRecord /\ onRecord' = TRUE /\ Raise("stale") /\ UNCHANGED forgotten
  BY <1>0, <1>1, RaiseKeeps
<1>2. CASE onRecord /\ now - LastAlertAt >= RealertSecs /\ Raise("stale") /\ UNCHANGED <<onRecord, forgotten>>
  <2>1. onRecord' = TRUE
    BY <1>2 DEF DeliveryInv, DeliveryTypes
  <2> QED BY <1>0, <1>2, <2>1, RaiseKeeps
<1>3. CASE onRecord /\ onRecord' = FALSE /\ Raise("recovered") /\ UNCHANGED forgotten
  BY <1>0, <1>3, RaiseKeeps
<1>4. CASE onRecord /\ onRecord' = FALSE /\ forgotten' = Len(alerts) /\ UNCHANGED alerts
  BY <1>0, <1>4, QuietKeeps
<1>5. CASE UNCHANGED <<onRecord, alerts, forgotten>>
  BY <1>0, <1>5, QuietKeeps
<1> QED BY <1>1, <1>2, <1>3, <1>4, <1>5 DEF Find

(* Nothing is raised at the start.                                         *)
LEMMA DeliveryInitInv == DeliveryInit => DeliveryInv
<1> SUFFICES ASSUME DeliveryInit PROVE DeliveryInv
  OBVIOUS
<1>1. alerts = << >> /\ onRecord = FALSE /\ now = 0 /\ lastRound = 0 /\ lastWord = 0 /\ forgotten = 0
  BY DEF DeliveryInit
<1>2. DOMAIN alerts = {} /\ Len(alerts) = 0 /\ alerts \in Seq(AlertTypes)
  BY <1>1
<1>3. onRecord \in BOOLEAN
  BY <1>1, Zenon
<1>4. 0 \in Nat /\ 0 \in 0..0
  OBVIOUS
<1>5. DeliveryTypes
  BY <1>1, <1>2, <1>3, <1>4, Zenon DEF DeliveryTypes
<1>6. RecordInv
  BY <1>1, <1>2 DEF RecordInv
<1> QED BY <1>2, <1>5, <1>6, Zenon DEF DeliveryInv, RaisedInv, SpanInv, ReadInv, RepeatsDoNotOverlap

(* Every step keeps the invariant.                                         *)
LEMMA DeliveryInvStep == DeliveryInv /\ [DeliveryNext]_deliveryVars => DeliveryInv'
<1> SUFFICES ASSUME DeliveryInv, [DeliveryNext]_deliveryVars PROVE DeliveryInv'
  OBVIOUS
<1>1. CASE UNCHANGED deliveryVars
  BY <1>1 DEF deliveryVars, DeliveryInv, DeliveryTypes, RaisedInv, RecordInv, SpanInv, ReadInv,
              RepeatsDoNotOverlap, Running
<1>2. CASE DeliveryNext
  BY <1>2, FindKeeps, RestartKeeps, ClockKeeps, SendKeeps DEF DeliveryNext
<1> QED BY <1>1, <1>2

(* What the operator read last is explained by the invariant.              *)
LEMMA WordIsExplained == DeliveryInv => LastWordExplained
<1> SUFFICES ASSUME DeliveryInv, LastWordIsStale # onRecord, ~(forgotten > 0 /\ forgotten >= lastWord)
             PROVE  \E j \in (lastWord + 1)..Len(alerts) :
                      /\ (alerts[j].kind = "stale") # LastWordIsStale
                      /\ \/ Running(j) \/ alerts[j].step = "lost"
                         \/ lastWord # 0 /\ alerts[j].at - alerts[lastWord].at <= RetrySpan
  BY DEF LastWordExplained
<1> DEFINE j == Len(alerts)
<1>0. DeliveryTypes /\ j \in Nat /\ lastWord \in 0..j /\ forgotten \in 0..j
  BY DEF DeliveryInv, DeliveryTypes
<1>1. lastWord < j /\ forgotten < j
  <2>1. CASE lastWord = 0
    <3>1. ~LastWordIsStale /\ onRecord
      BY <2>1 DEF LastWordIsStale, DeliveryInv, DeliveryTypes
    <3> QED BY <1>0, <2>1, <3>1 DEF DeliveryInv, RecordInv
  <2>2. CASE lastWord # 0
    <3>1. forgotten < lastWord
      BY <1>0, <2>2
    <3>2. lastWord = j => (LastWordIsStale <=> onRecord)
      BY <1>0, <2>2, <3>1 DEF DeliveryInv, RecordInv, LastWordIsStale
    <3>3. lastWord # j
      BY <3>2 DEF LastWordIsStale, DeliveryInv, DeliveryTypes
    <3> QED BY <1>0, <3>1, <3>3
  <2> QED BY <2>1, <2>2
<1>2. j \in (lastWord + 1)..Len(alerts) /\ j \in DOMAIN alerts
  BY <1>0, <1>1 DEF DeliveryTypes
<1>3. onRecord <=> alerts[j].kind = "stale"
  BY <1>1 DEF DeliveryInv, RecordInv
<1>4. (alerts[j].kind = "stale") # LastWordIsStale
  BY <1>3 DEF LastWordIsStale, DeliveryInv, DeliveryTypes
<1>5. Running(j) \/ alerts[j].step = "lost" \/ (lastWord # 0 /\ alerts[j].at - alerts[lastWord].at <= RetrySpan)
  <2>1. alerts[j].step \in {"sending", "waiting", "delivered", "lost"}
    BY <1>0, <1>2, AlertIs
  <2> QED BY <1>1, <1>2, <2>1 DEF DeliveryInv, ReadInv, Running
<1> QED BY <1>2, <1>4, <1>5

(* With all settings that validate accepts, the alert that the operator    *)
(* read last agrees with the record of the watchdog, or a later alert is   *)
(* under way, given up or was raised within RetrySpan; and repeated alerts *)
(* never overtake one another (spawn_notify_with_retry).                   *)
THEOREM DeliveryCorrect == DeliverySpec => []AlertsInOrder
<1>1. DeliveryInv => AlertsInOrder
  BY WordIsExplained DEF AlertsInOrder, DeliveryInv
<1> QED BY <1>1, DeliveryInitInv, DeliveryInvStep, PTL DEF DeliverySpec
=============================================================================
