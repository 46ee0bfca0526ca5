---------------------------- MODULE BatchProofs ----------------------------
(***************************************************************************)
(* Proofs about what runs over a stretch of time at once: the fees of both *)
(* fee jobs (FeeAccrual), the weekly batch (WeeklyBatch), the drawdown of  *)
(* the past day (DailySummary), for every set of trades, every length of   *)
(* the hour and of the day, every limit of the catch-up and of the backfill*)
(* and every number of faults and restarts; and the backtest (Backtest),   *)
(* for every candle, signal and size of the account.                       *)
(***************************************************************************)
EXTENDS FeeAccrual, DailySummary, WeeklyBatch, Backtest, SumLemmas, SequenceTheorems,
        WellFoundedInduction, TLAPS

-----------------------------------------------------------------------------
(* The fee jobs.                                                           *)

(* Integer division keeps the order: a later time is not in an earlier hour*)
LEMMA DivMonotonic ==
  ASSUME NEW a \in Nat, NEW b \in Nat, NEW m \in Nat \ {0}, a <= b
  PROVE  a \div m <= b \div m
<1>1. (a \div m) * m < (b \div m + 1) * m
  BY DivBounds, Z3
<1>2. a \div m \in Nat /\ b \div m \in Nat
  BY DivBounds
<1>3. ~(b \div m + 1 <= a \div m)
  <2> SUFFICES ASSUME b \div m + 1 <= a \div m PROVE FALSE
    OBVIOUS
  <2>1. (b \div m + 1) * m <= (a \div m) * m
    BY <1>2, TimesMonotonic
  <2>2. (b \div m + 1) * m \in Int /\ (a \div m) * m \in Int
    BY <1>2
  <2> QED BY <1>1, <2>1, <2>2
<1> QED BY <1>2, <1>3

(* The hour and the day of a time of the clock are in their ranges, and an *)
(* hour that has begun has its boundary in the past.                       *)
LEMMA HourOfTime ==
  ASSUME NEW n \in 0..(MaxHours * TicksPerHour)
  PROVE  /\ n \div TicksPerHour \in Hours /\ (n \div TicksPerHour) \div HoursPerDay \in FeeDays
         /\ \A h \in Hours : Boundary(h) \in Nat /\ (h <= n \div TicksPerHour => Boundary(h) <= n)
<1> DEFINE hour == n \div TicksPerHour
<1>1. n \in Nat /\ TicksPerHour \in Nat \ {0} /\ HoursPerDay \in Nat \ {0} /\ MaxHours \in Nat
      /\ n <= MaxHours * TicksPerHour
  BY AccrualAssumption, Z3 DEF AccrualAssumption
<1>2. hour \in Nat /\ hour * TicksPerHour <= n
  BY <1>1, DivBounds
<1> HIDE DEF hour
<1>3. hour <= MaxHours
  <2>1. hour * TicksPerHour <= MaxHours * TicksPerHour
    BY <1>1, <1>2, Z3
  <2> QED BY <1>1, <1>2, <2>1, TimesMonotonic
<1>4. hour \div HoursPerDay \in FeeDays
  BY <1>1, <1>2, <1>3, DivMonotonic, DivBounds DEF FeeDays
<1>5. ASSUME NEW h \in Hours
      PROVE  Boundary(h) \in Nat /\ (h <= hour => Boundary(h) <= n)
  <2>1. h * TicksPerHour \in Nat
    BY <1>1, <1>5, Z3 DEF Hours
  <2>2. ASSUME h <= hour PROVE h * TicksPerHour <= hour * TicksPerHour
    BY <1>1, <1>2, <2>2, TimesMonotonic DEF Hours
  <2>3. hour * TicksPerHour \in Int
    BY <1>1, <1>2, Z3
  <2> QED BY <1>1, <1>2, <2>1, <2>2, <2>3 DEF Boundary
<1> QED BY <1>1, <1>2, <1>3, <1>4, <1>5 DEF hour, Hours

(* A counter of a table is raised by one and the others are left alone.    *)
LEMMA CounterRaised ==
  ASSUME NEW S, NEW R, NEW f \in [S -> [R -> Nat]], NEW s \in S, NEW r \in R,
         NEW g, g = [f EXCEPT ![s][r] = @ + 1]
  PROVE  /\ g \in [S -> [R -> Nat]]
         /\ g[s][r] = f[s][r] + 1
         /\ \A a \in S, b \in R : <<a, b>> # <<s, r>> => g[a][b] = f[a][b]
  OBVIOUS

(* What a state says about its clock.                                      *)
ClockOK ==
  /\ now \in 0..(MaxHours * TicksPerHour)
  /\ CurrentHour \in Hours /\ CurrentDay \in FeeDays
  /\ \A h \in Hours : Boundary(h) \in Nat /\ (h <= CurrentHour => Boundary(h) <= now)

(* The clock of a state in range.                                          *)
LEMMA ClockRange == now \in 0..(MaxHours * TicksPerHour) => ClockOK
  BY HourOfTime, Zenon DEF ClockOK, CurrentHour, CurrentDay

(* The same after a step.                                                  *)
LEMMA ClockRangeNext == now' \in 0..(MaxHours * TicksPerHour) => ClockOK'
  BY HourOfTime, Zenon DEF ClockOK, CurrentHour, CurrentDay

(* Time does not go back.                                                  *)
LEMMA ClockForward ==
  ASSUME now \in 0..(MaxHours * TicksPerHour), Tick
  PROVE  CurrentHour <= CurrentHour' /\ CurrentDay <= CurrentDay'
<1>1. now \in Nat /\ now' = now + 1 /\ TicksPerHour \in Nat \ {0} /\ HoursPerDay \in Nat \ {0}
  BY AccrualAssumption, Z3 DEF AccrualAssumption, Tick
<1>2. CurrentHour \in Nat /\ CurrentHour' \in Nat /\ CurrentHour <= CurrentHour'
  BY <1>1, DivBounds, DivMonotonic DEF CurrentHour
<1> QED BY <1>1, <1>2, DivMonotonic DEF CurrentDay

(* A step that leaves the clock alone.                                     *)
LEMMA ClockStill ==
  ASSUME now' = now
  PROVE  CurrentHour' = CurrentHour /\ CurrentDay' = CurrentDay
  BY DEF CurrentHour, CurrentDay
-----------------------------------------------------------------------------
(* The parts of the inductive invariant.                                   *)

(* While a job works its program point tells which hour or day it is at,   *)
(* and that hour or day has begun.                                         *)
WorkInv ==
  /\ sfdAt # "idle" => lastHour # NoHour /\ lastHour <= lh /\ pending >= 1 /\ lh + pending <= CurrentHour
  /\ nightAt = "apply" => lastFeeDate < today /\ today <= CurrentDay

(* The SFD job has dealt with trade t for hour h since it was started.     *)
Passed(t, h) ==
  \/ sfdAt = "idle" /\ h <= lastHour
  \/ sfdAt = "list" /\ h <= lh
  \/ sfdAt = "apply" /\ (h <= lh \/ (h = lh + 1 /\ t \notin sfdTodo))

(* A charge is the only one for its hour, the hour had begun and the trade *)
(* existed, and the job will not come back to it.                          *)
SfdInv ==
  \A t \in PaperTrades, h \in Hours :
    /\ sfdFees[t][h] <= 1
    /\ sfdFees[t][h] > 0 =>
         /\ h <= CurrentHour /\ status[t] # "none" /\ entryAt[t] <= Boundary(h)
         /\ lastHour # NoHour => Passed(t, h)

(* What the job has dealt with is charged or has lapsed, for a trade that  *)
(* is open or may become so again.                                         *)
AccountedInv ==
  \A t \in PaperTrades, h \in Hours :
    status[t] \in {"open", "closing"} /\ entryAt[t] <= Boundary(h) /\ Passed(t, h) =>
      sfdFees[t][h] = 1 \/ <<t, h>> \in lapse

(* The same for the overnight job, which charges a day at most once.       *)
NightInv ==
  \A t \in PaperTrades, d \in FeeDays :
    /\ nightFees[t][d] <= 1
    /\ nightFees[t][d] > 0 => d <= lastFeeDate \/ (nightAt = "apply" /\ d = today /\ t \notin nightTodo)

(* The inductive invariant.                                                *)
AccrualInv == FeeTypeOK /\ WorkInv /\ SfdInv /\ AccountedInv /\ NightInv

(* Both jobs start with nothing charged.                                   *)
LEMMA AccrualInvInit == FeeInit => AccrualInv
<1> SUFFICES ASSUME FeeInit PROVE AccrualInv
  OBVIOUS
<1>1. ClockOK
  <2>1. now \in 0..(MaxHours * TicksPerHour)
    BY AccrualAssumption, Z3 DEF AccrualAssumption, FeeInit
  <2> QED BY <2>1, ClockRange
<1>2. FeeTypeOK
  BY <1>1, AccrualAssumption, Z3 DEF FeeInit, FeeTypeOK, ClockOK, Hours, FeeDays, NoHour, AccrualAssumption
<1>3. WorkInv /\ SfdInv /\ AccountedInv /\ NightInv
  BY <1>2 DEF FeeInit, FeeTypeOK, WorkInv, SfdInv, AccountedInv, NightInv, Passed, NoHour, Hours
<1> QED BY <1>2, <1>3 DEF AccrualInv

(* The cases of a step.                                                    *)
LEMMA NextCases ==
  ASSUME FeeNext
  PROVE  \/ SfdFirstTick \/ SfdNothingOpen \/ SfdBegin \/ SfdList \/ SfdHourDone
         \/ NightBegin \/ NightDone \/ Tick \/ FeedStale \/ FeedFresh \/ JobsRestart
         \/ \E t \in PaperTrades : SfdApply(t) \/ NightApply(t) \/ OpenTrade(t) \/ LockTrade(t)
                              \/ UnlockTrade(t) \/ CloseTrade(t)
  BY DEF FeeNext, SfdStep, NightStep, FeeTradeStep

(* What a step does to the clock.                                          *)
LEMMA ClockStep ==
  ASSUME FeeTypeOK, FeeNext
  PROVE  /\ ClockOK /\ ClockOK' /\ CurrentHour <= CurrentHour' /\ CurrentDay <= CurrentDay' /\ now <= now'
         /\ ~Tick => now' = now /\ CurrentHour' = CurrentHour /\ CurrentDay' = CurrentDay
<1>1. ClockOK
  BY ClockRange DEF FeeTypeOK
<1>2. CASE Tick
  <2>1. now' \in 0..(MaxHours * TicksPerHour) /\ now <= now'
    <3>1. MaxHours * TicksPerHour \in Nat
      BY AccrualAssumption, Z3 DEF AccrualAssumption
    <3> QED BY <1>1, <1>2, <3>1 DEF ClockOK, Tick
  <2> QED BY <1>1, <1>2, <2>1, ClockForward, ClockRangeNext DEF FeeTypeOK
<1>3. CASE ~Tick
  <2>1. now' = now
    BY <1>3, NextCases, Zenon
       DEF SfdFirstTick, SfdNothingOpen, SfdBegin, SfdList, SfdHourDone, NightBegin, NightDone,
           FeedStale, FeedFresh, JobsRestart, SfdApply, NightApply, OpenTrade, LockTrade, UnlockTrade,
           CloseTrade
  <2>2. CurrentHour' = CurrentHour /\ CurrentDay' = CurrentDay
    BY <2>1, ClockStill
  <2>3. ClockOK'
    BY <1>1, <2>1, ClockRangeNext DEF ClockOK
  <2> QED BY <1>1, <1>3, <2>1, <2>2, <2>3 DEF ClockOK, Hours, FeeDays
<1> QED BY <1>2, <1>3

(* Every action keeps the state well typed; the hour at work needs WorkInv.*)
LEMMA TypeStep ==
  ASSUME FeeTypeOK, WorkInv, FeeNext
  PROVE  FeeTypeOK'
<1> USE AccrualAssumption DEF AccrualAssumption, Hours, FeeDays, NoHour, Fault, tradeVars, sfdVars, nightVars
<1>1. /\ ClockOK /\ ClockOK' /\ CurrentHour <= CurrentHour' /\ CurrentDay <= CurrentDay' /\ now <= now'
      /\ ~Tick => now' = now /\ CurrentHour' = CurrentHour /\ CurrentDay' = CurrentDay
  BY ClockStep
<1>S. now' = now => CurrentHour' = CurrentHour /\ CurrentDay' = CurrentDay
  BY ClockStill
<1>H. CurrentHour \in Hours /\ CurrentDay \in FeeDays
  BY <1>1 DEF ClockOK
<1>2. CASE SfdFirstTick
  <2>1. lastHour' \in {NoHour} \cup 0..CurrentHour
    BY <1>2, <1>H DEF SfdFirstTick
  <2>2. lapse' \subseteq PaperTrades \X Hours
    BY <1>2, <1>H, SMTT(30) DEF SfdFirstTick, GiveUp, FeeTypeOK
  <2> QED BY <1>2, <1>S, <2>1, <2>2, Zenon DEF SfdFirstTick, FeeTypeOK
<1>3. CASE SfdNothingOpen
  <2>1. lastHour' \in {NoHour} \cup 0..CurrentHour
    BY <1>3, <1>H DEF SfdNothingOpen
  <2>2. lapse' \subseteq PaperTrades \X Hours
    BY <1>3, <1>H, SMTT(30) DEF SfdNothingOpen, SfdDue, FeeTypeOK
  <2> QED BY <1>3, <1>S, <2>1, <2>2, Zenon DEF SfdNothingOpen, FeeTypeOK
<1>4. CASE SfdBegin
  <2>1. lastHour \in 0..CurrentHour /\ CurrentHour - MaxCatchUp \in Int /\ MaxCatchUp \in Nat \ {0}
    BY <1>4, <1>H DEF SfdBegin, SfdDue, FeeTypeOK
  <2>2. ClampCatchUp \in Hours /\ CurrentHour - ClampCatchUp \in 0..MaxCatchUp
    BY <1>H, <2>1 DEF ClampCatchUp
  <2>3. lapse' \subseteq PaperTrades \X Hours
    <3>1. (lastHour + 1)..ClampCatchUp \subseteq Hours
      BY <2>1, <2>2
    <3> HIDE DEF Hours
    <3> QED BY <1>4, <3>1 DEF SfdBegin, GiveUp, FeeTypeOK
  <2> QED BY <1>4, <1>S, <2>2, <2>3, Zenon DEF SfdBegin, FeeTypeOK
<1>5. CASE SfdList
  <2>1. lh + 1 \in Hours
    BY <1>5, <1>H DEF SfdList, FeeTypeOK, WorkInv
  <2>2. lapse' \subseteq PaperTrades \X Hours
    BY <1>5, <2>1, SMTT(30) DEF SfdList, GiveUp, FeeTypeOK
  <2>3. sfdTodo' \subseteq PaperTrades /\ faults' \in 0..MaxFaults
    BY <1>5 DEF SfdList, OpenTrades, FeeTypeOK
  <2> QED BY <1>5, <1>S, <2>2, <2>3, Zenon DEF SfdList, FeeTypeOK
<1>6. CASE SfdHourDone
  <2>1. lh + 1 \in Hours /\ lh + 1 \in 0..CurrentHour /\ 0 \in Hours
    BY <1>6, <1>H DEF SfdHourDone, FeeTypeOK, WorkInv
  <2>2. pending' \in 0..MaxCatchUp
    BY <1>6 DEF SfdHourDone, FeeTypeOK, WorkInv
  <2>3. lastHour' \in {NoHour} \cup 0..CurrentHour /\ lh' \in Hours /\ sfdAt' \in {"idle", "list", "apply"}
    BY <1>6, <2>1, Zenon DEF SfdHourDone, HourCharged, FeeTypeOK
  <2> QED BY <1>6, <1>S, <2>2, <2>3, Zenon DEF SfdHourDone, FeeTypeOK
<1>7. CASE NightBegin
  <2>1. nightTodo' \subseteq PaperTrades /\ faults' \in 0..MaxFaults
    BY <1>7 DEF NightBegin, OpenTrades, FeeTypeOK
  <2> QED BY <1>7, <1>S, <1>H, <2>1, Zenon DEF NightBegin, FeeTypeOK
<1>8. CASE NightDone
  <2>1. today \in 0..CurrentDay /\ 0 \in FeeDays
    BY <1>8, <1>H DEF NightDone, FeeTypeOK, WorkInv
  <2> QED BY <1>8, <1>S, <2>1, Zenon DEF NightDone, DateProcessed, FeeTypeOK
<1>9. CASE Tick
  <2>1. 0..now \subseteq 0..now' /\ 0..CurrentHour \subseteq 0..CurrentHour' /\ 0..CurrentDay \subseteq 0..CurrentDay'
    BY <1>1, <1>H DEF ClockOK
  <2>2. entryAt' \in [PaperTrades -> 0..now']
    BY <1>9, <2>1 DEF Tick, FeeTypeOK
  <2> QED BY <1>1, <1>9, <2>1, <2>2, Zenon DEF Tick, FeeTypeOK, ClockOK
<1>10. CASE FeedStale
  <2>1. faults' \in 0..MaxFaults
    BY <1>10 DEF FeedStale, FeeTypeOK
  <2> QED BY <1>10, <1>S, <2>1, Zenon DEF FeedStale, FeeTypeOK
<1>11. CASE FeedFresh
  BY <1>11, <1>S, Zenon DEF FeedFresh, FeeTypeOK
<1>12. CASE JobsRestart
  <2>1. faults' \in 0..MaxFaults /\ 0 \in Hours /\ 0 \in FeeDays /\ 0 \in 0..MaxCatchUp /\ CurrentDay \in 0..CurrentDay
    BY <1>12, <1>H DEF JobsRestart, FeeTypeOK
  <2> QED BY <1>12, <1>S, <2>1, Zenon DEF JobsRestart, FeeTypeOK
<1>13. ASSUME NEW t \in PaperTrades, SfdApply(t) PROVE FeeTypeOK'
  <2>1. lh + 1 \in Hours
    BY <1>13, <1>H DEF SfdApply, FeeTypeOK, WorkInv
  <2>2. sfdFees' \in [PaperTrades -> [Hours -> Nat]]
    <3>1. CASE sfdFees' = sfdFees
      BY <3>1 DEF FeeTypeOK
    <3>2. CASE sfdFees' = [sfdFees EXCEPT ![t][lh + 1] = @ + 1]
      BY <2>1, <3>2, CounterRaised, ZenonT(60) DEF FeeTypeOK
    <3> QED BY <1>13, <3>1, <3>2, Zenon DEF SfdApply
  <2>3. lapse' \subseteq PaperTrades \X Hours /\ sfdTodo' \subseteq PaperTrades
    <3> HIDE DEF Hours
    <3> QED BY <1>13, <2>1, SMTT(30) DEF SfdApply, FeeTypeOK
  <2>4. faults' \in 0..MaxFaults
    BY <1>13 DEF SfdApply, FeeTypeOK
  <2> QED BY <1>13, <1>S, <2>2, <2>3, <2>4, Zenon DEF SfdApply, FeeTypeOK
<1>14. ASSUME NEW t \in PaperTrades, NightApply(t) PROVE FeeTypeOK'
  <2>1. nightFees' \in [PaperTrades -> [FeeDays -> Nat]]
    <3>1. CASE nightFees' = nightFees
      BY <3>1 DEF FeeTypeOK
    <3>2. CASE nightFees' = [nightFees EXCEPT ![t][today] = @ + 1]
      <4>1. nightFees \in [PaperTrades -> [FeeDays -> Nat]] /\ today \in FeeDays
        BY DEF FeeTypeOK
      <4> HIDE AccrualAssumption DEF FeeDays
      <4> QED BY <3>2, <4>1, CounterRaised
    <3> QED BY <1>14, <3>1, <3>2, Zenon DEF NightApply
  <2>2. faults' \in 0..MaxFaults /\ nightTodo' \subseteq PaperTrades
    BY <1>14 DEF NightApply, FeeTypeOK
  <2> QED BY <1>14, <1>S, <2>1, <2>2, Zenon DEF NightApply, FeeTypeOK
<1>15. ASSUME NEW t \in PaperTrades, OpenTrade(t) PROVE FeeTypeOK'
  <2>1. PICK e \in {now, now - 1} \cap Nat :
          /\ entryAt' = [entryAt EXCEPT ![t] = e]
          /\ lapse' = lapse \cup {<<t, h>> : h \in {i \in Hours : Boundary(i) \in e..now}}
    BY <1>15, Zenon DEF OpenTrade
  <2>2. now' = now /\ e \in 0..now
    BY <1>1, <1>15 DEF OpenTrade, ClockOK
  <2>3. entryAt' \in [PaperTrades -> 0..now']
    BY <2>1, <2>2, Zenon DEF FeeTypeOK
  <2>4. lapse' \subseteq PaperTrades \X Hours
    <3>1. {<<t, h>> : h \in {i \in Hours : Boundary(i) \in e..now}} \subseteq PaperTrades \X Hours
      OBVIOUS
    <3> HIDE DEF Hours
    <3> QED BY <2>1, <3>1, Zenon DEF FeeTypeOK
  <2>5. status' \in [PaperTrades -> {"none", "open", "closing", "closed"}]
    BY <1>15, Zenon DEF OpenTrade, FeeTypeOK
  <2>6. CurrentHour' = CurrentHour /\ CurrentDay' = CurrentDay
    BY <2>2, ClockStill
  <2> QED BY <1>15, <2>2, <2>3, <2>4, <2>5, <2>6, Zenon DEF OpenTrade, FeeTypeOK
<1>16. ASSUME NEW t \in PaperTrades, LockTrade(t) \/ UnlockTrade(t) \/ CloseTrade(t) PROVE FeeTypeOK'
  <2>1. status' \in [PaperTrades -> {"none", "open", "closing", "closed"}]
    BY <1>16, Zenon DEF LockTrade, UnlockTrade, CloseTrade, FeeTypeOK
  <2>2. now' = now /\ entryAt' = entryAt
    BY <1>16 DEF LockTrade, UnlockTrade, CloseTrade
  <2>3. UNCHANGED <<fresh, sfdVars, nightVars>> /\ (UNCHANGED faults \/ Fault)
    BY <1>16, Zenon DEF LockTrade, UnlockTrade, CloseTrade
  <2>4. faults' \in 0..MaxFaults
    BY <2>3 DEF FeeTypeOK
  <2>5. CurrentHour' = CurrentHour /\ CurrentDay' = CurrentDay
    BY <2>2, ClockStill
  <2> QED BY <2>1, <2>2, <2>3, <2>4, <2>5, Zenon DEF FeeTypeOK
<1> QED BY NextCases, <1>2, <1>3, <1>4, <1>5, <1>6, <1>7, <1>8, <1>9, <1>10, <1>11, <1>12, <1>13,
           <1>14, <1>15, <1>16

(* The numbers of a state, without the sets they are taken from.           *)
LEMMA Numbers ==
  ASSUME FeeTypeOK
  PROVE  /\ CurrentHour \in Nat /\ CurrentDay \in Nat /\ lastHour \in Int /\ -1 <= lastHour
         /\ lastHour <= CurrentHour /\ lh \in Nat /\ pending \in Nat /\ lastFeeDate \in Nat
         /\ lastFeeDate <= CurrentDay /\ today \in Nat /\ now \in Nat
  BY ClockRange DEF FeeTypeOK, ClockOK, Hours, FeeDays, NoHour

(* The hour that the SFD job charges has begun.                            *)
LEMMA HourAtWork ==
  ASSUME FeeTypeOK, WorkInv, sfdAt = "apply"
  PROVE  lh + 1 \in Hours /\ lh + 1 <= CurrentHour /\ lastHour # NoHour
<1>1. CurrentHour \in Hours /\ lh \in Nat /\ pending \in Nat
  BY ClockRange, Numbers DEF FeeTypeOK, ClockOK
<1> QED BY <1>1, AccrualAssumption DEF WorkInv, Hours, AccrualAssumption

(* The hour and the day that a job is at.                                  *)
LEMMA WorkStep ==
  ASSUME FeeTypeOK, WorkInv, FeeNext
  PROVE  WorkInv'
<1> USE DEF NoHour, Fault, tradeVars, sfdVars, nightVars
<1>1. /\ CurrentHour' \in Nat /\ CurrentDay' \in Nat /\ CurrentHour <= CurrentHour' /\ CurrentDay <= CurrentDay'
      /\ now' = now => CurrentHour' = CurrentHour /\ CurrentDay' = CurrentDay
  BY ClockStep, ClockStill DEF ClockOK, Hours, FeeDays
<1>2. /\ CurrentHour \in Nat /\ CurrentDay \in Nat /\ lastHour \in Int /\ -1 <= lastHour
      /\ lastHour <= CurrentHour /\ lh \in Nat /\ pending \in Nat /\ lastFeeDate \in Nat
      /\ lastFeeDate <= CurrentDay /\ today \in Nat /\ now \in Nat
  BY Numbers
<1>3. MaxCatchUp \in Nat \ {0}
  BY AccrualAssumption DEF AccrualAssumption
<1>4. CASE SfdBegin
  BY <1>1, <1>2, <1>3, <1>4 DEF SfdBegin, SfdDue, ClampCatchUp, WorkInv
<1>5. CASE SfdFirstTick \/ SfdNothingOpen \/ SfdList
  BY <1>1, <1>2, <1>5 DEF SfdFirstTick, SfdNothingOpen, SfdDue, SfdList, WorkInv
<1>6. CASE SfdHourDone
  BY <1>1, <1>2, <1>6 DEF SfdHourDone, WorkInv
<1>7. CASE NightBegin
  BY <1>1, <1>2, <1>7 DEF NightBegin, WorkInv
<1>8. CASE NightDone \/ JobsRestart
  BY <1>1, <1>2, <1>8 DEF NightDone, JobsRestart, WorkInv
<1>9. CASE Tick \/ FeedStale \/ FeedFresh
  BY <1>1, <1>2, <1>9 DEF Tick, FeedStale, FeedFresh, WorkInv
<1>10. ASSUME NEW t \in PaperTrades, SfdApply(t) \/ NightApply(t) PROVE WorkInv'
  BY <1>1, <1>2, <1>10 DEF SfdApply, NightApply, WorkInv
<1>11. ASSUME NEW t \in PaperTrades, OpenTrade(t) \/ LockTrade(t) \/ UnlockTrade(t) \/ CloseTrade(t) PROVE WorkInv'
  <2>1. UNCHANGED <<now, lastHour, sfdAt, lh, pending, lastFeeDate, nightAt, today>>
    BY <1>11, Zenon DEF OpenTrade, LockTrade, UnlockTrade, CloseTrade
  <2> QED BY <1>1, <2>1 DEF WorkInv
<1> QED BY NextCases, <1>4, <1>5, <1>6, <1>7, <1>8, <1>9, <1>10, <1>11, Zenon

(* A day is charged once: a trade that was charged today has left the list,*)
(* and the next list is read on a later day.                               *)
LEMMA NightInvStep ==
  ASSUME FeeTypeOK, WorkInv, NightInv, FeeNext
  PROVE  NightInv'
<1> USE DEF tradeVars, sfdVars, nightVars
<1>1. /\ CurrentHour \in Nat /\ CurrentDay \in Nat /\ lastFeeDate \in Nat
      /\ lastFeeDate <= CurrentDay /\ today \in Nat
  BY Numbers
<1>2. nightFees \in [PaperTrades -> [FeeDays -> Nat]] /\ today \in FeeDays /\ FeeDays \subseteq Int
  BY DEF FeeTypeOK, FeeDays
<1>3. CASE UNCHANGED nightVars
  BY <1>3, Zenon DEF NightInv
<1>4. CASE NightBegin
  <2>1. lastFeeDate < today'
    BY <1>1, <1>4 DEF NightBegin
  <2> SUFFICES ASSUME NEW t \in PaperTrades, NEW d \in FeeDays
               PROVE  nightFees'[t][d] <= 1 /\ (nightFees'[t][d] > 0 => d <= lastFeeDate')
    BY DEF NightInv
  <2> QED BY <1>4 DEF NightBegin, NightInv
<1>5. CASE NightDone
  <2> SUFFICES ASSUME NEW t \in PaperTrades, NEW d \in FeeDays
               PROVE  nightFees'[t][d] <= 1 /\ (nightFees'[t][d] > 0 => d <= lastFeeDate')
    BY DEF NightInv
  <2> QED BY <1>1, <1>2, <1>5 DEF NightDone, DateProcessed, NightInv, WorkInv
<1>6. ASSUME NEW u \in PaperTrades, NightApply(u) PROVE NightInv'
  <2> SUFFICES ASSUME NEW t \in PaperTrades, NEW d \in FeeDays
               PROVE  /\ nightFees'[t][d] <= 1
                      /\ nightFees'[t][d] > 0 =>
                           d <= lastFeeDate' \/ (nightAt' = "apply" /\ d = today' /\ t \notin nightTodo')
    BY DEF NightInv
  <2>1. nightAt = "apply" /\ u \in nightTodo /\ nightTodo' = nightTodo \ {u}
        /\ UNCHANGED <<lastFeeDate, nightAt, today>>
    BY <1>6 DEF NightApply
  <2>2. CASE nightFees' = nightFees
    BY <2>1, <2>2 DEF NightInv
  <2>3. CASE nightFees' = [nightFees EXCEPT ![u][today] = @ + 1]
    <3>1. nightFees'[u][today] = nightFees[u][today] + 1
          /\ (<<t, d>> # <<u, today>> => nightFees'[t][d] = nightFees[t][d])
      BY <1>2, <2>3, CounterRaised
    <3>2. nightFees[u][today] \in Nat
      BY <1>2
    <3>3. nightFees[u][today] = 0
      BY <1>1, <1>2, <2>1, <3>2 DEF NightInv, WorkInv
    <3> QED BY <2>1, <3>1, <3>3 DEF NightInv
  <2> QED BY <1>6, <2>2, <2>3, Zenon DEF NightApply
<1>7. CASE JobsRestart
  <2> SUFFICES ASSUME NEW t \in PaperTrades, NEW d \in FeeDays
               PROVE  nightFees'[t][d] <= 1 /\ (nightFees'[t][d] > 0 => d <= lastFeeDate')
    BY DEF NightInv
  <2> QED BY <1>1, <1>2, <1>7 DEF JobsRestart, NightInv, WorkInv
<1> QED
  BY NextCases, <1>3, <1>4, <1>5, <1>6, <1>7, Zenon
     DEF SfdFirstTick, SfdNothingOpen, SfdBegin, SfdList, SfdHourDone, SfdApply, Tick, FeedStale, FeedFresh,
         OpenTrade, LockTrade, UnlockTrade, CloseTrade

(* A charge is the only one for its hour: the job leaves the trade when it *)
(* has charged it, and goes on with later hours only.                      *)
LEMMA SfdInvStep ==
  ASSUME FeeTypeOK, WorkInv, SfdInv, FeeNext
  PROVE  SfdInv'
<1> USE DEF NoHour, tradeVars, sfdVars, nightVars
<1>1. /\ CurrentHour' \in Nat /\ CurrentHour <= CurrentHour' /\ (now' = now => CurrentHour' = CurrentHour)
  BY ClockStep, ClockStill DEF ClockOK, Hours
<1>2. /\ CurrentHour \in Nat /\ lastHour \in Int /\ lastHour <= CurrentHour /\ lh \in Nat /\ pending \in Nat
      /\ Hours \subseteq Nat /\ MaxCatchUp \in Nat \ {0}
  BY Numbers, AccrualAssumption DEF Hours, AccrualAssumption
<1>3. /\ sfdFees \in [PaperTrades -> [Hours -> Nat]] /\ entryAt \in [PaperTrades -> Int]
      /\ \A h \in Hours : Boundary(h) \in Nat
  BY ClockRange DEF FeeTypeOK, ClockOK
<1>4. CASE UNCHANGED <<sfdFees, lastHour, sfdAt, lh, sfdTodo, status, entryAt>>
  BY <1>1, <1>2, <1>4 DEF SfdInv, Passed
<1>5. CASE SfdFirstTick \/ SfdNothingOpen \/ SfdBegin \/ SfdList \/ SfdHourDone
  <2>1. UNCHANGED <<now, sfdFees, status, entryAt>>
    BY <1>5, Zenon DEF SfdFirstTick, SfdNothingOpen, SfdBegin, SfdList, SfdHourDone
  <2>2. ASSUME NEW t \in PaperTrades, NEW h \in Hours, h <= CurrentHour, lastHour # NoHour => Passed(t, h)
        PROVE  Passed(t, h)'
    <3>1. CASE SfdFirstTick \/ SfdNothingOpen
      BY <1>2, <2>2, <3>1 DEF SfdFirstTick, SfdNothingOpen, SfdDue, Passed
    <3>2. CASE SfdBegin
      BY <1>2, <2>2, <3>2 DEF SfdBegin, SfdDue, ClampCatchUp, Passed
    <3>3. CASE SfdList
      BY <1>2, <2>2, <3>3 DEF SfdList, Passed, WorkInv
    <3>4. CASE SfdHourDone
      BY <1>2, <2>2, <3>4 DEF SfdHourDone, HourCharged, Passed, WorkInv
    <3> QED BY <1>5, <3>1, <3>2, <3>3, <3>4
  <2> QED BY <1>1, <2>1, <2>2 DEF SfdInv
<1>6. ASSUME NEW u \in PaperTrades, SfdApply(u) PROVE SfdInv'
  <2>1. /\ sfdAt = "apply" /\ u \in sfdTodo /\ sfdTodo' = sfdTodo \ {u} /\ lastHour # NoHour
        /\ UNCHANGED <<now, status, entryAt, lastHour, sfdAt, lh>> /\ lh + 1 \in Hours /\ lh + 1 <= CurrentHour
    <3>1. /\ sfdAt = "apply" /\ u \in sfdTodo /\ sfdTodo' = sfdTodo \ {u}
          /\ UNCHANGED <<now, status, entryAt, lastHour, sfdAt, lh>>
      BY <1>6 DEF SfdApply
    <3> QED BY <1>2, <3>1, HourAtWork
  <2>2. ASSUME NEW t \in PaperTrades, NEW h \in Hours, Passed(t, h) PROVE Passed(t, h)'
    BY <2>1, <2>2 DEF Passed
  <2>3. CASE sfdFees' = sfdFees
    BY <1>1, <2>1, <2>2, <2>3 DEF SfdInv
  <2>4. CASE ~NotYetOpen(u) /\ Chargeable(u) /\ sfdFees' = [sfdFees EXCEPT ![u][lh + 1] = @ + 1]
    <3> SUFFICES ASSUME NEW t \in PaperTrades, NEW h \in Hours
                 PROVE  /\ sfdFees'[t][h] <= 1
                        /\ sfdFees'[t][h] > 0 =>
                             /\ h <= CurrentHour' /\ status'[t] # "none" /\ entryAt'[t] <= Boundary(h)
                             /\ Passed(t, h)'
      BY <2>1 DEF SfdInv, Boundary
    <3>1. sfdFees'[u][lh + 1] = sfdFees[u][lh + 1] + 1
          /\ (<<t, h>> # <<u, lh + 1>> => sfdFees'[t][h] = sfdFees[t][h])
      BY <1>3, <2>1, <2>4, CounterRaised
    <3>2. sfdFees[u][lh + 1] \in Nat /\ ~Passed(u, lh + 1)
      BY <1>2, <1>3, <2>1 DEF Passed
    <3>3. sfdFees[u][lh + 1] = 0
      BY <2>1, <3>2 DEF SfdInv
    <3>4. CASE t = u /\ h = lh + 1
      <4>1. entryAt[u] <= Boundary(lh + 1) /\ status[u] = "open"
        BY <1>3, <2>1, <2>4 DEF NotYetOpen, Chargeable
      <4>2. Passed(t, h)'
        BY <2>1, <3>4 DEF Passed
      <4> QED BY <1>1, <2>1, <3>1, <3>3, <3>4, <4>1, <4>2
    <3>5. CASE ~(t = u /\ h = lh + 1)
      BY <1>1, <2>1, <2>2, <3>1, <3>5 DEF SfdInv
    <3> QED BY <3>4, <3>5
  <2> QED BY <1>6, <2>3, <2>4, Zenon DEF SfdApply
<1>7. ASSUME NEW u \in PaperTrades, OpenTrade(u) PROVE SfdInv'
  <2>1. /\ UNCHANGED <<now, sfdFees, lastHour, sfdAt, lh, sfdTodo>> /\ status[u] = "none"
        /\ \A t \in PaperTrades \ {u} : status'[t] = status[t] /\ entryAt'[t] = entryAt[t]
    BY <1>7 DEF OpenTrade, FeeTypeOK
  <2>2. \A h \in Hours : sfdFees[u][h] = 0
    BY <1>3, <2>1 DEF SfdInv
  <2> QED BY <1>1, <2>1, <2>2 DEF SfdInv, Passed
<1>8. ASSUME NEW u \in PaperTrades, LockTrade(u) \/ UnlockTrade(u) \/ CloseTrade(u) PROVE SfdInv'
  <2>1. UNCHANGED <<now, sfdFees, lastHour, sfdAt, lh, sfdTodo, entryAt>>
    BY <1>8, Zenon DEF LockTrade, UnlockTrade, CloseTrade
  <2>2. \A t \in PaperTrades : status[t] # "none" => status'[t] # "none"
    BY <1>8 DEF LockTrade, UnlockTrade, CloseTrade, FeeTypeOK
  <2> QED BY <1>1, <2>1, <2>2 DEF SfdInv, Passed
<1>9. CASE JobsRestart
  BY <1>1, <1>9 DEF JobsRestart, SfdInv
<1> QED
  BY NextCases, <1>4, <1>5, <1>6, <1>7, <1>8, <1>9, Zenon
     DEF NightBegin, NightDone, NightApply, Tick, FeedStale, FeedFresh

(* What the job has passed is charged or lapsed.                           *)
LEMMA AccountedStep ==
  ASSUME FeeTypeOK, WorkInv, SfdInv, AccountedInv, FeeNext
  PROVE  AccountedInv'
<1> USE DEF NoHour, tradeVars, sfdVars, nightVars
<1>1. /\ CurrentHour \in Nat /\ lastHour \in Int /\ -1 <= lastHour /\ lastHour <= CurrentHour /\ lh \in Nat
      /\ pending \in Nat /\ Hours \subseteq Nat /\ now \in Nat
  BY Numbers DEF Hours
<1>2. /\ sfdFees \in [PaperTrades -> [Hours -> Nat]] /\ entryAt \in [PaperTrades -> Int]
      /\ \A h \in Hours : Boundary(h) \in Nat /\ (h <= CurrentHour => Boundary(h) <= now)
      /\ status \in [PaperTrades -> {"none", "open", "closing", "closed"}]
  BY ClockRange DEF FeeTypeOK, ClockOK
<1> SUFFICES ASSUME NEW t \in PaperTrades, NEW h \in Hours,
                    status'[t] \in {"open", "closing"}, entryAt'[t] <= Boundary(h), Passed(t, h)'
             PROVE  sfdFees'[t][h] = 1 \/ <<t, h>> \in lapse'
  BY DEF AccountedInv, Boundary
<1>3. ASSUME status[t] \in {"open", "closing"}, entryAt[t] <= Boundary(h), Passed(t, h)
      PROVE  sfdFees[t][h] = 1 \/ <<t, h>> \in lapse
  BY <1>3 DEF AccountedInv
<1>4. CASE UNCHANGED <<sfdFees, lastHour, sfdAt, lh, sfdTodo, status, entryAt, lapse>>
  BY <1>3, <1>4 DEF Passed
<1>5. CASE SfdFirstTick
  BY <1>1, <1>5 DEF SfdFirstTick, GiveUp, Passed
<1>6. CASE SfdNothingOpen
  <2>1. CASE h <= lastHour
    BY <1>3, <1>6, <2>1 DEF SfdNothingOpen, SfdDue, Passed
  <2>2. CASE ~(h <= lastHour)
    <3>1. status[t] = "closing"
      BY <1>6 DEF SfdNothingOpen, OpenTrades
    <3>2. h \in (lastHour + 1)..CurrentHour
      BY <1>1, <1>6, <2>2 DEF SfdNothingOpen, SfdDue, Passed
    <3> QED BY <1>6, <3>1, <3>2 DEF SfdNothingOpen
  <2> QED BY <2>1, <2>2
<1>7. CASE SfdBegin
  <2>1. CASE h <= lastHour
    BY <1>3, <1>7, <2>1 DEF SfdBegin, SfdDue, GiveUp, Passed
  <2>2. CASE ~(h <= lastHour)
    <3>1. h <= ClampCatchUp
      BY <1>7 DEF SfdBegin, Passed
    <3>2. ClampCatchUp \in Int
      BY <1>1, AccrualAssumption DEF ClampCatchUp, AccrualAssumption
    <3>3. h \in (lastHour + 1)..ClampCatchUp
      BY <1>1, <2>2, <3>1, <3>2
    <3> QED BY <1>7, <3>3 DEF SfdBegin, GiveUp
  <2> QED BY <2>1, <2>2
<1>8. CASE SfdList
  <2>1. UNCHANGED <<sfdFees, status, entryAt, lh>> /\ lapse \subseteq lapse' /\ sfdAt = "list" /\ sfdAt' = "apply"
    BY <1>8 DEF SfdList, GiveUp
  <2>2. CASE h <= lh
    BY <1>3, <2>1, <2>2 DEF Passed
  <2>3. CASE ~(h <= lh)
    <3>1. h = lh + 1 /\ t \notin sfdTodo'
      BY <2>1, <2>3 DEF Passed
    <3> QED BY <1>2, <1>8, <2>1, <3>1 DEF SfdList, OpenTrades, GiveUp
  <2> QED BY <2>2, <2>3
<1>9. CASE SfdHourDone
  BY <1>1, <1>3, <1>9 DEF SfdHourDone, HourCharged, Passed
<1>10. ASSUME NEW u \in PaperTrades, SfdApply(u) PROVE sfdFees'[t][h] = 1 \/ <<t, h>> \in lapse'
  <2>1. /\ sfdAt = "apply" /\ u \in sfdTodo /\ sfdTodo' = sfdTodo \ {u} /\ lastHour # NoHour
        /\ UNCHANGED <<now, status, entryAt, lastHour, sfdAt, lh>> /\ lh + 1 \in Hours
        /\ lapse \subseteq lapse'
    <3>1. /\ sfdAt = "apply" /\ u \in sfdTodo /\ sfdTodo' = sfdTodo \ {u}
          /\ UNCHANGED <<now, status, entryAt, lastHour, sfdAt, lh>>
      BY <1>10 DEF SfdApply
    <3>2. lapse \subseteq lapse'
      BY <1>10, Zenon DEF SfdApply
    <3> QED BY <3>1, <3>2, HourAtWork
  <2>2. CASE ~(t = u /\ h = lh + 1)
    <3>1. Passed(t, h)
      BY <2>1, <2>2 DEF Passed
    <3>2. sfdFees'[t][h] = sfdFees[t][h]
      <4>1. CASE sfdFees' = sfdFees
        BY <4>1
      <4>2. CASE sfdFees' = [sfdFees EXCEPT ![u][lh + 1] = @ + 1]
        BY <1>2, <2>1, <2>2, <4>2, CounterRaised
      <4> QED BY <1>10, <4>1, <4>2, Zenon DEF SfdApply
    <3> QED BY <1>3, <2>1, <3>1, <3>2
  <2>3. CASE t = u /\ h = lh + 1
    <3>1. ~NotYetOpen(u)
      BY <1>2, <2>1, <2>3 DEF NotYetOpen
    <3>2. sfdFees[u][lh + 1] \in Nat /\ ~Passed(u, lh + 1)
      BY <1>1, <1>2, <2>1 DEF Passed
    <3>3. sfdFees[u][lh + 1] = 0
      BY <2>1, <3>2 DEF SfdInv
    <3>4. CASE sfdFees' = [sfdFees EXCEPT ![u][lh + 1] = @ + 1]
      <4>1. sfdFees'[u][lh + 1] = sfdFees[u][lh + 1] + 1
        BY <1>2, <2>1, <3>4, CounterRaised
      <4> QED BY <2>3, <3>3, <4>1
    <3>5. CASE lapse' = lapse \cup {<<u, lh + 1>>}
      BY <2>3, <3>5
    <3> QED BY <1>10, <3>1, <3>4, <3>5, Zenon DEF SfdApply
  <2> QED BY <2>2, <2>3
<1>11. ASSUME NEW u \in PaperTrades, OpenTrade(u) PROVE sfdFees'[t][h] = 1 \/ <<t, h>> \in lapse'
  <2>1. PICK e \in {now, now - 1} \cap Nat :
          /\ entryAt' = [entryAt EXCEPT ![u] = e]
          /\ lapse' = lapse \cup {<<u, i>> : i \in {j \in Hours : Boundary(j) \in e..now}}
    BY <1>11, Zenon DEF OpenTrade
  <2>2. /\ UNCHANGED <<now, sfdFees, lastHour, sfdAt, lh, sfdTodo>>
        /\ status' = [status EXCEPT ![u] = "open"]
    BY <1>11 DEF OpenTrade
  <2>3. Passed(t, h)
    BY <2>2 DEF Passed
  <2>4. CASE t = u
    <3>1. e <= Boundary(h)
      BY <1>2, <2>1, <2>4
    <3>2. h <= CurrentHour
      BY <1>1, <2>3 DEF Passed, WorkInv, FeeTypeOK
    <3>3. Boundary(h) \in e..now
      BY <1>1, <1>2, <2>1, <3>1, <3>2
    <3> QED BY <2>1, <2>4, <3>3
  <2>5. CASE t # u
    <3>1. status'[t] = status[t] /\ entryAt'[t] = entryAt[t]
      BY <1>2, <2>1, <2>2, <2>5
    <3> QED BY <1>3, <2>1, <2>2, <2>3, <3>1
  <2> QED BY <2>4, <2>5
<1>12. ASSUME NEW u \in PaperTrades, LockTrade(u) \/ UnlockTrade(u) \/ CloseTrade(u)
       PROVE sfdFees'[t][h] = 1 \/ <<t, h>> \in lapse'
  <2>1. UNCHANGED <<now, sfdFees, lastHour, sfdAt, lh, sfdTodo, entryAt, lapse>>
    BY <1>12, Zenon DEF LockTrade, UnlockTrade, CloseTrade
  <2>2. status[t] \in {"open", "closing"}
    BY <1>2, <1>12 DEF LockTrade, UnlockTrade, CloseTrade
  <2> QED BY <1>3, <2>1, <2>2 DEF Passed
<1>13. CASE JobsRestart
  BY <1>1, <1>13 DEF JobsRestart, Passed
<1> QED
  BY NextCases, <1>4, <1>5, <1>6, <1>7, <1>8, <1>9, <1>10, <1>11, <1>12, <1>13, Zenon
     DEF NightBegin, NightDone, NightApply, Tick, FeedStale, FeedFresh
-----------------------------------------------------------------------------
(* The invariant is kept by every step and by stuttering.                  *)
LEMMA AccrualInvStep == AccrualInv /\ [FeeNext]_feeVars => AccrualInv'
<1>1. CASE AccrualInv /\ FeeNext
  BY <1>1, TypeStep, WorkStep, SfdInvStep, AccountedStep, NightInvStep DEF AccrualInv
<1>2. CASE AccrualInv /\ UNCHANGED feeVars
  <2>1. UNCHANGED <<now, status, entryAt, fresh, lastHour, sfdAt, lh, pending, sfdTodo, sfdFees, lapse,
                    lastFeeDate, nightAt, today, nightTodo, nightFees, faults>>
    BY <1>2 DEF feeVars, tradeVars, sfdVars, nightVars
  <2>2. CurrentHour' = CurrentHour /\ CurrentDay' = CurrentDay
    BY <2>1, ClockStill
  <2>3. FeeTypeOK'
    BY <1>2, <2>1, <2>2, Zenon DEF AccrualInv, FeeTypeOK
  <2>4. WorkInv' /\ NightInv'
    BY <1>2, <2>1, <2>2, Zenon DEF AccrualInv, WorkInv, NightInv
  <2>5. SfdInv' /\ AccountedInv'
    BY <1>2, <2>1, <2>2, Zenon DEF AccrualInv, SfdInv, AccountedInv, Passed, Boundary
  <2> QED BY <2>3, <2>4, <2>5 DEF AccrualInv
<1> QED BY <1>1, <1>2

(* The counters, lists and remembered hours and days of both jobs are of   *)
(* their types; the clock never falls behind what a job remembers.         *)
THEOREM AccrualTypeCorrect == FeeSpec => []FeeTypeOK
<1>1. AccrualInv => FeeTypeOK
  BY DEF AccrualInv
<1> QED BY <1>1, AccrualInvInit, AccrualInvStep, PTL DEF FeeSpec

(* A paper trade is charged SFD at most once for an hour and the overnight *)
(* fee at most once for a day, for hours in which it existed only, and for *)
(* every hour that the job has passed and nothing excuses: process_tick and*)
(* process_date_change, with the clock, the trades, the feeds and restarts *)
(* interleaved in any way.                                                 *)
THEOREM FeesCorrect == FeeSpec => []FeesAreExact
<1>1. AccrualInv => FeesAreExact
  <2> SUFFICES ASSUME AccrualInv PROVE FeesAreExact
    OBVIOUS
  <2>1. ChargedOnce
    BY DEF AccrualInv, SfdInv, NightInv, ChargedOnce
  <2>2. SfdOnlyWhileHeld
    BY DEF AccrualInv, SfdInv, SfdOnlyWhileHeld
  <2>3. NoHourSkipped
    BY DEF AccrualInv, AccountedInv, Passed, NoHourSkipped
  <2> QED BY <2>1, <2>2, <2>3 DEF FeesAreExact
<1> QED BY <1>1, AccrualInvInit, AccrualInvStep, PTL DEF FeeSpec

-----------------------------------------------------------------------------
(* The weekly batch.                                                       *)

Rest == {"idle", "sunday?"}
Busy == {"stats", "gemini", "record", "announce", "hung"}
Places == DOMAIN Strategies

\* The task never is ahead of the clock, and is behind it while it handles a
\* change.
WeeklyTypes ==
  /\ utcDay \in 0..LastDay /\ evening \in BOOLEAN
  /\ step \in Rest \cup Busy
  /\ watched \in 0..utcDay /\ newDate \in 0..utcDay
  /\ step # "idle" => watched < newDate
  /\ runDay \in WeekDays /\ current \in Nat
  /\ step \in Busy => current \in Places
  /\ runs \in [WeekDays -> Nat]
  /\ proposals \in [Places -> [WeekDays -> Nat]]
  /\ announced \in [Places -> [WeekDays -> Nat]]

\* A day that was handled in time is run when the task has seen it, not before
\* and not again.
RunsInv ==
  \A d \in WeekDays :
    /\ runs[d] > 0 => d \in Sundays
    /\ d \notin unwatched =>
         /\ runs[d] <= 1
         /\ runs[d] = 1 => d <= watched \/ (step \in Busy /\ newDate = d)
         /\ d \in Sundays =>
              /\ d < utcDay => runs[d] = 1
              /\ d = watched => runs[d] = 1
              /\ step \in Busy /\ newDate = d => runs[d] = 1

\* The run in progress has told of the strategies before the current one.
TellInv ==
  /\ \A i \in Places, d \in WeekDays :
       /\ proposals[i][d] <= runs[d] /\ announced[i][d] <= runs[d]
       /\ <<i, d>> \notin untold /\ (step \in Rest \/ runDay # d \/ current > i) => announced[i][d] = runs[d]
  /\ step \in Busy => \A i \in Places :
       /\ i >= current => /\ announced[i][runDay] < runs[runDay]
                          /\ <<i, runDay>> \notin untold => announced[i][runDay] + 1 = runs[runDay]
       /\ i > current \/ (i = current /\ step # "announce") => proposals[i][runDay] < runs[runDay]

WeeklyInv == WeeklyTypes /\ RunsInv /\ TellInv

(* The strategies are numbered from one.                                   *)
LEMMA PlacesAre == Len(Strategies) \in Nat /\ Places = 1..Len(Strategies)
BY WeeklyAssumption DEF Places

(* The day in Japan is the day of UTC or the next.                         *)
LEMMA JstDayIs ==
  ASSUME WeeklyTypes
  PROVE  JstDay \in WeekDays /\ utcDay <= JstDay /\ JstDay <= utcDay + 1
BY WeeklyAssumption DEF WeeklyTypes, JstDay, WeekDays

(* The first state satisfies the invariant: today is not watched.          *)
LEMMA WeeklyInitInv == WeeklyInit => WeeklyInv
<1> SUFFICES ASSUME WeeklyInit PROVE WeeklyInv
  OBVIOUS
<1>1. WeeklyTypes
  <2>1. evening \in BOOLEAN
    BY DEF WeeklyInit
  <2>2. proposals \in [Places -> [WeekDays -> Nat]] /\ announced \in [Places -> [WeekDays -> Nat]]
    BY DEF WeeklyInit, Places
  <2> QED BY <2>1, <2>2, WeeklyAssumption DEF WeeklyInit, WeeklyTypes, Rest, Busy, WeekDays
<1>2. RunsInv
  BY WeeklyAssumption DEF WeeklyInit, RunsInv, Busy, WeekDays
<1>3. TellInv
  BY DEF WeeklyInit, TellInv, Rest, Busy, Places
<1> QED BY <1>1, <1>2, <1>3 DEF WeeklyInv

-----------------------------------------------------------------------------
(* The steps of a run, by what they do to where the task is.               *)

\* Another statement for the same strategy.
SameStrategy ==
  /\ step \in Busy /\ step' \in Busy
  /\ UNCHANGED <<clockOfWeek, watched, newDate, runDay, current, runs, unwatched>>

\* The statements for the strategy are over, and it is told of or given up.
StrategyEnds ==
  /\ step \in Busy
  /\ \/ current < Len(Strategies) /\ step' = "stats" /\ current' = current + 1 /\ watched' = watched
     \/ current = Len(Strategies) /\ step' = "idle" /\ watched' = newDate /\ current' = current
  /\ UNCHANGED <<clockOfWeek, newDate, runDay, runs, unwatched>>
  /\ \/ announced' = AnnouncedAfter /\ untold' = untold
     \/ announced' = announced /\ untold' = untold \cup {<<current, runDay>>}
  /\ proposals' = proposals

\* A statement before the announcement has succeeded.
Proceeds ==
  /\ SameStrategy /\ UNCHANGED <<announced, untold>>
  /\ \/ proposals' = proposals /\ (step' = "announce" \/ step # "announce")
     \/ /\ step # "announce" /\ step' = "announce"
        /\ proposals' = [proposals EXCEPT ![current][runDay] = @ + 1]

(* Every step of a run is one of the two.                                  *)
LEMMA RunSteps ==
  ASSUME ReadStats \/ CallGemini \/ RecordProposal \/ Announce
  PROVE  Proceeds \/ StrategyEnds
<1>1. ASSUME StrategyFails, Elsewhere, step \in Busy PROVE StrategyEnds
  BY <1>1 DEF StrategyFails, Elsewhere, StrategyEnds, NextStrategy, DateHandled, records
<1>2. CASE ReadStats
  BY <1>1, <1>2 DEF ReadStats, Proceeds, SameStrategy, Busy, Elsewhere, records
<1>3. CASE CallGemini
  BY <1>1, <1>3 DEF CallGemini, Proceeds, SameStrategy, Busy, Elsewhere, records
<1>4. CASE RecordProposal
  BY <1>1, <1>4 DEF RecordProposal, Proceeds, SameStrategy, Busy, Elsewhere
<1>5. CASE Announce
  <2>1. CASE announced' = AnnouncedAfter /\ NextStrategy /\ UNCHANGED <<proposals, untold, failures>>
    BY <1>5, <2>1 DEF Announce, Elsewhere, StrategyEnds, NextStrategy, DateHandled, Busy
  <2>2. CASE StrategyFails
    BY <1>1, <1>5, <2>2 DEF Announce, Busy
  <2> QED BY <1>5, <2>1, <2>2 DEF Announce
<1> QED BY <1>2, <1>3, <1>4, <1>5

(* Every step keeps the types.                                             *)
LEMMA WeeklyTypesStep ==
  ASSUME WeeklyTypes, WeeklyNext
  PROVE  WeeklyTypes'
<1> USE DEF WeeklyTypes, Rest, Busy
<1>1. CASE NoticeDate
  BY <1>1 DEF NoticeDate, clockOfWeek, records
<1>2. CASE StartWeekly
  <2>1. runs' \in [WeekDays -> Nat]
    BY <1>2, JstDayIs DEF StartWeekly
  <2>2. /\ utcDay' = utcDay /\ evening' = evening /\ newDate' = newDate
        /\ proposals' = proposals /\ announced' = announced
    BY <1>2 DEF StartWeekly, DateHandled, clockOfWeek, records
  <2>3. \/ step' = "idle" /\ watched' = newDate /\ runDay' = runDay /\ current' = current
        \/ step' = "stats" /\ watched' = watched /\ runDay' = JstDay /\ current' = 1 /\ Strategies # << >>
    BY <1>2 DEF StartWeekly, DateHandled
  <2>4. Strategies # << >> => 1 \in Places
    BY PlacesAre, WeeklyAssumption
  <2>5. step = "sunday?"
    BY <1>2 DEF StartWeekly
  <2> QED BY <2>1, <2>2, <2>3, <2>4, <2>5, JstDayIs, SMTT(30)
<1>3. CASE Proceeds
  <2>1. proposals' \in [Places -> [WeekDays -> Nat]]
    <3>1. current \in Places
      BY <1>3 DEF Proceeds, SameStrategy
    <3>2. CASE proposals' = [proposals EXCEPT ![current][runDay] = @ + 1]
      <4>1. [proposals[current] EXCEPT ![runDay] = @ + 1] \in [WeekDays -> Nat]
        BY <3>1
      <4> QED BY <3>1, <3>2, <4>1
    <3> QED BY <1>3, <3>2 DEF Proceeds
  <2> QED BY <1>3, <2>1 DEF Proceeds, SameStrategy, clockOfWeek
<1>4. CASE StrategyEnds
  <2>1. announced' \in [Places -> [WeekDays -> Nat]]
    <3>1. current \in Places
      BY <1>4 DEF StrategyEnds
    <3>2. CASE announced' = AnnouncedAfter
      <4>1. [announced[current] EXCEPT ![runDay] = @ + 1] \in [WeekDays -> Nat]
        BY <3>1
      <4> QED BY <3>1, <3>2, <4>1 DEF AnnouncedAfter
    <3> QED BY <1>4, <3>2 DEF StrategyEnds
  <2> QED BY <1>4, <2>1, PlacesAre DEF StrategyEnds, clockOfWeek
<1>5. CASE RestartDaily
  <2>1. /\ step' = "idle" /\ watched' = utcDay /\ utcDay' = utcDay /\ evening' = evening
        /\ UNCHANGED <<newDate, runDay, current, runs, proposals, announced>>
    BY <1>5 DEF RestartDaily, clockOfWeek, records
  <2> QED BY <2>1
<1>6. CASE HalfDay
  <2>1. utcDay' \in 0..LastDay /\ utcDay <= utcDay'
    BY <1>6, WeeklyAssumption DEF HalfDay
  <2>2. evening' \in BOOLEAN
    BY <1>6 DEF HalfDay
  <2>3. UNCHANGED <<step, watched, newDate, runDay, current, runs, proposals, announced>>
    BY <1>6 DEF HalfDay, progress, records
  <2>4. watched' \in 0..utcDay' /\ newDate' \in 0..utcDay'
    BY <2>1, <2>3
  <2> QED BY <2>1, <2>2, <2>3, <2>4
<1> QED BY <1>1, <1>2, <1>3, <1>4, <1>5, <1>6, RunSteps DEF WeeklyNext

(* Every step keeps the account of the runs.                               *)
LEMMA RunsStep ==
  ASSUME WeeklyTypes, RunsInv, WeeklyNext
  PROVE  RunsInv'
<1> USE DEF WeeklyTypes, Rest, Busy
<1>0. WeekDays \subseteq Int /\ 0..LastDay \subseteq WeekDays
  BY WeeklyAssumption DEF WeekDays
<1>1. CASE NoticeDate
  BY <1>0, <1>1 DEF NoticeDate, clockOfWeek, RunsInv
<1>2. CASE StartWeekly
  <2>1. /\ step = "sunday?" /\ watched < newDate /\ newDate <= utcDay
        /\ utcDay' = utcDay /\ newDate' = newDate /\ unwatched \subseteq unwatched'
    BY <1>2 DEF StartWeekly, DateHandled, clockOfWeek
  <2>2. \A d \in WeekDays \ unwatched' : d = newDate \/ d = JstDay => newDate = d /\ JstDay = d
    BY <1>2 DEF StartWeekly
  <2>3. \/ step' = "idle" /\ watched' = newDate
        \/ step' = "stats" /\ watched' = watched
    BY <1>2 DEF StartWeekly, DateHandled
  <2>4. \/ JstDay \notin Sundays /\ step' = "idle" /\ runs' = runs
        \/ JstDay \in Sundays /\ runs' = [runs EXCEPT ![JstDay] = @ + 1]
    BY <1>2 DEF StartWeekly, IsJstSunday, DateHandled
  <2>5. JstDay \in WeekDays /\ utcDay <= JstDay /\ JstDay \in Int
    BY JstDayIs, <1>0
  <2>6. ASSUME NEW d \in WeekDays PROVE runs'[d] \in Nat /\ runs[d] \in Nat /\ d \in Int
                                     /\ (d # JstDay => runs'[d] = runs[d])
                                     /\ (d = JstDay /\ d \in Sundays => runs'[d] = runs[d] + 1)
                                     /\ (d = JstDay /\ d \notin Sundays => runs'[d] = runs[d])
    BY <2>4, <2>5, <2>6, <1>0
  <2>7. ASSUME NEW d \in WeekDays, d = JstDay, d \notin unwatched', d \in Sundays PROVE runs'[d] = 1
    <3>1. d = newDate /\ d \notin unwatched
      BY <2>1, <2>2, <2>7
    <3>2. runs[d] = 0
      BY <2>1, <2>6, <3>1 DEF RunsInv
    <3> QED BY <2>6, <2>7, <3>2
  <2>8. ASSUME NEW d \in WeekDays PROVE runs'[d] > 0 => d \in Sundays
    BY <2>6 DEF RunsInv
  <2>9. ASSUME NEW d \in WeekDays, d \notin unwatched'
        PROVE  /\ runs'[d] <= 1
               /\ runs'[d] = 1 => d <= watched' \/ (step' \in Busy /\ newDate' = d)
               /\ d \in Sundays => /\ d < utcDay' => runs'[d] = 1
                                   /\ d = watched' => runs'[d] = 1
                                   /\ step' \in Busy /\ newDate' = d => runs'[d] = 1
    <3>1. CASE d = JstDay
      BY <3>1, <2>1, <2>2, <2>3, <2>4, <2>5, <2>6, <2>7, <2>8, <2>9 DEF RunsInv
    <3>2. CASE d # JstDay
      <4>1. d # newDate /\ runs'[d] = runs[d] /\ d \notin unwatched
        BY <2>1, <2>2, <2>6, <2>9, <3>2
      <4> QED BY <4>1, <2>1, <2>3, <2>6 DEF RunsInv
    <3> QED BY <3>1, <3>2
  <2> QED BY <2>8, <2>9 DEF RunsInv
<1>3. CASE Proceeds
  BY <1>0, <1>3 DEF Proceeds, SameStrategy, clockOfWeek, RunsInv
<1>4. CASE StrategyEnds
  BY <1>0, <1>4 DEF StrategyEnds, clockOfWeek, RunsInv
<1>5. CASE RestartDaily
  BY <1>0, <1>5 DEF RestartDaily, clockOfWeek, RunsInv
<1>6. CASE HalfDay
  BY <1>0, <1>6 DEF HalfDay, progress, RunsInv
<1> QED BY <1>1, <1>2, <1>3, <1>4, <1>5, <1>6, RunSteps DEF WeeklyNext

(* Every step keeps the account of the announcements.                      *)
LEMMA TellStep ==
  ASSUME WeeklyTypes, TellInv, WeeklyNext
  PROVE  TellInv'
<1> USE DEF WeeklyTypes, Rest, Busy
<1>0. Places \subseteq Nat /\ WeekDays \subseteq Int
  BY PlacesAre DEF WeekDays
<1>1. CASE NoticeDate
  BY <1>1 DEF NoticeDate, records, TellInv
<1>2. CASE StartWeekly
  <2>1. /\ step = "sunday?" /\ proposals' = proposals /\ announced' = announced /\ untold \subseteq untold'
    BY <1>2 DEF StartWeekly, records
  <2>2. CASE runs' = runs /\ step' = "idle"
    BY <2>1, <2>2 DEF TellInv
  <2>3. CASE runs' = [runs EXCEPT ![JstDay] = @ + 1] /\ step' = "stats" /\ runDay' = JstDay /\ current' = 1
    <3>1. \A d \in WeekDays : runs'[d] = IF d = JstDay THEN runs[d] + 1 ELSE runs[d]
      BY <2>3
    <3>2. \A i \in Places, d \in WeekDays : runs[d] \in Nat /\ announced[i][d] \in Nat /\ proposals[i][d] \in Nat
      OBVIOUS
    <3>3. \A i \in Places, d \in WeekDays :
            /\ proposals[i][d] <= runs[d] /\ announced[i][d] <= runs[d]
            /\ <<i, d>> \notin untold' => announced[i][d] = runs[d]
      BY <2>1 DEF TellInv
    <3>4. \A i \in Places : i >= 1
      BY PlacesAre
    <3>5. \A i \in Places, d \in WeekDays :
            /\ proposals'[i][d] <= runs'[d] /\ announced'[i][d] <= runs'[d]
            /\ <<i, d>> \notin untold' /\ (step' \in Rest \/ runDay' # d \/ current' > i) =>
                 announced'[i][d] = runs'[d]
      <4> SUFFICES ASSUME NEW i \in Places, NEW d \in WeekDays
                   PROVE  /\ proposals[i][d] <= runs'[d] /\ announced[i][d] <= runs'[d]
                          /\ <<i, d>> \notin untold' /\ (JstDay # d \/ 1 > i) => announced[i][d] = runs'[d]
        BY <2>1, <2>3
      <4>1. runs[d] <= runs'[d] /\ (JstDay # d => runs'[d] = runs[d])
        BY <3>1, <3>2
      <4>2. ~(1 > i)
        BY <1>0, <3>4
      <4> QED BY <3>1, <3>2, <3>3, <4>1, <4>2
    <3>6. \A i \in Places :
            /\ announced'[i][runDay'] < runs'[runDay'] /\ proposals'[i][runDay'] < runs'[runDay']
            /\ <<i, runDay'>> \notin untold' => announced'[i][runDay'] + 1 = runs'[runDay']
      BY <2>1, <2>3, <3>1, <3>2, <3>3, JstDayIs
    <3> QED BY <3>5, <3>6 DEF TellInv
  <2>4. CASE /\ runs' = [runs EXCEPT ![JstDay] = @ + 1] /\ step' = "idle"
             /\ \A i \in Places : <<i, JstDay>> \in untold'
    <3>1. \A d \in WeekDays : runs'[d] = IF d = JstDay THEN runs[d] + 1 ELSE runs[d]
      BY <2>4
    <3>2. \A i \in Places, d \in WeekDays : runs[d] \in Nat /\ announced[i][d] \in Nat /\ proposals[i][d] \in Nat
      OBVIOUS
    <3> QED BY <2>1, <2>4, <3>1, <3>2 DEF TellInv
  <2> QED BY <1>2, <2>2, <2>3, <2>4 DEF StartWeekly, DateHandled, Places
<1>3. CASE Proceeds
  <2>1. UNCHANGED <<announced, untold, runDay, current, runs>> /\ step \in Busy /\ step' \in Busy
    BY <1>3 DEF Proceeds, SameStrategy
  <2>2. CASE proposals' = proposals
    BY <1>3, <2>1, <2>2 DEF TellInv, Proceeds
  <2>3. CASE proposals' = [proposals EXCEPT ![current][runDay] = @ + 1] /\ step # "announce" /\ step' = "announce"
    <3>1. \A i \in Places, d \in WeekDays :
            proposals'[i][d] = IF i = current /\ d = runDay THEN proposals[i][d] + 1 ELSE proposals[i][d]
      BY <2>3
    <3>2. \A i \in Places, d \in WeekDays : runs[d] \in Nat /\ announced[i][d] \in Nat /\ proposals[i][d] \in Nat
      OBVIOUS
    <3> QED BY <1>0, <2>1, <2>3, <3>1, <3>2 DEF TellInv
  <2> QED BY <1>3, <2>2, <2>3 DEF Proceeds
<1>4. CASE StrategyEnds
  <2>1. /\ step \in Busy /\ runs' = runs /\ proposals' = proposals /\ runDay' = runDay /\ runDay \in WeekDays
        /\ current \in Places /\ \A d \in WeekDays : runs[d] \in Nat
    BY <1>4 DEF StrategyEnds
  <2>2. \A i \in Places, d \in WeekDays : announced[i][d] \in Nat /\ proposals[i][d] \in Nat
    OBVIOUS
  <2>3. \A i \in Places, d \in WeekDays :
          /\ announced'[i][d] <= runs[d]
          /\ i # current \/ d # runDay => announced'[i][d] = announced[i][d]
          /\ i # current \/ d # runDay => (<<i, d>> \in untold' <=> <<i, d>> \in untold)
    <3>1. CASE announced' = AnnouncedAfter /\ untold' = untold
      <4>1. \A i \in Places, d \in WeekDays :
              announced'[i][d] = IF i = current /\ d = runDay THEN announced[i][d] + 1 ELSE announced[i][d]
        BY <2>1, <3>1 DEF AnnouncedAfter
      <4>2. announced[current][runDay] + 1 <= runs[runDay]
        <5>1. current >= current
          BY <1>0, <2>1
        <5>2. announced[current][runDay] < runs[runDay]
          BY <2>1, <5>1 DEF TellInv
        <5> QED BY <2>1, <2>2, <5>2
      <4>3. \A i \in Places, d \in WeekDays : announced[i][d] <= runs[d]
        BY DEF TellInv
      <4>4. \A i \in Places, d \in WeekDays : announced'[i][d] <= runs[d]
        BY <2>1, <2>2, <4>1, <4>2, <4>3
      <4> QED BY <3>1, <4>1, <4>4
    <3>2. CASE announced' = announced /\ untold' = untold \cup {<<current, runDay>>}
      BY <3>2 DEF TellInv
    <3> QED BY <1>4, <3>1, <3>2 DEF StrategyEnds
  <2>4. <<current, runDay>> \notin untold' => announced'[current][runDay] = runs[runDay]
    BY <1>0, <1>4, <2>1, <2>2 DEF StrategyEnds, AnnouncedAfter, TellInv
  <2>5. CASE step' = "stats" /\ current' = current + 1
    BY <1>0, <2>1, <2>2, <2>3, <2>4, <2>5 DEF TellInv
  <2>6. CASE step' = "idle" /\ current = Len(Strategies) /\ current' = current
    <3>1. \A i \in Places : i = current \/ current > i
      BY <2>6, PlacesAre
    <3> QED BY <1>0, <2>1, <2>2, <2>3, <2>4, <2>6, <3>1 DEF TellInv
  <2> QED BY <1>4, <2>5, <2>6 DEF StrategyEnds
<1>5. CASE RestartDaily
  <2>1. /\ step' = "idle" /\ runDay' = runDay /\ current' = current
        /\ runs' = runs /\ proposals' = proposals /\ announced' = announced
        /\ untold \subseteq untold'
    BY <1>5 DEF RestartDaily, records
  <2>2. step \in Busy => \A i \in Places : i >= current => <<i, runDay>> \in untold'
    BY <1>5, PlacesAre DEF RestartDaily
  <2> QED BY <1>0, <2>1, <2>2 DEF TellInv
<1>6. CASE HalfDay
  BY <1>6 DEF HalfDay, progress, records, TellInv
<1> QED BY <1>1, <1>2, <1>3, <1>4, <1>5, <1>6, RunSteps DEF WeeklyNext

(* The invariant holds in every reachable state.                           *)
THEOREM WeeklyInvariant == WeeklySpec => []WeeklyInv
<1>1. WeeklyInv /\ [WeeklyNext]_weeklyVars => WeeklyInv'
  <2> SUFFICES ASSUME WeeklyInv, [WeeklyNext]_weeklyVars PROVE WeeklyInv'
    OBVIOUS
  <2>1. CASE WeeklyNext
    BY <2>1, WeeklyTypesStep, RunsStep, TellStep DEF WeeklyInv
  <2>2. CASE UNCHANGED weeklyVars
    BY <2>2 DEF weeklyVars, clockOfWeek, progress, records, WeeklyInv, WeeklyTypes, RunsInv, TellInv
  <2> QED BY <2>1, <2>2
<1> QED BY <1>1, WeeklyInitInv, PTL DEF WeeklySpec

(* The weekly batch runs once on every Sunday of Japan whose date change   *)
(* was handled in time, and announces what became of every strategy but    *)
(* those whose statement failed or whose run was cut off (daily_batch::run,*)
(* weekly_batch::run).                                                     *)
THEOREM SundaysCorrect == WeeklySpec => []SundayAccounted
<1>1. WeeklyInv => SundayAccounted
  <2> SUFFICES ASSUME WeeklyInv PROVE SundayAccounted
    OBVIOUS
  <2>1. OneRunPerSunday
    BY DEF WeeklyInv, WeeklyTypes, RunsInv, OneRunPerSunday
  <2>2. ResultsAnnounced
    BY DEF WeeklyInv, TellInv, ResultsAnnounced, Places, Rest
  <2> QED BY <2>1, <2>2 DEF SundayAccounted
<1> QED BY <1>1, WeeklyInvariant, PTL

-----------------------------------------------------------------------------
(* The daily summary.                                                      *)

(* A set of naturals that is not empty has a least element.                *)
LEMMA MinIs ==
  ASSUME NEW S, S \subseteq Nat, S # {}
  PROVE  Min(S) \in S /\ \A x \in S : Min(S) <= x
<1>1. PICK x \in S : \A y \in S : ~(<<y, x>> \in OpToRel(<, Nat))
  BY NatLessThanWellFounded, WFMin, Zenon
<1>2. ASSUME NEW y \in S PROVE ~(y < x)
  <2>1. <<y, x>> \in Nat \X Nat
    OBVIOUS
  <2>2. <<y, x>>[1] = y /\ <<y, x>>[2] = x
    OBVIOUS
  <2> QED BY <1>1, <2>1, <2>2, Zenon DEF OpToRel
<1>3. \A y \in S : x <= y
  BY <1>2
<1> QED BY <1>3 DEF Min

CloseSteps == {"open", "persist", "publish", "queued", "upsert", "done"}

SummaryTypes ==
  /\ day \in Days /\ startDay \in Days /\ lastDate \in Days /\ date \in Days /\ nowDate \in Days
  /\ closeAt \in [Trades -> CloseSteps] /\ exitDay \in [Trades -> Days]
  /\ queue \in Seq(Trades)
  /\ counted \in [Trades -> [Days -> Nat]] /\ drawdown \in [Days -> SUBSET Trades]
  /\ pc \in {"idle", "fetch", "update", "insert"} /\ app \in {"starting", "running"}
  /\ snap \subseteq Trades /\ todo \subseteq Days /\ onTime \subseteq Trades

\* The events of the channel belong to different trades.
QueueInv ==
  /\ \A i \in DOMAIN queue : closeAt[queue[i]] = "queued"
  /\ \A i, j \in DOMAIN queue : queue[i] = queue[j] => i = j

\* Before its event is taken a trade can only have been counted by the batch,
\* after its day.  A trade that is counted keeps others from inserting its row.
TradeInv(t) ==
  /\ exitDay[t] <= day
  /\ \A d \in Days : counted[t][d] > 0 => d \in row
  /\ t \notin late => /\ \A d \in Days : d # exitDay[t] => counted[t][d] = 0
                      /\ counted[t][exitDay[t]] <= 1
  /\ closeAt[t] \in {"open", "persist"} => t \notin late /\ t \notin onTime /\ counted[t][exitDay[t]] = 0
  /\ closeAt[t] \in {"publish", "queued", "upsert"} =>
       t \notin late /\ (counted[t][exitDay[t]] > 0 => exitDay[t] < day)

\* The batch is at a past day, and it has read the trades of that day.
BatchInv ==
  /\ lastDate <= day
  /\ pc = "idle" => todo = {}
  /\ pc # "idle" => /\ app = "running" /\ date < nowDate /\ nowDate <= day
                    /\ \A d \in todo : d < nowDate
  /\ pc \in {"update", "insert"} =>
       /\ \A t \in snap : t \in Closed /\ exitDay[t] = date
       /\ \A t \in onTime : exitDay[t] = date => t \in snap

Complete(d) == \A t \in onTime : exitDay[t] = d => t \in drawdown[d]

\* What the batch has left behind is complete, or noted as missed.
DrawInv ==
  app = "running" =>
    \A d \in Days : startDay - Backfill <= d =>
      /\ pc = "idle" /\ d < lastDate => d \in missed \/ Complete(d)
      /\ pc # "idle" /\ d < nowDate => d = date \/ d \in todo \/ d \in missed \/ Complete(d)

SummaryInv == SummaryTypes /\ QueueInv /\ (\A t \in Trades : TradeInv(t)) /\ BatchInv /\ DrawInv

(* The days are naturals.                                                  *)
LEMMA DaysAre == MaxDay \in Nat /\ Backfill \in Nat /\ Days \subseteq Nat
BY SummaryAssumption DEF Days

(* The first state satisfies the invariant.                                *)
LEMMA SummaryInitInv == Init => SummaryInv
<1> SUFFICES ASSUME Init PROVE SummaryInv
  OBVIOUS
<1>0. 0 \in Days
  BY SummaryAssumption DEF Days
<1>1. SummaryTypes
  BY <1>0 DEF Init, SummaryTypes, CloseSteps
<1>2. QueueInv
  BY DEF Init, QueueInv
<1>3. \A t \in Trades : TradeInv(t)
  BY <1>0 DEF Init, TradeInv
<1>4. BatchInv
  BY DEF Init, BatchInv
<1>5. DrawInv
  BY DaysAre DEF Init, DrawInv
<1> QED BY <1>1, <1>2, <1>3, <1>4, <1>5 DEF SummaryInv

-----------------------------------------------------------------------------
(* The queue.                                                              *)

(* The channel holds trades.                                               *)
LEMMA QueueOf == SummaryTypes => \A i \in DOMAIN queue : queue[i] \in Trades
BY DEF SummaryTypes

(* The event taken is that of a queued trade, and no other of it is left.  *)
LEMMA TakesHead ==
  ASSUME SummaryTypes, QueueInv, queue # << >>
  PROVE  /\ Head(queue) \in Trades /\ closeAt[Head(queue)] = "queued" /\ Tail(queue) \in Seq(Trades)
         /\ \A i \in DOMAIN Tail(queue) :
              i + 1 \in DOMAIN queue /\ Tail(queue)[i] = queue[i + 1] /\ queue[i + 1] # Head(queue)
<1>1. PICK n \in Nat : n = Len(queue) /\ n >= 1 /\ DOMAIN queue = 1..n
  BY DEF SummaryTypes
<1>2. /\ Head(queue) = queue[1] /\ Tail(queue) \in Seq(Trades) /\ DOMAIN Tail(queue) = 1..(n - 1)
      /\ \A i \in 1..(n - 1) : Tail(queue)[i] = queue[i + 1]
  BY <1>1 DEF SummaryTypes
<1>3. 1 \in DOMAIN queue /\ queue[1] \in Trades /\ closeAt[queue[1]] = "queued"
  <2>1. 1 \in DOMAIN queue
    BY <1>1
  <2> QED BY <2>1, QueueOf DEF QueueInv
<1>4. \A i \in 1..(n - 1) : i + 1 \in DOMAIN queue /\ i + 1 # 1
  BY <1>1
<1> QED BY <1>2, <1>3, <1>4 DEF QueueInv

(* Every step keeps the channel.                                           *)
LEMMA QueueStep ==
  ASSUME SummaryTypes, QueueInv, Next
  PROVE  queue' \in Seq(Trades) /\ QueueInv'
<1>1. CASE RecordClosedTrade
  <2>1. queue # << >> /\ queue' = Tail(queue) /\ closeAt' = [closeAt EXCEPT ![Head(queue)] = "done"]
    BY <1>1 DEF RecordClosedTrade
  <2>2. \A i \in DOMAIN queue' : closeAt'[queue'[i]] = "queued"
    <3> SUFFICES ASSUME NEW i \in DOMAIN queue' PROVE closeAt'[queue'[i]] = "queued"
      OBVIOUS
    <3>1. PICK j \in DOMAIN queue : queue'[i] = queue[j] /\ queue[j] # Head(queue)
      BY <2>1, TakesHead
    <3>2. queue[j] \in Trades /\ closeAt[queue[j]] = "queued"
      BY QueueOf DEF QueueInv
    <3> QED BY <2>1, <3>1, <3>2 DEF SummaryTypes
  <2>3. \A i \in DOMAIN queue' : i \in Int
    BY <2>1, TakesHead
  <2>4. \A i, j \in DOMAIN queue' : queue'[i] = queue'[j] => i = j
    <3> SUFFICES ASSUME NEW i \in DOMAIN queue', NEW j \in DOMAIN queue', queue'[i] = queue'[j] PROVE i = j
      OBVIOUS
    <3>1. i + 1 = j + 1
      BY <2>1, TakesHead DEF QueueInv
    <3> QED BY <2>3, <3>1
  <2> QED BY <2>1, <2>2, <2>4, TakesHead DEF QueueInv
<1>2. CASE \E t \in Trades : PublishClosedTrade(t)
  <2>1. PICK t \in Trades : PublishClosedTrade(t)
    BY <1>2
  <2>2. queue' = Append(queue, t) /\ closeAt' = [closeAt EXCEPT ![t] = "queued"] /\ closeAt[t] = "publish"
    BY <2>1 DEF PublishClosedTrade
  <2>3. PICK n \in Nat : n = Len(queue) /\ DOMAIN queue = 1..n
    BY DEF SummaryTypes
  <2>4. /\ queue' \in Seq(Trades) /\ DOMAIN queue' = 1..(n + 1) /\ queue'[n + 1] = t
        /\ \A i \in 1..n : queue'[i] = queue[i]
    BY <2>2, <2>3 DEF SummaryTypes
  <2>5. \A i \in 1..n : queue[i] # t /\ queue[i] \in Trades
    BY <2>2, <2>3, QueueOf DEF QueueInv
  <2>6. \A i \in 1..(n + 1) : i \in 1..n \/ i = n + 1
    OBVIOUS
  <2>7. closeAt'[t] = "queued" /\ \A i \in 1..n : closeAt'[queue[i]] = "queued"
    BY <2>2, <2>3, <2>5 DEF QueueInv, SummaryTypes
  <2>8. \A i \in DOMAIN queue' : closeAt'[queue'[i]] = "queued"
    BY <2>4, <2>6, <2>7
  <2>9. \A i, j \in DOMAIN queue' : queue'[i] = queue'[j] => i = j
    BY <2>3, <2>4, <2>5, <2>6 DEF QueueInv
  <2> QED BY <2>4, <2>8, <2>9 DEF QueueInv
<1>3. CASE Restart
  BY <1>3 DEF Restart, QueueInv
<1>4. CASE /\ queue' = queue
           /\ \A t \in Trades : closeAt[t] = "queued" => closeAt'[t] = "queued"
  <2>1. \A i \in DOMAIN queue : queue[i] \in Trades
    BY DEF SummaryTypes
  <2> QED BY <1>4, <2>1 DEF QueueInv, SummaryTypes
<1>5. CASE BatchStep \/ FinishStartup \/ NextDay
  BY <1>4, <1>5 DEF BatchStep, DateChange, FetchClosedTrades, UpdateMaxDrawdown, InsertMaxDrawdown,
                    FinishStartup, NextDay, closeVars
<1>6. CASE \E t \in Trades : TakeExitTime(t) \/ CloseReconciled(t) \/ PersistClosedTrade(t) \/ BackfillReconciled(t)
  BY <1>4, <1>6 DEF TakeExitTime, CloseReconciled, PersistClosedTrade, BackfillReconciled, SummaryTypes
<1> QED BY <1>1, <1>2, <1>3, <1>5, <1>6 DEF Next, CloseStep

-----------------------------------------------------------------------------
(* The steps, by what they do to trades and to the batch.                  *)

\* The batch is over with a date.
DateOver ==
  /\ snap' = {} /\ nowDate \in Days
  /\ \/ todo = {} /\ pc' = "idle" /\ date' = 0 /\ nowDate' = 0 /\ todo' = {} /\ lastDate' = nowDate
     \/ /\ date' \in todo /\ pc' = "fetch" /\ todo' = todo \ {date'}
        /\ nowDate' = nowDate /\ lastDate' = lastDate

(* EndDate goes on with one of the dates that are left.                    *)
LEMMA EndDateIs ==
  ASSUME SummaryTypes, NEW ok, EndDate(ok)
  PROVE  DateOver /\ missed' = (IF ok THEN missed \ {date} ELSE missed \cup {date})
<1>1. todo # {} => Min(todo) \in todo
  BY MinIs, DaysAre DEF SummaryTypes
<1> QED BY <1>1 DEF EndDate, DateOver, SummaryTypes

\* The batch stays where it is.
BatchStays == UNCHANGED <<pc, date, nowDate, todo, lastDate>>

\* The batch begins with a date, and what is left of the backfill.
BatchBegins ==
  /\ pc' = "fetch" /\ date' \in Days /\ nowDate' = day /\ todo' \subseteq Days /\ UNCHANGED lastDate

(* Every step keeps the types of the clock, the batch and the rows.        *)
LEMMA BatchTypes ==
  ASSUME SummaryTypes, DateOver \/ BatchBegins \/ BatchStays
  PROVE  /\ lastDate' \in Days /\ date' \in Days /\ nowDate' \in Days /\ todo' \subseteq Days
         /\ pc' \in {"idle", "fetch", "update", "insert"}
<1>0. 0 \in Days
  BY SummaryAssumption DEF Days
<1> QED BY <1>0 DEF SummaryTypes, DateOver, BatchBegins, BatchStays

(* The backfill starts with one of its dates.                              *)
LEMMA BackfillBegins ==
  ASSUME SummaryTypes, FinishStartup, BackfillDates # {}
  PROVE  BatchBegins /\ date' \in BackfillDates /\ todo' = BackfillDates \ {date'}
<1>1. BackfillDates \subseteq Days /\ BackfillDates \subseteq Nat
  BY DaysAre DEF BackfillDates
<1>2. Min(BackfillDates) \in BackfillDates
  BY <1>1, MinIs
<1> QED BY <1>1, <1>2 DEF FinishStartup, BatchBegins

(* The rows of the steps that write them.                                  *)
LEMMA CountsKept ==
  ASSUME SummaryTypes
  PROVE  /\ \A t \in Trades, d \in Days :
              UpsertDailySummary(t, d) =>
                /\ counted' \in [Trades -> [Days -> Nat]]
                /\ \A u \in Trades, e \in Days :
                     counted'[u][e] = IF u = t /\ e = d THEN counted[u][e] + 1 ELSE counted[u][e]
         /\ /\ CountsInserted \in [Trades -> [Days -> Nat]]
            /\ \A u \in Trades, e \in Days :
                 CountsInserted[u][e] = IF date \notin row /\ u \in snap /\ e = date THEN 1 ELSE counted[u][e]
<1>1. ASSUME NEW t \in Trades, NEW d \in Days, UpsertDailySummary(t, d)
      PROVE  /\ counted' \in [Trades -> [Days -> Nat]]
             /\ \A u \in Trades, e \in Days :
                  counted'[u][e] = IF u = t /\ e = d THEN counted[u][e] + 1 ELSE counted[u][e]
  <2>1. counted' = [counted EXCEPT ![t] = [counted[t] EXCEPT ![d] = @ + 1]]
    BY <1>1 DEF UpsertDailySummary
  <2>2. [counted[t] EXCEPT ![d] = @ + 1] \in [Days -> Nat]
    BY DEF SummaryTypes
  <2> QED BY <2>1, <2>2 DEF SummaryTypes
<1>2. \A t \in Trades : [counted[t] EXCEPT ![date] = 1] \in [Days -> Nat]
  BY DEF SummaryTypes
<1>3. CountsInserted \in [Trades -> [Days -> Nat]]
  BY <1>2 DEF CountsInserted, SummaryTypes
<1>4. ASSUME NEW u \in Trades, NEW e \in Days
      PROVE  CountsInserted[u][e] = IF date \notin row /\ u \in snap /\ e = date THEN 1 ELSE counted[u][e]
  BY <1>4 DEF CountsInserted, SummaryTypes
<1> QED BY <1>1, <1>3, <1>4

(* Every step keeps the types.                                             *)
LEMMA SummaryTypesStep ==
  ASSUME SummaryTypes, QueueInv, Next
  PROVE  SummaryTypes'
<1>0. queue' \in Seq(Trades)
  BY QueueStep
<1>1. CASE RecordClosedTrade
  <2>1. Head(queue) \in Trades
    BY <1>1, TakesHead DEF RecordClosedTrade
  <2>2. counted' \in [Trades -> [Days -> Nat]]
    BY <1>1, <2>1, CountsKept DEF RecordClosedTrade, CountEvent, rowVars, SummaryTypes
  <2>3. closeAt' \in [Trades -> CloseSteps] /\ drawdown' = drawdown
    BY <1>1, <2>1 DEF RecordClosedTrade, CountEvent, UpsertDailySummary, rowVars, SummaryTypes, CloseSteps
  <2> QED BY <1>0, <1>1, <2>2, <2>3 DEF RecordClosedTrade, clockVars, batchVars, SummaryTypes
<1>2. CASE DateChange
  <2>1. BatchBegins
    BY <1>2 DEF DateChange, BatchBegins, SummaryTypes
  <2> QED BY <1>0, <1>2, <2>1, BatchTypes DEF DateChange, clockVars, closeVars, rowVars, SummaryTypes
<1>3. CASE FetchClosedTrades
  <2>1. /\ date' \in Days /\ nowDate' \in Days /\ todo' \subseteq Days /\ lastDate' \in Days
        /\ pc' \in {"idle", "fetch", "update", "insert"} /\ snap' \subseteq Trades
    <3>1. CASE EndDate(TRUE) \/ EndDate(FALSE)
      <4>1. DateOver
        BY <3>1, EndDateIs
      <4> QED BY <4>1, BatchTypes DEF DateOver
    <3>2. CASE pc' = "update" /\ snap' \subseteq Closed /\ UNCHANGED <<date, nowDate, todo, lastDate>>
      BY <3>2 DEF Closed, SummaryTypes
    <3> QED BY <1>3, <3>1, <3>2 DEF FetchClosedTrades
  <2> QED BY <1>0, <1>3, <2>1 DEF FetchClosedTrades, clockVars, closeVars, rowVars, SummaryTypes
<1>4. CASE UpdateMaxDrawdown
  <2>1. /\ date' \in Days /\ nowDate' \in Days /\ todo' \subseteq Days /\ lastDate' \in Days
        /\ pc' \in {"idle", "fetch", "update", "insert"} /\ snap' \subseteq Trades
    <3>1. CASE EndDate(TRUE) \/ EndDate(FALSE)
      <4>1. DateOver
        BY <3>1, EndDateIs
      <4> QED BY <4>1, BatchTypes DEF DateOver
    <3>2. CASE pc' = "insert" /\ UNCHANGED <<date, nowDate, snap, todo, lastDate>>
      BY <3>2 DEF SummaryTypes
    <3> QED BY <1>4, <3>1, <3>2 DEF UpdateMaxDrawdown
  <2>2. drawdown' \in [Days -> SUBSET Trades]
    BY <1>4 DEF UpdateMaxDrawdown, SummaryTypes
  <2> QED BY <1>0, <1>4, <2>1, <2>2 DEF UpdateMaxDrawdown, clockVars, closeVars, SummaryTypes
<1>5. CASE InsertMaxDrawdown
  <2>1. DateOver
    BY <1>5, EndDateIs DEF InsertMaxDrawdown
  <2>2. /\ date' \in Days /\ nowDate' \in Days /\ todo' \subseteq Days /\ lastDate' \in Days
        /\ pc' \in {"idle", "fetch", "update", "insert"} /\ snap' \subseteq Trades
    BY <2>1, BatchTypes DEF DateOver
  <2>3. drawdown' \in [Days -> SUBSET Trades] /\ counted' \in [Trades -> [Days -> Nat]]
    BY <1>5, CountsKept DEF InsertMaxDrawdown, SummaryTypes, rowVars
  <2> QED BY <1>0, <1>5, <2>2, <2>3 DEF InsertMaxDrawdown, clockVars, closeVars, SummaryTypes
<1>6. CASE FinishStartup
  <2>1. /\ date' \in Days /\ nowDate' \in Days /\ todo' \subseteq Days /\ lastDate' \in Days
        /\ pc' \in {"idle", "fetch", "update", "insert"}
    <3>1. CASE BackfillDates = {}
      BY <1>6, <3>1 DEF FinishStartup, SummaryTypes
    <3>2. CASE BackfillDates # {}
      BY <1>6, <3>2, BackfillBegins, BatchTypes
    <3> QED BY <3>1, <3>2
  <2> QED BY <1>0, <1>6, <2>1 DEF FinishStartup, closeVars, rowVars, SummaryTypes
<1>7. CASE Restart
  <2>1. closeAt' \in [Trades -> CloseSteps]
    BY <1>7 DEF Restart, SummaryTypes, CloseSteps
  <2>2. 0 \in Days
    BY SummaryAssumption DEF Days
  <2> QED BY <1>0, <1>7, <2>1, <2>2 DEF Restart, rowVars, SummaryTypes
<1>8. CASE NextDay
  <2>1. day' \in Days
    BY <1>8, SummaryAssumption DEF NextDay, SummaryTypes, Days
  <2> QED BY <1>8, <2>1 DEF NextDay, closeVars, rowVars, batchVars, SummaryTypes
<1>9. ASSUME NEW t \in Trades, TakeExitTime(t) \/ CloseReconciled(t) \/ PersistClosedTrade(t) \/ PublishClosedTrade(t)
      PROVE  SummaryTypes'
  <2>1. /\ closeAt' \in [Trades -> CloseSteps] /\ exitDay' \in [Trades -> Days] /\ onTime' \subseteq Trades
    BY <1>9, ZenonT(60) DEF TakeExitTime, CloseReconciled, PersistClosedTrade, PublishClosedTrade, SummaryTypes, CloseSteps
  <2>2. UNCHANGED <<clockVars, rowVars, batchVars>>
    BY <1>9 DEF TakeExitTime, CloseReconciled, PersistClosedTrade, PublishClosedTrade
  <2> QED BY <1>0, <2>1, <2>2 DEF clockVars, rowVars, batchVars, SummaryTypes
<1>10. ASSUME NEW t \in Trades, BackfillReconciled(t) PROVE SummaryTypes'
  <2>1. counted' \in [Trades -> [Days -> Nat]]
    BY <1>10, CountsKept DEF BackfillReconciled, rowVars, SummaryTypes
  <2>2. closeAt' \in [Trades -> CloseSteps] /\ drawdown' = drawdown
    BY <1>10 DEF BackfillReconciled, UpsertDailySummary, rowVars, SummaryTypes, CloseSteps
  <2> QED BY <1>0, <1>10, <2>1, <2>2 DEF BackfillReconciled, clockVars, batchVars, SummaryTypes
<1> QED BY <1>1, <1>2, <1>3, <1>4, <1>5, <1>6, <1>7, <1>8, <1>9, <1>10 DEF Next, BatchStep, CloseStep

-----------------------------------------------------------------------------
(* The counts.                                                             *)

\* A closed trade stays closed with its exit date, and one that is committed
\* on time has the current date.
ClosesGoOn ==
  /\ day <= day'
  /\ \A t \in Trades : t \in Closed => t \in Closed' /\ exitDay'[t] = exitDay[t]
  /\ onTime \subseteq onTime' /\ \A t \in onTime' : t \in onTime \/ exitDay'[t] = day

(* Every step is of this kind.                                             *)
LEMMA ClosesStep ==
  ASSUME SummaryTypes, QueueInv, \A t \in Trades : TradeInv(t), Next
  PROVE  ClosesGoOn
<1> USE DEF SummaryTypes, CloseSteps
<1>0. day \in Nat
  BY DaysAre
<1>1. CASE RecordClosedTrade
  <2>1. Head(queue) \in Trades
    BY <1>1, TakesHead DEF RecordClosedTrade
  <2> QED BY <1>0, <1>1, <2>1 DEF RecordClosedTrade, clockVars, ClosesGoOn, Closed
<1>2. CASE BatchStep \/ FinishStartup
  <2>1. day' = day /\ UNCHANGED closeVars
    BY <1>2 DEF BatchStep, DateChange, FetchClosedTrades, UpdateMaxDrawdown, InsertMaxDrawdown,
                FinishStartup, clockVars
  <2> QED BY <1>0, <2>1 DEF closeVars, ClosesGoOn, Closed
<1>3. CASE Restart
  BY <1>0, <1>3 DEF Restart, ClosesGoOn, Closed
<1>4. CASE NextDay
  BY <1>0, <1>4 DEF NextDay, closeVars, ClosesGoOn, Closed
<1>5. ASSUME NEW t \in Trades, TakeExitTime(t) \/ CloseReconciled(t) PROVE ClosesGoOn
  <2>1. closeAt[t] = "open" /\ t \notin onTime /\ exitDay' = [exitDay EXCEPT ![t] = day] /\ day' = day
    BY <1>5 DEF TakeExitTime, CloseReconciled, clockVars, TradeInv
  <2>2. onTime' = onTime \/ onTime' = onTime \cup {t}
    BY <1>5 DEF TakeExitTime, CloseReconciled
  <2>3. closeAt' = [closeAt EXCEPT ![t] = "persist"] \/ closeAt' = [closeAt EXCEPT ![t] = "upsert"]
    BY <1>5 DEF TakeExitTime, CloseReconciled
  <2> QED BY <1>0, <2>1, <2>2, <2>3, SMTT(30) DEF ClosesGoOn, Closed
<1>6. ASSUME NEW t \in Trades, PersistClosedTrade(t) \/ PublishClosedTrade(t) \/ BackfillReconciled(t)
      PROVE  ClosesGoOn
  BY <1>0, <1>6, SMTT(30) DEF PersistClosedTrade, PublishClosedTrade, BackfillReconciled, clockVars, ClosesGoOn, Closed
<1> QED BY <1>1, <1>2, <1>3, <1>4, <1>5, <1>6 DEF Next, CloseStep

(* A statement that counts a trade keeps its counts in order: the batch has*)
(* counted it before only if its day is over.                              *)
LEMMA UpsertKeeps ==
  ASSUME SummaryTypes, \A u \in Trades : TradeInv(u), NEW t \in Trades, NEW d \in Days,
         closeAt[t] \in {"queued", "upsert"}, d = exitDay[t] \/ d = day,
         UpsertDailySummary(t, d), closeAt' = [closeAt EXCEPT ![t] = "done"],
         UNCHANGED <<day, exitDay, onTime>>
  PROVE  \A u \in Trades : TradeInv(u)'
<1>0. day \in Nat /\ \A u \in Trades : exitDay[u] \in Nat /\ exitDay[u] \in Days
  BY DaysAre DEF SummaryTypes
<1>1. /\ row' = row \cup {d} /\ late' = (IF day # exitDay[t] THEN late \cup {t} ELSE late)
      /\ closeAt'[t] = "done" /\ \A u \in Trades \ {t} : closeAt'[u] = closeAt[u]
  BY DEF UpsertDailySummary, SummaryTypes
<1>2. /\ counted' \in [Trades -> [Days -> Nat]]
      /\ \A u \in Trades, e \in Days :
           counted'[u][e] = IF u = t /\ e = d THEN counted[u][e] + 1 ELSE counted[u][e]
  BY CountsKept
<1>3. ASSUME NEW u \in Trades, u # t PROVE TradeInv(u)'
  BY <1>0, <1>1, <1>2, <1>3 DEF TradeInv
<1>4. TradeInv(t)'
  <2>1. \A e \in Days : counted[t][e] \in Nat
    BY DEF SummaryTypes
  <2>2. t \notin late' => d = exitDay[t] /\ \A e \in Days : counted[t][e] = 0
    <3> SUFFICES ASSUME t \notin late' PROVE d = exitDay[t] /\ \A e \in Days : counted[t][e] = 0
      OBVIOUS
    <3>1. day = exitDay[t] /\ d = exitDay[t] /\ t \notin late
      BY <1>1
    <3>2. ~(counted[t][exitDay[t]] > 0)
      BY <1>0, <3>1 DEF TradeInv
    <3> QED BY <1>0, <2>1, <3>1, <3>2 DEF TradeInv
  <2>3. \A e \in Days : counted'[t][e] > 0 => e \in row'
    BY <1>1, <1>2, <2>1 DEF TradeInv
  <2>4. exitDay'[t] <= day'
    BY DEF TradeInv
  <2>5. t \notin late' => /\ \A e \in Days : e # exitDay'[t] => counted'[t][e] = 0
                          /\ counted'[t][exitDay'[t]] <= 1
    BY <1>0, <1>2, <2>2
  <2> QED BY <1>1, <2>3, <2>4, <2>5 DEF TradeInv
<1> QED BY <1>3, <1>4

(* The insertion of a row counts trades that no row counts.                *)
LEMMA InsertKeeps ==
  ASSUME SummaryTypes, \A u \in Trades : TradeInv(u), BatchInv, pc = "insert",
         row' = row \cup {date}, counted' = CountsInserted,
         UNCHANGED <<day, exitDay, onTime, closeAt, late>>
  PROVE  \A u \in Trades : TradeInv(u)'
<1>0. day \in Nat /\ date \in Nat /\ nowDate \in Nat /\ \A u \in Trades : exitDay[u] \in Nat /\ exitDay[u] \in Days
  BY DaysAre DEF SummaryTypes
<1>1. date < day
  BY <1>0 DEF BatchInv
<1>2. /\ counted' \in [Trades -> [Days -> Nat]]
      /\ \A u \in Trades, e \in Days :
           counted'[u][e] = IF date \notin row /\ u \in snap /\ e = date THEN 1 ELSE counted[u][e]
  BY CountsKept
<1>3. ASSUME NEW u \in Trades PROVE TradeInv(u)'
  <2>1. CASE u \notin snap \/ date \in row
    BY <1>0, <1>2, <2>1 DEF TradeInv
  <2>2. CASE u \in snap /\ date \notin row
    <3>1. u \in Closed /\ exitDay[u] = date
      BY <2>2 DEF BatchInv
    <3>2. closeAt[u] \notin {"open", "persist"}
      BY <3>1 DEF Closed
    <3> QED BY <1>0, <1>1, <1>2, <2>2, <3>1, <3>2 DEF TradeInv
  <2> QED BY <2>1, <2>2
<1> QED BY <1>3

(* Every step keeps what is said of each trade.                            *)
LEMMA TradeStep ==
  ASSUME SummaryTypes, QueueInv, \A t \in Trades : TradeInv(t), BatchInv, Next
  PROVE  \A t \in Trades : TradeInv(t)'
<1>0. day \in Nat /\ day \in Days /\ \A u \in Trades : exitDay[u] \in Nat /\ exitDay[u] \in Days
  BY DaysAre DEF SummaryTypes
<1>1. CASE RecordClosedTrade
  <2> DEFINE t == Head(queue)
  <2>1. t \in Trades /\ closeAt[t] = "queued"
    BY <1>1, TakesHead DEF RecordClosedTrade
  <2>2. closeAt' = [closeAt EXCEPT ![t] = "done"] /\ UNCHANGED <<day, exitDay, onTime>>
    BY <1>1 DEF RecordClosedTrade, clockVars
  <2>3. CASE UpsertDailySummary(t, exitDay[t])
    BY <1>0, <2>1, <2>2, <2>3, UpsertKeeps
  <2>4. CASE UNCHANGED <<rowVars, late>>
    BY <1>0, <2>1, <2>2, <2>4 DEF rowVars, TradeInv, SummaryTypes
  <2> QED BY <1>1, <2>3, <2>4 DEF RecordClosedTrade, CountEvent
<1>2. CASE DateChange \/ FetchClosedTrades \/ UpdateMaxDrawdown \/ FinishStartup
  BY <1>2 DEF DateChange, FetchClosedTrades, UpdateMaxDrawdown, FinishStartup, clockVars, closeVars, rowVars,
              eventVars, TradeInv
<1>3. CASE InsertMaxDrawdown
  <2>1. UNCHANGED <<day, exitDay, onTime, closeAt, late>> /\ pc = "insert"
    BY <1>3 DEF InsertMaxDrawdown, clockVars, closeVars, eventVars
  <2>2. CASE row' = row \cup {date} /\ counted' = CountsInserted
    BY <2>1, <2>2, InsertKeeps
  <2>3. CASE UNCHANGED rowVars
    BY <2>1, <2>3 DEF rowVars, TradeInv
  <2> QED BY <1>3, <2>2, <2>3 DEF InsertMaxDrawdown
<1>4. CASE Restart
  <2>1. UNCHANGED <<day, exitDay, onTime, rowVars, late>>
    BY <1>4 DEF Restart
  <2>2. \A t \in Trades : \/ closeAt'[t] = "open" /\ closeAt[t] \in {"open", "persist"}
                          \/ closeAt'[t] = "done"
    BY <1>4 DEF Restart, Closed, SummaryTypes, CloseSteps
  <2> QED BY <2>1, <2>2 DEF rowVars, TradeInv
<1>5. CASE NextDay
  <2>1. UNCHANGED <<closeAt, exitDay, onTime, rowVars, late>> /\ day < day' /\ day' \in Nat
    BY <1>0, <1>5 DEF NextDay, closeVars, eventVars
  <2> QED BY <1>0, <2>1 DEF rowVars, TradeInv
<1>6. ASSUME NEW t \in Trades, TakeExitTime(t) \/ CloseReconciled(t) PROVE \A u \in Trades : TradeInv(u)'
  <2>1. closeAt[t] = "open" /\ exitDay' = [exitDay EXCEPT ![t] = day] /\ UNCHANGED <<day, rowVars, late>>
    BY <1>6 DEF TakeExitTime, CloseReconciled, clockVars, eventVars
  <2>2. \/ closeAt' = [closeAt EXCEPT ![t] = "persist"] /\ onTime' = onTime
        \/ closeAt' = [closeAt EXCEPT ![t] = "upsert"] /\ onTime' = onTime \cup {t}
    BY <1>6 DEF TakeExitTime, CloseReconciled
  <2>3. t \notin late /\ t \notin onTime /\ \A d \in Days : counted[t][d] = 0
    BY <1>0, <2>1 DEF TradeInv
  <2>4. exitDay'[t] = day /\ closeAt'[t] \in {"persist", "upsert"} /\ (closeAt'[t] = "persist" => t \notin onTime')
    BY <2>1, <2>2, <2>3 DEF SummaryTypes
  <2>5. TradeInv(t)'
    BY <1>0, <2>1, <2>3, <2>4 DEF rowVars, TradeInv
  <2>6. ASSUME NEW u \in Trades, u # t PROVE TradeInv(u)'
    <3>1. exitDay'[u] = exitDay[u] /\ closeAt'[u] = closeAt[u] /\ (u \in onTime' <=> u \in onTime)
      BY <2>1, <2>2, <2>6 DEF SummaryTypes
    <3> QED BY <2>1, <3>1 DEF rowVars, TradeInv
  <2> QED BY <2>5, <2>6
<1>7. ASSUME NEW t \in Trades, PersistClosedTrade(t) \/ PublishClosedTrade(t) PROVE \A u \in Trades : TradeInv(u)'
  <2>1. UNCHANGED <<day, exitDay, rowVars, late>>
    BY <1>7 DEF PersistClosedTrade, PublishClosedTrade, clockVars, eventVars
  <2>2. \/ closeAt[t] = "persist" /\ closeAt' = [closeAt EXCEPT ![t] = "publish"] /\ onTime' \subseteq onTime \cup {t}
        \/ closeAt[t] = "publish" /\ closeAt' = [closeAt EXCEPT ![t] = "queued"] /\ onTime' = onTime
    BY <1>7 DEF PersistClosedTrade, PublishClosedTrade
  <2>3. TradeInv(t)'
    <3>1. closeAt'[t] \in {"publish", "queued"}
      BY <2>2 DEF SummaryTypes
    <3>2. t \notin late /\ (counted[t][exitDay[t]] > 0 => exitDay[t] < day)
      BY <2>2 DEF TradeInv
    <3> QED BY <2>1, <3>1, <3>2 DEF rowVars, TradeInv
  <2>4. ASSUME NEW u \in Trades, u # t PROVE TradeInv(u)'
    <3>1. closeAt'[u] = closeAt[u] /\ (u \in onTime' => u \in onTime)
      BY <2>2, <2>4 DEF SummaryTypes
    <3> QED BY <2>1, <3>1 DEF rowVars, TradeInv
  <2> QED BY <2>3, <2>4
<1>8. ASSUME NEW t \in Trades, BackfillReconciled(t) PROVE \A u \in Trades : TradeInv(u)'
  <2>1. /\ closeAt[t] = "upsert" /\ closeAt' = [closeAt EXCEPT ![t] = "done"]
        /\ UNCHANGED <<day, exitDay, onTime>>
    BY <1>8 DEF BackfillReconciled, clockVars
  <2>2. CASE UpsertDailySummary(t, day)
    BY <1>0, <2>1, <2>2, UpsertKeeps
  <2>3. CASE UNCHANGED <<rowVars, late>>
    BY <1>0, <2>1, <2>3 DEF rowVars, TradeInv, SummaryTypes
  <2> QED BY <1>8, <2>2, <2>3 DEF BackfillReconciled
<1> QED BY <1>1, <1>2, <1>3, <1>4, <1>5, <1>6, <1>7, <1>8 DEF Next, BatchStep, CloseStep

-----------------------------------------------------------------------------
(* The drawdowns.                                                          *)

(* Only closed trades are committed on time.                               *)
LEMMA OnTimeClosed ==
  ASSUME SummaryTypes, \A t \in Trades : TradeInv(t)
  PROVE  onTime \subseteq Closed
BY DEF SummaryTypes, CloseSteps, TradeInv, Closed

(* A past day that is complete stays so.                                   *)
LEMMA CompleteStays ==
  ASSUME SummaryTypes, \A t \in Trades : TradeInv(t), ClosesGoOn, NEW d \in Days, d < day, Complete(d),
         drawdown'[d] = drawdown[d]
  PROVE  Complete(d)'
<1> SUFFICES ASSUME NEW t \in onTime', exitDay'[t] = d PROVE t \in drawdown[d]
  BY DEF Complete
<1>1. d \in Nat /\ day \in Nat
  BY DaysAre DEF SummaryTypes
<1>2. t \in onTime
  BY <1>1 DEF ClosesGoOn
<1>3. exitDay'[t] = exitDay[t]
  BY <1>2, OnTimeClosed DEF ClosesGoOn, SummaryTypes
<1> QED BY <1>2, <1>3 DEF Complete

(* A step of the others leaves the batch as it is.                         *)
LEMMA BatchUntouched ==
  ASSUME SummaryTypes, \A t \in Trades : TradeInv(t), BatchInv, DrawInv, ClosesGoOn, day' \in Days,
         UNCHANGED <<batchVars, drawdown, app, startDay>>
  PROVE  BatchInv' /\ DrawInv'
<1>0. UNCHANGED <<pc, date, nowDate, snap, todo, lastDate, missed>>
  BY DEF batchVars
<1>1. /\ day \in Nat /\ day' \in Nat /\ lastDate \in Nat /\ nowDate \in Nat /\ date \in Nat
      /\ startDay \in Nat /\ Backfill \in Nat
  BY DaysAre DEF SummaryTypes
<1>2. BatchInv'
  <2>1. lastDate' <= day' /\ (pc' # "idle" => nowDate' <= day')
    BY <1>0, <1>1 DEF BatchInv, ClosesGoOn
  <2>2. ASSUME pc \in {"update", "insert"}
        PROVE  /\ \A t \in snap : t \in Closed' /\ exitDay'[t] = date
               /\ \A t \in onTime' : exitDay'[t] = date => t \in snap
    <3>1. date < day
      BY <1>1, <2>2 DEF BatchInv
    <3>2. \A t \in snap : t \in Closed' /\ exitDay'[t] = date
      BY <2>2 DEF BatchInv, ClosesGoOn, SummaryTypes
    <3>3. ASSUME NEW t \in onTime', exitDay'[t] = date PROVE t \in snap
      <4>1. t \in onTime
        BY <1>1, <3>1, <3>3 DEF ClosesGoOn
      <4>2. exitDay'[t] = exitDay[t]
        BY <4>1, OnTimeClosed DEF ClosesGoOn, SummaryTypes
      <4> QED BY <2>2, <3>3, <4>1, <4>2 DEF BatchInv
    <3> QED BY <3>2, <3>3
  <2> QED BY <1>0, <2>1, <2>2 DEF BatchInv
<1>3. DrawInv'
  <2> SUFFICES ASSUME app = "running", NEW d \in Days, startDay - Backfill <= d
               PROVE  /\ pc = "idle" /\ d < lastDate => d \in missed \/ Complete(d)'
                      /\ pc # "idle" /\ d < nowDate => d = date \/ d \in todo \/ d \in missed \/ Complete(d)'
    BY <1>0 DEF DrawInv
  <2>1. d \in Nat
    BY DaysAre
  <2>2. d < day /\ Complete(d) => Complete(d)'
    BY CompleteStays
  <2>3. CASE pc = "idle" /\ d < lastDate
    <3>1. d < day
      BY <1>1, <2>1, <2>3 DEF BatchInv
    <3> QED BY <2>2, <2>3, <3>1 DEF DrawInv
  <2>4. CASE pc # "idle" /\ d < nowDate
    <3>1. d < day
      BY <1>1, <2>1, <2>4 DEF BatchInv
    <3> QED BY <2>2, <2>4, <3>1 DEF DrawInv
  <2> QED BY <2>3, <2>4
<1> QED BY <1>2, <1>3

(* The batch ends a date that it missed or whose drawdown is complete.     *)
LEMMA BatchEndsDate ==
  ASSUME SummaryTypes, \A t \in Trades : TradeInv(t), BatchInv, DrawInv, ClosesGoOn, pc # "idle", DateOver,
         NEW c \in Days, c = date, c \in missed' \/ Complete(c)', missed \ {c} \subseteq missed',
         \A d \in Days : d # date => drawdown'[d] = drawdown[d],
         UNCHANGED <<day, app, startDay>>
  PROVE  BatchInv' /\ DrawInv'
<1>1. /\ day \in Nat /\ lastDate \in Nat /\ nowDate \in Nat /\ date \in Nat /\ startDay \in Nat
      /\ Backfill \in Nat /\ todo \subseteq Nat /\ Days \subseteq Nat
  BY DaysAre DEF SummaryTypes
<1>2. app = "running" /\ date < nowDate /\ nowDate <= day /\ \A d \in todo : d < nowDate
  BY DEF BatchInv
<1>3. \A d \in Days : startDay - Backfill <= d /\ d < nowDate => d \in todo \/ d \in missed' \/ Complete(d)'
  <2> SUFFICES ASSUME NEW d \in Days, startDay - Backfill <= d, d < nowDate, d # c
               PROVE  d \in todo \/ d \in missed' \/ Complete(d)'
    OBVIOUS
  <2>1. d < day
    BY <1>1, <1>2
  <2>2. Complete(d) => Complete(d)'
    BY <2>1, CompleteStays
  <2> QED BY <1>2, <2>2 DEF DrawInv
<1>4. CASE todo = {} /\ pc' = "idle" /\ lastDate' = nowDate /\ todo' = {}
  BY <1>1, <1>2, <1>3, <1>4 DEF BatchInv, DrawInv
<1>5. CASE date' \in todo /\ pc' = "fetch" /\ todo' = todo \ {date'} /\ nowDate' = nowDate /\ lastDate' = lastDate
  <2>1. BatchInv'
    BY <1>1, <1>2, <1>5 DEF BatchInv
  <2>2. DrawInv'
    BY <1>3, <1>5 DEF DrawInv
  <2> QED BY <2>1, <2>2
<1> QED BY <1>4, <1>5 DEF DateOver

(* Every step keeps what is said of the batch and the drawdowns.           *)
LEMMA DrawStep ==
  ASSUME SummaryTypes, QueueInv, \A t \in Trades : TradeInv(t), BatchInv, DrawInv, Next
  PROVE  BatchInv' /\ DrawInv'
<1>0. ClosesGoOn /\ SummaryTypes'
  BY ClosesStep, SummaryTypesStep
<1>1. /\ day \in Nat /\ lastDate \in Nat /\ nowDate \in Nat /\ date \in Nat /\ startDay \in Nat
      /\ Backfill \in Nat /\ Days \subseteq Nat /\ date \in Days /\ day' \in Days
  BY <1>0, DaysAre DEF SummaryTypes
<1>c. PICK c \in Days : c = date
  BY <1>1
<1>2. CASE UNCHANGED <<batchVars, drawdown, app, startDay>>
  BY <1>0, <1>1, <1>2, BatchUntouched
<1>3. CASE DateChange
  <2>1. /\ app = "running" /\ pc = "idle" /\ day # lastDate /\ UNCHANGED <<drawdown, app, startDay, day, lastDate>>
        /\ pc' = "fetch" /\ date' = lastDate /\ nowDate' = day /\ todo' = todo
        /\ missed' = missed \cup ((lastDate + 1)..(day - 1)) /\ UNCHANGED closeVars
    BY <1>3 DEF DateChange, clockVars, rowVars
  <2>2. lastDate < day /\ todo = {}
    BY <1>1, <2>1 DEF BatchInv
  <2>3. BatchInv'
    BY <1>1, <2>1, <2>2 DEF BatchInv
  <2>4. \A d \in Days : Complete(d)' <=> Complete(d)
    BY <2>1 DEF Complete, closeVars
  <2>5. \A d \in Days : d < day => d < lastDate \/ d = lastDate \/ d \in (lastDate + 1)..(day - 1)
    BY <1>1
  <2>6. DrawInv'
    BY <2>1, <2>4, <2>5 DEF DrawInv
  <2> QED BY <2>3, <2>6
<1>4. CASE FetchClosedTrades
  <2>1. pc = "fetch" /\ UNCHANGED <<drawdown, app, startDay, day>> /\ UNCHANGED closeVars
    BY <1>4 DEF FetchClosedTrades, clockVars, rowVars
  <2> DEFINE found == {t \in Closed : exitDay[t] = date}
  <2>2. \A d \in Days : Complete(d)' <=> Complete(d)
    BY <2>1 DEF Complete, closeVars
  <2>3. CASE found = {} /\ EndDate(TRUE)
    <3>1. Complete(c)'
      <4>1. Complete(c)
        BY <1>c, <2>3, OnTimeClosed DEF Complete
      <4> QED BY <2>2, <4>1
    <3>2. DateOver /\ missed' = missed \ {date}
      BY <2>3, EndDateIs
    <3> QED BY <1>0, <1>c, <2>1, <3>1, <3>2, BatchEndsDate
  <2>4. CASE EndDate(FALSE)
    <3>1. DateOver /\ missed' = missed \cup {date}
      BY <2>4, EndDateIs
    <3> QED BY <1>0, <1>c, <2>1, <3>1, BatchEndsDate
  <2>5. CASE snap' = found /\ pc' = "update" /\ UNCHANGED <<date, nowDate, todo, lastDate, missed>>
    <3>1. BatchInv'
      BY <2>1, <2>5, OnTimeClosed DEF BatchInv, closeVars, Closed
    <3>2. DrawInv'
      BY <2>1, <2>2, <2>5 DEF DrawInv
    <3> QED BY <3>1, <3>2
  <2> QED BY <1>4, <2>3, <2>4, <2>5 DEF FetchClosedTrades
<1>5. ASSUME pc \in {"update", "insert"}, drawdown' = [drawdown EXCEPT ![date] = snap], EndDate(TRUE),
             UNCHANGED <<day, app, startDay, closeVars>>
      PROVE  BatchInv' /\ DrawInv'
  <2>1. Complete(c)'
    <3>1. drawdown'[c] = snap /\ \A t \in onTime : exitDay[t] = c => t \in snap
      BY <1>c, <1>5 DEF BatchInv, SummaryTypes
    <3> QED BY <1>5, <3>1 DEF Complete, closeVars
  <2>2. DateOver /\ missed' = missed \ {date}
    BY <1>5, EndDateIs
  <2>3. \A d \in Days : d # date => drawdown'[d] = drawdown[d]
    BY <1>5 DEF SummaryTypes
  <2> QED BY <1>0, <1>c, <1>5, <2>1, <2>2, <2>3, BatchEndsDate
<1>6. ASSUME pc # "idle", EndDate(FALSE), UNCHANGED <<day, app, startDay, drawdown>>
      PROVE  BatchInv' /\ DrawInv'
  <2>1. DateOver /\ missed' = missed \cup {date}
    BY <1>6, EndDateIs
  <2> QED BY <1>0, <1>c, <1>6, <2>1, BatchEndsDate
<1>7. CASE UpdateMaxDrawdown
  <2>1. pc = "update" /\ UNCHANGED <<day, app, startDay, closeVars>>
    BY <1>7 DEF UpdateMaxDrawdown, clockVars
  <2>2. CASE pc' = "insert" /\ UNCHANGED <<drawdown, date, nowDate, snap, todo, lastDate, missed>>
    <3>1. \A d \in Days : Complete(d)' <=> Complete(d)
      BY <2>1, <2>2 DEF Complete, closeVars
    <3>2. BatchInv'
      BY <2>1, <2>2 DEF BatchInv, closeVars, Closed
    <3>3. DrawInv'
      BY <2>1, <2>2, <3>1 DEF DrawInv
    <3> QED BY <3>2, <3>3
  <2> QED BY <1>5, <1>6, <1>7, <2>1, <2>2 DEF UpdateMaxDrawdown
<1>8. CASE InsertMaxDrawdown
  <2>1. pc = "insert" /\ UNCHANGED <<day, app, startDay, closeVars>>
    BY <1>8 DEF InsertMaxDrawdown, clockVars
  <2> QED BY <1>5, <1>6, <1>8, <2>1 DEF InsertMaxDrawdown, rowVars
<1>9. CASE Restart
  BY <1>9 DEF Restart, BatchInv, DrawInv
<1>10. CASE FinishStartup
  <2>1. /\ app = "starting" /\ app' = "running" /\ startDay' = day /\ day' = day /\ pc = "idle"
        /\ UNCHANGED <<closeVars, rowVars, snap, missed>>
    BY <1>10 DEF FinishStartup, BatchInv
  <2>2. CASE BackfillDates = {}
    <3>1. lastDate' = day /\ pc' = "idle" /\ todo' = {}
      BY <1>10, <2>1, <2>2 DEF FinishStartup, BatchInv
    <3>2. \A d \in Days : ~(day - Backfill <= d /\ d < day)
      BY <2>2 DEF BackfillDates
    <3>3. BatchInv'
      BY <1>1, <2>1, <3>1 DEF BatchInv
    <3>4. DrawInv'
      BY <2>1, <3>1, <3>2 DEF DrawInv
    <3> QED BY <3>3, <3>4
  <2>3. CASE BackfillDates # {}
    <3>1. BatchBegins /\ date' \in BackfillDates /\ todo' = BackfillDates \ {date'}
      BY <1>10, <2>3, BackfillBegins
    <3>2. \A d \in BackfillDates : d < day
      BY DEF BackfillDates
    <3>3. BatchInv'
      <4>1. pc' = "fetch" /\ nowDate' = day /\ lastDate' = lastDate /\ lastDate <= day
        BY <3>1 DEF BatchInv, BatchBegins
      <4>2. date' < day /\ \A d \in todo' : d < day
        BY <3>1, <3>2
      <4> QED BY <1>1, <2>1, <4>1, <4>2 DEF BatchInv
    <3>4. \A d \in Days : day - Backfill <= d /\ d < day => d = date' \/ d \in todo'
      BY <3>1 DEF BackfillDates
    <3>5. DrawInv'
      BY <2>1, <3>1, <3>4 DEF DrawInv, BatchBegins
    <3> QED BY <3>3, <3>5
  <2> QED BY <2>2, <2>3
<1>11. CASE RecordClosedTrade \/ NextDay
  BY <1>2, <1>11 DEF RecordClosedTrade, CountEvent, UpsertDailySummary, NextDay, clockVars, rowVars
<1>12. ASSUME NEW t \in Trades, TakeExitTime(t) \/ CloseStep(t) \/ CloseReconciled(t) PROVE BatchInv' /\ DrawInv'
  BY <1>2, <1>12 DEF TakeExitTime, CloseStep, CloseReconciled, PersistClosedTrade, PublishClosedTrade,
                     BackfillReconciled, UpsertDailySummary, clockVars, rowVars
<1> QED BY <1>3, <1>4, <1>7, <1>8, <1>9, <1>10, <1>11, <1>12 DEF Next, BatchStep

(* The invariant of the daily summary holds in every reachable state.      *)
THEOREM SummaryInvariant == Spec => []SummaryInv
<1>1. SummaryInv /\ [Next]_vars => SummaryInv'
  <2> SUFFICES ASSUME SummaryInv, [Next]_vars PROVE SummaryInv'
    OBVIOUS
  <2>1. CASE Next
    BY <2>1, SummaryTypesStep, QueueStep, TradeStep, DrawStep DEF SummaryInv
  <2>2. CASE UNCHANGED vars
    <3>1. UNCHANGED <<clockVars, closeVars, rowVars, batchVars, eventVars>>
      BY <2>2 DEF vars
    <3>2. SummaryTypes' /\ QueueInv'
      BY <3>1 DEF SummaryInv, SummaryTypes, QueueInv, clockVars, closeVars, rowVars, batchVars
    <3>3. \A t \in Trades : TradeInv(t)'
      BY <3>1 DEF SummaryInv, TradeInv, clockVars, closeVars, rowVars, eventVars
    <3>4. BatchInv' /\ DrawInv'
      BY <3>1 DEF SummaryInv, BatchInv, DrawInv, Complete, Closed, clockVars, closeVars, rowVars, batchVars
    <3> QED BY <3>2, <3>3, <3>4 DEF SummaryInv
  <2> QED BY <2>1, <2>2
<1> QED BY <1>1, SummaryInitInv, PTL DEF Spec

(* No trade is counted twice in daily_summary but one that was counted     *)
(* after its day, and between two runs the drawdown of every past day takes*)
(* in all trades of the day unless the batch failed for it or passed it    *)
(* over (upsert_daily_summary, persist_max_drawdown, run_startup_backfill).*)
THEOREM SummariesCorrect == Spec => []SummariesSound
<1>1. SummaryInv => SummariesSound
  <2> SUFFICES ASSUME SummaryInv PROVE SummariesSound
    OBVIOUS
  <2>1. OnlyLateEventsDoubled
    <3> SUFFICES ASSUME NEW t \in Trades, t \notin late, NEW d \in Days, NEW e \in Days,
                        counted[t][d] > 0, counted[t][e] > 0
                 PROVE  d = e /\ counted[t][d] = 1
      BY DEF OnlyLateEventsDoubled
    <3>1. counted[t][d] \in Nat /\ counted[t][e] \in Nat
      BY DEF SummaryInv, SummaryTypes
    <3>2. d = exitDay[t] /\ e = exitDay[t] /\ counted[t][exitDay[t]] <= 1
      BY <3>1 DEF SummaryInv, TradeInv
    <3> QED BY <3>1, <3>2
  <2>2. PastDrawdownsComplete
    <3> SUFFICES ASSUME app = "running", pc = "idle", NEW t \in onTime,
                        exitDay[t] \in (startDay - Backfill)..(lastDate - 1) \ missed
                 PROVE  t \in drawdown[exitDay[t]]
      BY DEF PastDrawdownsComplete
    <3>1. exitDay[t] \in Days /\ startDay \in Nat /\ lastDate \in Nat /\ Backfill \in Nat /\ exitDay[t] \in Nat
      BY DaysAre DEF SummaryInv, SummaryTypes
    <3>2. startDay - Backfill <= exitDay[t] /\ exitDay[t] < lastDate /\ exitDay[t] \notin missed
      BY <3>1
    <3> QED BY <3>1, <3>2 DEF SummaryInv, DrawInv, Complete
  <2> QED BY <2>1, <2>2 DEF SummariesSound
<1> QED BY <1>1, SummaryInvariant, PTL

-----------------------------------------------------------------------------
(* The backtest (Backtest).                                                *)

LogTrades ==
  [direction : {"Long", "Short"}, entry : Int, quantity : Int, stop : Int, take : SUBSET Int,
   since : Nat, status : {"open", "closed"}, pnl : Int]
Results(trades) == [k \in 1..Len(trades) |-> trades[k].pnl]

(* Trades that are closed so far, as prefixes of the fold.                 *)
ClosedPrefixes(P, trades) ==
  /\ P \in [0..Len(trades) -> Seq(LogTrades)] /\ P[0] = <<>>
  /\ \A k \in 1..Len(trades) :
       P[k] = IF trades[k].status = "closed" THEN Append(P[k - 1], trades[k]) ELSE P[k - 1]

LEMMA ClosedIs ==
  ASSUME NEW trades \in Seq(LogTrades)
  PROVE  \E P : ClosedPrefixes(P, trades) /\ ClosedOf(trades) = P[Len(trades)]
<1> DEFINE n == Len(trades)
           A == Seq(LogTrades)
           keep(s, t) == IF t.status = "closed" THEN Append(s, t) ELSE s
           F == [p \in A \X (1..n) |-> keep(p[1], trades[p[2]])]
           base == <<>>
<1>1. n \in Nat /\ DOMAIN trades = 1..n /\ \A i \in 1..n : trades[i] \in LogTrades
  OBVIOUS
<1> HIDE DEF n
<1>2. base \in A /\ F \in [A \X (1..n) -> A]
  <2>1. \A s \in A, i \in 1..n : keep(s, trades[i]) \in A
    <3> TAKE s \in A, i \in 1..n
    <3>1. Append(s, trades[i]) \in A
      BY <1>1, AppendProperties
    <3> QED BY <3>1
  <2> HIDE DEF keep
  <2>2. F \in [A \X (1..n) -> A]
    <3> HIDE DEF A
    <3> QED BY <2>1
  <2> QED BY <2>2
<1>3. \A s \in A, i \in 1..n : F[<<s, i>>] = keep(s, trades[i])
  <2> HIDE DEF A, keep
  <2> QED OBVIOUS
<1>4. PICK g \in [SUBSET (1..n) -> A] : FoldedIn(g, F, base, A, n)
  <2> HIDE DEF A, F, base
  <2> QED BY <1>1, <1>2, FoldedStep
<1> DEFINE Body(h) == h = [s \in SUBSET (1..n) |->
                             IF s = {} THEN base ELSE keep(h[s \ {Max(s)}], trades[Max(s)])]
           h == CHOOSE h : Body(h)
<1>5. ClosedOf(trades) = h[1..n]
  BY <1>1 DEF ClosedOf, FoldLeft, MapThenFoldSet
<1> HIDE DEF base
<1>6. Body(g)
  <2>1. g = [s \in SUBSET (1..n) |-> g[s]]
    OBVIOUS
  <2>2. \A s \in SUBSET (1..n) : g[s] = IF s = {} THEN base ELSE keep(g[s \ {Max(s)}], trades[Max(s)])
    <3> HIDE DEF A, F, keep
    <3> QED BY <1>3, <1>4 DEF FoldedIn
  <2> HIDE DEF keep
  <2> QED BY <2>1, <2>2
<1>7. \A s \in SUBSET (1..n) : h[s] = IF s = {} THEN base ELSE keep(h[s \ {Max(s)}], trades[Max(s)])
  <2>1. Body(h)
    <3> HIDE DEF Body
    <3> QED BY <1>6
  <2> HIDE DEF h, keep
  <2> QED BY <2>1
<1>8. FoldsFrom(h, F, base, A, n)
  <2>1. \A s \in SUBSET (1..n) : s # {} => Max(s) \in 1..n
    BY <1>1, GreatestIn
  <2> HIDE DEF h, A, F, keep
  <2> QED BY <1>3, <1>7, <2>1 DEF FoldsFrom
<1>9. PICK P : StepPrefixes(P, F, base, A, n) /\ P[n] = h[1..n]
  <2> HIDE DEF h, A, F
  <2>1. HasPrefixes(h, F, base, A, n)
    BY <1>1, <1>2, <1>8, FoldPrefix
  <2> QED BY <2>1 DEF HasPrefixes
<1>10. P \in [0..n -> A] /\ P[0] = base /\ \A k \in 1..n : P[k] = keep(P[k - 1], trades[k])
  <2>1. \A k \in 1..n : k - 1 \in 0..n
    BY <1>1
  <2> HIDE DEF F, A, keep
  <2> QED BY <1>3, <1>9, <2>1 DEF StepPrefixes
<1> HIDE DEF h
<1> QED BY <1>5, <1>9, <1>10 DEF ClosedPrefixes, n, base

LEMMA ClosedPrefixesAgree ==
  ASSUME NEW s \in Seq(LogTrades), NEW t \in Seq(LogTrades), Len(s) <= Len(t),
         \A k \in 1..Len(s) : s[k] = t[k],
         NEW P, NEW Q, ClosedPrefixes(P, s), ClosedPrefixes(Q, t)
  PROVE  P[Len(s)] = Q[Len(s)]
<1> DEFINE n == Len(s)
           B == {k \in 0..n : P[k] # Q[k]}
<1>1. n \in Nat /\ Len(t) \in Nat
  OBVIOUS
<1> SUFFICES ASSUME B # {} PROVE FALSE
  BY <1>1
<1>2. PICK k \in B : \A j \in Nat : j < k => j \notin B
  <2>1. B \in SUBSET Nat
    OBVIOUS
  <2> HIDE DEF B
  <2> QED BY <2>1, LeastOne
<1>3. k # 0
  BY DEF ClosedPrefixes
<1>4. k \in 1..n /\ k \in 1..Len(t) /\ k - 1 \in 0..n /\ k - 1 < k /\ k - 1 \in Nat
  BY <1>1, <1>3
<1>5. P[k - 1] = Q[k - 1]
  BY <1>2, <1>4
<1> QED BY <1>4, <1>5 DEF ClosedPrefixes

(* A trade appended to the log is closed, or it is not counted.            *)
LEMMA ClosedAppend ==
  ASSUME NEW s \in Seq(LogTrades), NEW t \in LogTrades
  PROVE  /\ ClosedOf(s) \in Seq(LogTrades)
         /\ ClosedOf(Append(s, t)) = IF t.status = "closed" THEN Append(ClosedOf(s), t) ELSE ClosedOf(s)
<1> DEFINE u == Append(s, t)
           n == Len(s)
<1>1. /\ n \in Nat /\ u \in Seq(LogTrades) /\ Len(u) = n + 1 /\ u[n + 1] = t
      /\ \A k \in 1..n : s[k] = u[k]
  BY AppendProperties
<1> HIDE DEF u
<1>2. PICK P : ClosedPrefixes(P, s) /\ ClosedOf(s) = P[n]
  BY ClosedIs
<1>3. PICK Q : ClosedPrefixes(Q, u) /\ ClosedOf(u) = Q[n + 1]
  BY <1>1, ClosedIs
<1>4. P[n] = Q[n]
  <2>1. Len(s) <= Len(u)
    BY <1>1
  <2> QED BY <1>1, <1>2, <1>3, <2>1, ClosedPrefixesAgree
<1>5. n + 1 \in 1..Len(u) /\ (n + 1) - 1 = n
  BY <1>1
<1>6. Q[n + 1] = IF t.status = "closed" THEN Append(Q[n], t) ELSE Q[n]
  BY <1>1, <1>3, <1>5 DEF ClosedPrefixes
<1>7. P[n] \in Seq(LogTrades)
  <2>1. n \in 0..n
    BY <1>1
  <2> QED BY <1>2, <2>1 DEF ClosedPrefixes
<1> QED BY <1>2, <1>3, <1>4, <1>6, <1>7 DEF u

(* The equity after some trades is the total of their results.             *)
LEMMA EquityIs ==
  ASSUME NEW trades \in Seq(LogTrades), NEW k \in 0..Len(trades)
  PROVE  \E Q : Totals(Q, InitialBalance, Results(trades), k) /\ Equity(trades, k) = Q[k]
<1> DEFINE first == SubSeq(trades, 1, k)
           v == [i \in 1..k |-> trades[i].pnl]
           Body(h) == h = [s \in SUBSET (1..k) |->
                             IF s = {} THEN InitialBalance ELSE h[s \ {Max(s)}] + first[Max(s)].pnl]
           h == CHOOSE h : Body(h)
<1>1. k \in Nat /\ Len(trades) \in Nat /\ \A i \in 1..k : i \in 1..Len(trades) /\ trades[i] \in LogTrades
  OBVIOUS
<1>2. first \in Seq(LogTrades) /\ DOMAIN first = 1..k /\ \A i \in 1..k : first[i] = trades[i]
  <2>1. \A i \in 1 .. k : trades[i] \in LogTrades
    BY <1>1
  <2>2. Len(first) = k /\ first \in Seq(LogTrades) /\ \A i \in 1..k : first[i] = trades[1 + i - 1]
    BY <1>1, <2>1, SubSeqProperties
  <2>3. \A i \in 1..k : 1 + i - 1 = i
    OBVIOUS
  <2> QED BY <1>1, <2>2, <2>3
<1> HIDE DEF first
<1>3. v \in [1..k -> Int] /\ InitialBalance \in Int
  <2>1. \A i \in 1..k : trades[i].pnl \in Int
    BY <1>1 DEF LogTrades
  <2>2. InitialBalance \in Int
    BY BacktestAssumption
  <2> QED BY <2>1, <2>2
<1>4. Equity(trades, k) = h[1..k]
  BY <1>2 DEF Equity, FoldLeft, MapThenFoldSet, first
<1>5. \A g : Body(g) <=> SumBody(g, InitialBalance, v, k)
  <2>1. \A s \in SUBSET (1..k) : s # {} => Max(s) \in 1..k /\ first[Max(s)].pnl = v[Max(s)]
    BY <1>1, <1>2, GreatestIn
  <2> HIDE DEF v
  <2> QED BY <2>1 DEF SumBody
<1>6. SumsTo(h, InitialBalance, v, k)
  <2> HIDE DEF Body, v
  <2> QED BY <1>1, <1>3, <1>5, SumFold
<1>7. PICK Q : Totals(Q, InitialBalance, v, k) /\ h[1..k] = Q[k]
  <2> HIDE DEF h, v
  <2> QED BY <1>6 DEF SumsTo
<1>8. Totals(Q, InitialBalance, Results(trades), k)
  <2>1. \A i \in 1..k : v[i] = Results(trades)[i]
    BY <1>1 DEF Results
  <2> HIDE DEF v
  <2> QED BY <1>7, <2>1 DEF Totals
<1> HIDE DEF h
<1> QED BY <1>4, <1>7, <1>8

(* A settled trade moves the equity by its result.                         *)
LEMMA EquityAppend ==
  ASSUME NEW s \in Seq(LogTrades), NEW t \in LogTrades
  PROVE  /\ Equity(s, Len(s)) \in Int
         /\ Equity(Append(s, t), Len(Append(s, t))) = Equity(s, Len(s)) + t.pnl
<1> DEFINE u == Append(s, t)
           n == Len(s)
<1>1. /\ n \in Nat /\ u \in Seq(LogTrades) /\ Len(u) = n + 1 /\ u[n + 1] = t
      /\ \A k \in 1..n : s[k] = u[k]
  BY AppendProperties
<1> HIDE DEF u
<1>2. n \in 0..n /\ n + 1 \in 0..Len(u) /\ n + 1 \in Nat /\ n <= n + 1 /\ n + 1 \in 1..(n + 1)
      /\ (n + 1) - 1 = n
  BY <1>1
<1>3. PICK P : Totals(P, InitialBalance, Results(s), n) /\ Equity(s, n) = P[n]
  BY <1>1, <1>2, EquityIs
<1>4. PICK Q : Totals(Q, InitialBalance, Results(u), n + 1) /\ Equity(u, n + 1) = Q[n + 1]
  BY <1>1, <1>2, EquityIs
<1>5. P[n] = Q[n]
  <2>1. \A k \in 1..n : Results(s)[k] = Results(u)[k]
    BY <1>1 DEF Results
  <2> QED BY <1>1, <1>2, <1>3, <1>4, <2>1, TotalsAgree
<1>6. Q[n + 1] = Q[n] + Results(u)[n + 1] /\ P[n] \in Int
  BY <1>2, <1>3, <1>4 DEF Totals
<1>7. Results(u)[n + 1] = t.pnl
  BY <1>1 DEF Results
<1> QED BY <1>1, <1>3, <1>4, <1>5, <1>6, <1>7 DEF u

(* A balance that is explained by the closed trades of a log.              *)
Balanced(l, b) ==
  l \in Seq(LogTrades) /\ b \in Int /\ ClosedOf(l) \in Seq(LogTrades)
                       /\ b = Equity(ClosedOf(l), Len(ClosedOf(l)))

LEMMA BalancedAppend ==
  ASSUME NEW l, NEW b, Balanced(l, b), NEW t \in LogTrades
  PROVE  Balanced(Append(l, t), IF t.status = "closed" THEN b + t.pnl ELSE b)
<1>1. Append(l, t) \in Seq(LogTrades) /\ ClosedOf(l) \in Seq(LogTrades)
      /\ ClosedOf(Append(l, t)) = IF t.status = "closed" THEN Append(ClosedOf(l), t) ELSE ClosedOf(l)
  BY ClosedAppend, AppendProperties DEF Balanced
<1>2. CASE t.status = "closed"
  <2>1. Equity(Append(ClosedOf(l), t), Len(Append(ClosedOf(l), t))) = b + t.pnl
    BY <1>1, EquityAppend DEF Balanced
  <2>2. t.pnl \in Int /\ Append(ClosedOf(l), t) \in Seq(LogTrades)
    BY <1>1, AppendProperties DEF LogTrades
  <2> QED BY <1>1, <1>2, <2>1, <2>2 DEF Balanced
<1>3. CASE t.status # "closed"
  BY <1>1, <1>3 DEF Balanced
<1> QED BY <1>2, <1>3

LEMMA BalancedStart == Balanced(<<>>, InitialBalance)
<1> DEFINE e == <<>>
<1>1. e \in Seq(LogTrades) /\ Len(e) = 0 /\ 0 \in 0..Len(e)
  OBVIOUS
<1> HIDE DEF e
<1>2. PICK P : ClosedPrefixes(P, e) /\ ClosedOf(e) = P[0]
  BY <1>1, ClosedIs
<1>3. ClosedOf(e) = e
  BY <1>2 DEF ClosedPrefixes, e
<1>4. PICK Q : Totals(Q, InitialBalance, Results(e), 0) /\ Equity(e, 0) = Q[0]
  BY <1>1, EquityIs
<1>5. Equity(e, 0) = InitialBalance /\ InitialBalance \in Int
  <2>1. InitialBalance \in Int
    BY BacktestAssumption
  <2> QED BY <1>4, <2>1 DEF Totals
<1>6. Balanced(e, InitialBalance)
  BY <1>1, <1>3, <1>5 DEF Balanced
<1> QED BY <1>6 DEF e

LEMMA IntProduct == \A x, y \in Int : x * y \in Int
  BY Z3
LEMMA IntQuotient == \A x, y \in Int : y > 0 => x \div y \in Int
  BY Z3

(* What is opened and settled are trades.                                  *)
LEMMA OpenedIs ==
  ASSUME NEW direction \in {"Long", "Short"}, NEW close \in Int, NEW quantity \in Int,
         NEW targets \in {{}, {TakePct}}, replayed \in Seq(ReplayShapes)
  PROVE  /\ OpenedTrade(direction, close, quantity, targets) \in LogTrades
         /\ OpenedTrade(direction, close, quantity, targets).status = "open"
         /\ OpenedTrade(direction, close, quantity, targets).since = Len(replayed) + 1
<1>1. SpreadAmount \in Int /\ StopPct \in Int /\ TakePct \in Int
  BY BacktestAssumption
<1>2. ApplySpread(close, direction = "Long") \in Int
  BY <1>1 DEF ApplySpread
<1>3. Len(replayed) + 1 \in Nat
  OBVIOUS
<1>4. \A p \in Int : p - 1 * StopPct \in Int /\ p + 1 * TakePct \in Int
                     /\ p - (-1) * StopPct \in Int /\ p + (-1) * TakePct \in Int
  BY <1>1
<1> DEFINE price == ApplySpread(close, direction = "Long")
           sign == IF direction = "Long" THEN 1 ELSE -1
           stop == price - sign * StopPct
           take == {price + sign * pct : pct \in targets}
           goal == price + sign * TakePct
<1>5. stop \in Int /\ goal \in Int
  <2>1. price \in Int
    BY <1>2
  <2> HIDE DEF price
  <2>2. CASE direction = "Long"
    <3>1. stop = price - 1 * StopPct /\ goal = price + 1 * TakePct
      BY <2>2
    <3> QED BY <1>4, <2>1, <3>1
  <2>3. CASE direction # "Long"
    <3>1. stop = price - (-1) * StopPct /\ goal = price + (-1) * TakePct
      BY <2>3
    <3> QED BY <1>4, <2>1, <3>1
  <2> QED BY <2>2, <2>3
<1>6. OpenedTrade(direction, close, quantity, targets) =
        [direction |-> direction, entry |-> price, quantity |-> quantity, stop |-> stop, take |-> take,
         since |-> Len(replayed) + 1, status |-> "open", pnl |-> 0]
  BY DEF OpenedTrade
<1>8. take \in SUBSET Int
  <2>1. take \subseteq {goal}
    OBVIOUS
  <2> HIDE DEF take, goal
  <2> QED BY <1>5, <2>1
<1> HIDE DEF price, stop, take
<1>7. price \in Int
  BY <1>2 DEF price
<1> QED BY <1>3, <1>5, <1>6, <1>7, <1>8 DEF LogTrades

LEMMA SettledIs ==
  ASSUME NEW t \in LogTrades, NEW price \in Int
  PROVE  SettledTrade(t, price) \in LogTrades /\ SettledTrade(t, price).status = "closed"
<1>1. SpreadAmount \in Int /\ t.entry \in Int /\ t.quantity \in Int
  BY BacktestAssumption DEF LogTrades
<1> DEFINE paid == ApplySpread(price, t.direction = "Short")
           diff == IF t.direction = "Long" THEN paid - t.entry ELSE t.entry - paid
<1>2. diff \in Int
  BY <1>1 DEF ApplySpread
<1>3. diff * t.quantity \in Int
  <2> HIDE DEF diff
  <2> QED BY <1>1, <1>2, IntProduct
<1>4. SettledTrade(t, price) = [t EXCEPT !.status = "closed", !.pnl = diff * t.quantity]
  BY DEF SettledTrade
<1> HIDE DEF diff
<1> QED BY <1>3, <1>4 DEF LogTrades

LEMMA UnitsIs ==
  ASSUME NEW money \in Int, NEW price \in Int
  PROVE  UnitsFor(money, price) \in Int
<1>1. PricePerUnit \in Int /\ PricePerUnit > 0
  BY BacktestAssumption
<1>2. price > 0 => price * PricePerUnit \in Int /\ price * PricePerUnit > 0
  <2>1. \A x, y \in Int : x > 0 /\ y > 0 => x * y \in Int /\ x * y > 0
    BY Z3
  <2> QED BY <1>1, <2>1
<1>3. ~(price <= 0) => price > 0
  OBVIOUS
<1>4. ~(price <= 0) => money \div (price * PricePerUnit) \in Int
  BY <1>2, <1>3, IntQuotient
<1> QED BY <1>4 DEF UnitsFor

LEMMA PushedKeeps ==
  ASSUME NEW l, NEW b, Balanced(l, b), NEW t \in LogTrades \cup {NoTrade}
  PROVE  /\ t \in LogTrades => t # NoTrade
         /\ Balanced(l \o Pushed(t),
                     IF t = NoTrade \/ t.status # "closed" THEN b ELSE b + t.pnl)
<1>1. \A u \in LogTrades : u # NoTrade
  BY DEF LogTrades, NoTrade
<1>2. l \in Seq(LogTrades)
  BY DEF Balanced
<1>3. CASE t = NoTrade
  <2>1. l \o <<>> = l
    BY <1>2
  <2> QED BY <1>1, <1>3, <2>1 DEF Pushed
<1>4. CASE t # NoTrade
  <2>1. t \in LogTrades
    BY <1>4
  <2>2. l \o <<t>> = Append(l, t)
    BY <1>2, <2>1
  <2>3. Balanced(Append(l, t), IF t.status = "closed" THEN b + t.pnl ELSE b)
    BY <2>1, BalancedAppend
  <2> QED BY <1>1, <1>4, <2>1, <2>2, <2>3 DEF Pushed
<1> QED BY <1>3, <1>4

(* The balance is that of the log, the position is protected, and the      *)
(* report says what the log says.                                          *)
ReportHonest ==
  report # NoTrade =>
    /\ report.final = InitialBalance + report.pnl
    /\ report.drawdown =
         Max({EquityAfter(p[1]) - EquityAfter(p[2]) :
                p \in {q \in (0..report.total) \X (0..report.total) : q[1] <= q[2]}})
BacktestInv ==
  /\ replayed \in Seq(ReplayShapes) /\ openTrade \in LogTrades \cup {NoTrade}
  /\ Balanced(log, balance)
  /\ openTrade # NoTrade => openTrade.since <= Len(replayed)
  /\ StopsAreKept
  /\ ReportHonest

LEMMA BacktestInvInit == BacktestInit => BacktestInv
<1> SUFFICES ASSUME BacktestInit PROVE BacktestInv
  OBVIOUS
<1>1. Balanced(log, balance)
  BY BalancedStart DEF BacktestInit
<1> QED BY <1>1 DEF BacktestInit, BacktestInv, StopsAreKept, ReportHonest

LEMMA ReplayKeeps ==
  ASSUME BacktestInv, NEW c \in ReplayShapes, NEW signal \in {"none", "Long", "Short"},
         NEW targets \in {{}, {TakePct}}, NEW givesUp \in BOOLEAN,
         Replay(c, signal, targets, givesUp)
  PROVE  BacktestInv'
<1> DEFINE exits == IF openTrade = NoTrade THEN {} ELSE FixedExitFor(openTrade, c)
           hit == IF exits = {} THEN NoTrade ELSE SettledTrade(openTrade, CHOOSE p \in exits : TRUE)
           cash == balance + PnlOf(hit)
           kept == IF hit = NoTrade THEN openTrade ELSE NoTrade
           wanted == signal # "none" /\ kept = NoTrade
           units == UnitsFor(cash, ApplySpread(c.close, signal = "Long"))
           entered == IF wanted /\ units > 0 THEN OpenedTrade(signal, c.close, units, targets) ELSE NoTrade
           held == IF entered = NoTrade THEN kept ELSE entered
           left == IF givesUp /\ held # NoTrade THEN SettledTrade(held, c.close) ELSE NoTrade
           log1 == log \o Pushed(hit)
           log2 == log1 \o Pushed(entered)
<1>1. /\ report = NoTrade /\ report' = report /\ replayed' = Append(replayed, c)
      /\ balance' = cash + PnlOf(left) /\ openTrade' = (IF left = NoTrade THEN held ELSE NoTrade)
      /\ log' = log2 \o Pushed(left)
  BY DEF Replay
<1>2. /\ replayed \in Seq(ReplayShapes) /\ Len(replayed) \in Nat /\ Balanced(log, balance)
      /\ openTrade \in LogTrades \cup {NoTrade} /\ balance \in Int /\ log \in Seq(LogTrades)
  BY DEF BacktestInv, Balanced
<1>3. c.high \in Int /\ c.low \in Int /\ c.close \in Int
  BY BacktestAssumption
<1>4. /\ replayed' \in Seq(ReplayShapes) /\ Len(replayed') = Len(replayed) + 1
      /\ replayed'[Len(replayed) + 1] = c
      /\ \A i \in 1..Len(replayed) : replayed'[i] = replayed[i]
  <2>1. replayed' = Append(replayed, c)
    BY <1>1
  <2> QED BY <1>2, <2>1, AppendProperties, SMTT(30)
<1>5. \A u \in LogTrades : u # NoTrade
  BY DEF LogTrades, NoTrade
<1>6. /\ hit \in LogTrades \cup {NoTrade} /\ (hit # NoTrade => hit.status = "closed")
      /\ (hit = NoTrade <=> exits = {})
  <2>1. CASE exits = {}
    BY <2>1
  <2>2. CASE exits # {}
    <3>1. openTrade \in LogTrades /\ exits = FixedExitFor(openTrade, c)
      BY <1>2, <2>2
    <3>2. openTrade.stop \in Int /\ openTrade.take \in SUBSET Int
      BY <3>1 DEF LogTrades
    <3>3. exits \in SUBSET Int
      BY <3>1, <3>2 DEF FixedExitFor
    <3> DEFINE p == CHOOSE p \in exits : TRUE
    <3>4. p \in Int
      BY <2>2, <3>3
    <3> HIDE DEF p, exits
    <3>5. SettledTrade(openTrade, p) \in LogTrades /\ SettledTrade(openTrade, p).status = "closed"
      BY <3>1, <3>4, SettledIs
    <3> QED BY <1>5, <2>2, <3>5 DEF p
  <2> QED BY <2>1, <2>2
<1> HIDE DEF hit
<1>7. Balanced(log1, cash) /\ cash \in Int /\ kept \in LogTrades \cup {NoTrade}
  <2>1. Balanced(log1, IF hit = NoTrade \/ hit.status # "closed" THEN balance ELSE balance + hit.pnl)
    BY <1>2, <1>6, PushedKeeps
  <2>2. cash = IF hit = NoTrade \/ hit.status # "closed" THEN balance ELSE balance + hit.pnl
    BY <1>2, <1>6 DEF PnlOf
  <2>3. Balanced(log1, cash)
    BY <2>1, <2>2
  <2> QED BY <1>2, <2>3 DEF Balanced
<1> HIDE DEF cash, log1
<1>8. /\ entered \in LogTrades \cup {NoTrade}
      /\ entered # NoTrade => entered.status = "open" /\ entered.since = Len(replayed) + 1
  <2>1. CASE wanted /\ units > 0
    <3>1. SpreadAmount \in Int
      BY BacktestAssumption
    <3>2. units \in Int
      <4>1. ApplySpread(c.close, signal = "Long") \in Int
        BY <1>3, <3>1 DEF ApplySpread
      <4> QED BY <1>7, <4>1, UnitsIs
    <3>3. signal \in {"Long", "Short"}
      BY <2>1
    <3>4. entered = OpenedTrade(signal, c.close, units, targets)
      BY <2>1
    <3> HIDE DEF units, wanted, entered
    <3>5. /\ OpenedTrade(signal, c.close, units, targets) \in LogTrades
          /\ OpenedTrade(signal, c.close, units, targets).status = "open"
          /\ OpenedTrade(signal, c.close, units, targets).since = Len(replayed) + 1
      <4> DEFINE close == c.close
                 T == {{}, {TakePct}}
      <4>1. close \in Int /\ targets \in T
        BY <1>3
      <4>2. \A t \in T : /\ OpenedTrade(signal, close, units, t) \in LogTrades
                         /\ OpenedTrade(signal, close, units, t).status = "open"
                         /\ OpenedTrade(signal, close, units, t).since = Len(replayed) + 1
        <5> HIDE DEF close
        <5> QED BY <1>2, <3>2, <3>3, <4>1, OpenedIs
      <4> HIDE DEF T
      <4> QED BY <4>1, <4>2
    <3> QED BY <3>4, <3>5
  <2>2. CASE ~(wanted /\ units > 0)
    BY <2>2
  <2> QED BY <2>1, <2>2
<1> HIDE DEF entered
<1>9. Balanced(log2, cash) /\ held \in LogTrades \cup {NoTrade}
  <2>1. Balanced(log2, IF entered = NoTrade \/ entered.status # "closed" THEN cash ELSE cash + entered.pnl)
    BY <1>7, <1>8, PushedKeeps
  <2>2. entered = NoTrade \/ entered.status # "closed"
    BY <1>8
  <2> QED BY <1>7, <1>8, <2>1, <2>2
<1>10. left \in LogTrades \cup {NoTrade} /\ (left # NoTrade => left.status = "closed")
  <2>1. held # NoTrade => SettledTrade(held, c.close) \in LogTrades
                          /\ SettledTrade(held, c.close).status = "closed"
    <3> HIDE DEF held
    <3> QED BY <1>3, <1>9, SettledIs
  <2> HIDE DEF held
  <2> QED BY <2>1
<1> HIDE DEF log2
<1>11. Balanced(log', balance')
  <2> HIDE DEF left, held
  <2>1. Balanced(log', IF left = NoTrade \/ left.status # "closed" THEN cash ELSE cash + left.pnl)
    BY <1>1, <1>9, <1>10, PushedKeeps
  <2>2. balance' = IF left = NoTrade \/ left.status # "closed" THEN cash ELSE cash + left.pnl
    BY <1>1, <1>7, <1>10 DEF PnlOf
  <2> QED BY <2>1, <2>2
<1> HIDE DEF left
<1>12. openTrade' \in LogTrades \cup {NoTrade}
  BY <1>1, <1>9
<1>13. openTrade' # NoTrade => openTrade' = entered \/ (openTrade' = openTrade /\ exits = {})
  BY <1>1, <1>6
<1>14. /\ openTrade' # NoTrade => openTrade'.since <= Len(replayed')
       /\ StopsAreKept'
  <2>1. CASE openTrade' = NoTrade
    BY <2>1 DEF StopsAreKept
  <2>2. CASE openTrade' # NoTrade /\ openTrade' = entered
    <3>1. openTrade'.since = Len(replayed')
      BY <1>4, <1>8, <2>2
    <3>2. (openTrade'.since + 1)..Len(replayed') = {}
      BY <1>2, <1>4, <3>1
    <3> QED BY <1>2, <1>4, <3>1, <3>2 DEF StopsAreKept
  <2>3. CASE openTrade' # NoTrade /\ openTrade' = openTrade /\ exits = {}
    <3>1. openTrade \in LogTrades /\ FixedExitFor(openTrade, c) = {}
      BY <1>2, <2>3
    <3>2. openTrade.stop \in Int /\ openTrade.since \in Nat /\ openTrade.since <= Len(replayed)
      BY <2>3, <3>1 DEF LogTrades, BacktestInv
    <3>3. IF openTrade.direction = "Long" THEN c.low > openTrade.stop ELSE c.high < openTrade.stop
      <4>1. ~(IF openTrade.direction = "Long" THEN c.low <= openTrade.stop ELSE c.high >= openTrade.stop)
        BY <3>1 DEF FixedExitFor
      <4> QED BY <1>3, <3>2, <4>1
    <3>4. \A i \in (openTrade.since + 1)..Len(replayed) :
            IF openTrade.direction = "Long" THEN replayed[i].low > openTrade.stop
            ELSE replayed[i].high < openTrade.stop
      BY <2>3 DEF BacktestInv, StopsAreKept
    <3>5. ASSUME NEW i \in (openTrade.since + 1)..Len(replayed')
          PROVE  IF openTrade.direction = "Long" THEN replayed'[i].low > openTrade.stop
                 ELSE replayed'[i].high < openTrade.stop
      <4>1. CASE i = Len(replayed) + 1
        BY <1>4, <3>3, <4>1
      <4>2. CASE i # Len(replayed) + 1
        <5>1. i \in (openTrade.since + 1)..Len(replayed) /\ i \in 1..Len(replayed)
          BY <1>2, <1>4, <3>2, <4>2
        <5> QED BY <1>4, <3>4, <5>1
      <4> QED BY <4>1, <4>2
    <3>6. StopsAreKept'
      BY <2>3, <3>5 DEF StopsAreKept
    <3>7. openTrade'.since <= Len(replayed')
      BY <1>2, <1>4, <2>3, <3>2
    <3> QED BY <3>6, <3>7
  <2> QED BY <1>13, <2>1, <2>2, <2>3
<1>15. ReportHonest'
  BY <1>1 DEF ReportHonest
<1> QED BY <1>4, <1>11, <1>12, <1>14, <1>15 DEF BacktestInv

Curves == [equity : Int, peak : Int, max : Int]
CurveStart == [equity |-> InitialBalance, peak |-> InitialBalance, max |-> 0]
HasDrawdown(v, n) ==
  \E C, K, M : /\ Totals(C, InitialBalance, v, n) /\ Drawdowns(C, K, M, n)
               /\ FoldLeft(DrawdownStep, CurveStart, v).max = M[n]

(* The loop that follows the equity keeps its greatest fall.               *)
LEMMA DrawdownIs ==
  ASSUME NEW n \in Nat, NEW v \in [1..n -> Int]
  PROVE  HasDrawdown(v, n)
<1> DEFINE F == [p \in Curves \X (1..n) |-> DrawdownStep(p[1], v[p[2]])]
           Body(h) == h = [s \in SUBSET (1..n) |->
                             IF s = {} THEN CurveStart ELSE DrawdownStep(h[s \ {Max(s)}], v[Max(s)])]
           h == CHOOSE h : Body(h)
<1>1. \A d \in Curves, p \in Int :
        /\ DrawdownStep(d, p) \in Curves
        /\ DrawdownStep(d, p).equity = d.equity + p
        /\ DrawdownStep(d, p).peak = IF d.peak >= d.equity + p THEN d.peak ELSE d.equity + p
        /\ DrawdownStep(d, p).max =
             IF d.max >= DrawdownStep(d, p).peak - (d.equity + p) THEN d.max
             ELSE DrawdownStep(d, p).peak - (d.equity + p)
  <2> TAKE d \in Curves, p \in Int
  <2> DEFINE e == d.equity + p
             k == Max({d.peak, e})
             m == Max({d.max, k - e})
  <2>1. d.equity \in Int /\ d.peak \in Int /\ d.max \in Int /\ e \in Int
    BY DEF Curves
  <2> HIDE DEF e
  <2>2. k = (IF d.peak >= e THEN d.peak ELSE e)
    BY <2>1, GreaterOf
  <2>3. k \in Int /\ k - e \in Int
    BY <2>1, <2>2
  <2> HIDE DEF k
  <2>4. m = (IF d.max >= k - e THEN d.max ELSE k - e)
    BY <2>1, <2>3, GreaterOf
  <2>5. m \in Int
    BY <2>1, <2>3, <2>4
  <2>6. DrawdownStep(d, p) = [equity |-> e, peak |-> k, max |-> m]
    BY DEF DrawdownStep, e, k
  <2> HIDE DEF m
  <2> QED BY <2>1, <2>2, <2>3, <2>4, <2>5, <2>6 DEF Curves, e
<1>2. CurveStart \in Curves
  <2>1. InitialBalance \in Int
    BY BacktestAssumption
  <2> QED BY <2>1 DEF Curves, CurveStart
<1>3. F \in [Curves \X (1..n) -> Curves]
  <2> HIDE DEF F
  <2>1. \A d \in Curves, i \in 1..n : DrawdownStep(d, v[i]) \in Curves
    BY <1>1
  <2> QED BY <2>1 DEF F
<1>4. \A d \in Curves, i \in 1..n : F[<<d, i>>] = DrawdownStep(d, v[i])
  OBVIOUS
<1>5. FoldLeft(DrawdownStep, CurveStart, v) = h[1..n]
  BY DEF FoldLeft, MapThenFoldSet
<1>6. PICK g \in [SUBSET (1..n) -> Curves] : FoldedIn(g, F, CurveStart, Curves, n)
  <2> HIDE DEF F
  <2> QED BY <1>2, <1>3, FoldedStep
<1> HIDE DEF F
<1>7. Body(g)
  <2>1. g = [s \in SUBSET (1..n) |-> g[s]]
    OBVIOUS
  <2>2. \A s \in SUBSET (1..n) :
          g[s] = IF s = {} THEN CurveStart ELSE DrawdownStep(g[s \ {Max(s)}], v[Max(s)])
    BY <1>4, <1>6 DEF FoldedIn
  <2> QED BY <2>1, <2>2
<1>8. Body(h)
  <2> HIDE DEF Body
  <2> QED BY <1>7
<1>9. \A s \in SUBSET (1..n) :
        h[s] = IF s = {} THEN CurveStart ELSE DrawdownStep(h[s \ {Max(s)}], v[Max(s)])
  <2> HIDE DEF h
  <2> QED BY <1>8
<1> HIDE DEF h
<1>10. FoldsFrom(h, F, CurveStart, Curves, n)
  <2>1. \A s \in SUBSET (1..n) : s # {} => Max(s) \in 1..n
    BY GreatestIn
  <2> QED BY <1>4, <1>9, <2>1 DEF FoldsFrom
<1>11. PICK P : StepPrefixes(P, F, CurveStart, Curves, n) /\ P[n] = h[1..n]
  <2>1. HasPrefixes(h, F, CurveStart, Curves, n)
    BY <1>2, <1>3, <1>10, FoldPrefix
  <2> QED BY <2>1 DEF HasPrefixes
<1>12. /\ P \in [0..n -> Curves] /\ P[0] = CurveStart
       /\ \A k \in 1..n : k - 1 \in 0..n /\ k \in 0..n /\ P[k] = DrawdownStep(P[k - 1], v[k])
  <2>1. \A k \in 1..n : k - 1 \in 0..n /\ k \in 0..n
    OBVIOUS
  <2> QED BY <1>4, <1>11, <2>1 DEF StepPrefixes
<1> DEFINE C == [k \in 0..n |-> P[k].equity]
           K == [k \in 0..n |-> P[k].peak]
           M == [k \in 0..n |-> P[k].max]
<1>13. C \in [0..n -> Int] /\ K \in [0..n -> Int] /\ M \in [0..n -> Int]
  <2>1. \A k \in 0..n : P[k].equity \in Int /\ P[k].peak \in Int /\ P[k].max \in Int
    BY <1>12 DEF Curves
  <2> QED BY <2>1
<1>14. C[0] = InitialBalance /\ K[0] = InitialBalance /\ M[0] = 0 /\ M[n] = P[n].max
  BY <1>12 DEF CurveStart
<1>15. ASSUME NEW k \in 1..n
       PROVE  /\ C[k] = C[k - 1] + v[k]
              /\ K[k] = (IF K[k - 1] >= C[k] THEN K[k - 1] ELSE C[k])
              /\ M[k] = (IF M[k - 1] >= K[k] - C[k] THEN M[k - 1] ELSE K[k] - C[k])
  <2>1. k - 1 \in 0..n /\ k \in 0..n /\ P[k] = DrawdownStep(P[k - 1], v[k])
    BY <1>12
  <2>2. P[k - 1] \in Curves /\ v[k] \in Int
    BY <1>12, <2>1
  <2> DEFINE d == P[k - 1]
             p == v[k]
  <2>3. C[k] = DrawdownStep(d, p).equity /\ K[k] = DrawdownStep(d, p).peak
        /\ M[k] = DrawdownStep(d, p).max
        /\ C[k - 1] = d.equity /\ K[k - 1] = d.peak /\ M[k - 1] = d.max
    BY <2>1
  <2>4. d \in Curves /\ p \in Int
    BY <2>2
  <2> HIDE DEF C, K, M, d, p
  <2>6. /\ DrawdownStep(d, p).equity = d.equity + p
        /\ DrawdownStep(d, p).peak = IF d.peak >= d.equity + p THEN d.peak ELSE d.equity + p
        /\ DrawdownStep(d, p).max =
             IF d.max >= DrawdownStep(d, p).peak - (d.equity + p) THEN d.max
             ELSE DrawdownStep(d, p).peak - (d.equity + p)
    BY <1>1, <2>4
  <2>5. C[k] = C[k - 1] + p
        /\ K[k] = (IF K[k - 1] >= C[k] THEN K[k - 1] ELSE C[k])
        /\ M[k] = (IF M[k - 1] >= K[k] - C[k] THEN M[k - 1] ELSE K[k] - C[k])
    BY <2>3, <2>6
  <2> QED BY <2>5 DEF p
<1> HIDE DEF C, K, M
<1>16. Totals(C, InitialBalance, v, n) /\ Drawdowns(C, K, M, n)
  BY <1>13, <1>14, <1>15 DEF Totals, Drawdowns
<1> QED BY <1>5, <1>11, <1>14, <1>16 DEF HasDrawdown

(* A total of results that starts at 0.                                    *)
LEMMA TotalIs ==
  ASSUME NEW n \in Nat, NEW v \in [1..n -> Int]
  PROVE  SumsTo([s \in {1..n} |-> FoldLeft(LAMBDA a, p : a + p, 0, v)], 0, v, n)
<1> DEFINE Body(h) == h = [s \in SUBSET (1..n) |->
                             IF s = {} THEN 0 ELSE h[s \ {Max(s)}] + v[Max(s)]]
           h == CHOOSE h : Body(h)
<1>1. FoldLeft(LAMBDA a, p : a + p, 0, v) = h[1..n]
  BY DEF FoldLeft, MapThenFoldSet
<1>2. \A g : Body(g) <=> SumBody(g, 0, v, n)
  BY DEF SumBody
<1>3. SumsTo(h, 0, v, n)
  <2> HIDE DEF Body
  <2> QED BY <1>2, SumFold
<1> HIDE DEF h
<1> QED BY <1>1, <1>3 DEF SumsTo

(* The report is that of the closed trades.                                *)
LEMMA FinishKeeps ==
  ASSUME BacktestInv, Finish
  PROVE  BacktestInv'
<1> DEFINE trades == ClosedTrades
           n == Len(trades)
           v == Results(trades)
<1>1. /\ report' = FromTrades /\ replayed' = replayed /\ balance' = balance
      /\ openTrade' = openTrade /\ log' = log
  BY DEF Finish
<1>2. ClosedTrades' = ClosedTrades /\ \A k : EquityAfter(k)' = EquityAfter(k)
  BY <1>1 DEF ClosedTrades, EquityAfter
<1>3. trades \in Seq(LogTrades) /\ balance = Equity(trades, n) /\ balance \in Int
  BY DEF BacktestInv, Balanced, ClosedTrades
<1> HIDE DEF trades
<1>4. n \in Nat /\ DOMAIN trades = 1..n /\ \A i \in 1..n : trades[i] \in LogTrades
  BY <1>3
<1>5. v \in [1..n -> Int] /\ \A k \in 1..n : v[k] \in Int
  <2>1. \A k \in 1..n : trades[k].pnl \in Int
    BY <1>4 DEF LogTrades
  <2> QED BY <2>1 DEF Results
<1>6. /\ FromTrades.total = Len(v) /\ FromTrades.final = balance
      /\ FromTrades.pnl = FoldLeft(LAMBDA a, p : a + p, 0, v)
      /\ FromTrades.drawdown = FoldLeft(DrawdownStep, CurveStart, v).max
  BY DEF FromTrades, Results, CurveStart, trades
<1>7. Len(v) = n
  BY <1>4, <1>5
<1> HIDE DEF n, v
<1>8. PICK C, K, M : /\ Totals(C, InitialBalance, v, n) /\ Drawdowns(C, K, M, n)
                     /\ FoldLeft(DrawdownStep, CurveStart, v).max = M[n]
  BY <1>4, <1>5, DrawdownIs DEF HasDrawdown
<1>9. PICK P : Totals(P, 0, v, n) /\ FoldLeft(LAMBDA a, p : a + p, 0, v) = P[n]
  BY <1>4, <1>5, TotalIs DEF SumsTo
<1>10. \A k \in 0..n : EquityAfter(k) = C[k]
  <2> TAKE k \in 0..n
  <2>1. PICK Q : Totals(Q, InitialBalance, v, k) /\ Equity(trades, k) = Q[k]
    BY <1>3, EquityIs DEF n, v
  <2>2. k \in Nat /\ k <= n /\ k \in 0..k
    BY <1>4
  <2>3. Q[k] = C[k]
    BY <1>4, <1>8, <2>1, <2>2, TotalsAgree
  <2> QED BY <2>1, <2>3 DEF EquityAfter, trades
<1>11. FromTrades.final = InitialBalance + FromTrades.pnl
  <2>1. n \in 0..n /\ InitialBalance \in Int
    BY <1>4, BacktestAssumption
  <2>2. C[n] = InitialBalance + P[n]
    <3>1. Totals(P, 0, v, n) /\ Totals(C, InitialBalance, v, n)
      BY <1>8, <1>9, Zenon
    <3> QED BY <1>4, <1>5, <2>1, <3>1, TotalsShift, Zenon
  <2>3. balance = C[n]
    BY <1>3, <1>10, <2>1 DEF EquityAfter, trades
  <2>4. FromTrades.final = C[n] /\ FromTrades.pnl = P[n]
    BY <1>6, <1>9, <2>3
  <2> QED BY <2>2, <2>4
<1>12. FromTrades.drawdown =
         Max({EquityAfter(p[1]) - EquityAfter(p[2]) : p \in {q \in (0..n) \X (0..n) : q[1] <= q[2]}})
  <2>1. Max(FallsOf(C, n)) = M[n]
    BY <1>4, <1>8, LargestFall
  <2>2. \A p \in (0..n) \X (0..n) : EquityAfter(p[1]) = C[p[1]] /\ EquityAfter(p[2]) = C[p[2]]
    BY <1>10
  <2>3. FallsOf(C, n) =
          {EquityAfter(p[1]) - EquityAfter(p[2]) : p \in {q \in (0..n) \X (0..n) : q[1] <= q[2]}}
    BY <2>2 DEF FallsOf
  <2> QED BY <1>6, <1>8, <2>1, <2>3
<1>13. ReportHonest'
  <2>1. \A p \in (0..n) \X (0..n) : EquityAfter(p[1])' = EquityAfter(p[1]) /\ EquityAfter(p[2])' = EquityAfter(p[2])
    BY <1>2
  <2> QED BY <1>1, <1>2, <1>6, <1>7, <1>11, <1>12 DEF ReportHonest
<1> QED BY <1>1, <1>2, <1>13 DEF BacktestInv, StopsAreKept, Balanced

LEMMA BacktestInvStep ==
  ASSUME BacktestInv, [BacktestNext]_backtestVars
  PROVE  BacktestInv'
<1>1. ASSUME NEW c \in ReplayShapes, NEW s \in {"none", "Long", "Short"},
             NEW t \in {{}, {TakePct}}, NEW g \in BOOLEAN, Replay(c, s, t, g)
      PROVE  BacktestInv'
  BY <1>1, ReplayKeeps
<1>2. CASE Finish
  BY <1>2, FinishKeeps
<1>3. CASE UNCHANGED backtestVars
  BY <1>3 DEF backtestVars, BacktestInv, StopsAreKept, Balanced, ReportHonest, ClosedTrades, EquityAfter
<1> QED BY <1>1, <1>2, <1>3 DEF BacktestNext

(* The result of a backtest is that of its trades, and its trades are the  *)
(* ones the candles allow: whatever the candles and the signals, the       *)
(* balance is the initial one plus the results of the trades that are      *)
(* closed, the report agrees with it and has the greatest fall of the      *)
(* equity as its drawdown, and no position outlives a candle that crossed  *)
(* its stop (run, from_trades_with_failures).                              *)
THEOREM BacktestCorrect == BacktestSpec => []BacktestIsHonest
<1>1. BacktestInv => BacktestIsHonest
  BY DEF BacktestInv, Balanced, BacktestIsHonest, BacktestAddsUp, ReportHonest, EquityAfter, ClosedTrades
<1> QED BY <1>1, BacktestInvInit, BacktestInvStep, PTL DEF BacktestSpec
=============================================================================
