---------------------------- MODULE FeeAccrual ----------------------------
(***************************************************************************)
(* The two background jobs that charge the trades of paper accounts: SFD   *)
(* every hour (sfd_accrual) and the overnight fee or swap every UTC day    *)
(* (overnight). Each wakes up once a minute, compares the clock with what  *)
(* it remembers in memory only, reads the open trades and charges them one *)
(* by one, while trades are opened, locked, unlocked and closed, queries   *)
(* fail, price feeds go stale and the process is restarted.                *)
(*                                                                         *)
(* Time counts in ticks, TicksPerHour of them to an hour. A charge for hour*)
(* h is the one at the boundary h * TicksPerHour; every trade is subject to*)
(* a fee that is not zero.                                                 *)
(***************************************************************************)
EXTENDS Integers, FiniteSets

CONSTANTS
  PaperTrades,   \* trades of paper accounts
  TicksPerHour,  \* at least 2, so that a trade can be opened between boundaries
  HoursPerDay,
  MaxCatchUp,    \* SFD_MAX_CATCH_UP_HOURS
  MaxHours,      \* bound: hours the clock runs
  MaxFaults      \* bound: failed statements, stale feeds, closes given up, restarts

ASSUME AccrualAssumption ==
  /\ {TicksPerHour, HoursPerDay, MaxCatchUp} \subseteq Nat \ {0}
  /\ {MaxHours, MaxFaults} \subseteq Nat

Hours == 0..MaxHours
FeeDays == 0..(MaxHours \div HoursPerDay)
NoHour == -1

VARIABLES
  now,          \* the clock
  status,       \* trades.status, "none" before the trade exists
  entryAt,      \* trades.entry_at
  fresh,        \* both price feeds are younger than SFD_STALE_THRESHOLD_SECS
  lastHour,     \* last_hour of the SFD job, NoHour after a start
  sfdAt, lh, pending, sfdTodo,   \* SFD job: program point, hour, hours left, trades left
  lastFeeDate,  \* last_date of the overnight job
  nightAt, today, nightTodo,     \* overnight job
  sfdFees,      \* how often each trade was charged for each hour
  nightFees,    \* how often each trade was charged for each day
  lapse,        \* history: charges that could not be made, <<trade, hour>>
  faults        \* how many have happened

tradeVars == <<status, entryAt>>
sfdVars == <<lastHour, sfdAt, lh, pending, sfdTodo, sfdFees, lapse>>
nightVars == <<lastFeeDate, nightAt, today, nightTodo, nightFees>>
feeVars == <<now, tradeVars, fresh, sfdVars, nightVars, faults>>

Fault == faults < MaxFaults /\ faults' = faults + 1

CurrentHour == now \div TicksPerHour
CurrentDay == CurrentHour \div HoursPerDay
OpenTrades == {t \in PaperTrades : status[t] = "open"}
Boundary(h) == h * TicksPerHour

FeeTypeOK ==
  /\ now \in 0..(MaxHours * TicksPerHour) /\ fresh \in BOOLEAN
  /\ status \in [PaperTrades -> {"none", "open", "closing", "closed"}]
  /\ entryAt \in [PaperTrades -> 0..now]
  /\ lastHour \in {NoHour} \cup 0..CurrentHour
  /\ sfdAt \in {"idle", "list", "apply"} /\ lh \in Hours /\ pending \in 0..MaxCatchUp
  /\ sfdTodo \subseteq PaperTrades
  /\ lastFeeDate \in 0..CurrentDay /\ nightAt \in {"idle", "apply"} /\ today \in FeeDays
  /\ nightTodo \subseteq PaperTrades
  /\ sfdFees \in [PaperTrades -> [Hours -> Nat]] /\ nightFees \in [PaperTrades -> [FeeDays -> Nat]]
  /\ lapse \subseteq PaperTrades \X Hours
  /\ faults \in 0..MaxFaults

FeeInit ==
  /\ now = 0 /\ fresh = TRUE
  /\ status = [t \in PaperTrades |-> "none"] /\ entryAt = [t \in PaperTrades |-> 0]
  /\ lastHour = NoHour /\ sfdAt = "idle" /\ lh = 0 /\ pending = 0 /\ sfdTodo = {}
  /\ lastFeeDate = 0 /\ nightAt = "idle" /\ today = 0 /\ nightTodo = {}
  /\ sfdFees = [t \in PaperTrades |-> [h \in Hours |-> 0]]
  /\ nightFees = [t \in PaperTrades |-> [d \in FeeDays |-> 0]]
  /\ lapse = {}
  /\ faults = 0

-----------------------------------------------------------------------------
(* process_tick of the SFD job.                                            *)

(* clamp_catch_up: the hour the job goes on from.                          *)
ClampCatchUp ==
  IF CurrentHour - lastHour <= MaxCatchUp THEN lastHour ELSE CurrentHour - MaxCatchUp

(* Charges for the hours in hs can no longer be made.                      *)
GiveUp(hs) == lapse' = lapse \cup (PaperTrades \X hs)

(* After a start the job begins with the current hour.                     *)
SfdFirstTick ==
  /\ sfdAt = "idle" /\ lastHour = NoHour
  /\ lastHour' = CurrentHour
  /\ GiveUp(0..CurrentHour)
  /\ UNCHANGED <<now, tradeVars, fresh, sfdAt, lh, pending, sfdTodo, sfdFees, nightVars, faults>>

SfdDue == sfdAt = "idle" /\ lastHour # NoHour /\ lastHour + 1 <= CurrentHour

(* No paper account or no open trade: the hours are skipped. A trade that  *)
(* is being closed is not counted.                                         *)
SfdNothingOpen ==
  /\ SfdDue /\ OpenTrades = {}
  /\ lastHour' = CurrentHour
  /\ lapse' = lapse \cup ({t \in PaperTrades : status[t] = "closing"} \X ((lastHour + 1)..CurrentHour))
  /\ UNCHANGED <<now, tradeVars, fresh, sfdAt, lh, pending, sfdTodo, sfdFees, nightVars, faults>>

(* A failed query or a stale feed: the job keeps last_hour and tries again *)
(* a minute later, so those are not actions. Otherwise it charges the hours*)
(* it missed, at most MaxCatchUp of them.                                  *)
SfdBegin ==
  /\ SfdDue /\ OpenTrades # {} /\ fresh
  /\ lh' = ClampCatchUp /\ pending' = CurrentHour - ClampCatchUp
  /\ GiveUp((lastHour + 1)..ClampCatchUp)
  /\ sfdAt' = "list"
  /\ UNCHANGED <<now, tradeVars, fresh, lastHour, sfdTodo, sfdFees, nightVars, faults>>

(* apply_sfd_to_account: the open trades, for each hour anew.              *)
SfdList ==
  /\ sfdAt = "list" /\ sfdAt' = "apply"
  /\ \/ /\ sfdTodo' = OpenTrades /\ UNCHANGED faults
        /\ lapse' = lapse \cup {<<t, lh + 1>> : t \in {u \in PaperTrades : status[u] = "closing"}}
     \/ Fault /\ sfdTodo' = {} /\ GiveUp({lh + 1})
  /\ UNCHANGED <<now, tradeVars, fresh, lastHour, lh, pending, sfdFees, nightVars>>

(* trade_was_not_yet_open_at_event_time, for the event at the end of lh.   *)
NotYetOpen(t) == entryAt[t] > Boundary(lh + 1)

(* The WHERE clause of apply_fee_inner.                                    *)
Chargeable(t) == status[t] = "open"

(* apply_sfd_to_trade: too young, charged in one transaction, no longer    *)
(* open, or failed.                                                        *)
SfdApply(t) ==
  /\ sfdAt = "apply" /\ t \in sfdTodo
  /\ sfdTodo' = sfdTodo \ {t}
  /\ \/ NotYetOpen(t) /\ UNCHANGED <<sfdFees, lapse, faults>>
     \/ /\ ~NotYetOpen(t) /\ Chargeable(t)
        /\ sfdFees' = [sfdFees EXCEPT ![t][lh + 1] = @ + 1]
        /\ UNCHANGED <<lapse, faults>>
     \/ /\ ~NotYetOpen(t)
        /\ (~Chargeable(t) /\ UNCHANGED faults) \/ Fault
        /\ lapse' = lapse \cup {<<t, lh + 1>>} /\ UNCHANGED sfdFees
  /\ UNCHANGED <<now, tradeVars, fresh, lastHour, sfdAt, lh, pending, nightVars>>

\* Mutant: the loop returns the hour it started from.
HourNotAdvanced == lastHour

(* What apply_pending_hours returns: the last hour charged.                *)
HourCharged == lh + 1

(* The next hour of apply_pending_hours, or the end of the tick.           *)
SfdHourDone ==
  /\ sfdAt = "apply" /\ sfdTodo = {}
  /\ pending' = pending - 1
  /\ IF pending > 1
     THEN lh' = lh + 1 /\ sfdAt' = "list" /\ UNCHANGED lastHour
     ELSE sfdAt' = "idle" /\ lastHour' = HourCharged /\ lh' = 0
  /\ UNCHANGED <<now, tradeVars, fresh, sfdTodo, sfdFees, lapse, nightVars, faults>>

-----------------------------------------------------------------------------
(* process_date_change of the overnight job.                               *)

(* The date changed; the accounts could be read (otherwise the job tries   *)
(* again a minute later). The open trades of an account are read before any*)
(* of them is charged; if that fails the account is passed over.           *)
NightBegin ==
  /\ nightAt = "idle" /\ CurrentDay # lastFeeDate
  /\ today' = CurrentDay /\ nightAt' = "apply"
  /\ \/ nightTodo' = OpenTrades /\ UNCHANGED faults
     \/ Fault /\ nightTodo' = {}
  /\ UNCHANGED <<now, tradeVars, fresh, sfdVars, lastFeeDate, nightFees>>

(* apply_fee_to_trade: whatever the time the trade was opened.             *)
NightApply(t) ==
  /\ nightAt = "apply" /\ t \in nightTodo
  /\ nightTodo' = nightTodo \ {t}
  /\ \/ Chargeable(t) /\ nightFees' = [nightFees EXCEPT ![t][today] = @ + 1] /\ UNCHANGED faults
     \/ ((~Chargeable(t) /\ UNCHANGED faults) \/ Fault) /\ UNCHANGED nightFees
  /\ UNCHANGED <<now, tradeVars, fresh, sfdVars, lastFeeDate, nightAt, today>>

\* Mutant: last_date is not advanced.
DateNotAdvanced == lastFeeDate

(* The date the job remembers after a change.                              *)
DateProcessed == today

NightDone ==
  /\ nightAt = "apply" /\ nightTodo = {}
  /\ nightAt' = "idle" /\ lastFeeDate' = DateProcessed /\ today' = 0
  /\ UNCHANGED <<now, tradeVars, fresh, sfdVars, nightTodo, nightFees, faults>>

-----------------------------------------------------------------------------
(* The rest of the system.                                                 *)

(* execute takes the entry time before it writes the row, so a boundary may*)
(* lie between the two.                                                    *)
OpenTrade(t) ==
  /\ status[t] = "none" /\ status' = [status EXCEPT ![t] = "open"]
  /\ \E e \in {now, now - 1} \cap Nat :
       /\ entryAt' = [entryAt EXCEPT ![t] = e]
       /\ lapse' = lapse \cup {<<t, h>> : h \in {i \in Hours : Boundary(i) \in e..now}}
  /\ UNCHANGED <<now, fresh, lastHour, sfdAt, lh, pending, sfdTodo, sfdFees, nightVars, faults>>

LockTrade(t) ==
  /\ status[t] = "open" /\ status' = [status EXCEPT ![t] = "closing"]
  /\ UNCHANGED <<now, entryAt, fresh, sfdVars, nightVars, faults>>

UnlockTrade(t) ==
  /\ status[t] = "closing" /\ status' = [status EXCEPT ![t] = "open"] /\ Fault
  /\ UNCHANGED <<now, entryAt, fresh, sfdVars, nightVars>>

CloseTrade(t) ==
  /\ status[t] = "closing" /\ status' = [status EXCEPT ![t] = "closed"]
  /\ UNCHANGED <<now, entryAt, fresh, sfdVars, nightVars, faults>>

Tick ==
  /\ now < MaxHours * TicksPerHour /\ now' = now + 1
  /\ UNCHANGED <<tradeVars, fresh, sfdVars, nightVars, faults>>

FeedStale ==
  /\ fresh /\ Fault /\ fresh' = FALSE
  /\ UNCHANGED <<now, tradeVars, sfdVars, nightVars>>

FeedFresh ==
  /\ ~fresh /\ fresh' = TRUE
  /\ UNCHANGED <<now, tradeVars, sfdVars, nightVars, faults>>

(* Both jobs forget what they have charged.                                *)
JobsRestart ==
  /\ Fault
  /\ lastHour' = NoHour /\ sfdAt' = "idle" /\ lh' = 0 /\ pending' = 0 /\ sfdTodo' = {}
  /\ lastFeeDate' = CurrentDay /\ nightAt' = "idle" /\ today' = 0 /\ nightTodo' = {}
  /\ UNCHANGED <<now, tradeVars, fresh, sfdFees, lapse, nightFees>>

-----------------------------------------------------------------------------
SfdStep ==
  \/ SfdFirstTick \/ SfdNothingOpen \/ SfdBegin \/ SfdList \/ SfdHourDone
  \/ \E t \in PaperTrades : SfdApply(t)

NightStep == NightBegin \/ NightDone \/ \E t \in PaperTrades : NightApply(t)

FeeTradeStep(t) == OpenTrade(t) \/ LockTrade(t) \/ UnlockTrade(t) \/ CloseTrade(t)

FeeNext ==
  \/ SfdStep \/ NightStep
  \/ \E t \in PaperTrades : FeeTradeStep(t)
  \/ Tick \/ FeedStale \/ FeedFresh \/ JobsRestart

FeeSpec == FeeInit /\ [][FeeNext]_feeVars

(* Both jobs wake up every minute and their queries return; the price feeds*)
(* reconnect.                                                              *)
FairFeeSpec == FeeSpec /\ WF_feeVars(SfdStep) /\ WF_feeVars(NightStep) /\ WF_feeVars(FeedFresh)

-----------------------------------------------------------------------------
(* Properties.                                                             *)

(* No trade is charged twice for the same hour or the same day, however    *)
(* ticks, retries, the catch-up and restarts interleave.                   *)
ChargedOnce ==
  \A t \in PaperTrades : /\ \A h \in Hours : sfdFees[t][h] <= 1
                    /\ \A d \in FeeDays : nightFees[t][d] <= 1

(* SFD is charged only for hours that ended while the trade existed, also  *)
(* when the job catches up on hours it missed.                             *)
SfdOnlyWhileHeld ==
  \A t \in PaperTrades, h \in Hours : sfdFees[t][h] > 0 => entryAt[t] <= Boundary(h)

(* An open trade has been charged for every hour the job has passed, unless*)
(* it was being closed or its row was not written yet at that moment, a    *)
(* statement failed, the process was restarted or the catch-up limit       *)
(* dropped the hour.                                                       *)
NoHourSkipped ==
  \A t \in PaperTrades, h \in Hours :
    sfdAt = "idle" /\ status[t] = "open" /\ entryAt[t] <= Boundary(h) /\ h <= lastHour =>
      sfdFees[t][h] = 1 \/ <<t, h>> \in lapse

(* Both jobs charge from lists of open trades that they have read earlier; *)
(* whatever happens in between, a trade is charged at most once for an hour*)
(* or a day, only for hours in which it existed, and for each of them that *)
(* nothing above excuses (run_sfd_tick, process_hour, apply_overnight_fee).*)
FeesAreExact == ChargedOnce /\ SfdOnlyWhileHeld /\ NoHourSkipped

(* Both jobs catch up with the clock whenever it stops for long enough:    *)
(* neither a failed query nor a stale feed blocks them for good.           *)
JobsCatchUp == <>[](sfdAt = "idle" /\ nightAt = "idle" /\ lastHour = CurrentHour /\ lastFeeDate = CurrentDay)
=============================================================================
