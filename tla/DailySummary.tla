--------------------------- MODULE DailySummary ---------------------------
(***************************************************************************)
(* The rows of daily_summary and the three writers that share them without *)
(* a common transaction: the recorder adds one for every Closed event it   *)
(* takes from the trade channel, startup reconciliation adds one for every *)
(* trade it closes, and the daily batch stores the maximum drawdown of a   *)
(* past day, inserting a row with its own counts if the day has none. The  *)
(* dates come from three different readings of the clock.                  *)
(*                                                                         *)
(* One group (strategy, pair, exchange, account). trade_count of a row is  *)
(* represented by how often each trade is counted in it; win_count and     *)
(* total_pnl change in the same statements. max_drawdown is represented by *)
(* the set of trades it was computed from.                                 *)
(***************************************************************************)
EXTENDS Integers, Sequences, FiniteSetsExt

CONSTANTS
  Trades,
  Backfill,     \* daily_batch.backfill_days
  Capacity,     \* slots of the trade channel
  MaxDay,       \* bound: days the clock runs
  MaxDbFails,   \* bound: failed statements
  MaxRestarts   \* bound: crashes

ASSUME SummaryAssumption ==
  /\ Backfill \in Nat /\ Capacity \in Nat \ {0}
  /\ {MaxDay, MaxDbFails, MaxRestarts} \subseteq Nat

Days == 0..MaxDay

VARIABLES
  day,        \* the UTC date
  closeAt,    \* how far closing each trade has come
  exitDay,    \* date of trades.exit_at
  queue,      \* the trade channel
  row,        \* days that have a row in daily_summary
  counted,    \* how often each trade is counted in the row of each day
  drawdown,   \* the trades the max_drawdown of each day was computed from
  pc, date, nowDate, snap, todo,   \* daily batch: program point, date at work,
                                   \* now_date, trades read, backfill dates left
  lastDate,   \* last_date of the daily batch
  app,        \* "running", or "starting" during startup reconciliation
  startDay,   \* history: the date the daily batch was started
  onTime,     \* history: trades whose close was committed on their exit date
  late,       \* history: trades counted by an event after their exit date
  lost,       \* history: trades whose event was lost
  missed,     \* history: days whose batch failed or was passed over
  dbFails, restarts

clockVars == <<day, app, startDay>>
closeVars == <<closeAt, exitDay, queue, onTime>>
rowVars == <<row, counted, drawdown>>
batchVars == <<pc, date, nowDate, snap, todo, lastDate, missed>>
eventVars == <<late, lost>>
faultVars == <<dbFails, restarts>>
vars == <<clockVars, closeVars, rowVars, batchVars, eventVars, faultVars>>

Closed == {t \in Trades : closeAt[t] \in {"publish", "queued", "upsert", "done"}}
DbFailure == dbFails < MaxDbFails /\ dbFails' = dbFails + 1

TypeOK ==
  /\ {day, startDay, lastDate, date, nowDate} \subseteq Days
  /\ closeAt \in [Trades -> {"open", "persist", "publish", "queued", "upsert", "done"}]
  /\ exitDay \in [Trades -> Days]
  /\ queue \in Seq(Trades) /\ Len(queue) <= Capacity
  /\ row \subseteq Days /\ counted \in [Trades -> [Days -> 0..2]]
  /\ drawdown \in [Days -> SUBSET Trades]
  /\ pc \in {"idle", "fetch", "update", "insert"}
  /\ snap \subseteq Trades /\ todo \subseteq Days
  /\ app \in {"starting", "running"}
  /\ {onTime, late, lost} \subseteq SUBSET Trades /\ missed \subseteq Days
  /\ dbFails \in 0..MaxDbFails /\ restarts \in 0..MaxRestarts

Init ==
  /\ day = 0 /\ startDay = 0 /\ app = "running"
  /\ closeAt = [t \in Trades |-> "open"] /\ exitDay = [t \in Trades |-> 0]
  /\ queue = << >> /\ onTime = {} /\ late = {} /\ lost = {}
  /\ row = {} /\ counted = [t \in Trades |-> [d \in Days |-> 0]]
  /\ drawdown = [d \in Days |-> {}]
  /\ pc = "idle" /\ date = 0 /\ nowDate = 0 /\ snap = {} /\ todo = {}
  /\ lastDate = 0 /\ missed = {}
  /\ dbFails = 0 /\ restarts = 0

-----------------------------------------------------------------------------
(* Closing a trade: close_position and publish_closed_trade.               *)

(* close_position takes exit_at once the exchange has filled the order.    *)
TakeExitTime(t) ==
  /\ app = "running" /\ closeAt[t] = "open"
  /\ closeAt' = [closeAt EXCEPT ![t] = "persist"]
  /\ exitDay' = [exitDay EXCEPT ![t] = day]
  /\ UNCHANGED <<clockVars, queue, onTime, rowVars, batchVars, eventVars, faultVars>>

(* Its transaction commits.                                                *)
PersistClosedTrade(t) ==
  /\ closeAt[t] = "persist"
  /\ closeAt' = [closeAt EXCEPT ![t] = "publish"]
  /\ onTime' = (IF exitDay[t] = day THEN onTime \cup {t} ELSE onTime)
  /\ UNCHANGED <<clockVars, exitDay, queue, rowVars, batchVars, eventVars, faultVars>>

(* The channel has a free slot.                                            *)
ChannelHasRoom == Len(queue) < Capacity

(* publish_closed_trade: send waits for a slot in the channel.             *)
PublishClosedTrade(t) ==
  /\ closeAt[t] = "publish" /\ ChannelHasRoom
  /\ closeAt' = [closeAt EXCEPT ![t] = "queued"]
  /\ queue' = Append(queue, t)
  /\ UNCHANGED <<clockVars, exitDay, onTime, rowVars, batchVars, eventVars, faultVars>>

-----------------------------------------------------------------------------
(* The recorder.                                                           *)

(* upsert_daily_summary with deltas of one.                                *)
UpsertDailySummary(t, d) ==
  /\ row' = row \cup {d}
  /\ counted' = [counted EXCEPT ![t][d] = @ + 1]
  /\ late' = (IF day # exitDay[t] THEN late \cup {t} ELSE late)
  /\ UNCHANGED <<drawdown, lost>>

\* Mutant: the event is dropped.
EventDropped(t) == UNCHANGED <<rowVars, eventVars>>

(* upsert_close_daily_summary: the row of the date of exit_at.             *)
CountEvent(t) == UpsertDailySummary(t, exitDay[t])

(* record_closed_trade of the next event; a failed upsert is only logged.  *)
RecordClosedTrade ==
  /\ app = "running" /\ queue # << >>
  /\ queue' = Tail(queue)
  /\ closeAt' = [closeAt EXCEPT ![Head(queue)] = "done"]
  /\ \/ CountEvent(Head(queue)) /\ UNCHANGED dbFails
     \/ DbFailure /\ lost' = lost \cup {Head(queue)} /\ UNCHANGED <<rowVars, late>>
  /\ UNCHANGED <<clockVars, exitDay, onTime, batchVars, restarts>>

-----------------------------------------------------------------------------
(* The daily batch.                                                        *)

(* update_daily_max_drawdown returned for date: the next backfill date, or *)
(* back to the loop. A failure is only logged, and the date advances.      *)
EndDate(ok) ==
  /\ snap' = {}
  /\ missed' = (IF ok THEN missed \ {date} ELSE missed \cup {date})
  /\ IF todo = {}
     THEN /\ pc' = "idle" /\ date' = 0 /\ nowDate' = 0 /\ todo' = {}
          /\ lastDate' = nowDate
     ELSE /\ pc' = "fetch" /\ date' = Min(todo) /\ todo' = todo \ {Min(todo)}
          /\ UNCHANGED <<nowDate, lastDate>>

(* The loop sees another date and processes last_date; days in between are *)
(* passed over.                                                            *)
DateChange ==
  /\ app = "running" /\ pc = "idle" /\ day # lastDate
  /\ pc' = "fetch" /\ date' = lastDate /\ nowDate' = day
  /\ missed' = missed \cup ((lastDate + 1)..(day - 1))
  /\ UNCHANGED <<clockVars, closeVars, rowVars, snap, todo, lastDate, eventVars, faultVars>>

(* fetch_closed_trades_for_day. Without trades there is no group to store. *)
FetchClosedTrades ==
  /\ pc = "fetch"
  /\ LET found == {t \in Closed : exitDay[t] = date} IN
       \/ /\ found # {} /\ snap' = found /\ pc' = "update"
          /\ UNCHANGED <<date, nowDate, todo, lastDate, missed, dbFails>>
       \/ found = {} /\ EndDate(TRUE) /\ UNCHANGED dbFails
       \/ DbFailure /\ EndDate(FALSE)
  /\ UNCHANGED <<clockVars, closeVars, rowVars, eventVars, restarts>>

(* The UPDATE of persist_max_drawdown.                                     *)
UpdateMaxDrawdown ==
  /\ pc = "update"
  /\ \/ /\ date \in row /\ drawdown' = [drawdown EXCEPT ![date] = snap]
        /\ EndDate(TRUE) /\ UNCHANGED dbFails
     \/ /\ date \notin row /\ pc' = "insert"
        /\ UNCHANGED <<drawdown, date, nowDate, snap, todo, lastDate, missed, dbFails>>
     \/ DbFailure /\ EndDate(FALSE) /\ UNCHANGED drawdown
  /\ UNCHANGED <<clockVars, closeVars, row, counted, eventVars, restarts>>

(* The counts after INSERT ... ON CONFLICT DO UPDATE SET max_drawdown.     *)
CountsInserted ==
  IF date \in row THEN counted
  ELSE [t \in Trades |-> IF t \in snap THEN [counted[t] EXCEPT ![date] = 1] ELSE counted[t]]

(* The INSERT of persist_max_drawdown.                                     *)
InsertMaxDrawdown ==
  /\ pc = "insert"
  /\ \/ /\ row' = row \cup {date} /\ counted' = CountsInserted
        /\ drawdown' = [drawdown EXCEPT ![date] = snap]
        /\ EndDate(TRUE) /\ UNCHANGED dbFails
     \/ DbFailure /\ EndDate(FALSE) /\ UNCHANGED rowVars
  /\ UNCHANGED <<clockVars, closeVars, eventVars, restarts>>

-----------------------------------------------------------------------------
(* Crash, startup reconciliation and the start of the daily batch.         *)

(* What is in memory is gone; a close that was not committed will be done  *)
(* again.                                                                  *)
Restart ==
  /\ restarts < MaxRestarts /\ restarts' = restarts + 1
  /\ app' = "starting" /\ queue' = << >>
  /\ lost' = lost \cup {t \in Trades : closeAt[t] \in {"publish", "queued", "upsert"}}
  /\ closeAt' = [t \in Trades |->
                   IF closeAt[t] = "persist" THEN "open"
                   ELSE IF t \in Closed THEN "done" ELSE closeAt[t]]
  /\ pc' = "idle" /\ date' = 0 /\ nowDate' = 0 /\ snap' = {} /\ todo' = {}
  /\ UNCHANGED <<day, startDay, exitDay, onTime, rowVars, lastDate, missed, late, dbFails>>

(* close_reconciled_with: the position of the trade is gone.               *)
CloseReconciled(t) ==
  /\ app = "starting" /\ closeAt[t] = "open"
  /\ closeAt' = [closeAt EXCEPT ![t] = "upsert"]
  /\ exitDay' = [exitDay EXCEPT ![t] = day]
  /\ onTime' = onTime \cup {t}
  /\ UNCHANGED <<clockVars, queue, rowVars, batchVars, eventVars, faultVars>>

(* backfill_daily_summary_for_reconciled_close reads the clock anew.       *)
BackfillReconciled(t) ==
  /\ closeAt[t] = "upsert"
  /\ closeAt' = [closeAt EXCEPT ![t] = "done"]
  /\ \/ UpsertDailySummary(t, day) /\ UNCHANGED dbFails
     \/ DbFailure /\ lost' = lost \cup {t} /\ UNCHANGED <<rowVars, late>>
  /\ UNCHANGED <<clockVars, exitDay, queue, onTime, batchVars, restarts>>

\* Mutant: the backfill takes in the current day.
BackfillThroughToday == {d \in Days : day - Backfill < d /\ d <= day}

(* backfill_dates.                                                         *)
BackfillDates == {d \in Days : day - Backfill <= d /\ d < day}

(* Startup is over; the daily batch starts with the backfill.              *)
FinishStartup ==
  /\ app = "starting" /\ \A t \in Trades : closeAt[t] # "upsert"
  /\ app' = "running" /\ startDay' = day
  /\ IF BackfillDates = {}
     THEN lastDate' = day /\ UNCHANGED <<pc, date, nowDate, todo>>
     ELSE /\ pc' = "fetch" /\ date' = Min(BackfillDates) /\ nowDate' = day
          /\ todo' = BackfillDates \ {Min(BackfillDates)} /\ UNCHANGED lastDate
  /\ UNCHANGED <<day, closeVars, rowVars, snap, missed, eventVars, faultVars>>

NextDay ==
  /\ day < MaxDay /\ day' = day + 1
  /\ UNCHANGED <<startDay, app, closeVars, rowVars, batchVars, eventVars, faultVars>>

-----------------------------------------------------------------------------
BatchStep == DateChange \/ FetchClosedTrades \/ UpdateMaxDrawdown \/ InsertMaxDrawdown

CloseStep(t) ==
  PersistClosedTrade(t) \/ PublishClosedTrade(t) \/ BackfillReconciled(t)

Next ==
  \/ RecordClosedTrade \/ BatchStep \/ FinishStartup \/ Restart \/ NextDay
  \/ \E t \in Trades : TakeExitTime(t) \/ CloseStep(t) \/ CloseReconciled(t)

Spec == Init /\ [][Next]_vars

(* Every task goes on with what it has begun, and a program that is        *)
(* starting comes up. No trade has to be closed and no day has to end.     *)
FairSpec ==
  /\ Spec
  /\ WF_vars(RecordClosedTrade) /\ WF_vars(BatchStep) /\ WF_vars(FinishStartup)
  /\ \A t \in Trades : WF_vars(CloseStep(t))

-----------------------------------------------------------------------------
(* Properties.                                                             *)

(* A trade is counted twice only if it was counted after its day was over, *)
(* when the daily batch may have inserted a row for it already: an event   *)
(* taken on the day of the exit is never counted again, by no backfill and *)
(* no retry (persist_max_drawdown against upsert_daily_summary).           *)
OnlyLateEventsDoubled ==
  \A t \in Trades : t \in late \/
    \A d, e \in Days : counted[t][d] > 0 /\ counted[t][e] > 0 => d = e /\ counted[t][d] = 1

(* Between two runs the batch has stored, for every past day back to the   *)
(* first backfill date, a drawdown that takes in every trade committed on  *)
(* that day, unless the batch failed for the day or passed it over; also   *)
(* when the process died before or in the middle of it (run and            *)
(* run_startup_backfill).                                                  *)
PastDrawdownsComplete ==
  app = "running" /\ pc = "idle" =>
    \A t \in onTime :
      exitDay[t] \in (startDay - Backfill)..(lastDate - 1) \ missed =>
        t \in drawdown[exitDay[t]]

(* The two writers of daily_summary leave each other's columns sound, in   *)
(* whatever order they run, fail or are restarted: no trade is counted     *)
(* twice but a late one, and no drawdown of a past day misses a trade      *)
(* (upsert_daily_summary, persist_max_drawdown, run_startup_backfill).     *)
SummariesSound == OnlyLateEventsDoubled /\ PastDrawdownsComplete

(* A closed trade comes to be counted, and in the row of its exit date,    *)
(* unless its event was lost in a crash or to a failed upsert, or startup  *)
(* reconciliation counted it after midnight.                               *)
ClosedIsCounted ==
  \A t \in Trades :
    t \in Closed ~> counted[t][exitDay[t]] > 0 \/ t \in lost \/ t \in late
=============================================================================
