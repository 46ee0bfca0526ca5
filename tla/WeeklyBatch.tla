----------------------------- MODULE WeeklyBatch -----------------------------
(***************************************************************************)
(* The weekly evolution of strategy parameters, which the daily batch runs *)
(* and waits for when it handles a change of the UTC date on a Sunday of   *)
(* Japan.  For every strategy with parameters it reads statistics, asks    *)
(* Gemini, records the proposal and announces what it did, each in a       *)
(* statement of its own.  Proposals are recorded and never applied.        *)
(*                                                                         *)
(* A UTC day has two parts: in the first (until 15:00) it is the same day  *)
(* in Japan, in the second it is the next.  The drawdown that the daily    *)
(* batch computes first is in DailySummary.                                *)
(***************************************************************************)
EXTENDS Integers, Sequences

CONSTANTS
  Strategies,   \* strategy_params ordered by name
  Sundays,      \* days that are Sundays in Japan
  LastDay,      \* bound: days that the clock runs
  MaxFailures, MaxStarts \* bounds

ASSUME WeeklyAssumption ==
  Strategies \in Seq(STRING) /\ LastDay \in Nat /\ Sundays \subseteq 0..LastDay

VARIABLES
  utcDay, evening,  \* the clock
  step,       \* where the daily task is
  watched,    \* last_date of the daily task
  newDate,    \* now_date of the change that it handles
  runDay,     \* day in Japan on which the weekly batch in progress began
  current,    \* index of the strategy that it is at
  runs,       \* history: runs[d]: weekly batches begun on day d of Japan
  proposals,  \* proposals[s][d]: rows of strategy_param_proposals for s from the runs of day d
  announced,  \* announced[s][d]: rows of system_notifications likewise
  untold,     \* history: strategies and days for which a statement failed or the process ended
  unwatched,  \* history: days on which the daily task did not handle the change to the day in time
  failures, starts

clockOfWeek == <<utcDay, evening>>
progress == <<step, watched, newDate, runDay, current>>
records == <<proposals, announced>>
weeklyVars == <<clockOfWeek, progress, runs, records, untold, unwatched, failures, starts>>

WeekDays == 0..(LastDay + 1)
JstDay == IF evening THEN utcDay + 1 ELSE utcDay

WeeklyInit ==
  /\ utcDay = 0 /\ evening = FALSE
  /\ step = "idle" /\ watched = 0 /\ newDate = 0 /\ runDay = 0 /\ current = 0
  /\ runs = [d \in WeekDays |-> 0]
  /\ proposals = [i \in DOMAIN Strategies |-> [d \in WeekDays |-> 0]] /\ announced = proposals
  /\ untold = {} /\ unwatched = {0} /\ failures = 0 /\ starts = 0
-----------------------------------------------------------------------------
(* The daily task.                                                         *)

\* run: a tick of the interval finds another date.
NoticeDate ==
  /\ step = "idle" /\ utcDay # watched
  /\ newDate' = utcDay /\ step' = "sunday?"
  /\ UNCHANGED <<clockOfWeek, watched, runDay, current, runs, records, untold, unwatched, failures, starts>>

\* is_jst_sunday, with another reading of the clock.
IsJstSunday == JstDay \in Sundays

\* The change of the date is handled.
DateHandled == step' = "idle" /\ watched' = newDate /\ UNCHANGED <<newDate, runDay, current>>

\* A statement fails.
StatementFails == failures < MaxFailures /\ failures' = failures + 1

\* run_weekly_batch_if_jst_sunday, and list_evolvable_strategies.
StartWeekly ==
  /\ step = "sunday?"
  /\ unwatched' = IF JstDay = newDate THEN unwatched ELSE unwatched \cup {newDate, JstDay}
  /\ \/ ~IsJstSunday /\ DateHandled /\ UNCHANGED <<runs, untold, failures>>
     \/ /\ IsJstSunday /\ runs' = [runs EXCEPT ![JstDay] = @ + 1]
        /\ \/ Strategies # << >> /\ step' = "stats" /\ runDay' = JstDay /\ current' = 1
              /\ UNCHANGED <<watched, newDate, untold, failures>>
           \/ Strategies = << >> /\ DateHandled /\ UNCHANGED <<untold, failures>>
           \/ StatementFails /\ DateHandled /\ untold' = untold \cup {<<i, JstDay>> : i \in DOMAIN Strategies}
  /\ UNCHANGED <<clockOfWeek, records, starts>>

\* evolve_each_strategy: on to the next strategy; after the last one the
\* knowledge store is merged, and the daily task goes on.
NextStrategy ==
  \/ /\ current < Len(Strategies) /\ step' = "stats" /\ current' = current + 1
     /\ UNCHANGED <<watched, newDate, runDay>>
  \/ current = Len(Strategies) /\ DateHandled

\* run_for_strategy returns an error, which is logged.
StrategyFails ==
  /\ StatementFails /\ NextStrategy
  /\ untold' = untold \cup {<<current, runDay>>}
  /\ UNCHANGED records

Elsewhere == UNCHANGED <<clockOfWeek, runs, unwatched, starts>>

\* fetch_strategy_stats: with few trades there is only an announcement.
ReadStats ==
  /\ step = "stats"
  /\ \/ /\ step' \in {"gemini", "announce"}
        /\ UNCHANGED <<watched, newDate, runDay, current, records, untold, failures>>
     \/ StrategyFails
  /\ Elsewhere

\* gather_evidence and call_gemini: a proposal, an error, or no answer at all:
\* the client has no timeout.
CallGemini ==
  /\ step = "gemini"
  /\ \/ /\ step' \in {"record", "announce", "hung"}
        /\ UNCHANGED <<watched, newDate, runDay, current, records, untold, failures>>
     \/ StrategyFails
  /\ Elsewhere

\* insert_proposal, with the parameters or with the reason that validate_params
\* refuses them.
RecordProposal ==
  /\ step = "record"
  /\ \/ /\ proposals' = [proposals EXCEPT ![current][runDay] = @ + 1]
        /\ step' = "announce"
        /\ UNCHANGED <<watched, newDate, runDay, current, announced, untold, failures>>
     \/ StrategyFails
  /\ Elsewhere

\* Mutant: one announcement per run.
AnnouncedForRun == IF current = 1 THEN [announced EXCEPT ![current][runDay] = @ + 1] ELSE announced

\* insert_system_notification.
AnnouncedAfter == [announced EXCEPT ![current][runDay] = @ + 1]

Announce ==
  /\ step = "announce"
  /\ \/ announced' = AnnouncedAfter /\ NextStrategy /\ UNCHANGED <<proposals, untold, failures>>
     \/ StrategyFails
  /\ Elsewhere

\* The process ends and starts again: today is taken as handled.
RestartDaily ==
  /\ starts < MaxStarts /\ starts' = starts + 1
  /\ step' = "idle" /\ watched' = utcDay /\ UNCHANGED <<newDate, runDay, current>>
  /\ untold' = IF step \in {"idle", "sunday?"} THEN untold
               ELSE untold \cup {<<i, runDay>> : i \in current..Len(Strategies)}
  /\ unwatched' = IF watched = utcDay THEN unwatched ELSE unwatched \cup {utcDay}
  /\ UNCHANGED <<clockOfWeek, runs, records, failures>>

\* External: the clock.  The task may be busy, or the host suspended, for long.
HalfDay ==
  /\ \/ ~evening /\ evening' = TRUE /\ UNCHANGED <<utcDay, unwatched>>
     \/ /\ evening /\ utcDay < LastDay /\ utcDay' = utcDay + 1 /\ evening' = FALSE
        /\ unwatched' = IF watched = utcDay THEN unwatched ELSE unwatched \cup {utcDay}
  /\ UNCHANGED <<progress, runs, records, untold, failures, starts>>

WeeklyNext ==
  \/ NoticeDate \/ StartWeekly \/ ReadStats \/ CallGemini \/ RecordProposal \/ Announce
  \/ RestartDaily \/ HalfDay

WeeklySpec == WeeklyInit /\ [][WeeklyNext]_weeklyVars
-----------------------------------------------------------------------------
(* Properties.                                                             *)

\* A Sunday has one run; none or a second one only if the daily task did not
\* handle the change to that day, or the one before, during the day itself.
OneRunPerSunday ==
  \A d \in WeekDays :
    /\ runs[d] > 0 => d \in Sundays
    /\ d \in Sundays /\ d < utcDay /\ d \notin unwatched => runs[d] = 1
    /\ runs[d] > 1 => d \in unwatched

\* What became of the strategy is in a notification, whichever way it went.
ResultsAnnounced ==
  \A i \in DOMAIN Strategies, d \in WeekDays :
    /\ proposals[i][d] <= runs[d] /\ announced[i][d] <= runs[d]
    /\ <<i, d>> \notin untold /\ (step \in {"idle", "sunday?"} \/ runDay # d \/ current > i)
         => announced[i][d] = runs[d]

(* However the task is restarted, suspended or held up, the weekly batch   *)
(* runs on Sundays of Japan, once on each of them on which the change of   *)
(* the UTC date was handled in time, and its result for every strategy is  *)
(* announced, unless a statement failed or the process ended in between    *)
(* (daily_batch::run, is_jst_sunday, weekly_batch::run).                   *)
SundayAccounted == OneRunPerSunday /\ ResultsAnnounced
=============================================================================
