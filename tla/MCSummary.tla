----------------------------- MODULE MCSummary -----------------------------
(***************************************************************************)
(* An instance for TLC of the two things that the daily task does at a     *)
(* change of the UTC date: the drawdown of the past day (DailySummary) and *)
(* the weekly batch (WeeklyBatch).  In a behaviour either the one or the   *)
(* other runs: they share no state but the clock.                          *)
(***************************************************************************)
EXTENDS DailySummary, WeeklyBatch

CONSTANTS t1, t2  \* trades

MCStrategies == <<"s1", "s2">>

VARIABLE part  \* "summary" or "weekly"

MCInit == part \in {"summary", "weekly"} /\ Init /\ WeeklyInit

MCNext ==
  \/ part = "summary" /\ Next /\ UNCHANGED <<part, weeklyVars>>
  \/ part = "weekly" /\ WeeklyNext /\ UNCHANGED <<part, vars>>

\* The fairness of DailySummary.
MCSpec ==
  /\ MCInit /\ [][MCNext]_<<part, vars, weeklyVars>>
  /\ WF_vars(part = "summary" /\ RecordClosedTrade)
  /\ WF_vars(part = "summary" /\ BatchStep)
  /\ WF_vars(part = "summary" /\ FinishStartup)
  /\ \A t \in Trades : WF_vars(part = "summary" /\ CloseStep(t))
=============================================================================
