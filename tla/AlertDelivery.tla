---------------------------- MODULE AlertDelivery ----------------------------
(***************************************************************************)
(* How the alerts of the feed watchdog about one feed reach the operator.  *)
(* Every alert is sent by a task of its own, which tries again after       *)
(* growing delays; a request that failed may have been delivered all the   *)
(* same.  Tasks do not wait for one another, so that messages are          *)
(* delivered twice, late and out of order.  What the watchdog finds is     *)
(* left open here (FeedWatchdog says what it is).  Alerts about a suspended*)
(* host and an ended feed take the same way.                               *)
(***************************************************************************)
EXTENDS Integers, Sequences

CONSTANTS
  Attempts,      \* notify_retry_attempts
  InitialSecs,   \* notify_retry_initial_secs
  SendTimeout,   \* NOTIFY_SEND_TIMEOUT_SECS
  RoundSecs,     \* check_interval_secs
  RealertSecs,   \* realert_interval_secs
  MaxTime, MaxAlerts, MaxFailures \* bounds

\* DoubledTo[n]: the first delay, doubled n - 1 times, in units of the first;
\* validate allows no more than ten retries.
DoubledTo == <<1, 2, 4, 8, 16, 32, 64, 128, 256, 512, 1024>>

\* worst_case_secs: Attempts + 1 requests and the delays between them.
RetrySpan == (Attempts + 1) * SendTimeout + InitialSecs * (DoubledTo[Attempts + 1] - 1)

\* FeedWatchdogConfig::validate.
ASSUME DeliveryAssumption ==
  /\ Attempts \in 0..10
  /\ {InitialSecs, SendTimeout, RoundSecs, RealertSecs} \subseteq Nat \ {0}
  /\ RetrySpan < RealertSecs

VARIABLES
  now,
  lastRound,  \* time of the last round of the watchdog
  onRecord,   \* FeedFreshnessTracker has the feed as stale
  alerts,     \* the alerts in the order they were raised, each with its task
  lastWord,   \* the alert that the operator read last, 0 before the first
  forgotten,  \* history: alerts raised before the record was last dropped without a message
  failures

deliveryVars == <<now, lastRound, onRecord, alerts, lastWord, forgotten, failures>>

DeliveryInit ==
  /\ now = 0 /\ lastRound = 0 /\ onRecord = FALSE
  /\ alerts = << >> /\ lastWord = 0 /\ forgotten = 0 /\ failures = 0
-----------------------------------------------------------------------------
(* The watchdog: build_freshness_alert for what evaluate returns.          *)

\* spawn_notify_with_retry.
Raise(kind) ==
  /\ Len(alerts) < MaxAlerts
  /\ alerts' = Append(alerts, [kind |-> kind, at |-> now, step |-> "sending", attempt |-> 0, left |-> SendTimeout])

LastAlertAt == alerts[Len(alerts)].at

Find ==
  /\ now = lastRound + RoundSecs /\ lastRound' = now
  /\ \* NewlyStale
     \/ ~onRecord /\ onRecord' = TRUE /\ Raise("stale") /\ UNCHANGED forgotten
     \* StillStale
     \/ onRecord /\ now - LastAlertAt >= RealertSecs /\ Raise("stale") /\ UNCHANGED <<onRecord, forgotten>>
     \* Recovered
     \/ onRecord /\ onRecord' = FALSE /\ Raise("recovered") /\ UNCHANGED forgotten
     \* A closed market: the feed is taken off the record and nobody is told.
     \/ onRecord /\ onRecord' = FALSE /\ forgotten' = Len(alerts) /\ UNCHANGED alerts
     \* No change, or a round without checks.
     \/ UNCHANGED <<onRecord, alerts, forgotten>>
  /\ UNCHANGED <<now, lastWord, failures>>

\* The process ends and starts again with an empty record; its tasks are gone.
Restart ==
  /\ onRecord /\ failures < MaxFailures /\ failures' = failures + 1
  /\ onRecord' = FALSE /\ forgotten' = Len(alerts) /\ lastRound' = now
  /\ alerts' = [k \in DOMAIN alerts |->
       IF alerts[k].step \in {"sending", "waiting"} THEN [alerts[k] EXCEPT !.step = "lost"] ELSE alerts[k]]
  /\ UNCHANGED <<now, lastWord>>
-----------------------------------------------------------------------------
(* The tasks: retry_send.                                                  *)

\* Mutant: the delay is doubled before the first retry already.
DelayDoubledAtOnce(attempt) == InitialSecs * DoubledTo[attempt + 1]

\* notify_retry_delay_secs.
RetryDelay(attempt) == InitialSecs * DoubledTo[attempt]

\* Slack takes the message and send returns.
SendSucceeds(k) ==
  /\ alerts[k].step = "sending"
  /\ alerts' = [alerts EXCEPT ![k].step = "delivered"]
  /\ lastWord' = k
  /\ UNCHANGED <<now, lastRound, onRecord, forgotten, failures>>

\* send returns an error, whether or not Slack took the message.  The task
\* waits, or gives up after the last attempt.
SendFails(k) ==
  LET n == alerts[k].attempt + 1
  IN  /\ alerts[k].step = "sending"
      /\ failures < MaxFailures /\ failures' = failures + 1
      /\ lastWord' \in {lastWord, k}
      /\ alerts' = [alerts EXCEPT ![k] =
           IF n > Attempts THEN [@ EXCEPT !.step = "lost"]
           ELSE [@ EXCEPT !.step = "waiting", !.attempt = n, !.left = RetryDelay(n)]]
      /\ UNCHANGED <<now, lastRound, onRecord, forgotten>>

\* The delay is over.
Resend(k) ==
  /\ alerts[k].step = "waiting" /\ alerts[k].left = 0
  /\ alerts' = [alerts EXCEPT ![k].step = "sending", ![k].left = SendTimeout]
  /\ UNCHANGED <<now, lastRound, onRecord, lastWord, forgotten, failures>>

Running(k) == alerts[k].step \in {"sending", "waiting"}

\* External: time passes.  Rounds, requests and timers are not late.
ClockTick ==
  /\ now < MaxTime /\ now' = now + 1 /\ now < lastRound + RoundSecs
  /\ \A k \in DOMAIN alerts : Running(k) => alerts[k].left > 0
  /\ alerts' = [k \in DOMAIN alerts |-> IF Running(k) THEN [alerts[k] EXCEPT !.left = @ - 1] ELSE alerts[k]]
  /\ UNCHANGED <<lastRound, onRecord, lastWord, forgotten, failures>>

DeliveryNext ==
  \/ Find \/ Restart \/ ClockTick
  \/ \E k \in DOMAIN alerts : SendSucceeds(k) \/ SendFails(k) \/ Resend(k)

DeliverySpec == DeliveryInit /\ [][DeliveryNext]_deliveryVars
-----------------------------------------------------------------------------
(* Properties.                                                             *)

LastWordIsStale == lastWord # 0 /\ alerts[lastWord].kind = "stale"

\* The operator was told what is on record, or there is a reason.
LastWordExplained ==
  LastWordIsStale # onRecord =>
    \/ forgotten > 0 /\ forgotten >= lastWord
    \/ \E j \in (lastWord + 1)..Len(alerts) :
         /\ (alerts[j].kind = "stale") # LastWordIsStale
         /\ \/ Running(j) \/ alerts[j].step = "lost"
            \/ lastWord # 0 /\ alerts[j].at - alerts[lastWord].at <= RetrySpan

\* An alert that repeats another is raised when the other's task has ended.
RepeatsDoNotOverlap ==
  \A k \in DOMAIN alerts \ {1} :
    alerts[k].kind = "stale" /\ alerts[k - 1].kind = "stale" /\ forgotten # k - 1 /\ alerts[k].at = now
      => ~Running(k - 1)

(* When the message that the operator read last contradicts the record of  *)
(* the watchdog, there is a reason: the record was dropped without a       *)
(* message (closed market, restart); or the message that corrects it is    *)
(* under way or was given up; or it was read before, because it was raised *)
(* within the time that the tries of the earlier message take              *)
(* (spawn_notify_with_retry).  Alerts further apart are never reordered,   *)
(* and with the settings that validate accepts the alerts that repeat each *)
(* other are further apart.                                                *)
AlertsInOrder == LastWordExplained /\ RepeatsDoNotOverlap
=============================================================================
