----------------------------- MODULE MCWatchdog -----------------------------
(***************************************************************************)
(* An instance for TLC of the feed watchdog and of the delivery of its     *)
(* alerts.  In a behaviour either the one or the other runs: AlertDelivery *)
(* takes any sequence of findings that FeedWatchdog can produce.           *)
(***************************************************************************)
EXTENDS FeedWatchdog, AlertDelivery

VARIABLE part  \* "watchdog" or "delivery"

MCInit == part \in {"watchdog", "delivery"} /\ Init /\ DeliveryInit

MCNext ==
  \/ part = "watchdog" /\ Next /\ UNCHANGED <<part, deliveryVars>>
  \/ part = "delivery" /\ DeliveryNext /\ UNCHANGED <<part, vars>>

\* The fairness of FeedWatchdog.
MCSpec ==
  /\ MCInit /\ [][MCNext]_<<part, vars, deliveryVars>>
  /\ SF_vars(part = "watchdog" /\ Tick)
  /\ WF_vars(part = "watchdog" /\ Round)
  /\ WF_vars(part = "watchdog" /\ StoreTick)
=============================================================================
