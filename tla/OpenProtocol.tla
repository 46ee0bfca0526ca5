--------------------------- MODULE OpenProtocol ---------------------------
(***************************************************************************)
(* How a signal becomes a trade: the executor task takes signals one by    *)
(* one (process_signal), runs the gates of the account, and calls          *)
(* Trader::execute, which sends a market order, finds out what it filled,  *)
(* places the protective stop and records the trade with its margin in one *)
(* transaction. Meanwhile other tasks close the trades of the account      *)
(* (CloseProtocol; here only the statuses they leave behind), the operator *)
(* switches the account off and on, the exchange fills or drops orders in  *)
(* its own time, calls fail with or without effect, and the process is     *)
(* restarted.                                                              *)
(*                                                                         *)
(* One account, one strategy and one pair, all signals in one direction.   *)
(* Attempt k is the k-th execution that may reach the exchange; its trade, *)
(* if it gets one, has the same number.                                    *)
(***************************************************************************)
EXTENDS Integers, FiniteSetsExt

CONSTANTS
  Modes,        \* kinds of account to consider, a subset of ModeNames
  Qty,          \* size of every order
  MaxAttempts,  \* bound: executions
  MaxApiFails,  \* bound: failed or timed-out exchange calls
  MaxDbFails,   \* bound: failed database statements
  MaxUnlocks,   \* bound: closes that give their lock back
  MaxSwitches,  \* bound: activations and deactivations
  MaxRestarts   \* bound: crashes

ModeNames == {"paper", "bitflyer", "gmo"}

ASSUME OpenAssumption ==
  /\ Modes \subseteq ModeNames
  /\ Qty \in Nat \ {0} /\ MaxAttempts \in Nat \ {0}
  /\ {MaxApiFails, MaxDbFails, MaxUnlocks, MaxSwitches, MaxRestarts} \subseteq Nat

Attempts == 1..MaxAttempts

VARIABLES
  mode,       \* account and exchange
  active,     \* trading_accounts.active
  pc,         \* where the executor task is
  k,          \* current or last attempt; 0 before the first
  actualQty,  \* size the current attempt knows to be filled
  trade,      \* trades.status of the trade of each attempt, "none": no row
  quantity,   \* trades.quantity
  unfilled,   \* exchange: what the order of each attempt may still fill
  filled,     \* exchange: what it has filled
  closed,     \* exchange: what was sold again
  stop,       \* exchange: size of the protective stop of each attempt
  stopKnown,  \* trades.stop_order_id is present
  excuse,     \* history: why the row may disagree with the exchange
  blind,      \* history: attempts that did not see a trade of the account
  raced,      \* history: the account was switched off during an execution
  fails,      \* [api, db, unlock, switch, restart]: how often each happened
  app         \* "running", or "starting" while startup reconciles

vars == <<mode, active, pc, k, actualQty, trade, quantity, unfilled, filled, closed,
          stop, stopKnown, excuse, blind, raced, fails, app>>
exchVars == <<unfilled, filled, closed, stop>>
rowVars == <<trade, quantity, stopKnown>>
histVars == <<excuse, blind, raced>>

Live == mode # "paper"
Unclosed == {t \in Attempts : trade[t] \in {"open", "closing"}}

\* Points of execute after which the account is not looked at again.
Executing == {"check", "prepare", "fill", "poll", "reconcile", "lookup", "requery",
              "cleanup", "cancel", "resolve", "stop", "persist"}

Limit == [api |-> MaxApiFails, db |-> MaxDbFails, unlock |-> MaxUnlocks,
          switch |-> MaxSwitches, restart |-> MaxRestarts]

TypeOK ==
  /\ mode \in ModeNames /\ active \in BOOLEAN
  /\ pc \in {"idle", "confirm"} \cup Executing
  /\ k \in 0..MaxAttempts /\ (pc \in Executing \ {"check", "prepare"} => k > 0)
  /\ actualQty \in 0..Qty
  /\ trade \in [Attempts -> {"none", "open", "closing", "closed"}]
  /\ quantity \in [Attempts -> 0..Qty] /\ stopKnown \in [Attempts -> BOOLEAN]
  /\ unfilled \in [Attempts -> 0..Qty] /\ filled \in [Attempts -> 0..Qty]
  /\ closed \in [Attempts -> 0..Qty] /\ stop \in [Attempts -> 0..Qty]
  /\ excuse \in [Attempts -> {"none", "reported", "partial", "restart"}]
  /\ blind \subseteq Attempts /\ raced \in BOOLEAN
  /\ fails \in [DOMAIN Limit -> Nat] /\ \A f \in DOMAIN Limit : fails[f] <= Limit[f]
  /\ app \in {"running", "starting"}

Init ==
  /\ mode \in Modes /\ active = TRUE
  /\ pc = "idle" /\ k = 0 /\ actualQty = 0
  /\ trade = [t \in Attempts |-> "none"] /\ quantity = [t \in Attempts |-> 0]
  /\ unfilled = [t \in Attempts |-> 0] /\ filled = [t \in Attempts |-> 0]
  /\ closed = [t \in Attempts |-> 0] /\ stop = [t \in Attempts |-> 0]
  /\ stopKnown = [t \in Attempts |-> FALSE]
  /\ excuse = [t \in Attempts |-> "none"] /\ blind = {} /\ raced = FALSE
  /\ fails = [f \in DOMAIN Limit |-> 0]
  /\ app = "running"

Fails(f) == fails[f] < Limit[f] /\ fails' = [fails EXCEPT ![f] = @ + 1]
Report == excuse' = [excuse EXCEPT ![k] = "reported"]

-----------------------------------------------------------------------------
(* process_signal and the gates of one account.                            *)

(* list_active returns the account; dispatch_to_account passes the static  *)
(* gates, the exchange is configured, the price is fresh and the account   *)
(* has a liquidation level. All of that is decided from what was read here.*)
Dispatch ==
  /\ app = "running" /\ pc = "idle" /\ k < MaxAttempts
  /\ active
  /\ pc' = "confirm"
  /\ UNCHANGED <<mode, active, k, actualQty, rowVars, exchVars, histVars, fails, app>>

(* account_still_tradable, on the row read just before executing.          *)
AccountStillTradable == active

(* reconfirm_account_active_before_marking_dispatched.                     *)
ReconfirmActive ==
  /\ pc = "confirm"
  /\ \/ pc' = (IF AccountStillTradable THEN "check" ELSE "idle") /\ UNCHANGED fails
     \/ Fails("db") /\ pc' = "idle"
  /\ UNCHANGED <<mode, active, k, actualQty, rowVars, exchVars, histVars, app>>

\* Mutant: the position of the account is not looked at.
NoPositionSeen == FALSE

(* What account_has_open_position looks for: open_positions lists trades   *)
(* whose status is 'open'.                                                 *)
OpenPositionSeen == \E t \in Attempts : trade[t] = "open"

(* account_has_open_position. A failed query counts as no position         *)
(* (unwrap_or_default), and so does a trade that is being closed.          *)
AccountHasOpenPosition ==
  /\ pc = "check"
  /\ \/ /\ pc' = (IF OpenPositionSeen THEN "idle" ELSE "prepare")
        /\ blind' = (IF {trade[t] : t \in Unclosed} = {"closing"} THEN blind \cup {k + 1} ELSE blind)
        /\ UNCHANGED fails
     \/ Fails("db") /\ pc' = "prepare" /\ blind' = blind \cup {k + 1}
  /\ UNCHANGED <<mode, active, k, actualQty, rowVars, exchVars, excuse, raced, app>>

-----------------------------------------------------------------------------
(* Trader::execute.                                                        *)

(* prepare_entry: the account, a price and a quantity; without them, or if *)
(* the balance is too small, an error before anything happened.            *)
PrepareEntry ==
  /\ pc = "prepare" /\ k < MaxAttempts
  /\ \/ pc' = "fill" /\ k' = k + 1 /\ actualQty' = 0 /\ UNCHANGED blind
     \/ pc' = "idle" /\ blind' = blind \ {k + 1} /\ UNCHANGED <<k, actualQty>>
  /\ UNCHANGED <<mode, active, rowVars, exchVars, excuse, raced, fails, app>>

(* fill_open of a dry run: at the latest ask or bid, if there is one.      *)
FillOpenDry ==
  /\ pc = "fill" /\ ~Live
  /\ \/ actualQty' = Qty /\ pc' = "persist" /\ UNCHANGED excuse
     \/ pc' = "idle" /\ Report /\ UNCHANGED actualQty
  /\ UNCHANGED <<mode, active, k, rowVars, exchVars, blind, raced, fails, app>>

(* fill_open_live up to send_child_order; a failed call may have placed the*)
(* order.                                                                  *)
SendChildOrder ==
  /\ pc = "fill" /\ Live
  /\ \/ pc' = "poll" /\ unfilled' = [unfilled EXCEPT ![k] = Qty] /\ UNCHANGED <<fails, excuse>>
     \/ /\ Fails("api") /\ pc' = "idle" /\ Report
        /\ unfilled' \in {unfilled, [unfilled EXCEPT ![k] = Qty]}
  /\ UNCHANGED <<mode, active, k, actualQty, rowVars, filled, closed, stop, blind, raced, app>>

(* Executions end the search for what the order filled, also when it is    *)
(* only partly filled. The list may lag behind the fills (ExchangeClient), *)
(* and aggregate_executions adds up what is there.                         *)
TakeExecutions ==
  /\ \E n \in 1..filled[k] :
       /\ actualQty' = n
       /\ excuse' = (IF n < Qty THEN [excuse EXCEPT ![k] = "partial"] ELSE excuse)
  /\ pc' = "resolve"

(* poll_executions: executions, a failed call, or the timeout while the    *)
(* list stays empty.                                                       *)
PollExecutions ==
  /\ pc = "poll"
  /\ \/ TakeExecutions /\ UNCHANGED fails
     \/ /\ Fails("api") \/ UNCHANGED fails
        /\ pc' = "reconcile" /\ UNCHANGED <<actualQty, excuse>>
  /\ UNCHANGED <<mode, active, k, rowVars, exchVars, blind, raced, app>>

\* Mutant: an order without executions is taken to be dead.
AssumedDead == "idle"

(* Where an empty list of executions leads.                                *)
AfterNoExecutions == "lookup"

(* reconcile_unpolled_open: ask for the executions once more.              *)
ReconcileUnpolledOpen ==
  /\ pc = "reconcile"
  /\ \/ TakeExecutions /\ UNCHANGED fails
     \/ /\ \/ pc' = AfterNoExecutions /\ UNCHANGED fails
           \/ Fails("api") /\ pc' = "cleanup"
        /\ UNCHANGED <<actualQty, excuse>>
  /\ UNCHANGED <<mode, active, k, rowVars, exchVars, blind, raced, app>>

(* The state an order has at the exchange.                                 *)
OrderState ==
  IF unfilled[k] > 0 THEN "Active" ELSE IF filled[k] = Qty THEN "Completed" ELSE "Dead"

(* reconcile_via_child_order_lookup and the arms of                        *)
(* reconcile_from_child_order: an order that is canceled, expired or       *)
(* rejected is an error; an unknown one is cleaned up.                     *)
ReconcileViaChildOrderLookup ==
  /\ pc = "lookup"
  /\ \/ /\ UNCHANGED fails
        /\ \/ OrderState = "Completed" /\ pc' = "requery" /\ UNCHANGED excuse
           \/ OrderState = "Active" /\ pc' = "cleanup" /\ UNCHANGED excuse
           \/ OrderState = "Dead" /\ pc' = "idle" /\ Report
     \/ Fails("api") /\ pc' = "cleanup" /\ UNCHANGED excuse
  /\ UNCHANGED <<mode, active, k, actualQty, rowVars, exchVars, blind, raced, app>>

(* The Completed arm: executions; without them, or when the call fails, the*)
(* figures of the order, and an error if it has none.                      *)
RequeryExecutions ==
  /\ pc = "requery"
  /\ \/ TakeExecutions /\ UNCHANGED fails
     \/ /\ Fails("api") \/ UNCHANGED fails
        /\ \/ actualQty' = Qty /\ pc' = "resolve" /\ UNCHANGED excuse
           \/ pc' = "idle" /\ Report /\ UNCHANGED actualQty
  /\ UNCHANGED <<mode, active, k, rowVars, exchVars, blind, raced, app>>

(* cleanup_unfilled_order: only an order that may still fill is canceled;  *)
(* every outcome is an error of execute, which is logged.                  *)
CleanupUnfilledOrder ==
  /\ pc = "cleanup"
  /\ \/ /\ pc' = (IF OrderState = "Active" THEN "cancel" ELSE "idle")
        /\ IF OrderState = "Active" THEN UNCHANGED excuse ELSE Report
        /\ UNCHANGED fails
     \/ Fails("api") /\ pc' = "idle" /\ Report
  /\ UNCHANGED <<mode, active, k, actualQty, rowVars, exchVars, blind, raced, app>>

(* cancel_child_order; a failed call may have canceled the order.          *)
CancelChildOrder ==
  /\ pc = "cancel"
  /\ pc' = "idle" /\ Report
  /\ \/ unfilled' = [unfilled EXCEPT ![k] = 0] /\ UNCHANGED fails
     \/ Fails("api") /\ unfilled' \in {unfilled, [unfilled EXCEPT ![k] = 0]}
  /\ UNCHANGED <<mode, active, k, actualQty, rowVars, filled, closed, stop, blind, raced, app>>

(* resolve_exchange_position_id: three tries on GMO; without identifier an *)
(* alert is sent and the trade goes on.                                    *)
ResolveExchangePositionId ==
  /\ pc = "resolve"
  /\ \/ pc' = "stop" /\ UNCHANGED fails
     \/ mode = "gmo" /\ Fails("api") /\ pc' = "persist"
  /\ UNCHANGED <<mode, active, k, actualQty, rowVars, exchVars, histVars, app>>

(* place_protective_stop_order; a failure is only an alert, and the        *)
(* exchange may have accepted the stop. GMO refuses a stop that names no   *)
(* position, which ends like a failure without effect.                     *)
PlaceProtectiveStopOrder ==
  /\ pc = "stop"
  /\ pc' = "persist"
  /\ \/ /\ stop' = [stop EXCEPT ![k] = actualQty]
        /\ stopKnown' = [stopKnown EXCEPT ![k] = TRUE] /\ UNCHANGED <<fails, excuse>>
     \/ /\ Fails("api") /\ Report
        /\ stop' \in {stop, [stop EXCEPT ![k] = actualQty]} /\ UNCHANGED stopKnown
  /\ UNCHANGED <<mode, active, k, actualQty, trade, quantity, unfilled, filled, closed,
                 blind, raced, app>>

(* handle_open_persist_failure: log, and alert for a live account.         *)
HandleOpenPersistFailure == Report

(* persist_open_trade: the row, the margin and the notification in one     *)
(* transaction. Its failure leaves what is on the exchange. (A paper trade *)
(* exists nowhere but in its row.)                                         *)
PersistOpenTrade ==
  /\ pc = "persist"
  /\ pc' = "idle"
  /\ \/ /\ trade' = [trade EXCEPT ![k] = "open"]
        /\ quantity' = [quantity EXCEPT ![k] = actualQty]
        /\ filled' = (IF Live THEN filled ELSE [filled EXCEPT ![k] = actualQty])
        /\ UNCHANGED <<fails, excuse>>
     \/ Fails("db") /\ HandleOpenPersistFailure /\ UNCHANGED <<trade, quantity, filled>>
  /\ UNCHANGED <<mode, active, k, actualQty, stopKnown, unfilled, closed, stop, blind, raced, app>>

-----------------------------------------------------------------------------
(* The other tasks.                                                        *)

(* What CloseProtocol does to the status of a trade.                       *)
CloseLock(t) ==
  /\ app = "running" /\ trade[t] = "open"
  /\ trade' = [trade EXCEPT ![t] = "closing"]
  /\ UNCHANGED <<mode, active, pc, k, actualQty, quantity, stopKnown, exchVars, histVars, fails, app>>

CloseUnlock(t) ==
  /\ app = "running" /\ trade[t] = "closing" /\ Fails("unlock")
  /\ trade' = [trade EXCEPT ![t] = "open"]
  /\ UNCHANGED <<mode, active, pc, k, actualQty, quantity, stopKnown, exchVars, histVars, app>>

CloseSettle(t) ==
  /\ app = "running" /\ trade[t] = "closing"
  /\ trade' = [trade EXCEPT ![t] = "closed"]
  /\ closed' = [closed EXCEPT ![t] = quantity[t]]
  /\ stop' = (IF stopKnown[t] THEN [stop EXCEPT ![t] = 0] ELSE stop)
  /\ UNCHANGED <<mode, active, pc, k, actualQty, quantity, stopKnown, unfilled, filled,
                 histVars, fails, app>>

(* ATOMIC_DEACTIVATION_GUARD_WHERE.                                        *)
DeactivationGuard == Unclosed = {}

(* update_account with active = false: one UPDATE whose condition counts   *)
(* the trades.                                                             *)
Deactivate ==
  /\ active /\ DeactivationGuard /\ Fails("switch")
  /\ active' = FALSE
  /\ raced' = (raced \/ pc \in Executing)
  /\ UNCHANGED <<mode, pc, k, actualQty, rowVars, exchVars, excuse, blind, app>>

Activate ==
  /\ ~active /\ Fails("switch")
  /\ active' = TRUE
  /\ UNCHANGED <<mode, pc, k, actualQty, rowVars, exchVars, histVars, app>>

-----------------------------------------------------------------------------
(* The exchange (external).                                                *)

FillOrder(t) ==
  /\ \E n \in 1..unfilled[t] :
       /\ unfilled' = [unfilled EXCEPT ![t] = @ - n]
       /\ filled' = [filled EXCEPT ![t] = @ + n]
  /\ UNCHANGED <<mode, active, pc, k, actualQty, rowVars, closed, stop, histVars, fails, app>>

DropOrder(t) ==
  /\ unfilled[t] > 0
  /\ unfilled' = [unfilled EXCEPT ![t] = 0]
  /\ UNCHANGED <<mode, active, pc, k, actualQty, rowVars, filled, closed, stop, histVars,
                 fails, app>>

-----------------------------------------------------------------------------
(* Crash and restart.                                                      *)

(* The process dies; nothing in the database tells that attempt k was      *)
(* under way.                                                              *)
Restart ==
  /\ Fails("restart")
  /\ pc' = "idle" /\ app' = "starting"
  /\ excuse' = (IF pc \in Executing \ {"check", "prepare"} /\ excuse[k] = "none"
                THEN [excuse EXCEPT ![k] = "restart"] ELSE excuse)
  /\ UNCHANGED <<mode, active, k, actualQty, rowVars, exchVars, blind, raced>>

PositionSize == MapThenSumSet(LAMBDA t : filled[t] - closed[t], Attempts)
RecordedSize == MapThenSumSet(LAMBDA t : quantity[t], Unclosed)

(* The position of the pair on a live account has the recorded size.       *)
SizesAgree == PositionSize = RecordedSize

(* Startup reconciliation of a live account with open or closing trades    *)
(* lets the program run only if it finds what the rows say (the case of    *)
(* rows without position is CloseProtocol's), and releases the locks of    *)
(* interrupted closes. An account without such trades is left as it is, and*)
(* an order that is still working is not looked for.                       *)
StartupReconcile ==
  /\ app = "starting"
  /\ Live /\ Unclosed # {} => SizesAgree
  /\ app' = "running"
  /\ trade' = (IF Live THEN [t \in Attempts |-> IF trade[t] = "closing" THEN "open" ELSE trade[t]]
               ELSE trade)
  /\ UNCHANGED <<mode, active, pc, k, actualQty, quantity, stopKnown, exchVars, histVars, fails>>

-----------------------------------------------------------------------------
ExecutorStep ==
  \/ ReconfirmActive \/ AccountHasOpenPosition \/ PrepareEntry
  \/ FillOpenDry \/ SendChildOrder \/ PollExecutions
  \/ ReconcileUnpolledOpen \/ ReconcileViaChildOrderLookup \/ RequeryExecutions
  \/ CleanupUnfilledOrder \/ CancelChildOrder
  \/ ResolveExchangePositionId \/ PlaceProtectiveStopOrder \/ PersistOpenTrade

Environment(t) ==
  CloseLock(t) \/ CloseUnlock(t) \/ CloseSettle(t) \/ FillOrder(t) \/ DropOrder(t)

Next ==
  \/ Dispatch \/ ExecutorStep
  \/ \E t \in Attempts : Environment(t)
  \/ Deactivate \/ Activate
  \/ Restart \/ StartupReconcile

Spec == Init /\ [][Next]_vars

-----------------------------------------------------------------------------
(* Properties.                                                             *)

(* While the program runs and is not in the middle of attempt t, a position*)
(* or a stop that no row accounts for has a reason on record: execute      *)
(* logged an error, a partial fill was taken for the whole, or the process *)
(* died in the middle of the attempt (execute and its error paths).        *)
NoSilentOrphan ==
  \A t \in Attempts :
    app = "running" /\ excuse[t] = "none" /\ (t = k => pc \notin Executing) =>
      filled[t] = quantity[t] /\ (stop[t] > 0 => trade[t] # "none" /\ stopKnown[t])

(* Two trades of the strategy on the pair are open at the same time only   *)
(* when the second was opened blindly: the query for positions failed, or  *)
(* the first was 'closing' just then (account_has_open_position).          *)
SecondTradeIsBlind ==
  \A s, t \in Attempts : s < t /\ {s, t} \subseteq Unclosed => t \in blind

(* An account that was switched off while no execution was under way has   *)
(* no trade to look after (the second look at the account before executing *)
(* and the condition of the deactivating UPDATE).                          *)
InactiveIsFlat == ~active /\ ~raced => Unclosed = {}

(* The gates of process_signal hold although they look at the account well *)
(* before the trade is recorded: both of the above.                        *)
EntriesRespectAccount == SecondTradeIsBlind /\ InactiveIsFlat

=============================================================================
