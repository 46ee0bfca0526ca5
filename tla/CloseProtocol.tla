--------------------------- MODULE CloseProtocol ---------------------------
(***************************************************************************)
(* The three-phase close of one trade (Trader::close_position):            *)
(*   Phase 1  take the close lock: trades.status 'open' -> 'closing';      *)
(*   Phase 2  fill the exit: simulated for a paper account, otherwise a    *)
(*            market order guarded by the state of the protective stop;    *)
(*   Phase 3  one transaction: status 'closed', margin and profit or loss  *)
(*            back to the balance.                                         *)
(* Several tasks close the same trade concurrently (price monitor, strategy*)
(* exit executor, stop-fill detector), every await is a point where they   *)
(* interleave, any exchange or database call may fail, the process may     *)
(* crash and restart (startup reconciliation then runs before the tasks),  *)
(* and a lock that is older than the stale threshold may be taken over.    *)
(*                                                                         *)
(* The trade is on one account whose exchange has no other position of the *)
(* pair. Sizes, fees and money are small integers. The exchange itself is  *)
(* external: it is modelled from how the code uses its answers.            *)
(***************************************************************************)
EXTENDS Integers, FiniteSets

CONSTANTS
  Closers,       \* tasks that may close the trade
  StopDetector,  \* the member of Closers that is the 60 s stop-fill loop
  Modes,         \* kinds of account to consider, a subset of ModeNames
  SuspendModes,  \* subset of BOOLEAN: may a lock holder outlive the threshold?
  Qty,           \* size of the trade
  Margin,        \* margin locked at open
  PnLs,          \* possible profits and losses
  MaxCost,       \* largest close commission plus SFD
  MaxFees,       \* bound: fees charged while the trade is open
  MaxApiFails,   \* bound: failed or timed-out exchange calls
  MaxDbFails,    \* bound: failed database statements
  MaxRestarts    \* bound: crashes

\* paper: dry run; bitflyer: positions are netted; gmo: a close order names
\* the position it closes.
ModeNames == {"paper", "bitflyer", "gmo"}

ASSUME CloseAssumption ==
  /\ StopDetector \in Closers
  /\ Modes \subseteq ModeNames
  /\ SuspendModes \subseteq BOOLEAN
  /\ Qty \in Nat \ {0}
  /\ Margin \in Nat
  /\ PnLs \subseteq Int
  /\ {MaxCost, MaxFees, MaxApiFails, MaxDbFails, MaxRestarts} \subseteq Nat

VARIABLES
  mode,        \* account and exchange of the trade
  suspends,    \* whether the host may be suspended past the stale threshold
  stopId,      \* trades.stop_order_id is present (nothing here writes it)
  status,      \* trades.status
  lockStale,   \* closing_started_at is older than the stale threshold
  fees,        \* trades.fees
  positionId,  \* trades.exchange_position_id is present
  pnl,         \* trades.pnl_amount, 0 until the trade is closed
  balance,     \* balance of the account, relative to before the trade
  pos,         \* exchange: what is left of the position of the trade
  opposite,    \* exchange: position of the opposite direction
  stop,        \* exchange: the protective stop order, "unlisted" while it is accepted
               \* but not shown yet
  stopFills,   \* exchange: executed size of the stop
  pc,          \* where each closer is in close_position
  snap,        \* fees of the row each closer read when it took the lock
  size,        \* size each closer asks to close
  working,     \* unfilled part of the order each closer waits for
  filled,      \* executions of the order each closer waits for
  lost,        \* unfilled part of orders nobody waits for any more
  app,         \* "running", or the stage of startup reconciliation
  charged,     \* history: fees charged to the balance
  exitCost,    \* history: cost of the exit recorded in the row
  sent,        \* history: an exchange accepted a market close order
  unrecorded,  \* history: an attempt ended without recording all fills of its order
  missed,      \* history: a stop not listed yet was taken for gone
  partly,      \* history: a stop filled in part was taken for executed
  apiFails, dbFails, restarts

rowVars  == <<status, lockStale, fees, positionId, pnl>>
exchVars == <<pos, opposite, stop, stopFills>>
localVars == <<pc, snap, size, working, filled, lost>>
guardVars == <<missed, partly>>
histVars == <<charged, exitCost, sent, unrecorded, guardVars>>
faultVars == <<apiFails, dbFails, restarts>>
envVars  == <<mode, suspends, stopId>>
vars == <<envVars, rowVars, balance, exchVars, localVars, app, histVars, faultVars>>

\* Program points at which a closer owns the close lock (as it believes).
Holding == {"recover", "guard", "cancel", "recheck", "send", "poll",
            "simulate", "release", "persist"}

Live == mode # "paper"

TypeOK ==
  /\ mode \in ModeNames /\ suspends \in BOOLEAN /\ stopId \in BOOLEAN
  /\ status \in {"open", "closing", "closed"} /\ lockStale \in BOOLEAN
  /\ fees \in Nat /\ positionId \in BOOLEAN
  /\ pnl \in Int /\ balance \in Int
  /\ pos \in 0..Qty /\ opposite \in Nat
  /\ stop \in {"none", "unlisted", "active", "executed", "gone"} /\ stopFills \in 0..Qty
  /\ pc \in [Closers -> {"idle", "decided"} \cup Holding]
  /\ snap \in [Closers -> Nat] /\ size \in [Closers -> 0..Qty]
  /\ working \in [Closers -> Nat] /\ filled \in [Closers -> Nat]
  /\ lost \in [Closers -> Nat]
  /\ app \in {"running", "reconcile", "reconcile_close"}
  /\ charged \in Nat /\ exitCost \in Nat
  /\ sent \in BOOLEAN /\ unrecorded \in BOOLEAN
  /\ missed \in BOOLEAN /\ partly \in BOOLEAN
  /\ apiFails \in Nat /\ dbFails \in Nat /\ restarts \in Nat

\* A GMO position whose identifier could not be resolved has no stop.
MayHaveStop == mode = "bitflyer" \/ positionId

(* An open trade. If placing the stop failed its row has no identifier of   *)
(* one, and nobody knows whether the exchange has it; a stop that was       *)
(* accepted may not be listed yet (place_protective_stop_order).            *)
Init ==
  /\ mode \in Modes /\ suspends \in SuspendModes
  /\ status = "open" /\ lockStale = FALSE /\ fees = 0
  /\ positionId \in (IF mode = "gmo" THEN BOOLEAN ELSE {FALSE})
  /\ pnl = 0 /\ balance = -Margin
  /\ pos = (IF Live THEN Qty ELSE 0) /\ opposite = 0
  /\ stopId \in (IF MayHaveStop THEN BOOLEAN ELSE {FALSE})
  /\ stop \in (IF stopId THEN {"unlisted", "active"}
               ELSE IF MayHaveStop THEN {"none", "unlisted", "active"} ELSE {"none"})
  /\ stopFills = 0
  /\ pc = [c \in Closers |-> "idle"]
  /\ snap = [c \in Closers |-> 0] /\ size = [c \in Closers |-> 0]
  /\ working = [c \in Closers |-> 0] /\ filled = [c \in Closers |-> 0]
  /\ lost = [c \in Closers |-> 0]
  /\ app = "running"
  /\ charged = 0 /\ exitCost = 0 /\ sent = FALSE /\ unrecorded = FALSE
  /\ missed = FALSE /\ partly = FALSE
  /\ apiFails = 0 /\ dbFails = 0 /\ restarts = 0

Goto(c, to) == pc' = [pc EXCEPT ![c] = to]

ApiFailure == apiFails < MaxApiFails /\ apiFails' = apiFails + 1
DbFailure == dbFails < MaxDbFails /\ dbFails' = dbFails + 1

-----------------------------------------------------------------------------
(* What the clients say about the stop (ExchangeClient has the requests):  *)
(* a stop not listed yet is Gone; bitFlyer may leave out the state of one  *)
(* that is not completed, which is then Executed if a part of it is filled *)
(* and Active otherwise, also when it was canceled.                        *)
WithoutState == IF stopFills > 0 THEN "Executed" ELSE "Active"

StopAnswers ==
  IF stop = "executed" THEN {"Executed"}
  ELSE IF stop = "unlisted" THEN {"Gone"}
  ELSE {IF stop = "active" THEN "Active" ELSE "Gone"}
       \cup (IF mode = "bitflyer" THEN {WithoutState} ELSE {})

\* What a task believes after an answer to be untrue.
Believe(answer) ==
  /\ missed' = (missed \/ (answer = "Gone" /\ stop = "unlisted"))
  /\ partly' = (partly \/ (answer = "Executed" /\ stop # "executed"))

-----------------------------------------------------------------------------
(* Deciding to close and Phase 1.                                          *)

\* Mutant: the detector looks for stops that were canceled.
StopGoneDetected == Live /\ stopId /\ "Gone" \in StopAnswers

(* The stop-fill loop closes a live trade whose stop it knows to have      *)
(* executed.                                                               *)
StopFillDetected == Live /\ stopId /\ "Executed" \in StopAnswers

(* A task reads the trade from a list of open trades and decides to close  *)
(* it: the monitor on an exit condition, the exit executor on a strategy   *)
(* exit, the stop-fill loop when the stop has executed. The row may change *)
(* before the task reaches close_position.                                 *)
Decide(c) ==
  /\ app = "running" /\ pc[c] = "idle"
  /\ status = "open"
  /\ c = StopDetector => StopFillDetected
  /\ Goto(c, "decided")
  /\ UNCHANGED <<envVars, rowVars, balance, exchVars, snap, size, working, filled,
                 lost, app, histVars, faultVars>>

\* Mutant: the UPDATE also matches a trade that is being closed.
LockIgnored == status \in {"open", "closing"}

(* The WHERE clause of acquire_close_lock.                                 *)
LockFree == status = "open" \/ (status = "closing" /\ lockStale)

(* acquire_close_lock: one UPDATE that succeeds on an open trade or on one *)
(* whose lock is stale; the latter makes a live close verify the exchange. *)
AcquireCloseLock(c) ==
  /\ pc[c] = "decided"
  /\ LockFree
  /\ status' = "closing" /\ lockStale' = FALSE
  /\ snap' = [snap EXCEPT ![c] = fees]
  /\ size' = [size EXCEPT ![c] = Qty]
  /\ Goto(c, IF ~Live THEN "simulate"
             ELSE IF status = "closing" THEN "recover" ELSE "guard")
  /\ UNCHANGED <<envVars, fees, positionId, pnl, balance, exchVars, working, filled,
                 lost, app, histVars, faultVars>>

(* The row is not in a state to lock (a concurrent close won), or the      *)
(* statement fails: close_position returns its error and nothing changed.  *)
AcquireRefused(c) ==
  /\ pc[c] = "decided"
  /\ \/ ~LockFree /\ UNCHANGED dbFails
     \/ DbFailure
  /\ Goto(c, "idle")
  /\ UNCHANGED <<envVars, rowVars, balance, exchVars, snap, size, working, filled,
                 lost, app, histVars, apiFails, restarts>>

-----------------------------------------------------------------------------
(* Phase 2.                                                                *)

(* fill_close of a dry run: exit at the latest bid or ask, if there is one.*)
SimulateFill(c) ==
  /\ pc[c] = "simulate"
  /\ \/ Goto(c, "persist") /\ UNCHANGED apiFails
     \/ Goto(c, "release") /\ ApiFailure
  /\ UNCHANGED <<envVars, rowVars, balance, exchVars, snap, size, working, filled,
                 lost, app, histVars, dbFails, restarts>>

\* Mutant: a failed get_positions counts as an empty list.
RecoverTrustsErrors == "persist"

(* Where a failed get_positions leads.                                     *)
RecoverAfterError == "release"

(* fill_close_with_stale_recovery: look at the exchange before trading. No *)
(* position: the earlier attempt closed it. A smaller one: close only what *)
(* is left. The opposite side or an error: give the lock back.             *)
FillCloseWithStaleRecovery(c) ==
  /\ pc[c] = "recover"
  /\ \/ ApiFailure /\ Goto(c, RecoverAfterError) /\ UNCHANGED size
     \/ opposite > 0 /\ Goto(c, "release") /\ UNCHANGED <<size, apiFails>>
     \/ /\ opposite = 0
        /\ size' = [size EXCEPT ![c] = pos]
        /\ Goto(c, IF pos = 0 THEN "persist" ELSE "guard")
        /\ UNCHANGED apiFails
  /\ UNCHANGED <<envVars, rowVars, balance, exchVars, snap, working, filled, lost, app,
                 histVars, dbFails, restarts>>

(* The arms of the first stop_order_status.                                *)
AfterGuard(answer) ==
  IF answer = "Executed" THEN "persist"
  ELSE IF answer = "Active" THEN "cancel" ELSE "send"

(* stop_guard_before_close, first stop_order_status: a row without         *)
(* identifier of a stop needs none.                                        *)
StopGuard(c) ==
  /\ pc[c] = "guard"
  /\ \/ ~stopId /\ Goto(c, "send") /\ UNCHANGED <<guardVars, apiFails>>
     \/ stopId /\ \E answer \in StopAnswers :
          Goto(c, AfterGuard(answer)) /\ Believe(answer) /\ UNCHANGED apiFails
     \/ stopId /\ ApiFailure /\ Goto(c, "release") /\ UNCHANGED guardVars
  /\ UNCHANGED <<envVars, rowVars, balance, exchVars, snap, size, working, filled,
                 lost, app, charged, exitCost, sent, unrecorded, dbFails, restarts>>

(* cancel_stop_order. The exchange refuses to cancel an order that is no   *)
(* longer active; a call that fails may have canceled it all the same.     *)
CancelStop(c) ==
  /\ pc[c] = "cancel"
  /\ \/ stop = "active" /\ stop' = "gone" /\ Goto(c, "send") /\ UNCHANGED apiFails
     \/ stop # "active" /\ Goto(c, "recheck") /\ UNCHANGED <<stop, apiFails>>
     \/ /\ ApiFailure
        /\ stop' \in (IF stop = "active" THEN {"active", "gone"} ELSE {stop})
        /\ Goto(c, "recheck")
  /\ UNCHANGED <<envVars, rowVars, balance, pos, opposite, stopFills, snap, size, working,
                 filled, lost, app, histVars, dbFails, restarts>>

\* Mutant: a stop that cannot be canceled does not hold up the close.
RecheckProceeds(answer) == IF answer = "Executed" THEN "persist" ELSE "send"

(* The arms of the recheck.                                                *)
AfterRecheck(answer) ==
  IF answer = "Executed" THEN "persist"
  ELSE IF answer = "Gone" THEN "send" ELSE "release"

(* The second stop_order_status, after a failed cancel: anything but       *)
(* Executed or Gone aborts the close.                                      *)
RecheckStop(c) ==
  /\ pc[c] = "recheck"
  /\ \/ \E answer \in StopAnswers :
          Goto(c, AfterRecheck(answer)) /\ Believe(answer) /\ UNCHANGED apiFails
     \/ ApiFailure /\ Goto(c, "release") /\ UNCHANGED guardVars
  /\ UNCHANGED <<envVars, rowVars, balance, exchVars, snap, size, working, filled,
                 lost, app, charged, exitCost, sent, unrecorded, dbFails, restarts>>

(* ensure_close_position_id_present: GMO closes a position by its          *)
(* identifier.                                                             *)
MayClosePosition == mode = "gmo" => positionId

(* GMO refuses an order that closes a position that is gone (external).    *)
PositionGone == positionId /\ pos = 0

(* fill_close_live from the check of the identifier to send_child_order; a *)
(* failed call may have placed the order. GMO may refuse one that is       *)
(* larger than the position.                                               *)
SendCloseOrder(c) ==
  /\ pc[c] = "send"
  /\ \/ /\ ~MayClosePosition \/ (positionId /\ pos < size[c])
        /\ Goto(c, "release")
        /\ UNCHANGED <<working, filled, lost, sent, unrecorded, apiFails>>
     \/ /\ MayClosePosition /\ ~PositionGone
        /\ working' = [working EXCEPT ![c] = size[c]]
        /\ filled' = [filled EXCEPT ![c] = 0]
        /\ sent' = TRUE
        /\ Goto(c, "poll")
        /\ UNCHANGED <<lost, unrecorded, apiFails>>
     \/ /\ MayClosePosition /\ ApiFailure /\ Goto(c, "release")
        /\ \/ UNCHANGED <<lost, sent, unrecorded>>
           \/ /\ ~PositionGone
              /\ lost' = [lost EXCEPT ![c] = @ + size[c]]
              /\ sent' = TRUE /\ unrecorded' = TRUE
        /\ UNCHANGED <<working, filled>>
  /\ UNCHANGED <<envVars, rowVars, balance, exchVars, snap, size, app, charged, exitCost,
                 guardVars, dbFails, restarts>>

(* poll_executions: the first answer with executions ends the wait, also   *)
(* when the order is only partly filled; a timeout or a failed call gives  *)
(* up on an order that may still fill or has filled already.               *)
PollExecutions(c) ==
  /\ pc[c] = "poll"
  /\ \/ /\ filled[c] > 0 /\ Goto(c, "persist") /\ UNCHANGED apiFails
        /\ unrecorded' = (unrecorded \/ working[c] > 0)
     \/ /\ ApiFailure \/ (filled[c] = 0 /\ PositionGone /\ UNCHANGED apiFails)
        /\ Goto(c, "release") /\ unrecorded' = TRUE
  /\ lost' = [lost EXCEPT ![c] = @ + working[c]]
  /\ working' = [working EXCEPT ![c] = 0]
  /\ filled' = [filled EXCEPT ![c] = 0]
  /\ UNCHANGED <<envVars, rowVars, balance, exchVars, snap, size, app, charged,
                 exitCost, sent, guardVars, dbFails, restarts>>

\* Mutant: release_close_lock is left out.
ReleaseForgotten == status

(* The status release_close_lock leaves behind.                            *)
ReleasedStatus == IF status = "closing" THEN "open" ELSE status

(* release_close_lock after a failed Phase 2: 'closing' -> 'open', whoever *)
(* holds the lock by now. If the statement fails the trade stays 'closing'.*)
ReleaseCloseLock(c) ==
  /\ pc[c] = "release"
  /\ Goto(c, "idle")
  /\ \/ /\ status' = ReleasedStatus /\ lockStale' = FALSE
        /\ UNCHANGED dbFails
     \/ DbFailure /\ UNCHANGED <<status, lockStale>>
  /\ UNCHANGED <<envVars, fees, positionId, pnl, balance, exchVars, snap, size,
                 working, filled, lost, app, histVars, apiFails, restarts>>

-----------------------------------------------------------------------------
(* Phase 3.                                                                *)

\* Mutant: update_trade_closed does not look at the status it overwrites.
AlwaysClosable == TRUE

(* The WHERE clause of update_trade_closed.                                *)
Closable == status \in {"open", "closing"}

(* The fees close_position writes: the ones it read in Phase 1 and its own.*)
ClosedFees(c, k) == snap[c] + k

(* persist_closed_trade: one transaction. It overwrites the fees with the  *)
(* ones read in Phase 1 plus the cost of the exit, and fails, leaving the  *)
(* trade as it is, when the trade is already closed or the database fails. *)
PersistClosedTrade(c) ==
  /\ pc[c] = "persist"
  /\ Goto(c, "idle")
  /\ \/ /\ Closable
        /\ \E p \in PnLs, k \in 0..MaxCost :
             /\ pnl' = p /\ balance' = balance + Margin + p
             /\ fees' = ClosedFees(c, k) /\ exitCost' = k
        /\ status' = "closed" /\ lockStale' = FALSE
        /\ UNCHANGED <<dbFails, unrecorded>>
     \/ /\ \/ ~Closable /\ UNCHANGED <<dbFails, unrecorded>>
           \/ DbFailure /\ unrecorded' = (unrecorded \/ sent)
        /\ UNCHANGED <<status, lockStale, fees, pnl, balance, exitCost>>
  /\ UNCHANGED <<envVars, positionId, exchVars, snap, size, working, filled, lost,
                 app, charged, sent, guardVars, apiFails, restarts>>

-----------------------------------------------------------------------------
(* The other writers of the row, and time.                                 *)

\* Mutant: a trade that is being closed is charged as well.
ChargeableUnclosed == status # "closed"

(* The WHERE clause of apply_fee_inner.                                    *)
Chargeable == status = "open"

(* apply_fee_inner for the overnight, swap and SFD fees of a paper account.*)
ApplyFee ==
  /\ app = "running" /\ ~Live
  /\ Chargeable
  /\ charged < MaxFees
  /\ fees' = fees + 1 /\ charged' = charged + 1 /\ balance' = balance - 1
  /\ UNCHANGED <<envVars, status, lockStale, positionId, pnl, exchVars, localVars, app,
                 exitCost, sent, unrecorded, guardVars, faultVars>>

(* closing_started_at grows older than STALE_CLOSING_THRESHOLD_SECS. Every *)
(* exchange call has a timeout and a close makes a bounded number of them, *)
(* so unless the host is suspended the attempt that took the lock is over. *)
LockAges ==
  /\ status = "closing" /\ ~lockStale
  /\ suspends \/ \A c \in Closers : pc[c] \notin Holding
  /\ lockStale' = TRUE
  /\ UNCHANGED <<envVars, status, fees, positionId, pnl, balance, exchVars, localVars, app,
                 histVars, faultVars>>

-----------------------------------------------------------------------------
(* The exchange (external).                                                *)

(* n more of a close order trades. On a netting exchange what exceeds the  *)
(* position opens the opposite one; so does a GMO order that names no      *)
(* position. A GMO order that names it never trades more than is left.     *)
Trade(n) ==
  IF mode = "gmo"
  THEN IF positionId THEN n <= pos /\ pos' = pos - n /\ UNCHANGED opposite
       ELSE opposite' = opposite + n /\ UNCHANGED pos
  ELSE /\ pos' = (IF n <= pos THEN pos - n ELSE 0)
       /\ opposite' = opposite + (IF n <= pos THEN 0 ELSE n - pos)

FillWorking(c) ==
  /\ \E n \in 1..working[c] :
       /\ Trade(n)
       /\ working' = [working EXCEPT ![c] = @ - n]
       /\ filled' = [filled EXCEPT ![c] = @ + n]
  /\ UNCHANGED <<envVars, rowVars, balance, stop, stopFills, pc, snap, size, lost, app, histVars,
                 faultVars>>

FillLost(c) ==
  /\ \E n \in 1..lost[c] :
       /\ Trade(n)
       /\ lost' = [lost EXCEPT ![c] = @ - n]
  /\ UNCHANGED <<envVars, rowVars, balance, stop, stopFills, pc, snap, size, working, filled, app,
                 histVars, faultVars>>

(* The exchange comes to list an accepted stop.                            *)
ListStop ==
  /\ stop = "unlisted"
  /\ stop' = "active"
  /\ UNCHANGED <<envVars, rowVars, balance, pos, opposite, stopFills, localVars, app, histVars,
                 faultVars>>

(* The stop triggers, and n more of it trades.                             *)
StopTriggers ==
  /\ stop = "active"
  /\ \E n \in 1..(Qty - stopFills) :
       /\ Trade(n)
       /\ stopFills' = stopFills + n
       /\ stop' = (IF stopFills + n = Qty THEN "executed" ELSE "active")
  /\ UNCHANGED <<envVars, rowVars, balance, localVars, app, histVars, faultVars>>

(* The stop is rejected, expires or is canceled by hand.                   *)
StopDropped ==
  /\ stop \in {"unlisted", "active"}
  /\ stop' = "gone"
  /\ UNCHANGED <<envVars, rowVars, balance, pos, opposite, stopFills, localVars, app, histVars,
                 faultVars>>

-----------------------------------------------------------------------------
(* Crash, and startup reconciliation of a live account.                    *)

(* The process dies at any point and is started again. A paper account is  *)
(* not reconciled: its tasks simply start.                                 *)
Restart ==
  /\ restarts < MaxRestarts
  /\ restarts' = restarts + 1
  /\ pc' = [c \in Closers |-> "idle"]
  /\ lost' = [c \in Closers |-> lost[c] + working[c]]
  /\ unrecorded' = (unrecorded \/ (sent /\ status # "closed"))
  /\ working' = [c \in Closers |-> 0]
  /\ filled' = [c \in Closers |-> 0]
  /\ app' = IF Live THEN "reconcile" ELSE "running"
  /\ UNCHANGED <<envVars, rowVars, balance, exchVars, snap, size, charged, exitCost,
                 sent, guardVars, apiFails, dbFails>>

(* reconcile_live_accounts_at_startup up to the closing transaction. It    *)
(* refuses to start (no step) on an opposite position or another size.     *)
(* A trade without position whose stop executed first gets the commission  *)
(* of the stop by a statement of its own (add_fees).                       *)
Reconcile ==
  /\ app = "reconcile"
  /\ status # "closed" => opposite = 0 /\ pos \in {0, Qty}
  /\ \/ /\ status = "closed" \/ pos = Qty
        /\ status' = ReleasedStatus /\ lockStale' = FALSE
        /\ app' = "running"
        /\ UNCHANGED <<fees, exitCost, apiFails>>
     \/ /\ status # "closed" /\ pos = 0
        /\ \/ /\ status = "open" /\ StopFillDetected
              /\ \E k \in 0..MaxCost : fees' = fees + k /\ exitCost' = k
              /\ UNCHANGED apiFails
           \/ /\ status = "open" /\ stopId /\ ApiFailure
              /\ exitCost' = 0 /\ UNCHANGED fees
           \/ /\ status = "closing" \/ ~stopId \/ StopAnswers # {"Executed"}
              /\ exitCost' = 0 /\ UNCHANGED <<fees, apiFails>>
        /\ app' = "reconcile_close"
        /\ UNCHANGED <<status, lockStale>>
  /\ UNCHANGED <<envVars, positionId, pnl, balance, exchVars, localVars, charged, sent,
                 unrecorded, guardVars, dbFails, restarts>>

(* close_trade_reconciled: the closing transaction, which keeps the fees.  *)
CloseTradeReconciled ==
  /\ app = "reconcile_close"
  /\ status' = "closed" /\ lockStale' = FALSE
  /\ \E p \in PnLs : pnl' = p /\ balance' = balance + Margin + p
  /\ app' = "running"
  /\ UNCHANGED <<envVars, fees, positionId, exchVars, localVars, histVars, faultVars>>

-----------------------------------------------------------------------------
CloserStep(c) ==
  \/ AcquireCloseLock(c) \/ AcquireRefused(c)
  \/ SimulateFill(c) \/ FillCloseWithStaleRecovery(c)
  \/ StopGuard(c) \/ CancelStop(c) \/ RecheckStop(c)
  \/ SendCloseOrder(c) \/ PollExecutions(c)
  \/ ReleaseCloseLock(c) \/ PersistClosedTrade(c)

Exchange ==
  \/ ListStop \/ StopTriggers \/ StopDropped
  \/ \E c \in Closers : FillWorking(c) \/ FillLost(c)

Next ==
  \/ \E c \in Closers : Decide(c) \/ CloserStep(c)
  \/ ApplyFee \/ LockAges
  \/ Exchange
  \/ Restart \/ Reconcile \/ CloseTradeReconciled

Spec == Init /\ [][Next]_vars

(* A task that has started to close a trade goes on, because every call    *)
(* returns or times out; the stop-fill loop runs every 60 s; an accepted   *)
(* order and the wall clock make progress; startup runs to its end. Nothing*)
(* forces a price, a strategy exit, a fee, a crash or the stop.            *)
Fairness ==
  /\ WF_vars(stop = "executed" /\ Decide(StopDetector))
  /\ \A c \in Closers : WF_vars(CloserStep(c))
  /\ \A c \in Closers : WF_vars(FillWorking(c)) /\ WF_vars(FillLost(c))
  /\ WF_vars(LockAges)
  /\ WF_vars(Reconcile) /\ WF_vars(CloseTradeReconciled)

FairSpec == Spec /\ Fairness

-----------------------------------------------------------------------------
(* Properties.                                                             *)

(* The balance of the account always agrees with the row: the margin is    *)
(* out while the trade is not closed, and back together with exactly the   *)
(* recorded profit or loss once it is, whoever closed it and however often *)
(* it was tried (release_margin in the Phase 3 and reconcile transactions).*)
BalanceSettledOnce ==
  balance = (IF status = "closed" THEN pnl ELSE -Margin) - charged

(* No step takes a trade out of 'closed' or changes what was recorded with *)
(* it (the status conditions of release_close_lock, acquire_close_lock,    *)
(* update_trade_closed and apply_fee_inner).                               *)
ClosedIsFinal ==
  [][status = "closed" => UNCHANGED <<status, fees, pnl, balance>>]_vars

(* While no holder outlives the stale threshold, at most one task at a time*)
(* is between Phase 1 and the end of Phase 3, and the row says 'closing'.  *)
OneHolder ==
  ~suspends => \A c, d \in Closers :
    pc[c] \in Holding => status = "closing" /\ (pc[d] \in Holding => c = d)

(* Closing does not forget a fee that was charged while the trade was open,*)
(* although Phase 3 overwrites the fees with the ones read in Phase 1.     *)
NoChargeLost == ~suspends /\ status = "closed" => fees >= charged + exitCost

(* The money of a trade is settled exactly once, whoever closes it, however*)
(* often it is tried and whatever fails in between: the balance agrees with*)
(* the row, and closing forgets no fee (Phase 1 reads the fees, Phase 3    *)
(* writes them back and releases the margin, fees are charged in between). *)
MoneySettledOnce == BalanceSettledOnce /\ NoChargeLost

(* A market close order and the protective stop never both trade: once an  *)
(* exchange accepted a close order the stop cannot execute any more        *)
(* (stop_guard_before_close), in every interleaving with the trigger, with *)
(* partial fills and untrue answers. It takes a row that knows of the stop,*)
(* and a stop that was listed when the guard asked for it: the two cases   *)
(* in which the code sends the order with the stop alive.                  *)
StopAndMarketExclusive == sent /\ stopId /\ ~missed => stop = "gone"

(* A trade is never 'closed' in the database while the exchange still holds*)
(* a part of its position that no accepted close order covers, unless a    *)
(* stop that was filled in part was reported as executed.                  *)
ClosedIsCovered ==
  status = "closed" /\ pos > 0 /\ ~partly =>
    \E c \in Closers : working[c] + lost[c] >= pos

(* On an exchange that closes positions by identifier, closing never opens *)
(* a position of the opposite direction.                                   *)
GmoNeverReverses == mode = "gmo" => opposite = 0

(* Where an opposite position on a netting exchange comes from. Unless an  *)
(* attempt ended without recording all fills of the order it had sent (its *)
(* answer was lost, the wait timed out, Phase 3 failed or the process      *)
(* died), it is the fills of the stop that the market order did not count, *)
(* and no larger than they are; and if the guard knew of the stop and saw  *)
(* it, then the stop was filled in part before it was canceled.            *)
ReversalIsAccounted ==
  ~suspends /\ ~unrecorded =>
    /\ opposite <= stopFills
    /\ opposite > 0 /\ stopId /\ ~missed => stop = "gone" /\ stopFills < Qty

(* A trade whose stop executed is eventually recorded as closed, if its    *)
(* row knows the stop and the account has no opposite position, on which   *)
(* the program refuses to start.                                           *)
StopFillRecorded ==
  stop = "executed" /\ stopId ~> status = "closed" \/ opposite > 0

(* As long as the database answers, a trade does not stay in 'closing': the*)
(* attempt ends or, after a crash, startup reconciliation resolves it. Not *)
(* so a paper trade, which is not reconciled, and a live one on whose      *)
(* position the program refuses to start: an opposite one, or a part that  *)
(* a stop left over.                                                       *)
ClosingEnds ==
  status = "closing" ~> \/ status # "closing"
                        \/ ~Live /\ restarts > 0
                        \/ opposite > 0
                        \/ restarts > 0 /\ stopFills \in 1..(Qty - 1)

(* The invariant the design of the stop orders states: closing never makes *)
(* an unintended position of the opposite direction.                       *)
NeverReverses == opposite = 0

-----------------------------------------------------------------------------
(* What the close promises to the rest of the system.                      *)
Lifecycle == INSTANCE TradeLifecycle WITH
  status <- status, balance <- balance, charged <- charged, pnl <- pnl
ImplementsLifecycle == Lifecycle!Spec
=============================================================================
