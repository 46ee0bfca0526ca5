------------------------- MODULE OpenProtocolProofs -------------------------
(***************************************************************************)
(* Proofs about OpenProtocol, for every size of an order, every number of  *)
(* executions and every number of failures, switches and restarts; and, in *)
(* the last part, about ExchangeClient, whose answers it relies on.        *)
(***************************************************************************)
EXTENDS OpenProtocol, ExchangeClient, TLAPS

(* Program points at which the current attempt may be on the exchange.     *)
Trading == Executing \ {"check", "prepare"}

(* An attempt that has not begun has left no trace.                        *)
FreshInv ==
  \A t \in Attempts : t > k =>
    /\ trade[t] = "none" /\ quantity[t] = 0 /\ unfilled[t] = 0 /\ filled[t] = 0 /\ stop[t] = 0
    /\ excuse[t] = "none"

(* A signal that is taken up has an attempt left.                          *)
RoomInv == pc \in {"confirm", "check", "prepare"} => k < MaxAttempts

(* The account is looked at before the execution begins, and switched off  *)
(* only while it has no trade.                                             *)
FlatInv == ~active /\ ~raced => Unclosed = {} /\ pc \notin Executing

(* An attempt that goes on although the account has a trade is blind.      *)
BlindInv ==
  /\ pc = "prepare" /\ Unclosed # {} => k + 1 \in blind
  /\ pc \in Trading /\ (\E s \in Unclosed : s # k) => k \in blind

(* The exchange fills an order at most once.                               *)
OrdersInv == \A t \in Attempts : filled[t] + unfilled[t] <= Qty

(* The row of an attempt that is over, and not excused, is what the        *)
(* exchange has.                                                           *)
Agrees(t) ==
  /\ unfilled[t] = 0 /\ filled[t] = quantity[t]
  /\ stop[t] > 0 => trade[t] # "none" /\ stopKnown[t]

(* All attempts that are over.                                             *)
OverInv == \A t \in Attempts : excuse[t] = "none" /\ (t = k => pc \notin Trading) => Agrees(t)

(* What the executor knows of the current attempt.                         *)
CurrentInv ==
  pc \in Trading =>
    /\ k \in Attempts /\ trade[k] = "none" /\ quantity[k] = 0
    /\ pc \notin {"fill", "persist"} => Live
    /\ ~Live => unfilled[k] = 0 /\ filled[k] = 0 /\ stop[k] = 0
    /\ pc = "fill" => unfilled[k] = 0 /\ filled[k] = 0
    /\ pc # "persist" => stop[k] = 0
    /\ stop[k] > 0 /\ excuse[k] = "none" => stopKnown[k]
    /\ pc = "requery" => filled[k] = Qty
    /\ pc \in {"resolve", "stop", "persist"} /\ excuse[k] = "none" =>
         actualQty = Qty /\ (Live => filled[k] = Qty)

(* The inductive invariant.                                                *)
OpenInv ==
  /\ TypeOK /\ FreshInv /\ RoomInv /\ FlatInv /\ BlindInv /\ SecondTradeIsBlind
  /\ OrdersInv /\ OverInv /\ CurrentInv
-----------------------------------------------------------------------------
(* Types.                                                                  *)

(* The constants.                                                          *)
LEMMA Constants ==
  /\ Qty \in Nat \ {0} /\ MaxAttempts \in Nat \ {0} /\ Attempts \subseteq Nat \ {0}
  /\ DOMAIN Limit = {"api", "db", "unlock", "switch", "restart"} /\ \A f \in DOMAIN Limit : Limit[f] \in Nat
<1>1. Limit \in [{"api", "db", "unlock", "switch", "restart"} -> Nat]
  BY OpenAssumption DEF OpenAssumption, Limit
<1> QED BY <1>1, OpenAssumption DEF OpenAssumption, Attempts

(* Failures are counted up to their bound.                                 *)
FailsType == fails \in [DOMAIN Limit -> Nat] /\ \A f \in DOMAIN Limit : fails[f] <= Limit[f]

(* A step keeps the bounds.                                                *)
LEMMA FailsStep ==
  ASSUME TypeOK, UNCHANGED fails \/ \E f \in DOMAIN Limit : Fails(f)
  PROVE  FailsType'
<1>1. CASE UNCHANGED fails
  BY <1>1 DEF TypeOK, FailsType
<1>2. ASSUME NEW f \in DOMAIN Limit, Fails(f) PROVE FailsType'
  <2>1. fails \in [DOMAIN Limit -> Nat] /\ fails[f] < Limit[f] /\ fails' = [fails EXCEPT ![f] = @ + 1]
    BY <1>2 DEF TypeOK, Fails
  <2>2. Limit[f] \in Nat /\ \A g \in DOMAIN Limit : fails[g] <= Limit[g]
    BY Constants DEF TypeOK
  <2> HIDE DEF Limit
  <2> QED BY <2>1, <2>2 DEF FailsType
<1> QED BY <1>1, <1>2

(* The cases of a step.                                                    *)
LEMMA NextCases ==
  ASSUME Next
  PROVE  \/ Dispatch \/ ReconfirmActive \/ AccountHasOpenPosition \/ PrepareEntry
         \/ FillOpenDry \/ SendChildOrder \/ PollExecutions
         \/ ReconcileUnpolledOpen \/ ReconcileViaChildOrderLookup \/ RequeryExecutions
         \/ CleanupUnfilledOrder \/ CancelChildOrder
         \/ ResolveExchangePositionId \/ PlaceProtectiveStopOrder \/ PersistOpenTrade
         \/ \E t \in Attempts : CloseLock(t) \/ CloseUnlock(t) \/ CloseSettle(t) \/ FillOrder(t) \/ DropOrder(t)
         \/ Deactivate \/ Activate \/ Restart \/ StartupReconcile
  BY DEF Next, ExecutorStep, Environment

(* Every failure that a step counts is one of its kind.                    *)
LEMMA FailsCases ==
  ASSUME Next
  PROVE  UNCHANGED fails \/ \E f \in DOMAIN Limit : Fails(f)
<1>1. {"api", "db", "unlock", "switch", "restart"} = DOMAIN Limit
  BY Constants
<1>2. \/ UNCHANGED fails \/ Fails("api") \/ Fails("db") \/ Fails("unlock") \/ Fails("switch") \/ Fails("restart")
  BY NextCases, Zenon
     DEF Dispatch, ReconfirmActive, AccountHasOpenPosition, PrepareEntry, FillOpenDry, SendChildOrder,
         PollExecutions, ReconcileUnpolledOpen, ReconcileViaChildOrderLookup, RequeryExecutions,
         CleanupUnfilledOrder, CancelChildOrder, ResolveExchangePositionId, PlaceProtectiveStopOrder,
         PersistOpenTrade, CloseLock, CloseUnlock, CloseSettle, FillOrder, DropOrder, Deactivate, Activate,
         Restart, StartupReconcile
<1> QED BY <1>1, <1>2

(* The executor at work has a current attempt.                             *)
LEMMA CurrentAttempt ==
  ASSUME TypeOK
  PROVE  k \in Nat /\ (k > 0 => k \in Attempts) /\ (k < MaxAttempts => k + 1 \in Attempts)
         /\ (pc \in Trading => k > 0)
<1>1. k \in 0..MaxAttempts /\ (pc \in Executing \ {"check", "prepare"} => k > 0)
  BY DEF TypeOK
<1>2. MaxAttempts \in Nat
  BY Constants
<1> QED BY <1>1, <1>2 DEF Attempts, Trading

(* The points that a step leads to.                                        *)
PointType ==
  /\ pc \in {"idle", "confirm"} \cup Executing
  /\ k \in 0..MaxAttempts /\ (pc \in Executing \ {"check", "prepare"} => k > 0)

(* A step leads from a point of the executor to another one.               *)
LEMMA PointStep ==
  ASSUME TypeOK, Next
  PROVE  PointType'
<1>1. k \in 0..MaxAttempts /\ MaxAttempts \in Nat \ {0}
  BY Constants DEF TypeOK
<1>2. CASE UNCHANGED <<pc, k>>
  BY <1>2 DEF TypeOK, PointType
<1>3. CASE PrepareEntry
  BY <1>1, <1>3 DEF PrepareEntry, PointType, Executing
<1>4. CASE k' = k /\ pc' \in {"idle", "confirm", "check", "prepare"}
  BY <1>1, <1>4 DEF PointType, Executing
<1>5. CASE k' = k /\ pc \in Trading /\ pc' \in Executing
  BY <1>1, <1>5, CurrentAttempt DEF PointType
<1>6. CASE Dispatch \/ ReconfirmActive \/ AccountHasOpenPosition \/ Restart
  BY <1>4, <1>6, Zenon DEF Dispatch, ReconfirmActive, AccountHasOpenPosition, Restart
<1>7. CASE FillOpenDry \/ SendChildOrder \/ PollExecutions \/ ReconcileUnpolledOpen
  <2>1. k' = k /\ pc \in Trading /\ pc' \in Executing \cup {"idle"}
    BY <1>7 DEF FillOpenDry, SendChildOrder, PollExecutions, ReconcileUnpolledOpen, AfterNoExecutions,
                TakeExecutions, Trading, Executing
  <2> QED BY <1>4, <1>5, <2>1
<1>8. CASE ReconcileViaChildOrderLookup \/ RequeryExecutions \/ CleanupUnfilledOrder \/ CancelChildOrder
  <2>1. k' = k /\ pc \in Trading /\ pc' \in Executing \cup {"idle"}
    BY <1>8 DEF ReconcileViaChildOrderLookup, RequeryExecutions, CleanupUnfilledOrder, CancelChildOrder,
                TakeExecutions, Trading, Executing
  <2> QED BY <1>4, <1>5, <2>1
<1>9. CASE ResolveExchangePositionId \/ PlaceProtectiveStopOrder \/ PersistOpenTrade
  <2>1. k' = k /\ pc \in Trading /\ pc' \in Executing \cup {"idle"}
    BY <1>9 DEF ResolveExchangePositionId, PlaceProtectiveStopOrder, PersistOpenTrade, Trading, Executing
  <2> QED BY <1>4, <1>5, <2>1
<1> QED
  BY NextCases, <1>2, <1>3, <1>6, <1>7, <1>8, <1>9, Zenon
     DEF CloseLock, CloseUnlock, CloseSettle, FillOrder, DropOrder, Deactivate, Activate, StartupReconcile

(* The rows of the trades.                                                 *)
RowType ==
  /\ trade \in [Attempts -> {"none", "open", "closing", "closed"}]
  /\ quantity \in [Attempts -> 0..Qty] /\ stopKnown \in [Attempts -> BOOLEAN]
(* What is on the exchange.                                                *)
ExchangeType ==
  /\ unfilled \in [Attempts -> 0..Qty] /\ filled \in [Attempts -> 0..Qty]
  /\ closed \in [Attempts -> 0..Qty] /\ stop \in [Attempts -> 0..Qty]
(* The account, the size of the current attempt and the history.           *)
RestType ==
  /\ mode \in ModeNames /\ active \in BOOLEAN /\ actualQty \in 0..Qty
  /\ excuse \in [Attempts -> {"none", "reported", "partial", "restart"}]
  /\ blind \subseteq Attempts /\ raced \in BOOLEAN
  /\ app \in {"running", "starting"}

(* An entry of a function is replaced.                                     *)
LEMMA EntryType ==
  ASSUME NEW S, NEW T, NEW f \in [S -> T], NEW s, NEW v \in T
  PROVE  [f EXCEPT ![s] = v] \in [S -> T]
  OBVIOUS

(* The rows stay well typed.                                               *)
LEMMA RowStep ==
  ASSUME TypeOK, Next
  PROVE  RowType'
<1> USE DEF rowVars
<1>1. RowType /\ actualQty \in 0..Qty
  BY DEF TypeOK, RowType
<1>2. CASE UNCHANGED rowVars
  BY <1>1, <1>2 DEF RowType
<1>3. CASE PlaceProtectiveStopOrder
  BY <1>1, <1>3, EntryType, ZenonT(60) DEF PlaceProtectiveStopOrder, RowType
<1>4. CASE PersistOpenTrade
  <2>1. /\ trade' = trade \/ trade' = [trade EXCEPT ![k] = "open"]
        /\ quantity' = quantity \/ quantity' = [quantity EXCEPT ![k] = actualQty]
        /\ stopKnown' = stopKnown
    BY <1>4 DEF PersistOpenTrade
  <2>2. trade' \in [Attempts -> {"none", "open", "closing", "closed"}] /\ quantity' \in [Attempts -> 0..Qty]
    BY <1>1, <2>1, EntryType DEF RowType
  <2> QED BY <1>1, <2>1, <2>2, Zenon DEF RowType
<1>5. ASSUME NEW t \in Attempts, CloseLock(t) \/ CloseUnlock(t) \/ CloseSettle(t) PROVE RowType'
  BY <1>1, <1>5, EntryType, Zenon DEF CloseLock, CloseUnlock, CloseSettle, RowType
<1>6. CASE StartupReconcile
  <2>1. \/ trade' = trade
        \/ trade' = [t \in Attempts |-> IF trade[t] = "closing" THEN "open" ELSE trade[t]]
    BY <1>6, Zenon DEF StartupReconcile
  <2>2. trade' \in [Attempts -> {"none", "open", "closing", "closed"}]
    BY <1>1, <2>1 DEF RowType
  <2> QED BY <1>1, <1>6, <2>2, Zenon DEF StartupReconcile, RowType
<1> QED
  BY NextCases, <1>2, <1>3, <1>4, <1>5, <1>6, ZenonT(60)
     DEF Dispatch, ReconfirmActive, AccountHasOpenPosition, PrepareEntry, FillOpenDry, SendChildOrder,
         PollExecutions, ReconcileUnpolledOpen, ReconcileViaChildOrderLookup, RequeryExecutions,
         CleanupUnfilledOrder, CancelChildOrder, ResolveExchangePositionId, FillOrder, DropOrder, Deactivate,
         Activate, Restart

(* So do the sizes on the exchange: an order is filled up to its size.     *)
LEMMA ExchangeTypeStep ==
  ASSUME TypeOK, OrdersInv, Next
  PROVE  ExchangeType'
<1> USE DEF exchVars
<1>1. ExchangeType /\ actualQty \in 0..Qty /\ quantity \in [Attempts -> 0..Qty]
  BY DEF TypeOK, ExchangeType
<1>2. 0 \in 0..Qty /\ Qty \in 0..Qty
  BY Constants
<1>3. CASE UNCHANGED exchVars
  BY <1>1, <1>3 DEF ExchangeType
<1>4. CASE SendChildOrder \/ CancelChildOrder
  <2>1. unfilled' = unfilled \/ unfilled' = [unfilled EXCEPT ![k] = Qty] \/ unfilled' = [unfilled EXCEPT ![k] = 0]
    BY <1>4 DEF SendChildOrder, CancelChildOrder
  <2>2. UNCHANGED <<filled, closed, stop>>
    BY <1>4, ZenonT(60) DEF SendChildOrder, CancelChildOrder
  <2> QED BY <1>1, <1>2, <2>1, <2>2, EntryType DEF ExchangeType
<1>5. CASE PlaceProtectiveStopOrder \/ PersistOpenTrade
  <2>1. stop' = stop \/ stop' = [stop EXCEPT ![k] = actualQty]
    BY <1>5 DEF PlaceProtectiveStopOrder, PersistOpenTrade
  <2>2. filled' = filled \/ filled' = [filled EXCEPT ![k] = actualQty]
    BY <1>5 DEF PlaceProtectiveStopOrder, PersistOpenTrade
  <2>3. UNCHANGED <<unfilled, closed>>
    BY <1>5, Zenon DEF PlaceProtectiveStopOrder, PersistOpenTrade
  <2>4. stop' \in [Attempts -> 0..Qty] /\ filled' \in [Attempts -> 0..Qty]
    BY <1>1, <2>1, <2>2, EntryType DEF ExchangeType
  <2> QED BY <1>1, <2>3, <2>4 DEF ExchangeType
<1>6. ASSUME NEW t \in Attempts, CloseSettle(t) PROVE ExchangeType'
  <2>1. quantity[t] \in 0..Qty
    BY <1>1
  <2> QED BY <1>1, <1>2, <1>6, <2>1, EntryType, Zenon DEF CloseSettle, ExchangeType
<1>7. ASSUME NEW t \in Attempts, FillOrder(t) PROVE ExchangeType'
  <2>1. PICK n \in 1..unfilled[t] :
          /\ unfilled' = [unfilled EXCEPT ![t] = @ - n]
          /\ filled' = [filled EXCEPT ![t] = @ + n]
    BY <1>7 DEF FillOrder
  <2>2. unfilled[t] - n \in 0..Qty /\ filled[t] + n \in 0..Qty
    BY <1>1, Constants DEF OrdersInv, ExchangeType
  <2>3. unfilled' = [unfilled EXCEPT ![t] = unfilled[t] - n] /\ filled' = [filled EXCEPT ![t] = filled[t] + n]
    BY <1>1, <2>1 DEF ExchangeType
  <2> QED BY <1>1, <1>7, <2>2, <2>3, EntryType, Zenon DEF FillOrder, ExchangeType
<1>8. ASSUME NEW t \in Attempts, DropOrder(t) \/ CloseLock(t) \/ CloseUnlock(t) PROVE ExchangeType'
  <2>1. CASE CloseLock(t) \/ CloseUnlock(t)
    BY <1>3, <2>1, Zenon DEF CloseLock, CloseUnlock
  <2>2. CASE DropOrder(t)
    <3>1. unfilled' = [unfilled EXCEPT ![t] = 0] /\ UNCHANGED <<filled, closed, stop>>
      BY <2>2 DEF DropOrder
    <3> QED BY <1>1, <1>2, <3>1 DEF ExchangeType
  <2> QED BY <1>8, <2>1, <2>2
<1> QED
  BY NextCases, <1>3, <1>4, <1>5, <1>6, <1>7, <1>8, ZenonT(60)
     DEF Dispatch, ReconfirmActive, AccountHasOpenPosition, PrepareEntry, FillOpenDry,
         PollExecutions, ReconcileUnpolledOpen, ReconcileViaChildOrderLookup, RequeryExecutions,
         CleanupUnfilledOrder, ResolveExchangePositionId, Deactivate, Activate, Restart, StartupReconcile

(* So does the rest.                                                       *)
LEMMA RestStep ==
  ASSUME TypeOK, RoomInv, Next
  PROVE  RestType'
<1> USE DEF histVars
<1>1. RestType /\ filled \in [Attempts -> 0..Qty] /\ Qty \in Nat \ {0}
  BY Constants DEF TypeOK, RestType
<1>2. CASE UNCHANGED <<mode, active, actualQty, excuse, blind, raced, app>>
  BY <1>1, <1>2, Zenon DEF RestType
<1>3. ASSUME UNCHANGED <<mode, active, blind, raced, app>>,
             actualQty' \in 0..Qty,
             excuse' = excuse \/ Report \/ excuse' = [excuse EXCEPT ![k] = "partial"]
      PROVE  RestType'
  BY <1>1, <1>3, EntryType, Zenon DEF RestType, Report
<1>4. ASSUME TakeExecutions, pc \in Trading
      PROVE  actualQty' \in 0..Qty /\ (excuse' = excuse \/ excuse' = [excuse EXCEPT ![k] = "partial"])
  <2>1. k \in Attempts
    BY <1>4, CurrentAttempt
  <2>2. PICK n \in 1..filled[k] :
          actualQty' = n /\ excuse' = (IF n < Qty THEN [excuse EXCEPT ![k] = "partial"] ELSE excuse)
    BY <1>4 DEF TakeExecutions
  <2>3. filled[k] \in 0..Qty
    BY <1>1, <2>1
  <2> QED BY <1>1, <2>2, <2>3
<1>5. actualQty \in 0..Qty /\ 0 \in 0..Qty /\ Qty \in 0..Qty
  BY <1>1 DEF RestType
<1>6. CASE FillOpenDry \/ SendChildOrder \/ CancelChildOrder \/ CleanupUnfilledOrder
  BY <1>3, <1>5, <1>6, Zenon DEF FillOpenDry, SendChildOrder, CancelChildOrder, CleanupUnfilledOrder
<1>7. CASE PollExecutions \/ ReconcileUnpolledOpen \/ RequeryExecutions
  <2>1. pc \in Trading
    BY <1>7 DEF PollExecutions, ReconcileUnpolledOpen, RequeryExecutions, Trading, Executing
  <2> QED BY <1>3, <1>4, <1>5, <1>7, <2>1, Zenon DEF PollExecutions, ReconcileUnpolledOpen, RequeryExecutions
<1>8. CASE ReconcileViaChildOrderLookup \/ PlaceProtectiveStopOrder \/ PersistOpenTrade
  BY <1>3, <1>5, <1>8, Zenon
     DEF ReconcileViaChildOrderLookup, PlaceProtectiveStopOrder, PersistOpenTrade, HandleOpenPersistFailure
<1>9. CASE AccountHasOpenPosition
  <2>1. UNCHANGED <<mode, active, actualQty, excuse, raced, app>> /\ blind' \in {blind, blind \cup {k + 1}}
    BY <1>9, Zenon DEF AccountHasOpenPosition
  <2>2. k + 1 \in Attempts
    BY <1>9, CurrentAttempt DEF AccountHasOpenPosition, RoomInv
  <2>3. blind' \subseteq Attempts
    BY <1>1, <2>1, <2>2 DEF RestType
  <2> QED BY <1>1, <2>1, <2>3, Zenon DEF RestType
<1>10. CASE PrepareEntry
  <2>1. UNCHANGED <<mode, active, excuse, raced, app>> /\ blind' \subseteq blind /\ actualQty' \in {actualQty, 0}
    BY <1>10 DEF PrepareEntry
  <2> QED BY <1>1, <1>5, <2>1, Zenon DEF RestType
<1>11. CASE Deactivate \/ Activate
  <2>1. UNCHANGED <<mode, actualQty, excuse, blind, app>> /\ active' \in BOOLEAN /\ raced' \in BOOLEAN
    BY <1>1, <1>11, Zenon DEF Deactivate, Activate, RestType
  <2> QED BY <1>1, <2>1, Zenon DEF RestType
<1>12. CASE Restart
  <2>1. excuse' = excuse \/ excuse' = [excuse EXCEPT ![k] = "restart"]
    BY <1>12 DEF Restart
  <2> QED BY <1>1, <1>12, <2>1, EntryType, Zenon DEF Restart, RestType
<1>13. CASE StartupReconcile
  BY <1>1, <1>13, Zenon DEF StartupReconcile, RestType
<1> QED
  BY NextCases, <1>2, <1>6, <1>7, <1>8, <1>9, <1>10, <1>11, <1>12, <1>13, Zenon
     DEF Dispatch, ReconfirmActive, ResolveExchangePositionId, CloseLock, CloseUnlock, CloseSettle, FillOrder,
         DropOrder

(* All of it.                                                              *)
LEMMA TypeStep ==
  ASSUME TypeOK, RoomInv, OrdersInv, Next
  PROVE  TypeOK'
<1>1. PointType' /\ RowType' /\ ExchangeType' /\ RestType' /\ FailsType'
  BY PointStep, RowStep, ExchangeTypeStep, RestStep, FailsStep, FailsCases
<1> QED BY <1>1, Zenon DEF TypeOK, PointType, RowType, ExchangeType, RestType, FailsType
-----------------------------------------------------------------------------
(* The gates.                                                              *)

(* A step that leaves the trades, the account and the attempt alone.       *)
Quiet ==
  /\ UNCHANGED <<trade, active, raced, k, blind>>
  /\ \/ pc' = pc \/ pc' = "idle"
     \/ pc = "idle" /\ active /\ k < MaxAttempts /\ pc' = "confirm"
     \/ pc = "confirm" /\ active /\ pc' = "check"
     \/ pc \in Trading /\ pc' \in Trading

(* A step that takes no trade up again.                                    *)
Closing ==
  /\ UNCHANGED <<active, raced, k, blind, pc>>
  /\ \A t \in Attempts : (trade[t] = "none" => trade'[t] = "none")
                         /\ (trade'[t] \in {"open", "closing"} => trade[t] \in {"open", "closing"})

(* The kinds of step, as far as the gates are concerned.                   *)
LEMMA GateCases ==
  ASSUME TypeOK, Next
  PROVE  \/ Quiet \/ Closing \/ AccountHasOpenPosition \/ PrepareEntry \/ PersistOpenTrade
         \/ Deactivate \/ Activate
<1> USE DEF rowVars, histVars
<1>1. CASE Dispatch \/ ReconfirmActive \/ Restart
  BY <1>1, Zenon DEF Dispatch, ReconfirmActive, AccountStillTradable, Restart, Quiet
<1>2. CASE FillOpenDry \/ SendChildOrder \/ PollExecutions \/ ReconcileUnpolledOpen
  <2>1. UNCHANGED <<trade, active, raced, k, blind>>
    BY <1>2, Zenon DEF FillOpenDry, SendChildOrder, PollExecutions, ReconcileUnpolledOpen
  <2>2. pc \in Trading /\ pc' \in Trading \cup {"idle"}
    BY <1>2 DEF FillOpenDry, SendChildOrder, PollExecutions, ReconcileUnpolledOpen, AfterNoExecutions,
                TakeExecutions, Trading, Executing
  <2> QED BY <2>1, <2>2 DEF Quiet
<1>3. CASE ReconcileViaChildOrderLookup \/ RequeryExecutions \/ CleanupUnfilledOrder \/ CancelChildOrder
  <2>1. UNCHANGED <<trade, active, raced, k, blind>>
    BY <1>3, Zenon DEF ReconcileViaChildOrderLookup, RequeryExecutions, CleanupUnfilledOrder, CancelChildOrder
  <2>2. pc \in Trading /\ pc' \in Trading \cup {"idle"}
    BY <1>3 DEF ReconcileViaChildOrderLookup, RequeryExecutions, CleanupUnfilledOrder, CancelChildOrder,
                TakeExecutions, Trading, Executing
  <2> QED BY <2>1, <2>2 DEF Quiet
<1>4. CASE ResolveExchangePositionId \/ PlaceProtectiveStopOrder
  <2>1. UNCHANGED <<trade, active, raced, k, blind>>
    BY <1>4, Zenon DEF ResolveExchangePositionId, PlaceProtectiveStopOrder
  <2>2. pc \in Trading /\ pc' \in Trading
    BY <1>4 DEF ResolveExchangePositionId, PlaceProtectiveStopOrder, Trading, Executing
  <2> QED BY <2>1, <2>2 DEF Quiet
<1>5. ASSUME NEW u \in Attempts, CloseLock(u) \/ CloseUnlock(u) \/ CloseSettle(u) PROVE Closing
  <2>1. UNCHANGED <<active, raced, k, blind, pc>> /\ trade[u] \in {"open", "closing"}
    BY <1>5 DEF CloseLock, CloseUnlock, CloseSettle
  <2>2. \E x : trade' = [trade EXCEPT ![u] = x]
    BY <1>5, Zenon DEF CloseLock, CloseUnlock, CloseSettle
  <2>3. \A t \in Attempts \ {u} : trade'[t] = trade[t]
    BY <2>2 DEF TypeOK
  <2> QED BY <2>1, <2>3 DEF Closing
<1>6. CASE StartupReconcile
  BY <1>6 DEF StartupReconcile, Closing
<1>7. ASSUME NEW u \in Attempts, FillOrder(u) \/ DropOrder(u) PROVE Quiet
  BY <1>7, Zenon DEF FillOrder, DropOrder, Quiet
<1> QED BY NextCases, <1>1, <1>2, <1>3, <1>4, <1>5, <1>6, <1>7, Zenon

(* Signals find a free attempt; the gates keep their promise.              *)
LEMMA GatesStep ==
  ASSUME TypeOK, RoomInv, FlatInv, BlindInv, SecondTradeIsBlind, CurrentInv,
         \A t \in Attempts : t > k => trade[t] = "none",
         Next
  PROVE  RoomInv' /\ FlatInv' /\ BlindInv' /\ SecondTradeIsBlind'
         /\ \A t \in Attempts : t > k' => trade'[t] = "none"
<1>1. k \in Nat /\ (k > 0 => k \in Attempts) /\ (k < MaxAttempts => k + 1 \in Attempts)
      /\ (pc \in Trading => k > 0) /\ Attempts \subseteq Nat /\ MaxAttempts \in Nat
  BY CurrentAttempt, Constants
<1>2. CASE Quiet
  <2>1. Unclosed' = Unclosed
    BY <1>2 DEF Quiet, Unclosed
  <2>2. UNCHANGED <<trade, active, raced, k, blind>>
    BY <1>2 DEF Quiet
  <2>3. RoomInv'
    BY <1>2 DEF Quiet, RoomInv, Trading, Executing
  <2>4. FlatInv'
    BY <1>2, <2>1 DEF Quiet, FlatInv, Trading, Executing
  <2>5. BlindInv'
    BY <1>2, <2>1 DEF Quiet, BlindInv, Trading, Executing
  <2> QED BY <2>1, <2>2, <2>3, <2>4, <2>5 DEF SecondTradeIsBlind
<1>3. CASE Closing
  <2>1. Unclosed' \subseteq Unclosed
    BY <1>3 DEF Closing, Unclosed
  <2>2. UNCHANGED <<active, raced, k, blind, pc>> /\ \A t \in Attempts : trade[t] = "none" => trade'[t] = "none"
    BY <1>3 DEF Closing
  <2> QED BY <2>1, <2>2 DEF RoomInv, FlatInv, BlindInv, SecondTradeIsBlind
<1>4. CASE AccountHasOpenPosition
  <2>1. UNCHANGED <<trade, active, raced, k>> /\ pc = "check" /\ pc' \in {"idle", "prepare"} /\ blind \subseteq blind'
    BY <1>4 DEF AccountHasOpenPosition, rowVars
  <2>2. Unclosed' = Unclosed
    BY <2>1 DEF Unclosed
  <2>3. pc' = "prepare" /\ Unclosed # {} => k + 1 \in blind'
    <3>1. CASE OpenPositionSeen \/ Unclosed = {} \/ k + 1 \in blind'
      BY <1>4, <3>1 DEF AccountHasOpenPosition
    <3>2. CASE ~OpenPositionSeen /\ Unclosed # {}
      <4>1. {trade[t] : t \in Unclosed} = {"closing"}
        BY <3>2 DEF OpenPositionSeen, Unclosed
      <4> QED BY <1>4, <4>1 DEF AccountHasOpenPosition
    <3> QED BY <3>1, <3>2
  <2> QED BY <2>1, <2>2, <2>3 DEF RoomInv, FlatInv, BlindInv, SecondTradeIsBlind, Trading, Executing
<1>5. CASE PrepareEntry
  <2>1. UNCHANGED <<trade, active, raced>> /\ pc = "prepare" /\ k < MaxAttempts
        /\ \/ pc' = "fill" /\ k' = k + 1 /\ blind' = blind
           \/ pc' = "idle" /\ k' = k /\ blind' = blind \ {k + 1}
    BY <1>5 DEF PrepareEntry, rowVars
  <2>2. Unclosed' = Unclosed /\ \A t \in Unclosed : t <= k /\ t # k + 1
    BY <1>1, <2>1 DEF Unclosed
  <2>3. SecondTradeIsBlind'
    BY <2>1, <2>2 DEF SecondTradeIsBlind
  <2>4. BlindInv'
    BY <2>1, <2>2 DEF BlindInv, Trading, Executing
  <2> QED BY <1>1, <2>1, <2>2, <2>3, <2>4 DEF RoomInv, FlatInv, Executing
<1>6. CASE PersistOpenTrade
  <2>1. UNCHANGED <<active, raced, k, blind>> /\ pc = "persist" /\ pc' = "idle"
        /\ (trade' = trade \/ trade' = [trade EXCEPT ![k] = "open"])
    BY <1>6 DEF PersistOpenTrade
  <2>2. pc \in Trading /\ k \in Attempts
    BY <1>1, <2>1 DEF Trading, Executing
  <2>3. Unclosed' \subseteq Unclosed \cup {k}
    BY <2>1 DEF Unclosed, TypeOK
  <2>4. \A t \in Unclosed : t <= k
    BY <1>1 DEF Unclosed
  <2>5. SecondTradeIsBlind'
    <3> SUFFICES ASSUME NEW a \in Attempts, NEW b \in Attempts, a < b, a \in Unclosed', b \in Unclosed'
                 PROVE  b \in blind'
      BY DEF SecondTradeIsBlind
    <3>1. CASE b # k
      <4>1. a # k
        BY <1>1, <2>2, <2>3, <2>4, <3>1
      <4> QED BY <2>1, <2>3, <3>1, <4>1 DEF SecondTradeIsBlind
    <3>2. CASE b = k
      <4>1. a \in Unclosed /\ a # k
        BY <1>1, <2>3, <3>2
      <4> QED BY <2>1, <2>2, <3>2, <4>1 DEF BlindInv
    <3> QED BY <3>1, <3>2
  <2>6. FlatInv'
    BY <2>1, <2>2 DEF FlatInv, Trading, Executing
  <2>7. \A t \in Attempts : t > k => trade'[t] = "none"
    BY <1>1, <2>1, <2>2 DEF TypeOK
  <2> QED BY <2>1, <2>5, <2>6, <2>7 DEF RoomInv, BlindInv, Trading, Executing
<1>7. CASE Deactivate \/ Activate
  <2>1. UNCHANGED <<trade, k, blind, pc>>
    BY <1>7, Zenon DEF Deactivate, Activate, rowVars, histVars
  <2>2. Unclosed' = Unclosed
    BY <2>1 DEF Unclosed
  <2>3. active' \/ (Unclosed = {} /\ (pc \in Executing => raced'))
    BY <1>7, Zenon DEF Deactivate, Activate, DeactivationGuard
  <2> QED BY <2>1, <2>2, <2>3 DEF RoomInv, FlatInv, BlindInv, SecondTradeIsBlind
<1> QED BY GateCases, <1>2, <1>3, <1>4, <1>5, <1>6, <1>7
-----------------------------------------------------------------------------
(* The exchange and the rows.                                              *)

(* An attempt that begins leaves the others alone.                         *)
Begins ==
  /\ UNCHANGED <<mode, trade, quantity, stopKnown, unfilled, filled, stop, excuse>>
  /\ \/ pc' = "fill" /\ k' = k + 1 /\ pc = "prepare"
     \/ k' = k /\ pc' = pc /\ actualQty' = actualQty
     \/ k' = k /\ pc \notin Trading /\ pc' \notin Trading

(* The exchange, or a step of the executor, acts on one attempt.           *)
ActsOn(t) ==
  \A u \in Attempts \ {t} :
    /\ trade'[u] = trade[u] /\ quantity'[u] = quantity[u] /\ stopKnown'[u] = stopKnown[u]
    /\ unfilled'[u] = unfilled[u] /\ filled'[u] = filled[u] /\ stop'[u] = stop[u] /\ excuse'[u] = excuse[u]

(* What the invariant says of the exchange and the rows.                   *)
OrphanInv == FreshInv /\ OrdersInv /\ OverInv /\ CurrentInv

(* The values of the functions.                                            *)
LEMMA Values ==
  ASSUME TypeOK, NEW t \in Attempts
  PROVE  /\ quantity[t] \in 0..Qty /\ unfilled[t] \in 0..Qty /\ filled[t] \in 0..Qty /\ stop[t] \in 0..Qty
  BY DEF TypeOK

(* A step that acts on the current attempt only: what is left to show.     *)
LEMMA ActsOnCurrent ==
  ASSUME TypeOK, OrphanInv, pc \in Trading, k' = k, mode' = mode, ActsOn(k),
         filled'[k] + unfilled'[k] <= Qty,
         pc' \in Trading => CurrentInv',
         excuse'[k] = "none" /\ pc' \notin Trading => Agrees(k)'
  PROVE  OrphanInv'
<1>1. k \in Attempts /\ k \in Nat /\ Attempts \subseteq Nat
  BY CurrentAttempt, Constants
<1>2. FreshInv'
  BY <1>1 DEF OrphanInv, FreshInv, ActsOn
<1>3. OrdersInv'
  BY <1>1 DEF OrphanInv, OrdersInv, ActsOn
<1>4. OverInv'
  <2> SUFFICES ASSUME NEW t \in Attempts, excuse'[t] = "none", t = k => pc' \notin Trading
               PROVE  Agrees(t)'
    BY DEF OverInv
  <2>1. CASE t = k
    BY <2>1
  <2>2. CASE t # k
    BY <1>1, <2>2 DEF OrphanInv, OverInv, ActsOn, Agrees
  <2> QED BY <2>1, <2>2
<1>5. CurrentInv'
  BY DEF CurrentInv
<1> QED BY <1>2, <1>3, <1>4, <1>5 DEF OrphanInv

(* Steps that begin an attempt, or concern neither exchange nor rows.      *)
LEMMA BeginsStep ==
  ASSUME TypeOK, RoomInv, OrphanInv, \A t \in Attempts : t > k => trade[t] = "none", Begins
  PROVE  OrphanInv'
<1>1. k \in Nat /\ Attempts \subseteq Nat /\ (k < MaxAttempts => k + 1 \in Attempts)
  BY CurrentAttempt, Constants
<1>2. UNCHANGED <<mode, trade, quantity, stopKnown, unfilled, filled, stop, excuse>>
  BY DEF Begins
<1>3. k <= k' /\ k' \in Nat
  BY <1>1 DEF Begins
<1>4. FreshInv' /\ OrdersInv'
  BY <1>1, <1>2, <1>3 DEF OrphanInv, FreshInv, OrdersInv
<1>5. CASE pc' = "fill" /\ k' = k + 1 /\ pc = "prepare"
  <2>1. k' \in Attempts /\ k' > k
    BY <1>1, <1>5 DEF RoomInv
  <2>2. trade[k'] = "none" /\ quantity[k'] = 0 /\ unfilled[k'] = 0 /\ filled[k'] = 0 /\ stop[k'] = 0
    BY <2>1 DEF OrphanInv, FreshInv
  <2>3. CurrentInv'
    BY <1>2, <1>5, <2>1, <2>2 DEF CurrentInv, Live
  <2>4. \A t \in Attempts : excuse[t] = "none" => Agrees(t)
    BY <1>5 DEF OrphanInv, OverInv, Trading
  <2>5. OverInv'
    BY <1>2, <2>4 DEF OverInv, Agrees
  <2> QED BY <1>4, <2>3, <2>5 DEF OrphanInv
<1>6. CASE k' = k /\ pc' = pc /\ actualQty' = actualQty
  BY <1>2, <1>4, <1>6 DEF OrphanInv, OverInv, CurrentInv, Agrees, Live
<1>7. CASE k' = k /\ pc \notin Trading /\ pc' \notin Trading
  BY <1>2, <1>4, <1>7 DEF OrphanInv, OverInv, CurrentInv, Agrees
<1> QED BY <1>5, <1>6, <1>7 DEF Begins

(* A list of executions is taken: an attempt that takes it for the whole   *)
(* without excuse has filled completely.                                   *)
LEMMA TakeStep ==
  ASSUME TypeOK, OrphanInv, pc \in Trading \ {"fill", "persist"}, TakeExecutions,
         UNCHANGED <<mode, k, trade, quantity, stopKnown, unfilled, filled, stop>>
  PROVE  OrphanInv'
<1>1. k \in Attempts /\ Qty \in Nat \ {0}
  BY CurrentAttempt, Constants
<1>2. PICK n \in 1..filled[k] :
        actualQty' = n /\ excuse' = (IF n < Qty THEN [excuse EXCEPT ![k] = "partial"] ELSE excuse)
  BY DEF TakeExecutions
<1>3. pc' = "resolve" /\ ActsOn(k)
  BY <1>1, <1>2 DEF TakeExecutions, ActsOn, TypeOK
<1>4. filled[k] \in 0..Qty
  BY <1>1, Values
<1>5. excuse'[k] = "none" => n = Qty /\ filled[k] = Qty /\ excuse[k] = "none"
  BY <1>1, <1>2, <1>4 DEF TypeOK
<1>6. CurrentInv'
  BY <1>2, <1>3, <1>5 DEF OrphanInv, CurrentInv, Live
<1>7. pc' \in Trading /\ pc \in Trading
  BY <1>3 DEF Trading, Executing
<1>8. filled'[k] + unfilled'[k] <= Qty
  BY <1>1 DEF OrphanInv, OrdersInv
<1> QED BY <1>3, <1>6, <1>7, <1>8, ActsOnCurrent

(* An attempt that ends with an error has reported it.                     *)
LEMMA ReportStep ==
  ASSUME TypeOK, OrphanInv, pc \in Trading, Report, pc' = "idle",
         UNCHANGED <<mode, k, trade, quantity, stopKnown, filled, stop>>,
         ActsOn(k), filled'[k] + unfilled'[k] <= Qty
  PROVE  OrphanInv'
<1>1. k \in Attempts
  BY CurrentAttempt
<1>2. excuse'[k] # "none"
  BY <1>1 DEF Report, TypeOK
<1>3. pc' \notin Trading
  BY DEF Trading, Executing
<1> QED BY <1>2, <1>3, ActsOnCurrent

(* An attempt goes on to another point.                                    *)
LEMMA GoOnStep ==
  ASSUME TypeOK, OrphanInv, pc \in Trading, pc' \in Trading \ {"fill"}, CurrentInv',
         UNCHANGED <<mode, k, trade, quantity, stopKnown, unfilled, filled, stop, excuse>>
  PROVE  OrphanInv'
<1>1. k \in Attempts
  BY CurrentAttempt
<1>2. ActsOn(k) /\ filled'[k] + unfilled'[k] <= Qty
  BY <1>1 DEF ActsOn, OrphanInv, OrdersInv
<1> QED BY <1>2, ActsOnCurrent

(* The executor: from the order to the row.                                *)
LEMMA ExecutorOrphan ==
  ASSUME TypeOK, OrphanInv,
         \/ FillOpenDry \/ SendChildOrder \/ PollExecutions \/ ReconcileUnpolledOpen
         \/ ReconcileViaChildOrderLookup \/ RequeryExecutions \/ CleanupUnfilledOrder \/ CancelChildOrder
         \/ ResolveExchangePositionId \/ PlaceProtectiveStopOrder \/ PersistOpenTrade
  PROVE  OrphanInv'
<1> USE DEF rowVars, exchVars, histVars
<1>1. pc \in Trading
  BY DEF FillOpenDry, SendChildOrder, PollExecutions, ReconcileUnpolledOpen, ReconcileViaChildOrderLookup,
         RequeryExecutions, CleanupUnfilledOrder, CancelChildOrder, ResolveExchangePositionId,
         PlaceProtectiveStopOrder, PersistOpenTrade, Trading, Executing
<1>2. k \in Attempts /\ Qty \in Nat \ {0}
  BY <1>1, CurrentAttempt, Constants
<1>3. /\ trade[k] = "none" /\ quantity[k] = 0 /\ filled[k] + unfilled[k] <= Qty
      /\ filled[k] \in 0..Qty /\ unfilled[k] \in 0..Qty
  BY <1>1, <1>2, Values DEF OrphanInv, CurrentInv, OrdersInv
<1>4. ASSUME Report, pc' = "idle", UNCHANGED <<mode, k, trade, quantity, stopKnown, unfilled, filled, stop>>
      PROVE  OrphanInv'
  <2>1. ActsOn(k)
    BY <1>2, <1>4 DEF ActsOn, Report, TypeOK
  <2> QED BY <1>1, <1>3, <1>4, <2>1, ReportStep
<1>5. CASE FillOpenDry
  <2>1. /\ pc = "fill" /\ ~Live /\ UNCHANGED <<mode, k, trade, quantity, stopKnown, unfilled, filled, stop>>
    BY <1>5 DEF FillOpenDry
  <2>2. CASE actualQty' = Qty /\ pc' = "persist" /\ UNCHANGED excuse
    <3>1. CurrentInv'
      BY <1>1, <2>1, <2>2 DEF OrphanInv, CurrentInv, Live
    <3> QED BY <1>1, <2>1, <2>2, <3>1, GoOnStep DEF Trading, Executing
  <2>3. CASE pc' = "idle" /\ Report
    BY <1>4, <2>1, <2>3
  <2> QED BY <1>5, <2>2, <2>3 DEF FillOpenDry
<1>6. CASE SendChildOrder
  <2>1. /\ pc = "fill" /\ Live /\ UNCHANGED <<mode, k, trade, quantity, stopKnown, filled, stop>>
        /\ unfilled' \in {unfilled, [unfilled EXCEPT ![k] = Qty]}
    BY <1>6 DEF SendChildOrder
  <2>2. filled[k] = 0 /\ stop[k] = 0
    BY <1>1, <2>1 DEF OrphanInv, CurrentInv
  <2>3. unfilled'[k] \in {unfilled[k], Qty} /\ \A u \in Attempts \ {k} : unfilled'[u] = unfilled[u]
    BY <1>2, <2>1 DEF TypeOK
  <2>4. filled'[k] + unfilled'[k] <= Qty
    BY <1>2, <1>3, <2>1, <2>2, <2>3
  <2>5. CASE pc' = "poll" /\ UNCHANGED excuse
    <3>1. CurrentInv'
      BY <1>1, <1>2, <2>1, <2>2, <2>5 DEF OrphanInv, CurrentInv, Live
    <3>2. ActsOn(k) /\ pc' \in Trading
      BY <2>1, <2>3, <2>5 DEF ActsOn, Trading, Executing
    <3> QED BY <1>1, <2>1, <2>4, <3>1, <3>2, ActsOnCurrent
  <2>6. CASE pc' = "idle" /\ Report
    <3>1. ActsOn(k)
      BY <1>2, <2>1, <2>3, <2>6 DEF ActsOn, Report, TypeOK
    <3> QED BY <1>1, <2>1, <2>4, <2>6, <3>1, ReportStep
  <2> QED BY <1>6, <2>5, <2>6 DEF SendChildOrder
<1>7. CASE PollExecutions \/ ReconcileUnpolledOpen \/ RequeryExecutions
  <2>1. /\ pc \in {"poll", "reconcile", "requery"}
        /\ UNCHANGED <<mode, k, trade, quantity, stopKnown, unfilled, filled, stop>>
    BY <1>7, Zenon DEF PollExecutions, ReconcileUnpolledOpen, RequeryExecutions
  <2>2. CASE TakeExecutions
    BY <1>1, <2>1, <2>2, TakeStep DEF Trading, Executing
  <2>3. CASE pc' \in {"reconcile", "lookup", "cleanup"} /\ UNCHANGED <<actualQty, excuse>>
    <3>1. CurrentInv'
      BY <1>1, <2>1, <2>3 DEF OrphanInv, CurrentInv, Live
    <3> QED BY <1>1, <2>1, <2>3, <3>1, GoOnStep DEF Trading, Executing
  <2>4. CASE pc = "requery" /\ actualQty' = Qty /\ pc' = "resolve" /\ UNCHANGED excuse
    <3>1. CurrentInv'
      BY <1>1, <2>1, <2>4 DEF OrphanInv, CurrentInv, Live
    <3> QED BY <1>1, <2>1, <2>4, <3>1, GoOnStep DEF Trading, Executing
  <2>5. CASE pc' = "idle" /\ Report
    BY <1>4, <2>1, <2>5
  <2> QED
    BY <1>7, <2>2, <2>3, <2>4, <2>5 DEF PollExecutions, ReconcileUnpolledOpen, RequeryExecutions, AfterNoExecutions
<1>8. CASE ReconcileViaChildOrderLookup \/ CleanupUnfilledOrder
  <2>1. /\ pc \in {"lookup", "cleanup"}
        /\ UNCHANGED <<mode, k, actualQty, trade, quantity, stopKnown, unfilled, filled, stop>>
    BY <1>8, Zenon DEF ReconcileViaChildOrderLookup, CleanupUnfilledOrder
  <2>2. CASE pc' = "idle" /\ Report
    BY <1>4, <2>1, <2>2
  <2>3. CASE pc' \in {"cleanup", "cancel"} /\ UNCHANGED excuse
    <3>1. CurrentInv'
      BY <1>1, <2>1, <2>3 DEF OrphanInv, CurrentInv, Live
    <3> QED BY <1>1, <2>1, <2>3, <3>1, GoOnStep DEF Trading, Executing
  <2>4. CASE OrderState = "Completed" /\ pc' = "requery" /\ UNCHANGED excuse
    <3>1. filled[k] = Qty
      BY <2>4 DEF OrderState
    <3>2. CurrentInv'
      BY <1>1, <2>1, <2>4, <3>1 DEF OrphanInv, CurrentInv, Live
    <3> QED BY <1>1, <2>1, <2>4, <3>2, GoOnStep DEF Trading, Executing
  <2> QED BY <1>8, <2>2, <2>3, <2>4 DEF ReconcileViaChildOrderLookup, CleanupUnfilledOrder
<1>9. CASE CancelChildOrder
  <2>1. /\ pc' = "idle" /\ Report /\ UNCHANGED <<mode, k, trade, quantity, stopKnown, filled, stop>>
        /\ unfilled' \in {unfilled, [unfilled EXCEPT ![k] = 0]}
    BY <1>9 DEF CancelChildOrder
  <2>2. unfilled'[k] \in {unfilled[k], 0} /\ \A u \in Attempts \ {k} : unfilled'[u] = unfilled[u]
    BY <1>2, <2>1 DEF TypeOK
  <2>3. filled'[k] + unfilled'[k] <= Qty
    BY <1>2, <1>3, <2>1, <2>2
  <2>4. ActsOn(k)
    BY <1>2, <2>1, <2>2 DEF ActsOn, Report, TypeOK
  <2> QED BY <1>1, <2>1, <2>3, <2>4, ReportStep
<1>10. CASE ResolveExchangePositionId
  <2>1. /\ pc = "resolve" /\ pc' \in {"stop", "persist"}
        /\ UNCHANGED <<mode, k, actualQty, trade, quantity, stopKnown, unfilled, filled, stop, excuse>>
    BY <1>10, Zenon DEF ResolveExchangePositionId
  <2>2. CurrentInv'
    BY <1>1, <2>1 DEF OrphanInv, CurrentInv, Live
  <2> QED BY <1>1, <2>1, <2>2, GoOnStep DEF Trading, Executing
<1>11. CASE PlaceProtectiveStopOrder
  <2>1. /\ pc = "stop" /\ pc' = "persist"
        /\ UNCHANGED <<mode, k, actualQty, trade, quantity, unfilled, filled>>
        /\ \/ stopKnown' = [stopKnown EXCEPT ![k] = TRUE] /\ UNCHANGED excuse
           \/ UNCHANGED stopKnown /\ Report
        /\ stop' \in {stop, [stop EXCEPT ![k] = actualQty]}
    BY <1>11 DEF PlaceProtectiveStopOrder
  <2>2. \A u \in Attempts \ {k} : stop'[u] = stop[u] /\ stopKnown'[u] = stopKnown[u] /\ excuse'[u] = excuse[u]
    BY <1>2, <2>1 DEF TypeOK, Report
  <2>3. (excuse'[k] = excuse[k] /\ stopKnown'[k]) \/ excuse'[k] # "none"
    BY <1>2, <2>1 DEF TypeOK, Report
  <2>4. ActsOn(k) /\ pc' \in Trading
    BY <2>1, <2>2 DEF ActsOn, Trading, Executing
  <2>5. CurrentInv'
    BY <1>1, <2>1, <2>3 DEF OrphanInv, CurrentInv, Live
  <2> QED BY <1>1, <1>3, <2>1, <2>4, <2>5, ActsOnCurrent
<1>12. CASE PersistOpenTrade
  <2>1. /\ pc = "persist" /\ pc' = "idle" /\ UNCHANGED <<mode, k, actualQty, stopKnown, unfilled, stop>>
    BY <1>12 DEF PersistOpenTrade
  <2>2. CASE /\ trade' = [trade EXCEPT ![k] = "open"] /\ quantity' = [quantity EXCEPT ![k] = actualQty]
             /\ filled' = (IF Live THEN filled ELSE [filled EXCEPT ![k] = actualQty]) /\ UNCHANGED excuse
    <3>1. trade'[k] = "open" /\ quantity'[k] = actualQty /\ ActsOn(k)
      BY <1>2, <2>1, <2>2 DEF ActsOn, TypeOK
    <3>2. filled'[k] = (IF Live THEN filled[k] ELSE actualQty)
      BY <1>2, <2>2 DEF TypeOK
    <3>3. actualQty \in 0..Qty /\ (~Live => unfilled[k] = 0)
      BY <1>1 DEF TypeOK, OrphanInv, CurrentInv
    <3>4. filled'[k] + unfilled'[k] <= Qty
      BY <1>2, <1>3, <2>1, <3>2, <3>3
    <3>5. excuse[k] = "none" => actualQty = Qty /\ filled'[k] = Qty /\ (stop[k] > 0 => stopKnown[k])
      BY <1>1, <2>1, <3>2 DEF OrphanInv, CurrentInv
    <3>6. excuse'[k] = "none" => Agrees(k)'
      BY <1>2, <1>3, <2>1, <2>2, <3>1, <3>4, <3>5 DEF Agrees
    <3>7. pc' \notin Trading
      BY <2>1 DEF Trading, Executing
    <3> QED BY <1>1, <2>1, <3>1, <3>4, <3>6, <3>7, ActsOnCurrent
  <2>3. CASE Report /\ UNCHANGED <<trade, quantity, filled>>
    BY <1>4, <2>1, <2>3
  <2> QED BY <1>12, <2>2, <2>3, Zenon DEF PersistOpenTrade, HandleOpenPersistFailure
<1> QED BY <1>5, <1>6, <1>7, <1>8, <1>9, <1>10, <1>11, <1>12

(* An order that is still working belongs to the attempt at work, or to one*)
(* that has an excuse, and the attempt at work does not know its size yet. *)
LEMMA WorkingOrder ==
  ASSUME TypeOK, OrphanInv, NEW t \in Attempts, unfilled[t] > 0
  PROVE  /\ ~(t > k)
         /\ excuse[t] = "none" => t = k /\ pc \in Trading
         /\ t = k /\ pc \in Trading =>
              /\ Live /\ pc # "fill" /\ pc # "requery"
              /\ pc \in {"resolve", "stop", "persist"} => excuse[k] # "none"
<1>1. unfilled[t] \in 0..Qty /\ filled[t] \in 0..Qty /\ filled[t] + unfilled[t] <= Qty /\ Qty \in Nat
  BY Values, Constants DEF OrphanInv, OrdersInv
<1>2. unfilled[t] # 0 /\ filled[t] # Qty
  BY <1>1
<1>3. ~(t > k)
  BY <1>2 DEF OrphanInv, FreshInv
<1>4. excuse[t] = "none" => t = k /\ pc \in Trading
  BY <1>2 DEF OrphanInv, OverInv, Agrees
<1>5. ASSUME t = k, pc \in Trading
      PROVE  /\ Live /\ pc # "fill" /\ pc # "requery"
             /\ pc \in {"resolve", "stop", "persist"} => excuse[k] # "none"
  BY <1>2, <1>5 DEF OrphanInv, CurrentInv
<1> QED BY <1>3, <1>4, <1>5

(* The exchange fills or drops an order.                                   *)
LEMMA ExchangeOrphan ==
  ASSUME TypeOK, OrphanInv, NEW t \in Attempts, FillOrder(t) \/ DropOrder(t)
  PROVE  OrphanInv'
<1> USE DEF rowVars, exchVars, histVars
<1>1. UNCHANGED <<mode, pc, k, actualQty, trade, quantity, stopKnown, stop, excuse>>
  BY Zenon DEF FillOrder, DropOrder
<1>2. unfilled[t] \in 0..Qty /\ filled[t] \in 0..Qty /\ filled[t] + unfilled[t] <= Qty /\ Qty \in Nat
  BY Values, Constants DEF OrphanInv, OrdersInv
<1>3. /\ \A u \in Attempts \ {t} : unfilled'[u] = unfilled[u] /\ filled'[u] = filled[u]
      /\ filled'[t] + unfilled'[t] <= Qty /\ unfilled[t] > 0
  <2>1. CASE FillOrder(t)
    <3>1. PICK n \in 1..unfilled[t] :
            unfilled' = [unfilled EXCEPT ![t] = @ - n] /\ filled' = [filled EXCEPT ![t] = @ + n]
      BY <2>1 DEF FillOrder
    <3>2. unfilled'[t] = unfilled[t] - n /\ filled'[t] = filled[t] + n
          /\ \A u \in Attempts \ {t} : unfilled'[u] = unfilled[u] /\ filled'[u] = filled[u]
      BY <3>1 DEF TypeOK
    <3> QED BY <1>2, <3>2
  <2>2. CASE DropOrder(t)
    <3>1. unfilled'[t] = 0 /\ filled' = filled /\ unfilled[t] > 0 /\ \A u \in Attempts \ {t} : unfilled'[u] = unfilled[u]
      BY <2>2 DEF DropOrder, TypeOK
    <3> QED BY <1>2, <3>1
  <2> QED BY <2>1, <2>2
<1>4. /\ ~(t > k)
      /\ excuse[t] = "none" => t = k /\ pc \in Trading
      /\ t = k /\ pc \in Trading =>
           /\ Live /\ pc # "fill" /\ pc # "requery"
           /\ pc \in {"resolve", "stop", "persist"} => excuse[k] # "none"
  BY <1>3, WorkingOrder
<1>5. FreshInv' /\ OrdersInv'
  BY <1>1, <1>3, <1>4 DEF OrphanInv, FreshInv, OrdersInv
<1>6. OverInv'
  BY <1>1, <1>3, <1>4 DEF OrphanInv, OverInv, Agrees
<1>7. CurrentInv'
  <2>1. CASE t = k /\ pc \in Trading
    BY <1>1, <1>4, <2>1 DEF OrphanInv, CurrentInv, Live
  <2>2. CASE t # k /\ pc \in Trading
    <3>1. unfilled'[k] = unfilled[k] /\ filled'[k] = filled[k]
      BY <1>3, <2>2, CurrentAttempt
    <3> QED BY <1>1, <2>2, <3>1 DEF OrphanInv, CurrentInv, Live
  <2>3. CASE pc \notin Trading
    BY <1>1, <2>3 DEF CurrentInv
  <2> QED BY <2>1, <2>2, <2>3
<1> QED BY <1>5, <1>6, <1>7 DEF OrphanInv

(* The closers and the reconciliation at startup: rows that exist.         *)
LEMMA CloserOrphan ==
  ASSUME TypeOK, OrphanInv,
         UNCHANGED <<mode, pc, k, actualQty, quantity, stopKnown, unfilled, filled, excuse>>,
         \A u \in Attempts : trade'[u] = "none" <=> trade[u] = "none",
         \A u \in Attempts : stop'[u] = stop[u] \/ (stop'[u] = 0 /\ trade[u] # "none")
  PROVE  OrphanInv'
<1>1. FreshInv' /\ OrdersInv'
  BY DEF OrphanInv, FreshInv, OrdersInv
<1>2. OverInv'
  BY DEF OrphanInv, OverInv, Agrees
<1>3. CurrentInv'
  BY DEF OrphanInv, CurrentInv, Live
<1> QED BY <1>1, <1>2, <1>3 DEF OrphanInv

(* Every step keeps the exchange and the rows in agreement.                *)
LEMMA OrphanStep ==
  ASSUME TypeOK, RoomInv, OrphanInv, Next
  PROVE  OrphanInv'
<1> USE DEF rowVars, exchVars, histVars
<1>1. \A t \in Attempts : t > k => trade[t] = "none"
  BY DEF OrphanInv, FreshInv
<1>2. CASE Begins
  BY <1>1, <1>2, BeginsStep
<1>3. CASE Dispatch \/ ReconfirmActive \/ AccountHasOpenPosition
  <2>1. /\ UNCHANGED <<mode, k, trade, quantity, stopKnown, unfilled, filled, stop, excuse>>
        /\ pc \in {"idle", "confirm", "check"} /\ pc' \in {"idle", "confirm", "check", "prepare"}
    BY <1>3 DEF Dispatch, ReconfirmActive, AccountHasOpenPosition
  <2> QED BY <1>2, <2>1 DEF Begins, Trading, Executing
<1>4. CASE PrepareEntry
  <2>1. UNCHANGED <<mode, trade, quantity, stopKnown, unfilled, filled, stop, excuse>>
    BY <1>4, Zenon DEF PrepareEntry
  <2>2. pc = "prepare" /\ ((pc' = "fill" /\ k' = k + 1) \/ (pc' = "idle" /\ k' = k))
    BY <1>4, Zenon DEF PrepareEntry
  <2> QED BY <1>2, <2>1, <2>2 DEF Begins, Trading, Executing
<1>5. CASE Deactivate \/ Activate
  BY <1>2, <1>5, Zenon DEF Deactivate, Activate, Begins
<1>6. ASSUME NEW t \in Attempts, CloseLock(t) \/ CloseUnlock(t) \/ CloseSettle(t) PROVE OrphanInv'
  <2>1. /\ UNCHANGED <<mode, pc, k, actualQty, quantity, stopKnown, unfilled, filled, excuse>>
        /\ trade[t] \in {"open", "closing"}
        /\ \E x \in {"open", "closing", "closed"} : trade' = [trade EXCEPT ![t] = x]
        /\ stop' \in {stop, [stop EXCEPT ![t] = 0]}
    BY <1>6 DEF CloseLock, CloseUnlock, CloseSettle
  <2>2. \A u \in Attempts : trade'[u] = "none" <=> trade[u] = "none"
    BY <2>1 DEF TypeOK
  <2>3. \A u \in Attempts : stop'[u] = stop[u] \/ (stop'[u] = 0 /\ trade[u] # "none")
    BY <2>1 DEF TypeOK
  <2> QED BY <2>1, <2>2, <2>3, CloserOrphan
<1>7. CASE StartupReconcile
  <2>1. /\ UNCHANGED <<mode, pc, k, actualQty, quantity, stopKnown, unfilled, filled, excuse, stop>>
        /\ \/ trade' = trade
           \/ trade' = [t \in Attempts |-> IF trade[t] = "closing" THEN "open" ELSE trade[t]]
    BY <1>7, Zenon DEF StartupReconcile
  <2>2. \A u \in Attempts : trade'[u] = "none" <=> trade[u] = "none"
    BY <2>1
  <2> QED BY <2>1, <2>2, CloserOrphan
<1>8. CASE Restart
  <2>1. /\ UNCHANGED <<mode, k, trade, quantity, stopKnown, unfilled, filled, stop>> /\ pc' = "idle"
        /\ excuse' = (IF pc \in Trading /\ excuse[k] = "none" THEN [excuse EXCEPT ![k] = "restart"] ELSE excuse)
    BY <1>8 DEF Restart, Trading
  <2>2. pc' \notin Trading
    BY <2>1 DEF Trading, Executing
  <2>3. CASE pc \in Trading
    <3>1. k \in Attempts
      BY <2>3, CurrentAttempt
    <3>2. ActsOn(k) /\ excuse'[k] # "none"
      BY <2>1, <2>3, <3>1 DEF ActsOn, TypeOK
    <3>3. filled'[k] + unfilled'[k] <= Qty
      BY <2>1, <3>1 DEF OrphanInv, OrdersInv
    <3> QED BY <2>1, <2>2, <2>3, <3>2, <3>3, ActsOnCurrent
  <2>4. CASE pc \notin Trading
    BY <1>2, <2>1, <2>2, <2>4 DEF Begins
  <2> QED BY <2>3, <2>4
<1> QED BY NextCases, ExecutorOrphan, ExchangeOrphan, <1>3, <1>4, <1>5, <1>6, <1>7, <1>8
-----------------------------------------------------------------------------
(* Nothing has happened in the beginning.                                  *)
LEMMA OpenInvInit == Init => OpenInv
<1> SUFFICES ASSUME Init PROVE OpenInv
  OBVIOUS
<1>1. Qty \in Nat \ {0} /\ MaxAttempts \in Nat \ {0} /\ \A f \in DOMAIN Limit : Limit[f] \in Nat
  BY Constants
<1>2. FailsType
  BY <1>1 DEF Init, FailsType
<1>3. RowType /\ ExchangeType /\ PointType
  BY <1>1 DEF Init, RowType, ExchangeType, PointType, Executing
<1>4. RestType
  <2>1. mode \in ModeNames /\ actualQty \in 0..Qty /\ app \in {"running", "starting"}
    BY <1>1, OpenAssumption DEF OpenAssumption, Init
  <2>2. excuse \in [Attempts -> {"none", "reported", "partial", "restart"}] /\ blind \subseteq Attempts
    BY DEF Init
  <2>3. active \in BOOLEAN /\ raced \in BOOLEAN
    BY DEF Init
  <2> QED BY <2>1, <2>2, <2>3 DEF RestType
<1>5. TypeOK
  BY <1>2, <1>3, <1>4, Zenon DEF TypeOK, PointType, RowType, ExchangeType, RestType, FailsType
<1>6. /\ pc = "idle" /\ k = 0 /\ active = TRUE
      /\ \A t \in Attempts : /\ trade[t] = "none" /\ quantity[t] = 0 /\ unfilled[t] = 0 /\ filled[t] = 0
                             /\ stop[t] = 0 /\ excuse[t] = "none"
  BY DEF Init
<1>7. FreshInv /\ OrdersInv /\ OverInv
  BY <1>1, <1>6 DEF FreshInv, OrdersInv, OverInv, Agrees
<1>8. RoomInv /\ FlatInv /\ BlindInv /\ CurrentInv
  BY <1>6 DEF RoomInv, FlatInv, BlindInv, CurrentInv, Trading, Executing
<1>9. SecondTradeIsBlind
  BY <1>6 DEF SecondTradeIsBlind, Unclosed
<1> QED BY <1>5, <1>7, <1>8, <1>9 DEF OpenInv

(* Every step keeps the invariant.                                         *)
LEMMA OpenInvStep == OpenInv /\ [Next]_vars => OpenInv'
<1>1. ASSUME OpenInv, Next PROVE OpenInv'
  <2>1. \A t \in Attempts : t > k => trade[t] = "none"
    BY <1>1 DEF OpenInv, FreshInv
  <2>2. TypeOK'
    BY <1>1, TypeStep DEF OpenInv
  <2>3. RoomInv' /\ FlatInv' /\ BlindInv' /\ SecondTradeIsBlind'
    BY <1>1, <2>1, GatesStep DEF OpenInv
  <2>4. OrphanInv'
    BY <1>1, OrphanStep DEF OpenInv, OrphanInv
  <2> QED BY <2>2, <2>3, <2>4 DEF OpenInv, OrphanInv
<1>2. ASSUME OpenInv, UNCHANGED vars PROVE OpenInv'
  <2>1. UNCHANGED <<mode, active, pc, k, actualQty, trade, quantity, unfilled, filled, closed,
                    stop, stopKnown, excuse, blind, raced, fails, app>>
    BY <1>2 DEF vars
  <2>2. TypeOK'
    BY <1>2, <2>1, Zenon DEF OpenInv, TypeOK
  <2>3. Unclosed' = Unclosed
    BY <2>1 DEF Unclosed
  <2>4. RoomInv' /\ FlatInv' /\ BlindInv' /\ SecondTradeIsBlind'
    BY <1>2, <2>1, <2>3, Zenon DEF OpenInv, RoomInv, FlatInv, BlindInv, SecondTradeIsBlind
  <2>5. FreshInv' /\ OrdersInv' /\ OverInv' /\ CurrentInv'
    BY <1>2, <2>1, Zenon DEF OpenInv, FreshInv, OrdersInv, OverInv, CurrentInv, Agrees, Live
  <2> QED BY <2>2, <2>4, <2>5 DEF OpenInv
<1> QED BY <1>1, <1>2

(* The rows, the orders on the exchange and the points of the executor are *)
(* of their types: no order is filled beyond its size.                     *)
THEOREM OpenTypeCorrect == Spec => []TypeOK
<1>1. OpenInv => TypeOK
  BY DEF OpenInv
<1> QED BY <1>1, OpenInvInit, OpenInvStep, PTL DEF Spec

(* While no attempt is under way, a position or a stop that no row accounts*)
(* for has a reason on record, whichever calls fail with or without effect,*)
(* however late the exchange fills an order, and wherever the process dies.*)
THEOREM NoOrphanCorrect == Spec => []NoSilentOrphan
<1>1. OpenInv => NoSilentOrphan
  BY DEF OpenInv, OverInv, Agrees, NoSilentOrphan, Trading
<1> QED BY <1>1, OpenInvInit, OpenInvStep, PTL DEF Spec

(* A second trade of the account is opened only blindly, and an account    *)
(* that was switched off while no execution was under way has no trade,    *)
(* although process_signal looks at the account well before it writes.     *)
THEOREM EntriesCorrect == Spec => []EntriesRespectAccount
<1>1. OpenInv => EntriesRespectAccount
  BY DEF OpenInv, FlatInv, EntriesRespectAccount, InactiveIsFlat
<1> QED BY <1>1, OpenInvInit, OpenInvStep, PTL DEF Spec

-----------------------------------------------------------------------------
(* The clients of the exchanges.                                           *)

OrderStates == {"unlisted", "waiting", "working", "completed", "canceled"}

\* An order is completed when its whole size is traded, and the list of
\* executions never shows more than was traded.
ExchangeInv ==
  /\ client \in ClientNames /\ order \in OrderStates
  /\ fills \in 0..Size /\ listed \in 0..fills
  /\ order \in {"unlisted", "waiting"} => fills = 0
  /\ order = "completed" <=> fills = Size
  /\ skew \in Int /\ shown \subseteq positions
  /\ \A p \in positions : /\ p.id \in {"own", "other"} /\ p.at \in Int
                          /\ p.id = "own" => p.side = "BUY" /\ p.at \in {0, 1}
  /\ \A p, q \in positions : p.id = "other" /\ q.id = "other" => p = q

\* The call has seen the present state of the order, and none with more fills.
PastInv ==
  /\ \A p \in past : p.fills \in 0..Size /\ p.fills <= fills
  /\ query # "none" => \E p \in past : p.order = order /\ p.fills = fills

\* The calls that send each request, and what they know when they send it.
CallInv ==
  /\ tries \in Nat /\ requestFails \in Nat /\ counted \in Nat
  /\ query = "none" => request = "none"
  /\ query # "none" => answer = NoAnswer
  /\ request = "getparentorder" => query = "stop_order_status"
  /\ request = "children" =>
       /\ query = "stop_order_status" /\ order # "unlisted"
       /\ parent \in {"Completed", "missing"}
       /\ parent = "Completed" => \E p \in past : p.fills = Size
  /\ request = "executions" =>
       /\ query = "get_executions" => client # "oanda"
       /\ query = "stop_order_status" =>
            \E p \in past : p.fills = Size \/ (parent = "missing" /\ p.fills > 0)
  /\ request = "order" => query = "get_executions" /\ client = "oanda" /\ counted = 0
  /\ request = "transaction" =>
       query = "get_executions" /\ client = "oanda" /\ order = "completed" /\ counted < fills
  /\ request = "openPositions" => query = "resolve_position_id"

ClientInv == ExchangeInv /\ PastInv /\ CallInv /\ ClientAnswersTrue

(* The first request of every call.                                        *)
LEMMA FirstRequestIs ==
  ASSUME NEW c \in ClientNames, NEW q \in DOMAIN FirstRequest[c]
  PROVE  \/ q = "stop_order_status" /\ FirstRequest[c][q] \in {"getparentorder", "orders"}
         \/ q = "get_executions" /\ FirstRequest[c][q] = "executions" /\ c # "oanda"
         \/ q = "get_executions" /\ FirstRequest[c][q] = "order" /\ c = "oanda"
         \/ q = "get_child_orders" /\ FirstRequest[c][q] = "orders"
         \/ q = "resolve_position_id" /\ FirstRequest[c][q] = "openPositions"
<1>1. CASE c = "bitflyer"
  BY <1>1 DEF FirstRequest
<1>2. CASE c = "gmo"
  BY <1>2 DEF FirstRequest
<1>3. CASE c = "oanda"
  BY <1>3 DEF FirstRequest
<1> QED BY <1>1, <1>2, <1>3 DEF ClientNames

(* The first state satisfies the invariant.                                *)
LEMMA ClientInitInv == ClientInit => ClientInv
<1> SUFFICES ASSUME ClientInit PROVE ClientInv
  OBVIOUS
<1>1. ExchangeInv
  <2>1. /\ client \in ClientNames /\ order \in OrderStates /\ fills \in 0..Size /\ listed \in 0..fills
        /\ order # "completed" /\ fills # Size /\ fills = 0
    BY ClientAssumption DEF ClientInit, OrderStates
  <2>2. skew \in Int
    <3>1. CASE client = "gmo"
      <4>1. skew \in Skews
        BY <3>1 DEF ClientInit
      <4> QED BY <4>1, ClientAssumption
    <3>2. CASE client # "gmo"
      BY <3>2 DEF ClientInit
    <3> QED BY <3>1, <3>2
  <2>3. shown \subseteq positions
    BY DEF ClientInit
  <2>4. CASE client # "gmo"
    BY <2>1, <2>2, <2>3, <2>4 DEF ClientInit, ExchangeInv
  <2>5. CASE client = "gmo"
    <3>1. PICK o \in Own, f \in Foreign : positions = {o, f}
      BY <2>5 DEF ClientInit
    <3>2. o.id = "own" /\ o.side = "BUY" /\ o.at \in {0, 1}
      BY DEF Own
    <3>3. f.id = "other" /\ f.at \in Int
      BY ClientAssumption DEF Foreign
    <3> QED BY <2>1, <2>2, <2>3, <3>1, <3>2, <3>3 DEF ExchangeInv
  <2> QED BY <2>4, <2>5
<1>2. PastInv /\ CallInv
  BY DEF ClientInit, PastInv, CallInv
<1>3. ClientAnswersTrue
  BY DEF ClientInit, NoAnswer, ClientAnswersTrue, StopAnswerTrue, ExecutionsTrue, ResolvedIsOwn
<1> QED BY <1>1, <1>2, <1>3 DEF ClientInv

-----------------------------------------------------------------------------
(* The exchange.                                                           *)

(* The order moves on in a way that exchanges allow.                       *)
LEMMA OrderMovesOn ==
  ASSUME ExchangeInv, ListOrder \/ TriggerOrder \/ FillSome \/ CancelOrder
  PROVE  \E o \in OrderStates, n \in 0..Size :
           /\ OrderMoves(o, n) /\ fills <= n
           /\ o \in {"unlisted", "waiting"} => n = 0
           /\ o = "completed" <=> n = Size
           /\ o # "unlisted" /\ order # "completed"
<1>0. Size \in Nat \ {0} /\ fills \in Nat
  BY ClientAssumption DEF ExchangeInv
<1>1. CASE ListOrder
  <2>1. OrderMoves("waiting", 0) /\ order = "unlisted" /\ fills = 0
    BY <1>1 DEF ListOrder, ExchangeInv
  <2> QED BY <1>0, <2>1 DEF OrderStates
<1>2. CASE TriggerOrder
  <2>1. OrderMoves("working", 0) /\ order = "waiting" /\ fills = 0
    BY <1>2 DEF TriggerOrder, ExchangeInv
  <2> QED BY <1>0, <2>1 DEF OrderStates
<1>3. CASE FillSome
  <2>1. PICK n \in 1..(Size - fills) : OrderMoves(IF fills + n = Size THEN "completed" ELSE "working", fills + n)
    BY <1>3 DEF FillSome
  <2>2. fills + n \in 0..Size /\ fills <= fills + n /\ order = "working"
    BY <1>0, <1>3 DEF FillSome
  <2>3. CASE fills + n = Size
    BY <2>1, <2>2, <2>3 DEF OrderStates
  <2>4. CASE fills + n # Size
    BY <2>1, <2>2, <2>4 DEF OrderStates
  <2> QED BY <2>3, <2>4
<1>4. CASE CancelOrder
  <2>1. OrderMoves("canceled", fills) /\ order \in {"waiting", "working"} /\ fills # Size /\ fills \in 0..Size
    BY <1>4 DEF CancelOrder, Alive, ExchangeInv
  <2> QED BY <1>0, <2>1 DEF OrderStates
<1> QED BY <1>1, <1>2, <1>3, <1>4

\* The call under way and its answers are left alone but for what is past.
CallStays ==
  /\ UNCHANGED <<client, skew, positions, query, request, parent, counted, tries, requestFails, answer>>
  /\ past \subseteq past' /\ (query = "none" => past' = past)
  /\ shown \subseteq shown' /\ (query = "none" => shown' = shown)
  /\ order # "unlisted" => order' # "unlisted"
  /\ order = "completed" => order' = "completed" /\ fills' = fills

(* What the exchange does by itself changes no answer that was given.      *)
LEMMA AnswerStays ==
  ASSUME CallInv, ClientAnswersTrue, CallStays
  PROVE  ClientAnswersTrue'
<1>1. CASE answer = NoAnswer
  BY <1>1 DEF NoAnswer, CallStays, ClientAnswersTrue, StopAnswerTrue, ExecutionsTrue, ResolvedIsOwn
<1>2. CASE query = "none"
  BY <1>2 DEF CallStays, ClientAnswersTrue, StopAnswerTrue, ExecutionsTrue, ResolvedIsOwn
<1> QED BY <1>1, <1>2 DEF CallInv

(* The exchange keeps the invariant whatever it does during a call.        *)
LEMMA ExchangeKeeps ==
  ASSUME ClientInv, ExchangeStep
  PROVE  ClientInv'
<1>0. Size \in Nat \ {0} /\ fills \in Nat /\ ExchangeInv /\ PastInv /\ CallInv /\ ClientAnswersTrue
  BY ClientAssumption DEF ClientInv, ExchangeInv
<1>1. ASSUME NEW o \in OrderStates, NEW n \in 0..Size, OrderMoves(o, n), fills <= n,
             o \in {"unlisted", "waiting"} => n = 0, o = "completed" <=> n = Size,
             o # "unlisted", order # "completed"
      PROVE  ClientInv'
  <2>1. /\ order' = o /\ fills' = n
        /\ past' = (IF query = "none" THEN past ELSE past \cup {[order |-> o, fills |-> n]})
        /\ UNCHANGED <<client, listed, skew, positions, shown, query, request, parent, counted, tries,
                       requestFails, answer>>
    BY <1>1 DEF OrderMoves, positionVars
  <2>2. ExchangeInv'
    BY <1>0, <1>1, <2>1 DEF ExchangeInv
  <2>3. PastInv'
    <3>1. CASE query = "none"
      BY <1>0, <1>1, <2>1, <3>1 DEF PastInv
    <3>2. CASE query # "none"
      <4> DEFINE p == [order |-> o, fills |-> n]
      <4>1. p.order = order' /\ p.fills = fills' /\ p.fills \in 0..Size /\ p \in past' /\ past' = past \cup {p}
        BY <1>1, <2>1, <3>2
      <4>2. \A q \in past : q.fills \in 0..Size /\ q.fills <= fills'
        BY <1>0, <1>1, <2>1 DEF PastInv
      <4> HIDE DEF p
      <4>3. \A q \in past' : q.fills \in 0..Size /\ q.fills <= fills'
        BY <1>1, <2>1, <4>1, <4>2
      <4> QED BY <4>1, <4>3 DEF PastInv
    <3> QED BY <3>1, <3>2
  <2>4. past \subseteq past'
    BY <2>1
  <2>5. CallInv'
    BY <1>0, <1>1, <2>1, <2>4 DEF CallInv
  <2>6. CallStays
    BY <1>1, <2>1, <2>4 DEF CallStays
  <2> QED BY <1>0, <2>2, <2>3, <2>5, <2>6, AnswerStays DEF ClientInv
<1>2. CASE ListOrder \/ TriggerOrder \/ FillSome \/ CancelOrder
  BY <1>0, <1>1, <1>2, OrderMovesOn
<1>3. CASE ListExecution
  <2>1. /\ listed < fills /\ listed' = listed + 1
        /\ UNCHANGED <<client, order, fills, skew, positions, shown, query, request, parent, counted, tries,
                       requestFails, past, answer>>
    BY <1>3 DEF ListExecution, positionVars, callVars
  <2>2. ExchangeInv'
    BY <1>0, <2>1 DEF ExchangeInv
  <2>3. PastInv' /\ CallInv'
    BY <1>0, <2>1 DEF PastInv, CallInv
  <2>4. ClientAnswersTrue'
    BY <1>0, <2>1, AnswerStays DEF CallStays
  <2> QED BY <2>2, <2>3, <2>4 DEF ClientInv
<1>4. CASE ListPosition
  <2>1. /\ query = "resolve_position_id" /\ shown \subseteq shown' /\ shown' \subseteq positions
        /\ UNCHANGED <<client, order, fills, listed, skew, positions, query, request, parent, counted, tries,
                       requestFails, past, answer>>
    BY <1>0, <1>4 DEF ListPosition, orderVars, callVars, ExchangeInv
  <2>2. ExchangeInv'
    BY <1>0, <2>1 DEF ExchangeInv
  <2>3. PastInv' /\ CallInv'
    BY <1>0, <2>1 DEF PastInv, CallInv
  <2>4. ClientAnswersTrue'
    BY <1>0, <2>1, AnswerStays DEF CallStays
  <2> QED BY <2>2, <2>3, <2>4 DEF ClientInv
<1> QED BY <1>2, <1>3, <1>4 DEF ExchangeStep

-----------------------------------------------------------------------------
(* The calls.                                                              *)

(* A step of a client leaves the exchange as it is.                        *)
LEMMA ExchangeStays ==
  ASSUME ExchangeInv, UNCHANGED <<client, orderVars, positionVars>>
  PROVE  ExchangeInv'
BY DEF ExchangeInv, orderVars, positionVars

(* A call begins with the state the order is in.                           *)
LEMMA CallBegins ==
  ASSUME ClientInv, NEW q \in Queries, Call(q)
  PROVE  ClientInv'
<1>1. /\ query = "none" /\ q \in DOMAIN FirstRequest[client] /\ query' = q /\ request' = FirstRequest[client][q]
      /\ parent' = "none" /\ counted' = 0 /\ tries' = 1 /\ requestFails' = 0
      /\ past' = {[order |-> order, fills |-> fills]} /\ answer' = NoAnswer
      /\ UNCHANGED <<client, orderVars, positionVars>>
  BY DEF Call
<1>2. ExchangeInv' /\ client \in ClientNames /\ fills \in 0..Size /\ Size \in Nat
  BY <1>1, ExchangeStays, ClientAssumption DEF ClientInv, ExchangeInv
<1>3. PastInv'
  BY <1>1, <1>2 DEF PastInv, orderVars
<1>4. CallInv'
  <2>1. \/ q = "stop_order_status" /\ request' \in {"getparentorder", "orders"}
        \/ q = "get_executions" /\ request' = "executions" /\ client # "oanda"
        \/ q = "get_executions" /\ request' = "order" /\ client = "oanda"
        \/ q = "get_child_orders" /\ request' = "orders"
        \/ q = "resolve_position_id" /\ request' = "openPositions"
    BY <1>1, <1>2, FirstRequestIs
  <2> QED BY <1>1, <2>1 DEF CallInv
<1>5. ClientAnswersTrue'
  BY <1>1 DEF NoAnswer, ClientAnswersTrue, StopAnswerTrue, ExecutionsTrue, ResolvedIsOwn
<1> QED BY <1>2, <1>3, <1>4, <1>5 DEF ClientInv

\* What a call may answer in the present state.
MayAnswer(r, n) ==
  /\ query = "stop_order_status" =>
       /\ r = "Executed" => \E p \in past : p.fills = Size \/ (parent = "missing" /\ p.fills > 0)
       /\ r = "Gone" => \E p \in past : p.order \in {"unlisted", "canceled"}
       /\ r = "Active" => \E p \in past : p.order \in Alive \/ (parent = "missing" /\ p.order = "canceled")
  /\ query = "get_executions" /\ r = "list" =>
       /\ \E p \in past : n <= p.fills
       /\ client = "oanda" => n \in {0, Size}
  /\ query = "get_child_orders" /\ r = "Completed" => n = Size
  /\ query = "resolve_position_id" /\ skew \in -Margin..Margin =>
       \A o \in positions : o.id = "own" /\ o.size = Size =>
         /\ r = "none" /\ requestFails = 0 => o \notin shown
         /\ \A p \in positions : p.id = "other" /\ r = "other" =>
              p.at >= -2 * Margin /\ (o \notin shown \/ p.at >= o.at)

(* A call that ends with such an answer keeps the invariant.               *)
LEMMA ReturnKeeps ==
  ASSUME ClientInv, query # "none", NEW r, NEW n, Return(r, n), MayAnswer(r, n)
  PROVE  ClientInv'
<1>1. /\ answer' = [query |-> query, result |-> r, size |-> n] /\ query' = "none" /\ request' = "none"
      /\ UNCHANGED <<client, orderVars, positionVars, parent, counted, tries, requestFails, past>>
  BY DEF Return
<1>2. answer'.query = query /\ answer'.result = r /\ answer'.size = n
  BY <1>1
<1>3. ExchangeInv'
  BY <1>1, ExchangeStays DEF ClientInv
<1>4. PastInv' /\ CallInv'
  BY <1>1 DEF ClientInv, PastInv, CallInv, orderVars
<1>5. StopAnswerTrue'
  BY <1>1, <1>2 DEF StopAnswerTrue, MayAnswer
<1>6. ExecutionsTrue'
  BY <1>1, <1>2 DEF ExecutionsTrue, MayAnswer
<1>7. ResolvedIsOwn'
  BY <1>1, <1>2 DEF ResolvedIsOwn, MayAnswer, positionVars
<1> QED BY <1>3, <1>4, <1>5, <1>6, <1>7 DEF ClientInv, ClientAnswersTrue

(* A request that is followed by another one keeps the invariant when the  *)
(* call knows what the next request supposes.                              *)
LEMMA ContinueKeeps ==
  ASSUME ClientInv, query # "none", CallInv',
         UNCHANGED <<client, orderVars, positionVars, query, past, answer>>
  PROVE  ClientInv'
<1>1. ExchangeInv' /\ PastInv'
  BY ExchangeStays DEF ClientInv, PastInv, orderVars
<1>2. ClientAnswersTrue'
  BY DEF ClientInv, CallInv, NoAnswer, ClientAnswersTrue, StopAnswerTrue, ExecutionsTrue, ResolvedIsOwn
<1> QED BY <1>1, <1>2 DEF ClientInv

(* stop_order_status keeps the invariant with each of its requests: what it*)
(* answers was so since the call began.                                    *)
LEMMA StopStatusKeeps ==
  ASSUME ClientInv, GetParentOrder \/ GetChildOrdersByParent \/ StopExecutions \/ GmoStopOrder
  PROVE  ClientInv'
<1>0. ExchangeInv /\ PastInv /\ CallInv /\ Size \in Nat \ {0} /\ fills \in Nat
  BY ClientAssumption DEF ClientInv, ExchangeInv
<1>1. query = "stop_order_status" /\ request # "none"
  BY <1>0 DEF CallInv, GetParentOrder, GetChildOrdersByParent, StopExecutions, GmoStopOrder
<1>2. PICK now \in past : now.order = order /\ now.fills = fills
  BY <1>0, <1>1 DEF PastInv
<1>3. CASE GetParentOrder
  <2>1. CASE order = "unlisted" /\ Return("Gone", 0)
    BY <1>1, <1>2, <2>1, ReturnKeeps DEF MayAnswer
  <2>2. ASSUME order # "unlisted", NEW s \in ParentOrderState, s = "Active", Return("Active", 0) PROVE ClientInv'
    BY <1>1, <1>2, <2>2, ReturnKeeps DEF MayAnswer, ParentOrderState
  <2>3. ASSUME order # "unlisted", NEW s \in ParentOrderState, s = "Canceled", Return("Gone", 0) PROVE ClientInv'
    <3>1. order = "canceled"
      BY <1>0, <2>3 DEF ParentOrderState, ExchangeInv, OrderStates, Alive
    <3> QED BY <1>1, <1>2, <2>3, <3>1, ReturnKeeps DEF MayAnswer
  <2>4. ASSUME order # "unlisted", NEW s \in ParentOrderState, s \in {"Completed", "missing"},
               parent' = s, Continue("children"), UNCHANGED counted
        PROVE  ClientInv'
    <3>1. s = "Completed" => order = "completed"
      BY <2>4 DEF ParentOrderState
    <3>2. s = "Completed" => \E p \in past : p.fills = Size
      BY <1>0, <1>2, <3>1 DEF ExchangeInv
    <3>3. CallInv'
      BY <1>0, <1>1, <2>4, <3>2 DEF Continue, CallInv, orderVars
    <3> QED BY <1>1, <2>4, <3>3, ContinueKeeps DEF Continue
  <2> QED BY <1>3, <2>1, <2>2, <2>3, <2>4 DEF GetParentOrder
<1>4. CASE GetChildOrdersByParent
  <2>1. /\ parent \in {"Completed", "missing"} /\ order # "unlisted"
        /\ parent = "Completed" => fills = Size
    <3>1. /\ parent \in {"Completed", "missing"} /\ order # "unlisted"
          /\ parent = "Completed" => \E p \in past : p.fills = Size
      BY <1>0, <1>4 DEF GetChildOrdersByParent, CallInv
    <3> QED BY <1>0, <3>1 DEF PastInv, ExchangeInv
  <2>2. CASE fills > 0 /\ Continue("executions") /\ UNCHANGED <<parent, counted>>
    <3>1. \E p \in past : p.fills = Size \/ (parent = "missing" /\ p.fills > 0)
      BY <1>2, <2>1, <2>2
    <3>2. CallInv'
      BY <1>0, <1>1, <2>2, <3>1 DEF Continue, CallInv, orderVars
    <3> QED BY <1>1, <2>2, <3>2, ContinueKeeps DEF Continue
  <2>3. CASE fills = 0 /\ Return(WithoutExecutedChild, 0)
    <3>1. parent = "missing" /\ WithoutExecutedChild = "Active" /\ order \in Alive \cup {"canceled"}
      BY <1>0, <2>1, <2>3 DEF WithoutExecutedChild, ExchangeInv, OrderStates, Alive
    <3>2. MayAnswer("Active", 0)
      BY <1>1, <1>2, <3>1 DEF MayAnswer
    <3> QED BY <1>1, <2>3, <3>1, <3>2, ReturnKeeps
  <2> QED BY <1>4, <2>2, <2>3 DEF GetChildOrdersByParent
<1>5. CASE StopExecutions
  <2>1. MayAnswer("Executed", listed) /\ MayAnswer("error", 0)
    BY <1>0, <1>1, <1>5 DEF StopExecutions, CallInv, MayAnswer
  <2> QED BY <1>1, <1>5, <2>1, ReturnKeeps DEF StopExecutions
<1>6. CASE GmoStopOrder
  <2>1. CASE order = "completed" /\ Continue("executions") /\ UNCHANGED <<parent, counted>>
    <3>1. \E p \in past : p.fills = Size
      BY <1>0, <1>2, <2>1 DEF ExchangeInv
    <3>2. CallInv'
      BY <1>0, <1>1, <2>1, <3>1 DEF Continue, CallInv, orderVars
    <3> QED BY <1>1, <2>1, <3>2, ContinueKeeps DEF Continue
  <2>2. CASE order \in Alive /\ Return("Active", 0)
    BY <1>1, <1>2, <2>2, ReturnKeeps DEF MayAnswer
  <2>3. CASE order \in {"unlisted", "canceled"} /\ Return("Gone", 0)
    BY <1>1, <1>2, <2>3, ReturnKeeps DEF MayAnswer
  <2> QED BY <1>6, <2>1, <2>2, <2>3 DEF GmoStopOrder
<1> QED BY <1>3, <1>4, <1>5, <1>6

(* get_executions and get_child_orders keep the invariant: they never      *)
(* answer more than was traded.                                            *)
LEMMA ExecutionsKeep ==
  ASSUME ClientInv, GetExecutions \/ FetchFilledOrder \/ FetchExecution \/ GetChildOrders
  PROVE  ClientInv'
<1>0. /\ ExchangeInv /\ PastInv /\ CallInv /\ Size \in Nat \ {0} /\ fills \in Nat /\ listed \in Nat
      /\ listed <= fills /\ counted \in Nat
  BY ClientAssumption DEF ClientInv, ExchangeInv, CallInv
<1>1. query # "none"
  BY <1>0 DEF CallInv, GetExecutions, FetchFilledOrder, FetchExecution, GetChildOrders
<1>2. PICK now \in past : now.order = order /\ now.fills = fills
  BY <1>0, <1>1 DEF PastInv
<1>3. CASE GetExecutions
  <2>1. query = "get_executions" /\ client # "oanda" /\ Return("list", listed)
    BY <1>0, <1>3 DEF GetExecutions, CallInv
  <2> QED BY <1>0, <1>1, <1>2, <2>1, ReturnKeeps DEF MayAnswer
<1>4. CASE FetchFilledOrder
  <2>1. query = "get_executions" /\ client = "oanda"
    BY <1>0, <1>4 DEF FetchFilledOrder, CallInv
  <2>2. CASE order = "completed" /\ Continue("transaction") /\ UNCHANGED <<parent, counted>>
    <3>1. counted < fills
      BY <1>0, <1>4, <2>2 DEF FetchFilledOrder, CallInv, ExchangeInv
    <3>2. CallInv'
      BY <1>0, <1>1, <2>1, <2>2, <3>1 DEF Continue, CallInv, orderVars
    <3> QED BY <1>1, <2>2, <3>2, ContinueKeeps DEF Continue
  <2>3. CASE Return("list", 0)
    BY <1>0, <1>1, <1>2, <2>1, <2>3, ReturnKeeps DEF MayAnswer
  <2>4. CASE Return("error", 0)
    BY <1>1, <2>1, <2>4, ReturnKeeps DEF MayAnswer
  <2> QED BY <1>4, <2>2, <2>3, <2>4 DEF FetchFilledOrder
<1>5. CASE FetchExecution
  <2>1. query = "get_executions" /\ client = "oanda" /\ order = "completed" /\ fills = Size /\ counted < fills
    BY <1>0, <1>5 DEF FetchExecution, CallInv, ExchangeInv
  <2>2. CASE counted + 1 < fills /\ counted' = counted + 1 /\ Continue("transaction") /\ UNCHANGED parent
    <3>1. CallInv'
      BY <1>0, <1>1, <2>1, <2>2 DEF Continue, CallInv, orderVars
    <3> QED BY <1>1, <2>2, <3>1, ContinueKeeps DEF Continue
  <2>3. CASE ~(counted + 1 < fills) /\ Return("list", counted + 1)
    <3>1. counted + 1 = Size
      BY <1>0, <2>1, <2>3
    <3> QED BY <1>0, <1>1, <1>2, <2>1, <2>3, <3>1, ReturnKeeps DEF MayAnswer
  <2> QED BY <1>5, <2>2, <2>3 DEF FetchExecution
<1>6. CASE GetChildOrders
  <2>1. query = "get_child_orders"
    BY <1>6 DEF GetChildOrders
  <2>2. CASE order = "unlisted" /\ Return(IF client = "oanda" THEN "error" ELSE "unknown", 0)
    BY <1>1, <2>1, <2>2, ReturnKeeps DEF MayAnswer
  <2>3. CASE order # "unlisted" /\ Return(ChildOrderState, IF client = "oanda" /\ order # "completed" THEN 0 ELSE fills)
    <3>1. ChildOrderState = "Completed" => order = "completed" /\ fills = Size
      BY <1>0 DEF ChildOrderState, ExchangeInv
    <3>2. MayAnswer(ChildOrderState, IF client = "oanda" /\ order # "completed" THEN 0 ELSE fills)
      BY <2>1, <3>1 DEF MayAnswer
    <3> QED BY <1>1, <2>3, <3>2, ReturnKeeps
  <2> QED BY <1>6, <2>2, <2>3 DEF GetChildOrders
<1> QED BY <1>3, <1>4, <1>5, <1>6

(* resolve_position_id keeps the invariant: the margin makes the position  *)
(* of the order a candidate, and keeps out those twice as old.             *)
LEMMA ResolveKeeps ==
  ASSUME ClientInv, ResolvePositionId
  PROVE  ClientInv'
<1>0. /\ ExchangeInv /\ CallInv /\ Size \in Nat /\ Margin \in Nat /\ skew \in Int /\ tries \in Nat
      /\ \A p \in positions : p.at \in Int
  <2>1. \A p \in positions : p.at \in Int
    BY Zenon DEF ClientInv, ExchangeInv
  <2> QED BY <2>1, ClientAssumption DEF ClientInv, ExchangeInv, CallInv
<1>1. query = "resolve_position_id"
  BY <1>0 DEF ResolvePositionId, CallInv
<1>2. ASSUME skew \in -Margin..Margin, NEW o \in shown, o.id = "own", o.size = Size
      PROVE  o \in Candidates
  <2>1. o.side = "BUY" /\ o.at \in {0, 1}
    BY <1>0, <1>2 DEF ExchangeInv
  <2>2. o.at + skew >= PositionCutoff
    BY <1>0, <1>2, <2>1 DEF PositionCutoff
  <2> QED BY <1>2, <2>1, <2>2 DEF Candidates, ExpectedSize
<1>3. ASSUME NEW p \in Candidates, \A q \in Candidates : q.at <= p.at, Return(p.id, p.size) PROVE ClientInv'
  <2>1. p \in shown /\ p \in positions /\ p.at + skew >= 0 - Margin
    BY <1>0 DEF Candidates, PositionCutoff, ExchangeInv
  <2>2. ASSUME skew \in -Margin..Margin, NEW o \in positions, o.id = "own", o.size = Size,
               NEW r \in positions, r.id = "other", p.id = "other"
        PROVE  r.at >= -2 * Margin /\ (o \notin shown \/ r.at >= o.at)
    <3>1. r = p
      BY <1>0, <2>1, <2>2 DEF ExchangeInv
    <3>2. p.at \in Int /\ skew <= Margin
      BY <1>0, <2>1, <2>2
    <3>3. p.at >= -2 * Margin
      BY <1>0, <2>1, <3>2
    <3>4. o \in shown => p.at >= o.at
      BY <1>0, <1>2, <1>3, <2>2, <3>2
    <3> QED BY <3>1, <3>3, <3>4
  <2>3. p.id # "none"
    <3>1. \A q \in positions : q.id \in {"own", "other"}
      BY <1>0, Zenon DEF ExchangeInv
    <3> QED BY <2>1, <3>1
  <2>4. MayAnswer(p.id, p.size)
    BY <1>1, <2>2, <2>3 DEF MayAnswer
  <2> QED BY <1>1, <1>3, <2>4, ReturnKeeps
<1>4. CASE Candidates = {} /\ Return("none", 0)
  <2>1. MayAnswer("none", 0)
    BY <1>1, <1>2, <1>4 DEF MayAnswer
  <2> QED BY <1>1, <1>4, <2>1, ReturnKeeps
<1>5. CASE /\ tries' = tries + 1
           /\ UNCHANGED <<client, orderVars, positionVars, query, request, parent, counted, requestFails, past, answer>>
  <2>1. CallInv'
    BY <1>0, <1>5 DEF CallInv, orderVars
  <2> QED BY <1>1, <1>5, <2>1, ContinueKeeps
<1> QED BY <1>3, <1>4, <1>5 DEF ResolvePositionId

(* A request that fails ends the call with an error, which says nothing of *)
(* the order, or is tried again.                                           *)
LEMMA FailureKeeps ==
  ASSUME ClientInv, RequestFails
  PROVE  ClientInv'
<1>0. CallInv /\ tries \in Nat /\ requestFails \in Nat /\ ExchangeInv /\ PastInv
  BY DEF ClientInv, CallInv
<1>1. query # "none" /\ requestFails' = requestFails + 1
  BY DEF RequestFails
<1>2. UNCHANGED <<client, orderVars, positionVars, parent, counted, past>>
  BY DEF RequestFails
<1>3. CASE tries' = tries + 1 /\ UNCHANGED <<query, request, answer>>
  <2>1. CallInv'
    BY <1>0, <1>1, <1>2, <1>3 DEF CallInv, orderVars
  <2> QED BY <1>1, <1>2, <1>3, <2>1, ContinueKeeps
<1>4. CASE /\ answer' = [query |-> query, size |-> 0,
                         result |-> IF query = "resolve_position_id" THEN "none" ELSE "error"]
           /\ query' = "none" /\ request' = "none" /\ UNCHANGED tries
  <2>1. /\ answer'.query = query
        /\ answer'.result = IF query = "resolve_position_id" THEN "none" ELSE "error"
    BY <1>4
  <2>2. ExchangeInv' /\ PastInv'
    BY <1>0, <1>2, <1>4, ExchangeStays DEF PastInv, orderVars
  <2>3. CallInv'
    BY <1>0, <1>1, <1>2, <1>4 DEF CallInv
  <2>4. StopAnswerTrue' /\ ExecutionsTrue'
    BY <2>1 DEF StopAnswerTrue, ExecutionsTrue
  <2>5. ResolvedIsOwn'
    BY <1>0, <1>1, <2>1 DEF ResolvedIsOwn
  <2> QED BY <2>2, <2>3, <2>4, <2>5 DEF ClientInv, ClientAnswersTrue
<1> QED BY <1>3, <1>4 DEF RequestFails

(* What the clients answer about a stop, about executions and about the    *)
(* position of an order was so at some moment of the call, for every order *)
(* of requests and moves of the exchange, every size and every margin      *)
(* (stop_order_status, get_executions, get_child_orders,                   *)
(* resolve_position_id).                                                   *)
THEOREM ClientsCorrect == ClientSpec => []ClientAnswersTrue
<1>1. ClientInv /\ [ClientNext]_clientVars => ClientInv'
  <2> SUFFICES ASSUME ClientInv, [ClientNext]_clientVars PROVE ClientInv'
    OBVIOUS
  <2>1. CASE ExchangeStep
    BY <2>1, ExchangeKeeps
  <2>2. CASE ClientStep
    BY <2>2, CallBegins, FailureKeeps, StopStatusKeeps, ExecutionsKeep, ResolveKeeps DEF ClientStep
  <2>3. CASE UNCHANGED clientVars
    <3>1. ExchangeInv' /\ PastInv' /\ CallInv'
      BY <2>3 DEF clientVars, ClientInv, ExchangeInv, PastInv, CallInv
    <3>2. ClientAnswersTrue'
      BY <2>3 DEF clientVars, ClientInv, ClientAnswersTrue, StopAnswerTrue, ExecutionsTrue, ResolvedIsOwn
    <3> QED BY <3>1, <3>2 DEF ClientInv
  <2> QED BY <2>1, <2>2, <2>3 DEF ClientNext
<1>2. ClientInv => ClientAnswersTrue
  BY DEF ClientInv
<1> QED BY <1>1, <1>2, ClientInitInv, PTL DEF ClientSpec
=============================================================================
