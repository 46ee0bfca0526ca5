------------------------ MODULE CloseProtocolProofs ------------------------
(***************************************************************************)
(* Proofs about CloseProtocol, for every set of closers, every size and    *)
(* amount and every number of failures and restarts. Each invariant rests  *)
(* on the ones before it; every one is preserved by every action.          *)
(***************************************************************************)
EXTENDS CloseProtocol, TLAPS

(* The cases of a step.                                                    *)
LEMMA NextCases ==
  ASSUME Next
  PROVE  \/ \E c \in Closers :
              \/ Decide(c) \/ AcquireCloseLock(c) \/ AcquireRefused(c)
              \/ SimulateFill(c) \/ FillCloseWithStaleRecovery(c)
              \/ StopGuard(c) \/ CancelStop(c) \/ RecheckStop(c)
              \/ SendCloseOrder(c) \/ PollExecutions(c)
              \/ ReleaseCloseLock(c) \/ PersistClosedTrade(c)
              \/ FillWorking(c) \/ FillLost(c)
         \/ ApplyFee \/ LockAges \/ ListStop \/ StopTriggers \/ StopDropped
         \/ Restart \/ Reconcile \/ CloseTradeReconciled
  BY DEF Next, CloserStep, Exchange

-----------------------------------------------------------------------------
(* Type correctness.                                                       *)

(* The initial states are well typed.                                      *)
LEMMA TypeInit == Init => TypeOK
<1> SUFFICES ASSUME Init PROVE TypeOK
  OBVIOUS
<1>1. /\ suspends \in BOOLEAN /\ positionId \in BOOLEAN
      /\ lockStale \in BOOLEAN /\ sent \in BOOLEAN /\ unrecorded \in BOOLEAN
      /\ missed \in BOOLEAN /\ partly \in BOOLEAN
  BY CloseAssumption, Zenon DEF CloseAssumption, Init
<1>2. stopId \in BOOLEAN
  BY Zenon DEF Init
<1> QED
  BY <1>1, <1>2, CloseAssumption DEF CloseAssumption, Init, TypeOK, ModeNames, Live, Holding

(* Every action keeps the state well typed.                                *)
LEMMA TypeStep ==
  ASSUME TypeOK, Next
  PROVE  TypeOK'
<1> USE CloseAssumption DEF CloseAssumption
<1>1. CASE \E c \in Closers : Decide(c)
  BY <1>1 DEF Decide, TypeOK, Goto, envVars, rowVars, exchVars, histVars, guardVars, faultVars
<1>2. CASE \E c \in Closers : AcquireCloseLock(c)
  <2>1. lockStale' \in BOOLEAN
    BY <1>2, Zenon DEF AcquireCloseLock
  <2> QED
    BY <1>2, <2>1 DEF AcquireCloseLock, TypeOK, Goto, Holding, envVars, exchVars, histVars, guardVars, faultVars
<1>3. CASE \E c \in Closers : AcquireRefused(c)
  BY <1>3 DEF AcquireRefused, DbFailure, TypeOK, Goto, envVars, rowVars, exchVars, histVars, guardVars
<1>4. CASE \E c \in Closers : SimulateFill(c)
  BY <1>4 DEF SimulateFill, ApiFailure, TypeOK, Goto, Holding, envVars, rowVars, exchVars, histVars, guardVars
<1>5. CASE \E c \in Closers : FillCloseWithStaleRecovery(c)
  BY <1>5 DEF FillCloseWithStaleRecovery, RecoverAfterError, ApiFailure, TypeOK, Goto, Holding,
              envVars, rowVars, exchVars, histVars, guardVars
<1>6. CASE \E c \in Closers : StopGuard(c)
  BY <1>6 DEF StopGuard, AfterGuard, Believe, ApiFailure, TypeOK, Goto, Holding, envVars, rowVars, exchVars, histVars, guardVars
<1>7. CASE \E c \in Closers : CancelStop(c)
  BY <1>7 DEF CancelStop, ApiFailure, TypeOK, Goto, Holding, envVars, rowVars, histVars, guardVars
<1>8. CASE \E c \in Closers : RecheckStop(c)
  <2>1. missed' \in BOOLEAN /\ partly' \in BOOLEAN
    BY <1>8, Zenon DEF RecheckStop, Believe, guardVars, TypeOK
  <2> QED
    BY <1>8, <2>1 DEF RecheckStop, AfterRecheck, ApiFailure, TypeOK, Goto, Holding,
       envVars, rowVars, exchVars
<1>9. CASE \E c \in Closers : SendCloseOrder(c)
  <2>1. sent' \in BOOLEAN /\ unrecorded' \in BOOLEAN
    BY <1>9, Zenon DEF SendCloseOrder, TypeOK
  <2> QED
    BY <1>9, <2>1 DEF SendCloseOrder, ApiFailure, TypeOK, Goto, Holding, envVars, rowVars, exchVars, guardVars
<1>10. CASE \E c \in Closers : PollExecutions(c)
  <2>1. unrecorded' \in BOOLEAN
    BY <1>10, Zenon DEF PollExecutions
  <2> QED
    BY <1>10, <2>1 DEF PollExecutions, ApiFailure, TypeOK, Goto, Holding, envVars, rowVars, exchVars, guardVars
<1>11. CASE \E c \in Closers : ReleaseCloseLock(c)
  <2>1. lockStale' \in BOOLEAN
    BY <1>11, Zenon DEF ReleaseCloseLock, TypeOK
  <2> QED
    BY <1>11, <2>1 DEF ReleaseCloseLock, ReleasedStatus, DbFailure, TypeOK, Goto, envVars, exchVars, histVars, guardVars
<1>12. CASE \E c \in Closers : PersistClosedTrade(c)
  <2>1. lockStale' \in BOOLEAN /\ unrecorded' \in BOOLEAN
    BY <1>12, Zenon DEF PersistClosedTrade, TypeOK
  <2> QED
    BY <1>12, <2>1 DEF PersistClosedTrade, ClosedFees, DbFailure, TypeOK, Goto, envVars, exchVars, guardVars
<1>13. CASE \E c \in Closers : FillWorking(c)
  BY <1>13 DEF FillWorking, Trade, TypeOK, envVars, rowVars, histVars, guardVars, faultVars
<1>14. CASE \E c \in Closers : FillLost(c)
  BY <1>14 DEF FillLost, Trade, TypeOK, envVars, rowVars, histVars, guardVars, faultVars
<1>15. CASE ApplyFee
  BY <1>15 DEF ApplyFee, TypeOK, envVars, exchVars, localVars, faultVars, guardVars
<1>16. CASE LockAges
  <2>1. lockStale' \in BOOLEAN
    BY <1>16, Zenon DEF LockAges
  <2> QED
    BY <1>16, <2>1 DEF LockAges, TypeOK, envVars, exchVars, localVars, histVars, guardVars, faultVars
<1>17. CASE StopTriggers
  BY <1>17 DEF StopTriggers, Trade, TypeOK, envVars, rowVars, localVars, histVars, guardVars, faultVars
<1>18. CASE Restart
  BY <1>18 DEF Restart, TypeOK, envVars, rowVars, exchVars, guardVars
<1>19. CASE Reconcile
  <2>1. lockStale' \in BOOLEAN
    BY <1>19, Zenon DEF Reconcile, TypeOK
  <2> QED
    BY <1>19, <2>1 DEF Reconcile, ReleasedStatus, ApiFailure, TypeOK, envVars, exchVars, localVars, guardVars
<1>20. CASE CloseTradeReconciled
  <2>1. lockStale' \in BOOLEAN
    BY <1>20, Zenon DEF CloseTradeReconciled
  <2> QED
    BY <1>20, <2>1 DEF CloseTradeReconciled, TypeOK, envVars, exchVars, localVars, histVars, guardVars, faultVars
<1>21. CASE ListStop
  BY <1>21 DEF ListStop, TypeOK, envVars, rowVars, localVars, histVars, guardVars, faultVars
<1>22. CASE StopDropped
  BY <1>22 DEF StopDropped, TypeOK, envVars, rowVars, localVars, histVars, guardVars, faultVars
<1> QED BY NextCases, <1>1, <1>2, <1>3, <1>4, <1>5, <1>6, <1>7, <1>8, <1>9, <1>10,
           <1>11, <1>12, <1>13, <1>14, <1>15, <1>16, <1>17, <1>18, <1>19, <1>20, <1>21, <1>22

(* A step that changes nothing keeps the state well typed.                 *)
LEMMA TypeStutter == TypeOK /\ UNCHANGED vars => TypeOK'
  BY DEF TypeOK, vars, envVars, rowVars, exchVars, localVars, histVars, guardVars, faultVars

(* Every reachable state is well typed: in particular the size of the      *)
(* position never goes negative or above the trade, and no fee is negative.*)
THEOREM TypeCorrect == Spec => []TypeOK
<1>1. Init => TypeOK
  BY TypeInit
<1>2. TypeOK /\ [Next]_vars => TypeOK'
  BY TypeStep, TypeStutter
<1> QED BY <1>1, <1>2, PTL DEF Spec
-----------------------------------------------------------------------------
(* The parts of the inductive invariant.                                   *)

(* Startup reconciliation runs before the tasks, on a live account only,   *)
(* and reaches its closing transaction only for an unclosed trade without  *)
(* position.                                                               *)
AppInv ==
  /\ app # "running" => Live /\ \A c \in Closers : pc[c] = "idle"
  /\ app = "reconcile_close" => status # "closed" /\ pos = 0

(* Unless the host was suspended, the lock is exclusive: its holder has it *)
(* fresh, and the fees it read are still those of the row.                 *)
LockInv ==
  ~suspends => \A c \in Closers : pc[c] \in Holding =>
    /\ status = "closing" /\ ~lockStale /\ snap[c] = fees
    /\ \A d \in Closers : pc[d] \in Holding => c = d

(* The row of an unclosed trade knows every fee charged so far.            *)
FeeInv ==
  /\ status # "closed" => fees >= charged
  /\ app = "reconcile_close" => fees >= charged + exitCost
  /\ NoChargeLost

(* A closer that is about to send an order, or has sent one, has seen that *)
(* the stop it knows cannot execute any more.                              *)
StopInv ==
  /\ stopId => stop # "none"
  /\ \A c \in Closers : pc[c] \in {"send", "poll"} /\ stopId /\ ~missed => stop = "gone"
  /\ \A c \in Closers : pc[c] = "poll" => sent
  /\ StopAndMarketExclusive

(* A GMO position whose identifier is unknown has neither stop nor orders. *)
GmoInv ==
  mode = "gmo" =>
    /\ opposite = 0
    /\ ~positionId => /\ stop = "none"
                      /\ \A c \in Closers :
                           pc[c] # "poll" /\ working[c] = 0 /\ lost[c] = 0

(* The stop trades no more than the trade, and what it traded is not left  *)
(* of the position; an opposite position leaves nothing of it.             *)
NetInv ==
  /\ pos + stopFills <= Qty
  /\ pos = 0 \/ opposite = 0
  /\ stop = "executed" <=> stopFills = Qty
  /\ ~Live => pos = 0 /\ stopFills = 0 /\ stop = "none"

(* What is left of the position is covered by accepted orders, unless a    *)
(* part of the stop was taken for the whole.                               *)
Covered == pos > 0 /\ ~partly => \E c \in Closers : working[c] + lost[c] >= pos

(* The size a closer works with is never too small, and a closer that is   *)
(* about to record the trade as closed leaves nothing uncovered behind.    *)
CoverInv ==
  /\ status = "closed" => Covered
  /\ \A c \in Closers :
       /\ pc[c] = "simulate" => ~Live
       /\ pc[c] \in {"recover", "guard", "cancel", "recheck", "send", "poll"} => Live
       /\ pc[c] \in {"guard", "cancel", "recheck", "send"} => size[c] >= pos
       /\ pc[c] = "poll" => working[c] >= pos
       /\ pc[c] # "poll" => working[c] = 0
       /\ pc[c] = "persist" => Covered

(* As long as every fill was recorded: no order is left behind, and an     *)
(* order that works trades no more than what is left of the position and   *)
(* what the stop took from under it;                                       *)
OrdersFit ==
  \A c \in Closers : lost[c] = 0 /\ opposite + working[c] <= pos + stopFills

(* only the stop has traded until an order is sent;                        *)
Untouched == Live /\ ~sent => opposite = 0 /\ pos + stopFills = Qty

(* the order of an unclosed trade belongs to a closer that waits for it or *)
(* is recording it.                                                        *)
OrderOwned ==
  sent /\ status # "closed" => \E c \in Closers : pc[c] \in {"poll", "persist"}

ReverseInv == ~suspends /\ ~unrecorded => OrdersFit /\ Untouched /\ OrderOwned

IInv == /\ TypeOK /\ AppInv /\ BalanceSettledOnce /\ LockInv /\ FeeInv
        /\ StopInv /\ GmoInv /\ NetInv /\ CoverInv /\ ReverseInv
-----------------------------------------------------------------------------
(* No task runs before startup reconciliation is over.                     *)
LEMMA AppStep ==
  ASSUME TypeOK, AppInv, Next
  PROVE  AppInv'
<1> USE CloseAssumption DEF CloseAssumption
<1>1. CASE \E c \in Closers : Decide(c)
  BY <1>1 DEF Decide, Goto, AppInv, TypeOK, Live, Holding, envVars, rowVars,
     exchVars, histVars, faultVars
<1>2. CASE \E c \in Closers : AcquireCloseLock(c)
  BY <1>2 DEF AcquireCloseLock, Goto, AppInv, TypeOK, Live, Holding,
     envVars, exchVars, histVars, faultVars
<1>3. CASE \E c \in Closers : AcquireRefused(c)
  BY <1>3 DEF AcquireRefused, Goto, AppInv, TypeOK, Live, Holding, envVars,
     rowVars, exchVars, histVars
<1>4. CASE \E c \in Closers : SimulateFill(c)
  BY <1>4 DEF SimulateFill, Goto, AppInv, TypeOK, Live, Holding, envVars,
     rowVars, exchVars, histVars
<1>5. CASE \E c \in Closers : FillCloseWithStaleRecovery(c)
  BY <1>5 DEF FillCloseWithStaleRecovery, Goto, AppInv, TypeOK, Live,
     Holding, envVars, rowVars, exchVars, histVars
<1>6. CASE \E c \in Closers : StopGuard(c)
  BY <1>6 DEF StopGuard, AfterGuard, Believe, Goto, AppInv, TypeOK, Live, Holding, envVars,
     rowVars, exchVars, histVars
<1>7. CASE \E c \in Closers : CancelStop(c)
  BY <1>7 DEF CancelStop, Goto, AppInv, TypeOK, Live, Holding, envVars,
     rowVars, histVars
<1>8. CASE \E c \in Closers : RecheckStop(c)
  BY <1>8 DEF RecheckStop, AfterRecheck, Believe, Goto, AppInv, TypeOK, Live, Holding, envVars,
     rowVars, exchVars, histVars
<1>9. CASE \E c \in Closers : SendCloseOrder(c)
  BY <1>9 DEF SendCloseOrder, Goto, AppInv, TypeOK, Live, Holding, envVars,
     rowVars, exchVars
<1>10. CASE \E c \in Closers : PollExecutions(c)
  BY <1>10 DEF PollExecutions, Goto, AppInv, TypeOK, Live, Holding, envVars,
     rowVars, exchVars
<1>11. CASE \E c \in Closers : ReleaseCloseLock(c)
  BY <1>11 DEF ReleaseCloseLock, ReleasedStatus, Goto, AppInv, TypeOK, Live,
     Holding, envVars, exchVars, histVars
<1>12. CASE \E c \in Closers : PersistClosedTrade(c)
  BY <1>12 DEF PersistClosedTrade, Goto, AppInv, TypeOK, Live, Holding,
     envVars, exchVars
<1>13. CASE \E c \in Closers : FillWorking(c)
  BY <1>13 DEF FillWorking, Trade, AppInv, TypeOK, Live, Holding, envVars,
     rowVars, histVars, faultVars
<1>14. CASE \E c \in Closers : FillLost(c)
  BY <1>14 DEF FillLost, Trade, AppInv, TypeOK, Live, Holding, envVars,
     rowVars, histVars, faultVars
<1>15. CASE ApplyFee
  BY <1>15 DEF ApplyFee, AppInv, TypeOK, Live, Holding, envVars, exchVars,
     localVars, faultVars
<1>16. CASE LockAges
  BY <1>16 DEF LockAges, AppInv, TypeOK, Live, Holding, envVars, exchVars,
     localVars, histVars, faultVars
<1>17. CASE StopTriggers
  BY <1>17 DEF StopTriggers, Trade, AppInv, TypeOK, Live, Holding, envVars,
     rowVars, localVars, histVars, faultVars
<1>18. CASE Restart
  BY <1>18 DEF Restart, AppInv, TypeOK, Live, Holding, envVars, rowVars,
     exchVars
<1>19. CASE Reconcile
  BY <1>19 DEF Reconcile, ReleasedStatus, AppInv, TypeOK, Live, Holding,
     envVars, exchVars, localVars
<1>20. CASE CloseTradeReconciled
  BY <1>20 DEF CloseTradeReconciled, AppInv, TypeOK, Live, Holding, envVars,
     exchVars, localVars, histVars, faultVars
<1>21. CASE ListStop
  BY <1>21 DEF ListStop, AppInv, TypeOK, Live, Holding, envVars,
     rowVars, localVars, histVars, faultVars
<1>22. CASE StopDropped
  BY <1>22 DEF StopDropped, AppInv, TypeOK, Live, Holding, envVars,
     rowVars, localVars, histVars, faultVars
<1> QED BY NextCases, <1>1, <1>2, <1>3, <1>4, <1>5, <1>6, <1>7, <1>8, <1>9, <1>10,
           <1>11, <1>12, <1>13, <1>14, <1>15, <1>16, <1>17, <1>18, <1>19, <1>20, <1>21, <1>22

(* The balance and the row change together.                                *)
LEMMA BalanceStep ==
  ASSUME TypeOK, AppInv, BalanceSettledOnce, Next
  PROVE  BalanceSettledOnce'
<1> USE CloseAssumption DEF CloseAssumption
<1>1. CASE \E c \in Closers : Decide(c)
  BY <1>1 DEF Decide, Goto, BalanceSettledOnce, TypeOK, AppInv, envVars,
     rowVars, exchVars, histVars, faultVars
<1>2. CASE \E c \in Closers : AcquireCloseLock(c)
  BY <1>2 DEF AcquireCloseLock, LockFree, Goto, BalanceSettledOnce, TypeOK,
     AppInv, envVars, exchVars, histVars, faultVars
<1>3. CASE \E c \in Closers : AcquireRefused(c)
  BY <1>3 DEF AcquireRefused, Goto, BalanceSettledOnce, TypeOK, AppInv,
     envVars, rowVars, exchVars, histVars
<1>4. CASE \E c \in Closers : SimulateFill(c)
  BY <1>4 DEF SimulateFill, Goto, BalanceSettledOnce, TypeOK, AppInv,
     envVars, rowVars, exchVars, histVars
<1>5. CASE \E c \in Closers : FillCloseWithStaleRecovery(c)
  BY <1>5 DEF FillCloseWithStaleRecovery, Goto, BalanceSettledOnce, TypeOK,
     AppInv, envVars, rowVars, exchVars, histVars
<1>6. CASE \E c \in Closers : StopGuard(c)
  BY <1>6 DEF StopGuard, AfterGuard, Believe, Goto, BalanceSettledOnce, TypeOK, AppInv, envVars,
     rowVars, exchVars, histVars
<1>7. CASE \E c \in Closers : CancelStop(c)
  BY <1>7 DEF CancelStop, Goto, BalanceSettledOnce, TypeOK, AppInv, envVars,
     rowVars, histVars
<1>8. CASE \E c \in Closers : RecheckStop(c)
  BY <1>8 DEF RecheckStop, AfterRecheck, Believe, Goto, BalanceSettledOnce, TypeOK, AppInv,
     envVars, rowVars, exchVars, histVars
<1>9. CASE \E c \in Closers : SendCloseOrder(c)
  BY <1>9 DEF SendCloseOrder, Goto, BalanceSettledOnce, TypeOK, AppInv,
     envVars, rowVars, exchVars
<1>10. CASE \E c \in Closers : PollExecutions(c)
  BY <1>10 DEF PollExecutions, Goto, BalanceSettledOnce, TypeOK, AppInv,
     envVars, rowVars, exchVars
<1>11. CASE \E c \in Closers : ReleaseCloseLock(c)
  BY <1>11 DEF ReleaseCloseLock, ReleasedStatus, Goto, BalanceSettledOnce,
     TypeOK, AppInv, envVars, exchVars, histVars
<1>12. CASE \E c \in Closers : PersistClosedTrade(c)
  BY <1>12 DEF PersistClosedTrade, Closable, Goto, BalanceSettledOnce,
     TypeOK, AppInv, envVars, exchVars
<1>13. CASE \E c \in Closers : FillWorking(c)
  BY <1>13 DEF FillWorking, BalanceSettledOnce, TypeOK, AppInv, envVars,
     rowVars, histVars, faultVars
<1>14. CASE \E c \in Closers : FillLost(c)
  BY <1>14 DEF FillLost, BalanceSettledOnce, TypeOK, AppInv, envVars,
     rowVars, histVars, faultVars
<1>15. CASE ApplyFee
  BY <1>15 DEF ApplyFee, Chargeable, BalanceSettledOnce, TypeOK, AppInv,
     envVars, exchVars, localVars, faultVars
<1>16. CASE LockAges
  BY <1>16 DEF LockAges, BalanceSettledOnce, TypeOK, AppInv, envVars,
     exchVars, localVars, histVars, faultVars
<1>17. CASE StopTriggers
  BY <1>17 DEF StopTriggers, BalanceSettledOnce, TypeOK, AppInv, envVars,
     rowVars, localVars, histVars, faultVars
<1>18. CASE Restart
  BY <1>18 DEF Restart, BalanceSettledOnce, TypeOK, AppInv, envVars,
     rowVars, exchVars
<1>19. CASE Reconcile
  BY <1>19 DEF Reconcile, ReleasedStatus, BalanceSettledOnce, TypeOK,
     AppInv, envVars, exchVars, localVars
<1>20. CASE CloseTradeReconciled
  BY <1>20 DEF CloseTradeReconciled, BalanceSettledOnce, TypeOK, AppInv,
     envVars, exchVars, localVars, histVars, faultVars
<1>21. CASE ListStop
  BY <1>21 DEF ListStop, BalanceSettledOnce, TypeOK, AppInv, envVars,
     rowVars, localVars, histVars, faultVars
<1>22. CASE StopDropped
  BY <1>22 DEF StopDropped, BalanceSettledOnce, TypeOK, AppInv, envVars,
     rowVars, localVars, histVars, faultVars
<1> QED BY NextCases, <1>1, <1>2, <1>3, <1>4, <1>5, <1>6, <1>7, <1>8, <1>9, <1>10,
           <1>11, <1>12, <1>13, <1>14, <1>15, <1>16, <1>17, <1>18, <1>19, <1>20, <1>21, <1>22

(* A second closer gets the lock only when its holder is done.             *)
LEMMA LockStep ==
  ASSUME TypeOK, AppInv, LockInv, Next
  PROVE  LockInv'
<1>1. CASE \E c \in Closers : Decide(c)
  BY <1>1 DEF Decide, Goto, LockInv, TypeOK, AppInv, Holding, envVars,
     rowVars, exchVars, histVars, faultVars
<1>2. CASE \E c \in Closers : AcquireCloseLock(c)
  BY <1>2 DEF AcquireCloseLock, LockFree, Goto, LockInv, TypeOK, AppInv,
     Holding, envVars, exchVars, histVars, faultVars
<1>3. CASE \E c \in Closers : AcquireRefused(c)
  BY <1>3 DEF AcquireRefused, Goto, LockInv, TypeOK, AppInv, Holding,
     envVars, rowVars, exchVars, histVars
<1>4. CASE \E c \in Closers : SimulateFill(c)
  BY <1>4 DEF SimulateFill, Goto, LockInv, TypeOK, AppInv, Holding, envVars,
     rowVars, exchVars, histVars
<1>5. CASE \E c \in Closers : FillCloseWithStaleRecovery(c)
  BY <1>5 DEF FillCloseWithStaleRecovery, RecoverAfterError, Goto, LockInv,
     TypeOK, AppInv, Holding, envVars, rowVars, exchVars, histVars
<1>6. CASE \E c \in Closers : StopGuard(c)
  BY <1>6 DEF StopGuard, AfterGuard, Believe, Goto, LockInv, TypeOK, AppInv, Holding, envVars,
     rowVars, exchVars, histVars
<1>7. CASE \E c \in Closers : CancelStop(c)
  BY <1>7 DEF CancelStop, Goto, LockInv, TypeOK, AppInv, Holding, envVars,
     rowVars, histVars
<1>8. CASE \E c \in Closers : RecheckStop(c)
  BY <1>8 DEF RecheckStop, AfterRecheck, Believe, Goto, LockInv, TypeOK, AppInv,
     Holding, envVars, rowVars, exchVars, histVars
<1>9. CASE \E c \in Closers : SendCloseOrder(c)
  BY <1>9 DEF SendCloseOrder, Goto, LockInv, TypeOK, AppInv, Holding,
     envVars, rowVars, exchVars
<1>10. CASE \E c \in Closers : PollExecutions(c)
  BY <1>10 DEF PollExecutions, Goto, LockInv, TypeOK, AppInv, Holding,
     envVars, rowVars, exchVars
<1>11. CASE \E c \in Closers : ReleaseCloseLock(c)
  BY <1>11 DEF ReleaseCloseLock, ReleasedStatus, Goto, LockInv, TypeOK,
     AppInv, Holding, envVars, exchVars, histVars
<1>12. CASE \E c \in Closers : PersistClosedTrade(c)
  BY <1>12 DEF PersistClosedTrade, Closable, Goto, LockInv, TypeOK, AppInv,
     Holding, envVars, exchVars
<1>13. CASE \E c \in Closers : FillWorking(c)
  BY <1>13 DEF FillWorking, LockInv, TypeOK, AppInv, Holding, envVars,
     rowVars, histVars, faultVars
<1>14. CASE \E c \in Closers : FillLost(c)
  BY <1>14 DEF FillLost, LockInv, TypeOK, AppInv, Holding, envVars, rowVars,
     histVars, faultVars
<1>15. CASE ApplyFee
  BY <1>15 DEF ApplyFee, Chargeable, LockInv, TypeOK, AppInv, Holding,
     envVars, exchVars, localVars, faultVars
<1>16. CASE LockAges
  BY <1>16 DEF LockAges, LockInv, TypeOK, AppInv, Holding, envVars,
     exchVars, localVars, histVars, faultVars
<1>17. CASE StopTriggers
  BY <1>17 DEF StopTriggers, LockInv, TypeOK, AppInv, Holding, envVars,
     rowVars, localVars, histVars, faultVars
<1>18. CASE Restart
  BY <1>18 DEF Restart, LockInv, TypeOK, AppInv, Holding, envVars, rowVars,
     exchVars
<1>19. CASE Reconcile
  BY <1>19 DEF Reconcile, ReleasedStatus, LockInv, TypeOK, AppInv, Holding,
     envVars, exchVars, localVars
<1>20. CASE CloseTradeReconciled
  BY <1>20 DEF CloseTradeReconciled, LockInv, TypeOK, AppInv, Holding,
     envVars, exchVars, localVars, histVars, faultVars
<1>21. CASE ListStop
  BY <1>21 DEF ListStop, LockInv, TypeOK, AppInv, Holding, envVars,
     rowVars, localVars, histVars, faultVars
<1>22. CASE StopDropped
  BY <1>22 DEF StopDropped, LockInv, TypeOK, AppInv, Holding, envVars,
     rowVars, localVars, histVars, faultVars
<1> QED BY NextCases, <1>1, <1>2, <1>3, <1>4, <1>5, <1>6, <1>7, <1>8, <1>9, <1>10,
           <1>11, <1>12, <1>13, <1>14, <1>15, <1>16, <1>17, <1>18, <1>19, <1>20, <1>21, <1>22

(* A fee is charged only while nobody has read the fees to overwrite them. *)
LEMMA FeeStep ==
  ASSUME TypeOK, AppInv, LockInv, FeeInv, Next
  PROVE  FeeInv'
<1> USE CloseAssumption DEF CloseAssumption
<1>1. CASE \E c \in Closers : Decide(c)
  BY <1>1 DEF Decide, Goto, FeeInv, NoChargeLost, TypeOK, envVars, rowVars,
     exchVars, histVars, faultVars
<1>2. CASE \E c \in Closers : AcquireCloseLock(c)
  BY <1>2 DEF AcquireCloseLock, LockFree, Goto, FeeInv, NoChargeLost,
     TypeOK, AppInv, envVars, exchVars, histVars, faultVars
<1>3. CASE \E c \in Closers : AcquireRefused(c)
  BY <1>3 DEF AcquireRefused, Goto, FeeInv, NoChargeLost, TypeOK, envVars,
     rowVars, exchVars, histVars
<1>4. CASE \E c \in Closers : SimulateFill(c)
  BY <1>4 DEF SimulateFill, Goto, FeeInv, NoChargeLost, TypeOK, envVars,
     rowVars, exchVars, histVars
<1>5. CASE \E c \in Closers : FillCloseWithStaleRecovery(c)
  BY <1>5 DEF FillCloseWithStaleRecovery, Goto, FeeInv, NoChargeLost,
     TypeOK, envVars, rowVars, exchVars, histVars
<1>6. CASE \E c \in Closers : StopGuard(c)
  BY <1>6 DEF StopGuard, AfterGuard, Believe, Goto, FeeInv, NoChargeLost, TypeOK, envVars,
     rowVars, exchVars, histVars
<1>7. CASE \E c \in Closers : CancelStop(c)
  BY <1>7 DEF CancelStop, Goto, FeeInv, NoChargeLost, TypeOK, envVars,
     rowVars, histVars
<1>8. CASE \E c \in Closers : RecheckStop(c)
  BY <1>8 DEF RecheckStop, AfterRecheck, Believe, Goto, FeeInv, NoChargeLost, TypeOK, envVars,
     rowVars, exchVars, histVars
<1>9. CASE \E c \in Closers : SendCloseOrder(c)
  BY <1>9 DEF SendCloseOrder, Goto, FeeInv, NoChargeLost, TypeOK, envVars,
     rowVars, exchVars
<1>10. CASE \E c \in Closers : PollExecutions(c)
  BY <1>10 DEF PollExecutions, Goto, FeeInv, NoChargeLost, TypeOK, envVars,
     rowVars, exchVars
<1>11. CASE \E c \in Closers : ReleaseCloseLock(c)
  BY <1>11 DEF ReleaseCloseLock, ReleasedStatus, Goto, FeeInv, NoChargeLost,
     TypeOK, envVars, exchVars, histVars
<1>12. CASE \E c \in Closers : PersistClosedTrade(c)
  BY <1>12 DEF PersistClosedTrade, Closable, ClosedFees, Goto, FeeInv,
     NoChargeLost, TypeOK, LockInv, AppInv, Holding, envVars, exchVars
<1>13. CASE \E c \in Closers : FillWorking(c)
  BY <1>13 DEF FillWorking, FeeInv, NoChargeLost, TypeOK, envVars, rowVars,
     histVars, faultVars
<1>14. CASE \E c \in Closers : FillLost(c)
  BY <1>14 DEF FillLost, FeeInv, NoChargeLost, TypeOK, envVars, rowVars,
     histVars, faultVars
<1>15. CASE ApplyFee
  BY <1>15 DEF ApplyFee, Chargeable, FeeInv, NoChargeLost, TypeOK, envVars,
     exchVars, localVars, faultVars
<1>16. CASE LockAges
  BY <1>16 DEF LockAges, FeeInv, NoChargeLost, TypeOK, envVars, exchVars,
     localVars, histVars, faultVars
<1>17. CASE StopTriggers
  BY <1>17 DEF StopTriggers, FeeInv, NoChargeLost, TypeOK, envVars, rowVars,
     localVars, histVars, faultVars
<1>18. CASE Restart
  BY <1>18 DEF Restart, FeeInv, NoChargeLost, TypeOK, envVars, rowVars,
     exchVars
<1>19. CASE Reconcile
  BY <1>19 DEF Reconcile, ReleasedStatus, FeeInv, NoChargeLost, TypeOK,
     AppInv, envVars, exchVars, localVars
<1>20. CASE CloseTradeReconciled
  BY <1>20 DEF CloseTradeReconciled, FeeInv, NoChargeLost, TypeOK, AppInv,
     envVars, exchVars, localVars, histVars, faultVars
<1>21. CASE ListStop
  BY <1>21 DEF ListStop, FeeInv, NoChargeLost, TypeOK, envVars, rowVars,
     localVars, histVars, faultVars
<1>22. CASE StopDropped
  BY <1>22 DEF StopDropped, FeeInv, NoChargeLost, TypeOK, envVars, rowVars,
     localVars, histVars, faultVars
<1> QED BY NextCases, <1>1, <1>2, <1>3, <1>4, <1>5, <1>6, <1>7, <1>8, <1>9, <1>10,
           <1>11, <1>12, <1>13, <1>14, <1>15, <1>16, <1>17, <1>18, <1>19, <1>20, <1>21, <1>22

(* A stop that is gone never comes back.                                   *)
LEMMA StopStep ==
  ASSUME TypeOK, StopInv, Next
  PROVE  StopInv'
<1>1. CASE \E c \in Closers : Decide(c)
  BY <1>1 DEF Decide, Goto, StopInv, StopAndMarketExclusive, TypeOK,
     envVars, rowVars, exchVars, histVars, guardVars, faultVars
<1>2. CASE \E c \in Closers : AcquireCloseLock(c)
  BY <1>2 DEF AcquireCloseLock, Goto, StopInv, StopAndMarketExclusive,
     TypeOK, envVars, exchVars, histVars, guardVars, faultVars
<1>3. CASE \E c \in Closers : AcquireRefused(c)
  BY <1>3 DEF AcquireRefused, Goto, StopInv, StopAndMarketExclusive, TypeOK,
     envVars, rowVars, exchVars, histVars, guardVars
<1>4. CASE \E c \in Closers : SimulateFill(c)
  BY <1>4 DEF SimulateFill, Goto, StopInv, StopAndMarketExclusive, TypeOK,
     envVars, rowVars, exchVars, histVars, guardVars
<1>5. CASE \E c \in Closers : FillCloseWithStaleRecovery(c)
  BY <1>5 DEF FillCloseWithStaleRecovery, RecoverAfterError, Goto, StopInv,
     StopAndMarketExclusive, TypeOK, envVars, rowVars, exchVars, histVars, guardVars
<1>6. CASE \E c \in Closers : StopGuard(c)
  BY <1>6 DEF StopGuard, AfterGuard, Believe, StopAnswers, WithoutState, Goto, StopInv, StopAndMarketExclusive, TypeOK,
     envVars, rowVars, exchVars, histVars, guardVars
<1>7. CASE \E c \in Closers : CancelStop(c)
  BY <1>7 DEF CancelStop, Goto, StopInv, StopAndMarketExclusive, TypeOK,
     envVars, rowVars, histVars, guardVars
<1>8. CASE \E c \in Closers : RecheckStop(c)
  BY <1>8 DEF RecheckStop, AfterRecheck, Believe, StopAnswers, WithoutState, Goto, StopInv,
     StopAndMarketExclusive, TypeOK, envVars, rowVars, exchVars, histVars, guardVars
<1>9. CASE \E c \in Closers : SendCloseOrder(c)
  BY <1>9 DEF SendCloseOrder, Goto, StopInv, StopAndMarketExclusive, TypeOK,
     envVars, rowVars, exchVars, guardVars
<1>10. CASE \E c \in Closers : PollExecutions(c)
  BY <1>10 DEF PollExecutions, Goto, StopInv, StopAndMarketExclusive,
     TypeOK, envVars, rowVars, exchVars, guardVars
<1>11. CASE \E c \in Closers : ReleaseCloseLock(c)
  BY <1>11 DEF ReleaseCloseLock, Goto, StopInv, StopAndMarketExclusive,
     TypeOK, envVars, exchVars, histVars, guardVars
<1>12. CASE \E c \in Closers : PersistClosedTrade(c)
  BY <1>12 DEF PersistClosedTrade, Goto, StopInv, StopAndMarketExclusive,
     TypeOK, envVars, exchVars, guardVars
<1>13. CASE \E c \in Closers : FillWorking(c)
  BY <1>13 DEF FillWorking, StopInv, StopAndMarketExclusive, TypeOK,
     envVars, rowVars, histVars, guardVars, faultVars
<1>14. CASE \E c \in Closers : FillLost(c)
  BY <1>14 DEF FillLost, StopInv, StopAndMarketExclusive, TypeOK, envVars,
     rowVars, histVars, guardVars, faultVars
<1>15. CASE ApplyFee
  BY <1>15 DEF ApplyFee, StopInv, StopAndMarketExclusive, TypeOK, envVars,
     exchVars, localVars, faultVars, guardVars
<1>16. CASE LockAges
  BY <1>16 DEF LockAges, StopInv, StopAndMarketExclusive, TypeOK, envVars,
     exchVars, localVars, histVars, guardVars, faultVars
<1>17. CASE StopTriggers
  BY <1>17 DEF StopTriggers, StopInv, StopAndMarketExclusive, TypeOK,
     envVars, rowVars, localVars, histVars, guardVars, faultVars
<1>18. CASE Restart
  BY <1>18 DEF Restart, StopInv, StopAndMarketExclusive, TypeOK, envVars,
     rowVars, exchVars, guardVars
<1>19. CASE Reconcile
  BY <1>19 DEF Reconcile, StopInv, StopAndMarketExclusive, TypeOK, envVars,
     exchVars, localVars, guardVars
<1>20. CASE CloseTradeReconciled
  BY <1>20 DEF CloseTradeReconciled, StopInv, StopAndMarketExclusive,
     TypeOK, envVars, exchVars, localVars, histVars, guardVars, faultVars
<1>21. CASE ListStop
  BY <1>21 DEF ListStop, StopInv, StopAndMarketExclusive, TypeOK,
     envVars, rowVars, localVars, histVars, guardVars, faultVars
<1>22. CASE StopDropped
  BY <1>22 DEF StopDropped, StopInv, StopAndMarketExclusive, TypeOK,
     envVars, rowVars, localVars, histVars, guardVars, faultVars
<1> QED BY NextCases, <1>1, <1>2, <1>3, <1>4, <1>5, <1>6, <1>7, <1>8, <1>9, <1>10,
           <1>11, <1>12, <1>13, <1>14, <1>15, <1>16, <1>17, <1>18, <1>19, <1>20, <1>21, <1>22

(* Without an identifier no close order is sent.                           *)
LEMMA GmoStep ==
  ASSUME TypeOK, GmoInv, Next
  PROVE  GmoInv'
<1>1. CASE \E c \in Closers : Decide(c)
  BY <1>1 DEF Decide, Goto, GmoInv, TypeOK, envVars, rowVars, exchVars,
     histVars, faultVars
<1>2. CASE \E c \in Closers : AcquireCloseLock(c)
  BY <1>2 DEF AcquireCloseLock, Goto, GmoInv, TypeOK, envVars, exchVars,
     histVars, faultVars
<1>3. CASE \E c \in Closers : AcquireRefused(c)
  BY <1>3 DEF AcquireRefused, Goto, GmoInv, TypeOK, envVars, rowVars,
     exchVars, histVars
<1>4. CASE \E c \in Closers : SimulateFill(c)
  BY <1>4 DEF SimulateFill, Goto, GmoInv, TypeOK, envVars, rowVars,
     exchVars, histVars
<1>5. CASE \E c \in Closers : FillCloseWithStaleRecovery(c)
  BY <1>5 DEF FillCloseWithStaleRecovery, RecoverAfterError, Goto, GmoInv,
     TypeOK, envVars, rowVars, exchVars, histVars
<1>6. CASE \E c \in Closers : StopGuard(c)
  BY <1>6 DEF StopGuard, AfterGuard, Believe, Goto, GmoInv, TypeOK, envVars, rowVars, exchVars,
     histVars
<1>7. CASE \E c \in Closers : CancelStop(c)
  BY <1>7 DEF CancelStop, Goto, GmoInv, TypeOK, envVars, rowVars, histVars
<1>8. CASE \E c \in Closers : RecheckStop(c)
  BY <1>8 DEF RecheckStop, AfterRecheck, Believe, Goto, GmoInv, TypeOK, envVars,
     rowVars, exchVars, histVars
<1>9. CASE \E c \in Closers : SendCloseOrder(c)
  BY <1>9 DEF SendCloseOrder, MayClosePosition, Goto, GmoInv, TypeOK,
     envVars, rowVars, exchVars
<1>10. CASE \E c \in Closers : PollExecutions(c)
  BY <1>10 DEF PollExecutions, Goto, GmoInv, TypeOK, envVars, rowVars,
     exchVars
<1>11. CASE \E c \in Closers : ReleaseCloseLock(c)
  BY <1>11 DEF ReleaseCloseLock, Goto, GmoInv, TypeOK, envVars, exchVars,
     histVars
<1>12. CASE \E c \in Closers : PersistClosedTrade(c)
  BY <1>12 DEF PersistClosedTrade, Goto, GmoInv, TypeOK, envVars, exchVars
<1>13. CASE \E c \in Closers : FillWorking(c)
  BY <1>13 DEF FillWorking, Trade, GmoInv, TypeOK, envVars, rowVars,
     histVars, faultVars
<1>14. CASE \E c \in Closers : FillLost(c)
  BY <1>14 DEF FillLost, Trade, GmoInv, TypeOK, envVars, rowVars, histVars,
     faultVars
<1>15. CASE ApplyFee
  BY <1>15 DEF ApplyFee, GmoInv, TypeOK, envVars, exchVars, localVars,
     faultVars
<1>16. CASE LockAges
  BY <1>16 DEF LockAges, GmoInv, TypeOK, envVars, exchVars, localVars,
     histVars, faultVars
<1>17. CASE StopTriggers
  BY <1>17 DEF StopTriggers, Trade, GmoInv, TypeOK, envVars, rowVars,
     localVars, histVars, faultVars
<1>18. CASE Restart
  BY <1>18 DEF Restart, GmoInv, TypeOK, envVars, rowVars, exchVars
<1>19. CASE Reconcile
  BY <1>19 DEF Reconcile, GmoInv, TypeOK, envVars, exchVars, localVars
<1>20. CASE CloseTradeReconciled
  BY <1>20 DEF CloseTradeReconciled, GmoInv, TypeOK, envVars, exchVars,
     localVars, histVars, faultVars
<1>21. CASE ListStop
  BY <1>21 DEF ListStop, GmoInv, TypeOK, envVars, rowVars,
     localVars, histVars, faultVars
<1>22. CASE StopDropped
  BY <1>22 DEF StopDropped, GmoInv, TypeOK, envVars, rowVars,
     localVars, histVars, faultVars
<1> QED BY NextCases, <1>1, <1>2, <1>3, <1>4, <1>5, <1>6, <1>7, <1>8, <1>9, <1>10,
           <1>11, <1>12, <1>13, <1>14, <1>15, <1>16, <1>17, <1>18, <1>19, <1>20, <1>21, <1>22

(* The stop and the orders take from one position.                         *)
LEMMA NetStep ==
  ASSUME TypeOK, GmoInv, NetInv, Next
  PROVE  NetInv'
<1> USE CloseAssumption DEF CloseAssumption, NetInv, TypeOK, Live
<1>1. CASE \E c \in Closers :
             \/ Decide(c) \/ AcquireCloseLock(c) \/ AcquireRefused(c)
             \/ SimulateFill(c) \/ FillCloseWithStaleRecovery(c) \/ StopGuard(c)
  BY <1>1 DEF Decide, AcquireCloseLock, AcquireRefused, SimulateFill,
     FillCloseWithStaleRecovery, StopGuard, envVars, exchVars
<1>2. CASE \E c \in Closers :
             \/ RecheckStop(c) \/ SendCloseOrder(c) \/ PollExecutions(c)
             \/ ReleaseCloseLock(c) \/ PersistClosedTrade(c)
  BY <1>2 DEF RecheckStop, SendCloseOrder, PollExecutions, ReleaseCloseLock,
     PersistClosedTrade, envVars, exchVars
<1>3. CASE ApplyFee \/ LockAges \/ Restart \/ Reconcile \/ CloseTradeReconciled
  BY <1>3 DEF ApplyFee, LockAges, Restart, Reconcile, CloseTradeReconciled, envVars, exchVars
<1>4. CASE ListStop \/ StopDropped \/ \E c \in Closers : CancelStop(c)
  BY <1>4 DEF ListStop, StopDropped, CancelStop, envVars
<1>5. CASE \E c \in Closers : FillWorking(c)
  BY <1>5 DEF FillWorking, Trade, GmoInv, envVars
<1>6. CASE \E c \in Closers : FillLost(c)
  BY <1>6 DEF FillLost, Trade, GmoInv, envVars
<1>7. CASE StopTriggers
  BY <1>7 DEF StopTriggers, Trade, GmoInv, envVars
<1> QED BY NextCases, <1>1, <1>2, <1>3, <1>4, <1>5, <1>6, <1>7

(* What is left of the position only shrinks, and so do the orders.        *)
LEMMA CoverStep ==
  ASSUME TypeOK, AppInv, GmoInv, NetInv, CoverInv, Next
  PROVE  CoverInv'
<1> USE CloseAssumption DEF CloseAssumption
<1>1. CASE \E c \in Closers : Decide(c)
  BY <1>1 DEF Decide, Goto, CoverInv, Covered, NetInv, TypeOK, Live, envVars,
     rowVars, exchVars, histVars, guardVars, faultVars
<1>2. CASE \E c \in Closers : AcquireCloseLock(c)
  BY <1>2 DEF AcquireCloseLock, Goto, CoverInv, Covered, NetInv, TypeOK, Live,
     envVars, exchVars, histVars, guardVars, faultVars
<1>3. CASE \E c \in Closers : AcquireRefused(c)
  BY <1>3 DEF AcquireRefused, Goto, CoverInv, Covered, NetInv, TypeOK, Live,
     envVars, rowVars, exchVars, histVars, guardVars
<1>4. CASE \E c \in Closers : SimulateFill(c)
  BY <1>4 DEF SimulateFill, Goto, CoverInv, Covered, NetInv, TypeOK, Live, envVars,
     rowVars, exchVars, histVars, guardVars
<1>5. CASE \E c \in Closers : FillCloseWithStaleRecovery(c)
  BY <1>5 DEF FillCloseWithStaleRecovery, RecoverAfterError, Goto, CoverInv,
     Covered, TypeOK, Live, envVars, rowVars, exchVars, histVars, guardVars
<1>6. CASE \E c \in Closers : StopGuard(c)
  BY <1>6 DEF StopGuard, AfterGuard, Believe, StopAnswers, WithoutState, Goto, CoverInv, Covered, NetInv, TypeOK, Live, envVars,
     rowVars, exchVars, histVars, guardVars
<1>7. CASE \E c \in Closers : CancelStop(c)
  BY <1>7 DEF CancelStop, Goto, CoverInv, Covered, NetInv, TypeOK, Live, envVars,
     rowVars, histVars, guardVars
<1>8. CASE \E c \in Closers : RecheckStop(c)
  <2> SUFFICES ASSUME NEW c \in Closers, RecheckStop(c) PROVE CoverInv'
    BY <1>8
  <2>1. Covered => Covered'
    BY DEF RecheckStop, Believe, Covered, guardVars, exchVars
  <2>2. pc'[c] = "persist" => Covered'
    <3> SUFFICES ASSUME pc'[c] = "persist" PROVE stop = "executed" \/ partly'
      <4>1. stop = "executed" => pos = 0
        BY DEF NetInv, TypeOK
      <4> QED BY <4>1 DEF RecheckStop, Covered, exchVars
    <3>1. PICK answer \in StopAnswers : Goto(c, AfterRecheck(answer)) /\ Believe(answer)
      BY DEF RecheckStop, Goto, TypeOK
    <3>2. answer = "Executed"
      BY <3>1 DEF AfterRecheck, Goto, TypeOK
    <3> QED BY <3>1, <3>2 DEF Believe
  <2>3. pc'[c] \in {"persist", "send", "release"} /\ \A d \in Closers \ {c} : pc'[d] = pc[d]
    BY DEF RecheckStop, AfterRecheck, Goto, TypeOK
  <2> QED
    BY <2>1, <2>2, <2>3 DEF RecheckStop, CoverInv, Live, TypeOK, envVars, rowVars, exchVars
<1>9. CASE \E c \in Closers : SendCloseOrder(c)
  BY <1>9 DEF SendCloseOrder, MayClosePosition, Goto, CoverInv, Covered,
     TypeOK, Live, envVars, rowVars, exchVars, guardVars
<1>10. CASE \E c \in Closers : PollExecutions(c)
  BY <1>10 DEF PollExecutions, Goto, CoverInv, Covered, NetInv, TypeOK, Live,
     envVars, rowVars, exchVars, guardVars
<1>11. CASE \E c \in Closers : ReleaseCloseLock(c)
  BY <1>11 DEF ReleaseCloseLock, ReleasedStatus, Goto, CoverInv, Covered,
     TypeOK, Live, envVars, exchVars, histVars, guardVars
<1>12. CASE \E c \in Closers : PersistClosedTrade(c)
  BY <1>12 DEF PersistClosedTrade, Closable, Goto, CoverInv, Covered,
     TypeOK, Live, envVars, exchVars, guardVars
<1>13. CASE \E c \in Closers : FillWorking(c)
  BY <1>13 DEF FillWorking, Trade, CoverInv, Covered, NetInv, TypeOK, Live, GmoInv,
     envVars, rowVars, histVars, guardVars, faultVars
<1>14. CASE \E c \in Closers : FillLost(c)
  <2> SUFFICES ASSUME NEW c \in Closers, FillLost(c) PROVE CoverInv'
    BY <1>14
  <2>1. PICK n \in 1..lost[c] : Trade(n) /\ lost' = [lost EXCEPT ![c] = @ - n]
    BY DEF FillLost
  <2>2. n \in Nat /\ pos' \in 0..pos /\ (pos' = 0 \/ pos' = pos - n)
    BY <2>1 DEF Trade, TypeOK, GmoInv
  <2>3. Covered => Covered'
    BY <2>1, <2>2 DEF FillLost, Covered, TypeOK, histVars, guardVars
  <2> QED
    BY <2>2, <2>3 DEF FillLost, CoverInv, TypeOK, Live, envVars, rowVars
<1>15. CASE ApplyFee
  BY <1>15 DEF ApplyFee, CoverInv, Covered, NetInv, TypeOK, Live, envVars, exchVars,
     localVars, faultVars, guardVars
<1>16. CASE LockAges
  BY <1>16 DEF LockAges, CoverInv, Covered, NetInv, TypeOK, Live, envVars, exchVars,
     localVars, histVars, guardVars, faultVars
<1>17. CASE StopTriggers
  BY <1>17 DEF StopTriggers, Trade, CoverInv, Covered, NetInv, TypeOK, Live, GmoInv,
     envVars, rowVars, localVars, histVars, guardVars, faultVars
<1>18. CASE Restart
  BY <1>18 DEF Restart, CoverInv, Covered, NetInv, TypeOK, Live, envVars, rowVars,
     exchVars, guardVars
<1>19. CASE Reconcile
  BY <1>19 DEF Reconcile, ReleasedStatus, CoverInv, Covered, NetInv, TypeOK, Live,
     AppInv, envVars, exchVars, localVars, guardVars
<1>20. CASE CloseTradeReconciled
  BY <1>20 DEF CloseTradeReconciled, CoverInv, Covered, NetInv, TypeOK, Live,
     AppInv, envVars, exchVars, localVars, histVars, guardVars, faultVars
<1>21. CASE ListStop
  BY <1>21 DEF ListStop, CoverInv, Covered, NetInv, TypeOK, Live, GmoInv,
     envVars, rowVars, localVars, histVars, guardVars, faultVars
<1>22. CASE StopDropped
  BY <1>22 DEF StopDropped, CoverInv, Covered, NetInv, TypeOK, Live, GmoInv,
     envVars, rowVars, localVars, histVars, guardVars, faultVars
<1> QED BY NextCases, <1>1, <1>2, <1>3, <1>4, <1>5, <1>6, <1>7, <1>8, <1>9, <1>10,
           <1>11, <1>12, <1>13, <1>14, <1>15, <1>16, <1>17, <1>18, <1>19, <1>20, <1>21, <1>22

(* A second order needs a first one whose fills were not recorded.         *)
LEMMA ReverseStep ==
  ASSUME TypeOK, AppInv, LockInv, StopInv, GmoInv, NetInv, CoverInv, ReverseInv, Next
  PROVE  ReverseInv'
<1> USE CloseAssumption DEF CloseAssumption
<1>1. CASE \E c \in Closers : Decide(c)
  BY <1>1 DEF Decide, Goto, ReverseInv, OrdersFit, Untouched, OrderOwned,
     TypeOK, Live, envVars, rowVars, exchVars, histVars, faultVars
<1>2. CASE \E c \in Closers : AcquireCloseLock(c)
  <2> SUFFICES ASSUME NEW c \in Closers, AcquireCloseLock(c), ~suspends', ~unrecorded'
               PROVE  OrdersFit' /\ Untouched' /\ OrderOwned'
    BY <1>2 DEF ReverseInv
  <2>1. OrdersFit /\ Untouched /\ OrderOwned
    BY DEF AcquireCloseLock, ReverseInv, envVars, histVars
  <2>2. OrdersFit'
    BY <2>1 DEF OrdersFit, AcquireCloseLock, Goto, TypeOK, exchVars
  <2>3. Untouched'
    BY <2>1 DEF Untouched, AcquireCloseLock, Live, envVars, exchVars, histVars
  <2>4. OrderOwned'
    BY <2>1 DEF OrderOwned, AcquireCloseLock, LockFree, Goto, TypeOK, histVars
  <2> QED BY <2>2, <2>3, <2>4
<1>3. CASE \E c \in Closers : AcquireRefused(c)
  BY <1>3 DEF AcquireRefused, Goto, ReverseInv, OrdersFit, Untouched,
     OrderOwned, TypeOK, Live, envVars, rowVars, exchVars, histVars
<1>4. CASE \E c \in Closers : SimulateFill(c)
  BY <1>4 DEF SimulateFill, Goto, ReverseInv, OrdersFit, Untouched,
     OrderOwned, TypeOK, Live, envVars, rowVars, exchVars, histVars
<1>5. CASE \E c \in Closers : FillCloseWithStaleRecovery(c)
  BY <1>5 DEF FillCloseWithStaleRecovery, RecoverAfterError, Goto,
     ReverseInv, OrdersFit, Untouched, OrderOwned, LockInv, CoverInv,
     Holding, TypeOK, Live, envVars, rowVars, exchVars, histVars
<1>6. CASE \E c \in Closers : StopGuard(c)
  BY <1>6 DEF StopGuard, AfterGuard, Believe, Goto, ReverseInv, OrdersFit, Untouched, OrderOwned,
     LockInv, CoverInv, Holding, TypeOK, Live, envVars, rowVars, exchVars,
     histVars
<1>7. CASE \E c \in Closers : CancelStop(c)
  BY <1>7 DEF CancelStop, Goto, ReverseInv, OrdersFit, Untouched,
     OrderOwned, LockInv, CoverInv, Holding, TypeOK, Live, envVars, rowVars,
     histVars
<1>8. CASE \E c \in Closers : RecheckStop(c)
  BY <1>8 DEF RecheckStop, AfterRecheck, Believe, Goto, ReverseInv, OrdersFit,
     Untouched, OrderOwned, LockInv, CoverInv, Holding, TypeOK, Live,
     envVars, rowVars, exchVars, histVars
<1>9. CASE \E c \in Closers : SendCloseOrder(c)
  BY <1>9 DEF SendCloseOrder, MayClosePosition, Goto, ReverseInv, OrdersFit,
     Untouched, OrderOwned, LockInv, CoverInv, Holding, TypeOK, Live,
     StopInv, envVars, rowVars, exchVars
<1>10. CASE \E c \in Closers : PollExecutions(c)
  <2> SUFFICES ASSUME NEW c \in Closers, PollExecutions(c), ~suspends', ~unrecorded'
               PROVE  OrdersFit' /\ Untouched' /\ OrderOwned'
    BY <1>10 DEF ReverseInv
  <2>1. ~(unrecorded \/ working[c] > 0) /\ pc' = [pc EXCEPT ![c] = "persist"]
    BY Zenon DEF PollExecutions, Goto
  <2>2. ~unrecorded /\ working[c] = 0 /\ pc' = [pc EXCEPT ![c] = "persist"]
    BY <2>1 DEF TypeOK
  <2>3. OrdersFit /\ Untouched /\ OrderOwned
    BY <2>2 DEF PollExecutions, ReverseInv, envVars
  <2>4. OrdersFit'
    BY <2>2, <2>3 DEF OrdersFit, PollExecutions, TypeOK, exchVars
  <2>5. Untouched'
    BY <2>3 DEF Untouched, PollExecutions, Live, envVars, exchVars
  <2>6. OrderOwned'
    BY <2>2 DEF OrderOwned, TypeOK
  <2> QED BY <2>4, <2>5, <2>6
<1>11. CASE \E c \in Closers : ReleaseCloseLock(c)
  BY <1>11 DEF ReleaseCloseLock, ReleasedStatus, Goto, ReverseInv,
     OrdersFit, Untouched, OrderOwned, LockInv, CoverInv, Holding, TypeOK,
     Live, envVars, exchVars, histVars
<1>12. CASE \E c \in Closers : PersistClosedTrade(c)
  BY <1>12 DEF PersistClosedTrade, Closable, Goto, ReverseInv, OrdersFit,
     Untouched, OrderOwned, LockInv, CoverInv, Holding, TypeOK, Live,
     StopInv, envVars, exchVars
<1>13. CASE \E c \in Closers : FillWorking(c)
  <2> SUFFICES ASSUME NEW c \in Closers, FillWorking(c), ~suspends', ~unrecorded'
               PROVE  OrdersFit' /\ Untouched' /\ OrderOwned'
    BY <1>13 DEF ReverseInv
  <2>1. OrdersFit /\ Untouched /\ OrderOwned
    BY DEF FillWorking, ReverseInv, envVars, histVars
  <2>2. PICK n \in 1..working[c] : Trade(n) /\ working' = [working EXCEPT ![c] = @ - n]
    BY DEF FillWorking
  <2>3. pc[c] = "poll" /\ sent /\ n \in Nat
    BY <2>1, <2>2 DEF CoverInv, StopInv, TypeOK
  <2>4. /\ pos' - opposite' = pos - opposite - n
        /\ pos' \in Nat /\ opposite' \in Nat
    BY <2>2, <2>3 DEF Trade, GmoInv, NetInv, TypeOK
  <2>5. \A d \in Closers : d # c => working[d] = 0
    BY <2>3 DEF LockInv, CoverInv, Holding, FillWorking, envVars
  <2>6. \A d \in Closers : opposite' + working'[d] <= pos' + stopFills
    BY <2>1, <2>2, <2>3, <2>4, <2>5 DEF OrdersFit, TypeOK
  <2>7. OrdersFit'
    BY <2>1, <2>6 DEF OrdersFit, FillWorking
  <2>8. Untouched' /\ OrderOwned'
    BY <2>1, <2>3 DEF Untouched, OrderOwned, FillWorking, histVars, rowVars
  <2> QED BY <2>7, <2>8
<1>14. CASE \E c \in Closers : FillLost(c)
  BY <1>14 DEF FillLost, Trade, ReverseInv, OrdersFit, Untouched,
     OrderOwned, LockInv, CoverInv, Holding, TypeOK, Live, envVars, rowVars,
     histVars, faultVars
<1>15. CASE ApplyFee
  BY <1>15 DEF ApplyFee, ReverseInv, OrdersFit, Untouched, OrderOwned,
     TypeOK, Live, envVars, exchVars, localVars, faultVars
<1>16. CASE LockAges
  BY <1>16 DEF LockAges, ReverseInv, OrdersFit, Untouched, OrderOwned,
     TypeOK, Live, envVars, exchVars, localVars, histVars, faultVars
<1>17. CASE StopTriggers
  <2> SUFFICES ASSUME ~suspends', ~unrecorded'
               PROVE  OrdersFit' /\ Untouched' /\ OrderOwned'
    BY DEF ReverseInv
  <2>1. OrdersFit /\ Untouched /\ OrderOwned
    BY <1>17 DEF StopTriggers, ReverseInv, envVars, histVars
  <2>2. PICK n \in 1..(Qty - stopFills) : Trade(n) /\ stopFills' = stopFills + n
    BY <1>17 DEF StopTriggers
  <2>3. /\ pos' - opposite' = pos - opposite - n
        /\ pos' \in Nat /\ opposite' \in Nat /\ n \in Nat /\ stopFills' \in Nat
        /\ n <= pos /\ opposite = 0 => opposite' = 0
    BY <1>17, <2>2 DEF StopTriggers, Trade, GmoInv, NetInv, TypeOK
  <2>4. OrdersFit'
    BY <1>17, <2>1, <2>2, <2>3 DEF OrdersFit, StopTriggers, localVars, TypeOK
  <2>5. Untouched'
    <3> SUFFICES ASSUME Live, ~sent PROVE opposite' = 0 /\ pos' + stopFills' = Qty
      BY <1>17 DEF Untouched, StopTriggers, Live, envVars, histVars
    <3>1. opposite = 0 /\ pos + stopFills = Qty
      BY <2>1 DEF Untouched
    <3>2. pos \in Nat /\ opposite \in Nat /\ stopFills \in Nat /\ Qty \in Nat
      BY CloseAssumption DEF TypeOK, CloseAssumption
    <3>3. n <= pos /\ stopFills' = stopFills + n
      BY <2>2, <2>3, <3>1, <3>2
    <3>4. opposite' = 0
      BY <2>3, <3>1, <3>3
    <3>5. n \in 1..Qty
      BY <2>2, <3>2
    <3>6. pos' = pos - n
      BY <2>2, <3>1, <3>2, <3>3, <3>4, <3>5 DEF Trade
    <3>7. pos' + stopFills' = Qty
      BY <3>1, <3>2, <3>3, <3>5, <3>6
    <3> QED BY <3>4, <3>7
  <2>6. OrderOwned'
    BY <1>17, <2>1 DEF OrderOwned, StopTriggers, histVars, rowVars, localVars
  <2> QED BY <2>4, <2>5, <2>6
<1>18. CASE Restart
  BY <1>18 DEF Restart, ReverseInv, OrdersFit, Untouched, OrderOwned,
     LockInv, CoverInv, Holding, TypeOK, Live, StopInv, envVars, rowVars,
     exchVars
<1>19. CASE Reconcile
  BY <1>19 DEF Reconcile, ReleasedStatus, ReverseInv, OrdersFit, Untouched,
     OrderOwned, LockInv, CoverInv, Holding, TypeOK, Live, AppInv, envVars,
     exchVars, localVars
<1>20. CASE CloseTradeReconciled
  BY <1>20 DEF CloseTradeReconciled, ReverseInv, OrdersFit, Untouched,
     OrderOwned, LockInv, CoverInv, Holding, TypeOK, Live, envVars,
     exchVars, localVars, histVars, faultVars
<1>21. CASE ListStop
  BY <1>21 DEF ListStop, ReverseInv, OrdersFit, Untouched, OrderOwned, Live, TypeOK,
     envVars, rowVars, localVars, histVars
<1>22. CASE StopDropped
  BY <1>22 DEF StopDropped, ReverseInv, OrdersFit, Untouched, OrderOwned, Live, TypeOK,
     envVars, rowVars, localVars, histVars
<1> QED BY NextCases, <1>1, <1>2, <1>3, <1>4, <1>5, <1>6, <1>7, <1>8, <1>9, <1>10,
           <1>11, <1>12, <1>13, <1>14, <1>15, <1>16, <1>17, <1>18, <1>19, <1>20, <1>21, <1>22

-----------------------------------------------------------------------------
(* The inductive invariant holds initially.                                *)
LEMMA IInvInit == Init => IInv
<1> SUFFICES ASSUME Init PROVE IInv
  OBVIOUS
<1> USE CloseAssumption DEF CloseAssumption, Init
<1>1. TypeOK
  BY TypeInit
<1>2. AppInv /\ BalanceSettledOnce /\ LockInv /\ FeeInv
  BY <1>1 DEF AppInv, BalanceSettledOnce, LockInv, FeeInv, NoChargeLost, Holding, TypeOK
<1>3. StopInv /\ GmoInv /\ NetInv /\ CoverInv
  <2>1. StopInv
    BY <1>1 DEF StopInv, StopAndMarketExclusive
  <2>2. GmoInv
    BY <1>1 DEF GmoInv, MayHaveStop
  <2>3. NetInv
    <3>1. ~Live => stop = "none"
      BY DEF MayHaveStop, Live, ModeNames
    <3>2. stop # "executed" /\ stopFills = 0 /\ opposite = 0 /\ pos \in {0, Qty}
      OBVIOUS
    <3> QED BY <3>1, <3>2 DEF NetInv, Live
  <2>4. CoverInv
    BY <1>1 DEF CoverInv, Covered
  <2> QED BY <2>1, <2>2, <2>3, <2>4
<1>4. ReverseInv
  BY <1>1 DEF ReverseInv, OrdersFit, Untouched, OrderOwned, TypeOK
<1> QED BY <1>1, <1>2, <1>3, <1>4 DEF IInv

(* Every step preserves the inductive invariant: its parts together.       *)
LEMMA IInvStep == IInv /\ [Next]_vars => IInv'
<1> SUFFICES ASSUME IInv, [Next]_vars PROVE IInv'
  OBVIOUS
<1>1. CASE Next
  BY <1>1, TypeStep, AppStep, BalanceStep, LockStep, FeeStep, StopStep, GmoStep, NetStep,
     CoverStep, ReverseStep DEF IInv
<1>2. CASE UNCHANGED vars
  <2> USE <1>2 DEF IInv, vars, envVars, rowVars, exchVars, localVars, histVars, guardVars,
        faultVars
  <2>1. TypeOK' /\ AppInv' /\ BalanceSettledOnce' /\ LockInv' /\ FeeInv'
    BY TypeStutter DEF AppInv, BalanceSettledOnce, LockInv, FeeInv, NoChargeLost, Live
  <2>2. StopInv' /\ GmoInv' /\ NetInv' /\ CoverInv' /\ ReverseInv'
    BY DEF StopInv, StopAndMarketExclusive, GmoInv, NetInv, CoverInv, Covered, ReverseInv,
           OrdersFit, Untouched, OrderOwned, Live
  <2> QED BY <2>1, <2>2
<1> QED BY <1>1, <1>2

(* The inductive invariant holds in every reachable state.                 *)
THEOREM InductiveInvariant == Spec => []IInv
  BY IInvInit, IInvStep, PTL DEF Spec

(* The balance agrees with the row in every state: margin and profit or    *)
(* loss are paid back exactly once (release_margin).                       *)
THEOREM BalanceCorrect == Spec => []BalanceSettledOnce
<1>1. IInv => BalanceSettledOnce
  BY DEF IInv
<1> QED BY <1>1, InductiveInvariant, PTL

(* The close lock is exclusive unless a holder outlives the stale          *)
(* threshold (acquire_close_lock).                                         *)
THEOREM LockExclusive == Spec => []OneHolder
<1>1. IInv => OneHolder
  BY DEF IInv, LockInv, OneHolder
<1> QED BY <1>1, InductiveInvariant, PTL

(* Overwriting the fees in Phase 3 loses no fee (update_trade_closed).     *)
THEOREM FeesKept == Spec => []NoChargeLost
<1>1. IInv => NoChargeLost
  BY DEF IInv, FeeInv
<1> QED BY <1>1, InductiveInvariant, PTL

(* The money of a trade is settled exactly once, with all its fees.        *)
THEOREM MoneyCorrect == Spec => []MoneySettledOnce
  BY BalanceCorrect, FeesKept, PTL DEF MoneySettledOnce

(* The stop and a market close order never both trade                      *)
(* (stop_guard_before_close).                                              *)
THEOREM StopExclusive == Spec => []StopAndMarketExclusive
<1>1. IInv => StopAndMarketExclusive
  BY DEF IInv, StopInv
<1> QED BY <1>1, InductiveInvariant, PTL

(* A closed trade leaves nothing on the exchange that no accepted order    *)
(* covers (fill_close_with_stale_recovery, poll_executions).               *)
THEOREM ClosedCovered == Spec => []ClosedIsCovered
<1>1. IInv => ClosedIsCovered
  BY DEF IInv, CoverInv, Covered, ClosedIsCovered
<1> QED BY <1>1, InductiveInvariant, PTL

(* Closing by position identifier never reverses the position              *)
(* (ensure_close_position_id_present).                                     *)
THEOREM GmoCloseNeverReverses == Spec => []GmoNeverReverses
<1>1. IInv => GmoNeverReverses
  BY DEF IInv, GmoInv, GmoNeverReverses
<1> QED BY <1>1, InductiveInvariant, PTL

(* On a netting exchange a reversal is a fill that an attempt did not      *)
(* record, or one of the stop that the market order did not count          *)
(* (stop_guard_before_close, fill_close_live).                             *)
THEOREM ReversalCause == Spec => []ReversalIsAccounted
<1>1. IInv => ReversalIsAccounted
  <2> SUFFICES ASSUME IInv, ~suspends, ~unrecorded
               PROVE  /\ opposite <= stopFills
                      /\ opposite > 0 /\ stopId /\ ~missed => stop = "gone" /\ stopFills < Qty
    BY DEF ReversalIsAccounted
  <2>1. OrdersFit /\ Untouched /\ TypeOK /\ NetInv /\ StopAndMarketExclusive
    BY DEF IInv, ReverseInv, StopInv
  <2>2. opposite <= pos + stopFills
    BY <2>1, CloseAssumption DEF OrdersFit, TypeOK, CloseAssumption
  <2>3. opposite <= stopFills
    BY <2>1, <2>2 DEF NetInv, TypeOK
  <2>4. opposite > 0 => sent
    BY <2>1, <2>3 DEF Untouched, NetInv, TypeOK
  <2> QED
    <3>1. opposite > 0 /\ stopId /\ ~missed => stop = "gone"
      BY <2>1, <2>4 DEF StopAndMarketExclusive
    <3>2. stop = "gone" => stopFills < Qty
      BY <2>1, CloseAssumption DEF NetInv, TypeOK, CloseAssumption
    <3> QED BY <2>3, <3>1, <3>2
<1> QED BY <1>1, InductiveInvariant, PTL

-----------------------------------------------------------------------------
(* Steps: each one is a step of the abstract trade, or invisible to it.    *)

(* A step maps to Lock, Unlock, Charge or Settle, or leaves the abstract   *)
(* trade alone.                                                            *)
LEMMA StepImplements ==
  ASSUME IInv, Next
  PROVE  [Lifecycle!Next]_Lifecycle!lvars
<1> USE CloseAssumption DEF CloseAssumption, IInv, TypeOK, Lifecycle!Next, Lifecycle!lvars,
        Lifecycle!Lock, Lifecycle!Unlock, Lifecycle!Charge, Lifecycle!Settle
<1>1. CASE \E c \in Closers :
             Decide(c) \/ AcquireRefused(c) \/ SimulateFill(c) \/ FillCloseWithStaleRecovery(c)
  BY <1>1 DEF Decide, AcquireRefused, SimulateFill, FillCloseWithStaleRecovery, rowVars, histVars
<1>2. CASE \E c \in Closers :
             StopGuard(c) \/ CancelStop(c) \/ RecheckStop(c) \/ SendCloseOrder(c) \/ PollExecutions(c)
  BY <1>2 DEF StopGuard, CancelStop, RecheckStop, SendCloseOrder, PollExecutions, rowVars, histVars
<1>3. CASE \/ ListStop \/ StopTriggers \/ StopDropped \/ LockAges \/ Restart
             \/ \E c \in Closers : FillWorking(c) \/ FillLost(c)
  BY <1>3 DEF ListStop, StopTriggers, StopDropped, LockAges, Restart, FillWorking, FillLost, rowVars, histVars
<1>4. CASE \E c \in Closers : AcquireCloseLock(c)
  BY <1>4 DEF AcquireCloseLock, LockFree, histVars
<1>5. CASE \E c \in Closers : ReleaseCloseLock(c)
  BY <1>5 DEF ReleaseCloseLock, ReleasedStatus, histVars
<1>6. CASE \E c \in Closers : PersistClosedTrade(c)
  BY <1>6 DEF PersistClosedTrade, Closable
<1>7. CASE ApplyFee
  BY <1>7 DEF ApplyFee, Chargeable
<1>8. CASE Reconcile
  BY <1>8 DEF Reconcile, ReleasedStatus
<1>9. CASE CloseTradeReconciled
  BY <1>9 DEF CloseTradeReconciled, AppInv, histVars
<1> QED BY NextCases, <1>1, <1>2, <1>3, <1>4, <1>5, <1>6, <1>7, <1>8, <1>9

(* The close protocol, with its interleavings, failures and restarts, is   *)
(* to the rest of the system a trade that is locked, unlocked, charged     *)
(* while open, and settled once.                                           *)
THEOREM Refinement == Spec => ImplementsLifecycle
<1>1. Init => Lifecycle!Init
  BY DEF Init, Lifecycle!Init
<1>2. IInv /\ [Next]_vars => [Lifecycle!Next]_Lifecycle!lvars
  <2>1. UNCHANGED vars => UNCHANGED Lifecycle!lvars
    BY DEF vars, rowVars, histVars, Lifecycle!lvars
  <2> QED BY <2>1, StepImplements
<1> QED BY <1>1, <1>2, InductiveInvariant, PTL DEF Spec, ImplementsLifecycle, Lifecycle!Spec

(* No step takes a trade out of 'closed' or changes what was recorded.     *)
THEOREM ClosedFinal == Spec => ClosedIsFinal
<1>1. ASSUME IInv, Next, status = "closed"
      PROVE  UNCHANGED <<status, fees, pnl, balance>>
  <2> USE <1>1 DEF IInv, AppInv, TypeOK
  <2>1. CASE \E c \in Closers :
               Decide(c) \/ AcquireRefused(c) \/ SimulateFill(c) \/ FillCloseWithStaleRecovery(c)
    BY <2>1 DEF Decide, AcquireRefused, SimulateFill, FillCloseWithStaleRecovery, rowVars, histVars
  <2>2. CASE \E c \in Closers :
               StopGuard(c) \/ CancelStop(c) \/ RecheckStop(c) \/ SendCloseOrder(c) \/ PollExecutions(c)
    BY <2>2 DEF StopGuard, CancelStop, RecheckStop, SendCloseOrder, PollExecutions, rowVars, histVars
  <2>3. CASE \/ ListStop \/ StopTriggers \/ StopDropped \/ LockAges \/ Restart
             \/ \E c \in Closers : FillWorking(c) \/ FillLost(c)
    BY <2>3 DEF ListStop, StopTriggers, StopDropped, LockAges, Restart, FillWorking, FillLost, rowVars, histVars
  <2>4. CASE \E c \in Closers : AcquireCloseLock(c)
    BY <2>4 DEF AcquireCloseLock, LockFree, histVars
  <2>5. CASE \E c \in Closers : ReleaseCloseLock(c)
    BY <2>5 DEF ReleaseCloseLock, ReleasedStatus, histVars
  <2>6. CASE \E c \in Closers : PersistClosedTrade(c)
    BY <2>6 DEF PersistClosedTrade, Closable
  <2>7. CASE ApplyFee
    BY <2>7 DEF ApplyFee, Chargeable
  <2>8. CASE Reconcile
    BY <2>8 DEF Reconcile, ReleasedStatus
  <2>9. CASE CloseTradeReconciled
    BY <2>9 DEF CloseTradeReconciled, AppInv, histVars
  <2> QED BY NextCases, <2>1, <2>2, <2>3, <2>4, <2>5, <2>6, <2>7, <2>8, <2>9
<1>2. IInv /\ [Next]_vars => [status = "closed" => UNCHANGED <<status, fees, pnl, balance>>]_vars
  BY <1>1
<1> QED BY <1>2, InductiveInvariant, PTL DEF Spec, ClosedIsFinal
=============================================================================
