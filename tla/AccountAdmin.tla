---------------------------- MODULE AccountAdmin ----------------------------
(***************************************************************************)
(* The trading accounts as operators change them through the API, while    *)
(* the executor opens and settles trades on them and the service is        *)
(* restarted with another configuration.  A handler reads the database     *)
(* several times before its one writing statement: the checks of the API,  *)
(* the same checks again in update_account and create_account, and at last *)
(* the conditions of the statement itself.                                 *)
(*                                                                         *)
(* A request is served by a handler from Arrive to its answer.  Names and  *)
(* balances of accounts are left out, but for the smallest balance.        *)
(***************************************************************************)
EXTENDS Integers, FiniteSets

CONSTANTS
  Handlers,        \* requests that are served at the same time
  Ids,             \* identifiers of accounts
  Exchanges,
  Catalog,         \* names in the table strategies
  LeverageCap,     \* LeverageCap[x]: the regulatory cap of exchange x
  MinInitialBalance,
  LevelConfigs,    \* configurations: functions from exchanges to levels
  InitialAccounts, \* function from Ids: the rows at the beginning, or NoRow
  Requests,        \* requests that operators make
  MaxRequests, MaxSignals, MaxRestarts \* bounds

NoRow == [state |-> "none"]
Rows == [state : {"row", "deleted"}, type : {"paper", "live"}, exchange : Exchanges, leverage : Nat,
         strategy : Catalog, active : BOOLEAN]

\* The unique index trading_accounts_one_live_per_exchange holds for the rows.
IndexHolds(rows) ==
  \A i, j \in Ids :
    LET Live(k) == rows[k].state = "row" /\ rows[k].type = "live" /\ rows[k].active
    IN  Live(i) /\ Live(j) /\ rows[i].exchange = rows[j].exchange => i = j

ASSUME AdminAssumption ==
  /\ MinInitialBalance \in Nat /\ LeverageCap \in [Exchanges -> Nat]
  /\ \A c \in LevelConfigs : DOMAIN c \subseteq Exchanges
  /\ InitialAccounts \in [Ids -> Rows \cup {NoRow}] /\ IndexHolds(InitialAccounts)
  /\ "new" \notin Ids
  /\ \A r \in Requests :
       /\ r.op \in {"create", "update", "remove"} /\ (r.op # "create" => r.id \in Ids)
       /\ r.op # "remove" => r.leverage \in Nat
       /\ r.op = "update" => r.active \in {"true", "false", "keep"}

VARIABLES
  up,        \* the service is running
  levels,    \* exchange_liquidation_levels of the running service
  account,   \* account[i]: row of trading_accounts, in state "row" or "deleted", or NoRow
  unsettled, \* unsettled[i]: trades of i that are open or closing
  traded,    \* traded[i]: there are rows of trades for i
  signal,    \* signal[i]: the executor has confirmed that i is active and works on an entry
  handler,   \* handler[h]: the request that h serves, the step it is at and what it has read
  witnessed, \* history: witnessed[h]: what has been true at some time since the request arrived
  requests, signals, restarts \* counters of the bounds

tradeVars == <<unsettled, traded, signal>>
counters == <<requests, signals, restarts>>
adminVars == <<up, levels, account, tradeVars, handler, witnessed, counters>>

Idle == [step |-> "idle"]
Exists(i) == account[i].state = "row"
Active(i) == Exists(i) /\ account[i].active

\* Other active live accounts of exchange x; id may be outside Ids.
LiveOn(x, id) == {i \in Ids \ {id} : Active(i) /\ account[i].type = "live" /\ account[i].exchange = x}
-----------------------------------------------------------------------------
(* Startup and the configuration.                                          *)

LevelResolved(c, x) == x \in DOMAIN c /\ c[x] > 0

\* Mutant: list_active.
ActiveOnly == {i \in Ids : Active(i)}

\* list_active_or_with_open_trades.
StartupAccounts == {i \in Ids : Exists(i) /\ (Active(i) \/ unsettled[i] > 0)}

\* resolve_exchange_liquidation_levels; the service does not start otherwise.
LevelsAccepted(c) == \A i \in StartupAccounts : LevelResolved(c, account[i].exchange)

AdminInit ==
  /\ account = InitialAccounts
  /\ unsettled = [i \in Ids |-> 0] /\ traded = [i \in Ids |-> FALSE] /\ signal = [i \in Ids |-> FALSE]
  /\ levels \in {c \in LevelConfigs : LevelsAccepted(c)} /\ up = TRUE
  /\ handler = [h \in Handlers |-> Idle]
  /\ witnessed = [h \in Handlers |-> {}]
  /\ requests = 0 /\ signals = 0 /\ restarts = 0

\* The process ends at any point: what handlers and executor were at is lost.
Stop ==
  /\ up /\ up' = FALSE
  /\ restarts < MaxRestarts /\ restarts' = restarts + 1
  /\ handler' = [h \in Handlers |-> Idle]
  /\ signal' = [i \in Ids |-> FALSE]
  /\ UNCHANGED <<levels, account, unsettled, traded, requests, signals>>

Start ==
  /\ ~up /\ up' = TRUE
  /\ levels' \in {c \in LevelConfigs : LevelsAccepted(c)}
  /\ UNCHANGED <<account, tradeVars, handler, counters>>
-----------------------------------------------------------------------------
(* The executor and the closers.                                           *)

\* dispatch_to_account: the account is active (read again) and its exchange
\* has a level (build_trader).
Dispatch(i) ==
  /\ up /\ signals < MaxSignals /\ signals' = signals + 1
  /\ Active(i) /\ ~signal[i] /\ LevelResolved(levels, account[i].exchange)
  /\ signal' = [signal EXCEPT ![i] = TRUE]
  /\ UNCHANGED <<up, levels, account, unsettled, traded, handler, requests, restarts>>

\* The trade is inserted, whatever has become of the flag meanwhile; the
\* foreign key refuses it when the account is gone.
OpenTrade(i) ==
  /\ signal[i] /\ signal' = [signal EXCEPT ![i] = FALSE]
  /\ \/ Exists(i) /\ unsettled' = [unsettled EXCEPT ![i] = @ + 1] /\ traded' = [traded EXCEPT ![i] = TRUE]
     \/ ~Exists(i) /\ UNCHANGED <<unsettled, traded>>
  /\ UNCHANGED <<up, levels, account, handler, counters>>

\* close_trade: nothing is closed on an exchange without a level.
SettleTrade(i) ==
  /\ up /\ unsettled[i] > 0 /\ LevelResolved(levels, account[i].exchange)
  /\ unsettled' = [unsettled EXCEPT ![i] = @ - 1]
  /\ UNCHANGED <<up, levels, account, traded, signal, handler, counters>>
-----------------------------------------------------------------------------
(* Handlers.                                                               *)

Answer(h, a) == handler' = [handler EXCEPT ![h].step = "done", ![h].answer = a]
GoTo(h, s) == handler' = [handler EXCEPT ![h].step = s]

\* A handler reads: it leaves the database alone.
ReadsOnly == UNCHANGED <<up, levels, account, tradeVars, counters>>

LeverageAllowed(x, l) == l <= LeverageCap[x]

\* create: what is checked before the first look at the accounts.
CreateIsValid(r) ==
  /\ r.type \in {"paper", "live"}
  /\ r.currency = "JPY" => r.balance >= MinInitialBalance
  /\ r.exchange \in Exchanges
  /\ LeverageAllowed(r.exchange, r.leverage)
  /\ LevelResolved(levels, r.exchange)
  /\ r.strategy \in Catalog

\* update: strategy and leverage, the latter if the account exists.
UpdateIsValid(r) ==
  /\ r.strategy # "keep" => r.strategy \in Catalog
  /\ r.leverage # 0 /\ Exists(r.id) => LeverageAllowed(account[r.id].exchange, r.leverage)

FirstStep(r) ==
  CASE r.op = "create" -> IF ~CreateIsValid(r) THEN "refuse" ELSE IF r.type = "live" THEN "precheck" ELSE "insert"
    [] r.op = "update" -> IF ~UpdateIsValid(r) THEN "refuse"
                          ELSE CASE r.active = "false" -> "isActive"
                                 [] r.active = "true" -> "guards"
                                 [] OTHER -> "existing"
    [] r.op = "remove" -> "delete"

\* A request is routed to its handler, which checks it.
Arrive(h) ==
  /\ up /\ handler[h].step \in {"idle", "done"}
  /\ requests < MaxRequests /\ requests' = requests + 1
  /\ \E r \in Requests :
       LET first == FirstStep(r)
       IN  handler' = [handler EXCEPT ![h] = [req |-> r, existing |-> FALSE, count |-> 0,
                         step |-> IF first = "refuse" THEN "done" ELSE first,
                         answer |-> IF first = "refuse" THEN "bad request" ELSE "none"]]
  /\ UNCHANGED <<up, levels, account, tradeVars, signals, restarts>>

Req(h) == handler[h].req

\* find_active_live_account_for_exchange of create.
CreatePrecheck(h) ==
  /\ handler[h].step = "precheck" /\ Req(h).op = "create"
  /\ IF LiveOn(Req(h).exchange, "new") # {} THEN Answer(h, "live exists") ELSE GoTo(h, "recheck")
  /\ ReadsOnly

\* reject_if_live_account_exists_for_exchange: an error without a database
\* error in its chain, which ApiError::from takes for an internal error.
CreateRecheck(h) ==
  /\ handler[h].step = "recheck" /\ Req(h).op = "create"
  /\ IF LiveOn(Req(h).exchange, "new") # {} THEN Answer(h, "internal error") ELSE GoTo(h, "insert")
  /\ ReadsOnly

\* The unique index trading_accounts_one_live_per_exchange.
IndexAllows(i, row) == row.type = "live" /\ row.active => LiveOn(row.exchange, i) = {}

\* INSERT of create_account, under a new identifier.
InsertAccount(h) ==
  LET r == Req(h)
      row == [state |-> "row", type |-> r.type, exchange |-> r.exchange, leverage |-> r.leverage,
              strategy |-> r.strategy, active |-> TRUE]
  IN  /\ handler[h].step = "insert"
      /\ \E i \in {j \in Ids : account[j] = NoRow} :
           \/ IndexAllows(i, row) /\ account' = [account EXCEPT ![i] = row] /\ Answer(h, "created")
           \/ ~IndexAllows(i, row) /\ UNCHANGED account /\ Answer(h, "live exists")
      /\ UNCHANGED <<up, levels, tradeVars, counters>>

\* reject_deactivation_while_trades_are_unsettled: the account ...
CheckActive(h) ==
  /\ handler[h].step = "isActive"
  /\ GoTo(h, IF Active(Req(h).id) THEN "unsettled" ELSE "existing")
  /\ ReadsOnly

\* ... and then its trades.
CheckUnsettled(h) ==
  /\ handler[h].step = "unsettled"
  /\ IF unsettled[Req(h).id] > 0
     THEN handler' = [handler EXCEPT ![h].step = "done", ![h].answer = "unsettled", ![h].count = unsettled[Req(h).id]]
     ELSE GoTo(h, "existing")
  /\ ReadsOnly

\* reject_reactivation_violating_activation_guards: the account and the level
\* of its exchange ...
CheckGuards(h) ==
  LET i == Req(h).id
  IN  /\ handler[h].step = "guards"
      /\ CASE ~Exists(i) -> GoTo(h, "existing")
           [] Exists(i) /\ ~LevelResolved(levels, account[i].exchange) -> Answer(h, "bad request")
           [] OTHER -> GoTo(h, IF account[i].type = "live" THEN "precheck" ELSE "existing")
      /\ ReadsOnly

\* ... and then the other live accounts of the exchange, which does not change.
UpdatePrecheck(h) ==
  /\ handler[h].step = "precheck" /\ Req(h).op = "update"
  /\ IF LiveOn(account[Req(h).id].exchange, Req(h).id) # {} THEN Answer(h, "live exists") ELSE GoTo(h, "existing")
  /\ ReadsOnly

\* update_account: the account is read if the request has a leverage or a flag.
ReadExisting(h) ==
  LET r == Req(h)
      found == Exists(r.id) /\ (r.leverage # 0 \/ r.active # "keep")
  IN  /\ handler[h].step = "existing"
      /\ handler' = [handler EXCEPT
           ![h].existing = found,
           ![h].step = IF found /\ r.active = "true" /\ account[r.id].type = "live" THEN "recheck" ELSE "write"]
      /\ ReadsOnly

\* reject_if_other_live_account_active.
UpdateRecheck(h) ==
  /\ handler[h].step = "recheck" /\ Req(h).op = "update"
  /\ IF LiveOn(account[Req(h).id].exchange, Req(h).id) # {} THEN Answer(h, "internal error") ELSE GoTo(h, "write")
  /\ ReadsOnly

\* ATOMIC_DEACTIVATION_GUARD_WHERE.
DeactivationAllowed(r) == r.active # "false" \/ ~account[r.id].active \/ unsettled[r.id] = 0

\* The row with the fields of the request that are given.
Updated(row, r) ==
  [row EXCEPT !.leverage = IF r.leverage = 0 THEN @ ELSE r.leverage,
              !.strategy = IF r.strategy = "keep" THEN @ ELSE r.strategy,
              !.active = IF r.active = "keep" THEN @ ELSE r.active = "true"]

\* Mutant: an update that changed nothing found no account.
NoRowIsNotFound(h) == Answer(h, "not found")

\* What update_account makes of an UPDATE that changed no row.
NoRowUpdated(h) ==
  IF handler[h].existing /\ Req(h).active = "false" THEN GoTo(h, "count") ELSE Answer(h, "not found")

\* UPDATE of update_account.
WriteAccount(h) ==
  LET r == Req(h)
      matches == Exists(r.id) /\ DeactivationAllowed(r)
      row == Updated(account[r.id], r)
  IN  /\ handler[h].step = "write"
      /\ \/ matches /\ IndexAllows(r.id, row) /\ account' = [account EXCEPT ![r.id] = row] /\ Answer(h, "updated")
         \/ matches /\ ~IndexAllows(r.id, row) /\ UNCHANGED account /\ Answer(h, "live exists")
         \/ ~matches /\ UNCHANGED account /\ NoRowUpdated(h)
      /\ UNCHANGED <<up, levels, tradeVars, counters>>

\* The trades are counted for the message.
CountUnsettled(h) ==
  /\ handler[h].step = "count"
  /\ handler' = [handler EXCEPT ![h].step = "done", ![h].answer = "unsettled", ![h].count = unsettled[Req(h).id]]
  /\ ReadsOnly

\* remove: DELETE, which the foreign keys refuse while there are trades.
RemoveAccount(h) ==
  LET i == Req(h).id
  IN  /\ handler[h].step = "delete"
      /\ \/ Exists(i) /\ ~traded[i] /\ account' = [account EXCEPT ![i].state = "deleted"] /\ Answer(h, "deleted")
         \/ Exists(i) /\ traded[i] /\ UNCHANGED account /\ Answer(h, "trades exist")
         \/ ~Exists(i) /\ UNCHANGED account /\ Answer(h, "not found")
      /\ UNCHANGED <<up, levels, tradeVars, counters>>
-----------------------------------------------------------------------------
(* History: what is true of the account and the exchange of a request.     *)

Facts(r) ==
  LET rivals == CASE r.op = "create" -> LiveOn(r.exchange, "new")
                  [] r.op # "create" /\ account[r.id] # NoRow -> LiveOn(account[r.id].exchange, r.id)
                  [] OTHER -> {}
  IN  {IF rivals # {} THEN "rival" ELSE "no rival"}
      \cup (IF r.op = "create" THEN {}
            ELSE {IF Exists(r.id) THEN "there" ELSE "gone",
                  IF unsettled[r.id] > 0 THEN "unsettled" ELSE "flat",
                  IF Active(r.id) THEN "active" ELSE "inactive",
                  IF traded[r.id] THEN "traded" ELSE "untraded"})

Serving(h) == handler[h].step \notin {"idle", "done"}

Witness ==
  witnessed' = [h \in Handlers |->
    CASE Serving(h) /\ handler'[h].step # "idle" -> witnessed[h] \cup Facts(handler[h].req)'
      [] ~Serving(h) /\ handler'[h].step \notin {"idle", "done"} -> Facts(handler[h].req)'
      [] handler'[h].step = "idle" -> {}
      [] OTHER -> witnessed[h]]

HandlerNext(h) ==
  \/ Arrive(h)
  \/ CreatePrecheck(h) \/ CreateRecheck(h) \/ InsertAccount(h)
  \/ CheckActive(h) \/ CheckUnsettled(h) \/ CheckGuards(h) \/ UpdatePrecheck(h)
  \/ ReadExisting(h) \/ UpdateRecheck(h) \/ WriteAccount(h) \/ CountUnsettled(h)
  \/ RemoveAccount(h)

AdminNext ==
  /\ \/ Stop \/ Start
     \/ \E i \in Ids : Dispatch(i) \/ OpenTrade(i) \/ SettleTrade(i)
     \/ \E h \in Handlers : HandlerNext(h)
  /\ Witness

AdminSpec == AdminInit /\ [][AdminNext]_adminVars
-----------------------------------------------------------------------------
(* Properties.                                                             *)

(* However the requests of two operators are interleaved, an exchange has  *)
(* one active live account at most: both checks of create_account and of   *)
(* update_account may pass for both, the index decides.                    *)
OneLivePerExchange ==
  \A i \in Ids : Active(i) /\ account[i].type = "live" => LiveOn(account[i].exchange, i) = {}

(* The answer to a request is true of some moment of it.  "Live account    *)
(* exists" means that there was one, "not found" that the account was not  *)
(* there; an internal error only ever tells that another live account came *)
(* between the two checks.  A deactivation is refused because of trades    *)
(* that there were, and is told of none only if they were settled, or the  *)
(* account was deleted, in the meantime.                                   *)
AnswerTrue(session, w) ==
  LET a == session.answer
  IN  /\ a = "live exists" => "rival" \in w
      /\ a = "internal error" => {"rival", "no rival"} \subseteq w
      /\ a = "not found" => "gone" \in w
      /\ a = "trades exist" => "traded" \in w
      /\ a = "deleted" => "untraded" \in w
      /\ a = "unsettled" => {"unsettled", "gone"} \cap w # {}
      /\ a = "unsettled" /\ session.count = 0 => "gone" \in w \/ {"unsettled", "flat"} \subseteq w
      /\ a = "updated" /\ session.req.active = "false" => {"flat", "inactive"} \cap w # {}

(* Whatever the other handlers, the executor and a restart do between the  *)
(* checks of a request, its writing statement and its answer, the answer is*)
(* true.                                                                   *)
AnswerIsTrue == \A h \in Handlers : handler[h].step = "done" => AnswerTrue(handler[h], witnessed[h])

(* While the service runs, every trade that is not settled is on an        *)
(* exchange with a liquidation level: without one close_trade returns and  *)
(* the position stays open.  The startup must look at the accounts that    *)
(* are inactive as well, because a trade may be inserted after its account *)
(* was deactivated.                                                        *)
NoStrandedTrade ==
  up => \A i \in Ids : unsettled[i] > 0 => LevelResolved(levels, account[i].exchange)

(* However requests, signals and restarts are interleaved, the accounts are*)
(* ones that the service can trade and close on: one live account for an   *)
(* exchange, and a liquidation level for each open trade.                  *)
AccountsAreSound == OneLivePerExchange /\ NoStrandedTrade
=============================================================================
