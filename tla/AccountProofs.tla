--------------------------- MODULE AccountProofs ---------------------------
(***************************************************************************)
(* Proofs about the two modules on accounts: AccountAdmin, for every set   *)
(* of accounts, exchanges, requests and configurations and any number of   *)
(* handlers at work, and AccountRisk, for every finite set of pairs and    *)
(* every configuration.                                                    *)
(***************************************************************************)
EXTENDS AccountAdmin, AccountRisk, SumLemmas, FiniteSetTheorems, WellFoundedInduction, TLAPS

-----------------------------------------------------------------------------
(* Account administration                                                  *)

Steps == {"precheck", "recheck", "insert", "isActive", "unsettled", "guards", "existing", "write", "count",
          "delete", "done"}
Answers == {"none", "bad request", "live exists", "internal error", "created", "unsettled", "updated",
            "not found", "deleted", "trades exist"}
Sessions == [req : Requests, existing : BOOLEAN, count : Nat, step : Steps, answer : Answers]

(* The state is well typed.                                                *)
AdminTypes ==
  /\ up \in BOOLEAN
  /\ account \in [Ids -> Rows \cup {NoRow}]
  /\ unsettled \in [Ids -> Nat] /\ traded \in [Ids -> BOOLEAN] /\ signal \in [Ids -> BOOLEAN]
  /\ handler \in [Handlers -> Sessions \cup {Idle}]
  /\ \A h \in Handlers : handler[h] # Idle => handler[h] \in Sessions

(* Trades are on accounts that exist, on an exchange with a level as long  *)
(* as the service runs; so is the entry that the executor is at.           *)
TradesInv ==
  \A i \in Ids :
    /\ unsettled[i] > 0 => traded[i]
    /\ traded[i] => Exists(i)
    /\ up /\ unsettled[i] > 0 => LevelResolved(levels, account[i].exchange)
    /\ signal[i] => up /\ account[i] \in Rows /\ LevelResolved(levels, account[i].exchange)

(* A step of a handler is one of its kind of request; an account is        *)
(* inserted as its request was checked.                                    *)
StepOfRequest(h) ==
  LET r == Req(h)
      s == handler[h].step
  IN  /\ s = "insert" => r.op = "create" /\ r.type \in {"paper", "live"} /\ r.exchange \in Exchanges
                         /\ r.strategy \in Catalog
      /\ s \in {"precheck", "recheck"} => r.op # "remove"
      /\ s \in {"precheck", "recheck"} /\ r.op = "create" =>
           r.type \in {"paper", "live"} /\ r.exchange \in Exchanges /\ r.strategy \in Catalog
      /\ s \in {"precheck", "recheck"} /\ r.op = "update" => account[r.id] \in Rows /\ r.active = "true"
      /\ s \in {"isActive", "unsettled", "guards", "existing", "write", "count"} => r.op = "update"
      /\ s = "delete" => r.op = "remove"
      /\ s \in {"isActive", "unsettled", "count"} => r.active = "false"
      /\ s = "guards" => r.active = "true"
      /\ r.op = "update" /\ r.strategy # "keep" => r.strategy \in Catalog

SessionsInv == \A h \in Handlers : Serving(h) => StepOfRequest(h)

(* What the handler has read earlier and does not read again has been      *)
(* witnessed.                                                              *)
ReadEarlier(h) ==
  LET r == Req(h)
      s == handler[h].step
      w == witnessed[h]
  IN  /\ s = "recheck" => "no rival" \in w
      /\ s = "existing" /\ r.active = "true" =>
           \/ "no rival" \in w
           \/ account[r.id] \in Rows /\ (account[r.id].state = "deleted" \/ account[r.id].type # "live")
      /\ s = "write" /\ r.active = "false" /\ ~handler[h].existing => "gone" \in w
      /\ s = "count" => "unsettled" \in w \/ "gone" \in w

(* So has all that holds now.                                              *)
WitnessInv == \A h \in Handlers : Serving(h) => Facts(Req(h)) \subseteq witnessed[h] /\ ReadEarlier(h)

(* The inductive invariant.                                                *)
AdminInv == AdminTypes /\ TradesInv /\ OneLivePerExchange /\ SessionsInv /\ WitnessInv /\ AnswerIsTrue
-----------------------------------------------------------------------------
(* Rows and sessions.                                                      *)

(* An account that exists has a row.                                       *)
LEMMA ExistsIsRow ==
  ASSUME AdminTypes, NEW i \in Ids
  PROVE  /\ Exists(i) => account[i] \in Rows
         /\ account[i] \in Rows <=> account[i] # NoRow
  BY DEF AdminTypes, Exists, Rows, NoRow

(* A handler that serves a request has a session.                          *)
LEMMA ServingSession ==
  ASSUME AdminTypes, NEW h \in Handlers, handler[h].step # "idle"
  PROVE  handler[h] \in Sessions /\ Req(h) \in Requests
<1>1. handler[h] # Idle
  BY DEF Idle
<1> QED BY <1>1, Zenon DEF AdminTypes, Sessions, Req

(* What is known of a request.                                             *)
LEMMA RequestTypes ==
  ASSUME NEW r \in Requests
  PROVE  /\ r.op \in {"create", "update", "remove"} /\ (r.op # "create" => r.id \in Ids)
         /\ r.op # "remove" => r.leverage \in Nat
         /\ r.op = "update" => r.active \in {"true", "false", "keep"}
  BY AdminAssumption DEF AdminAssumption

(* One session is replaced and the others are left alone.                  *)
SessionSet(h, x) ==
  /\ handler'[h] = x /\ x \in Sessions
  /\ handler' \in [Handlers -> Sessions \cup {Idle}]
  /\ \A k \in Handlers \ {h} : handler'[k] = handler[k]

(* A handler answers.                                                      *)
LEMMA AnswerSet ==
  ASSUME AdminTypes, NEW h \in Handlers, handler[h] \in Sessions, NEW a \in Answers, Answer(h, a)
  PROVE  SessionSet(h, [handler[h] EXCEPT !.step = "done", !.answer = a])
<1>1. [handler[h] EXCEPT !.step = "done", !.answer = a] \in Sessions
  BY DEF Sessions, Steps
<1>2. handler' = [handler EXCEPT ![h] = [handler[h] EXCEPT !.step = "done", !.answer = a]]
  BY DEF Answer, AdminTypes
<1> HIDE DEF Sessions
<1> QED BY <1>1, <1>2 DEF SessionSet, AdminTypes

(* A handler goes to its next step.                                        *)
LEMMA GoToSet ==
  ASSUME AdminTypes, NEW h \in Handlers, handler[h] \in Sessions, NEW s \in Steps, GoTo(h, s)
  PROVE  SessionSet(h, [handler[h] EXCEPT !.step = s])
<1>1. [handler[h] EXCEPT !.step = s] \in Sessions
  BY DEF Sessions
<1>2. handler' = [handler EXCEPT ![h] = [handler[h] EXCEPT !.step = s]]
  BY DEF GoTo, AdminTypes
<1> HIDE DEF Sessions
<1> QED BY <1>1, <1>2 DEF SessionSet, AdminTypes

(* The rows that a step writes: a new one, or one of the same account with *)
(* the same type and exchange, which is not deleted if there are trades;   *)
(* and the index has allowed it.                                           *)
RowWritten(i, row) ==
  /\ account' = [account EXCEPT ![i] = row]
  /\ account[i] # NoRow =>
       /\ account[i].state = "row" /\ row.type = account[i].type /\ row.exchange = account[i].exchange
       /\ traded[i] => row.state = "row"
  /\ row.state = "row" => IndexAllows(i, row)

(* A handler writes one row at most.                                       *)
LEMMA HandlerWrites ==
  ASSUME AdminTypes, SessionsInv, NEW h \in Handlers, HandlerNext(h)
  PROVE  account' = account \/ \E i \in Ids, row \in Rows : RowWritten(i, row)
<1>1. CASE InsertAccount(h)
  <2>1. handler[h] \in Sessions /\ Req(h) \in Requests /\ StepOfRequest(h) /\ handler[h].step = "insert"
    BY <1>1, ServingSession DEF InsertAccount, SessionsInv, Serving
  <2>2. Req(h).leverage \in Nat
    BY <2>1, RequestTypes DEF StepOfRequest
  <2> DEFINE row == [state |-> "row", type |-> Req(h).type, exchange |-> Req(h).exchange,
                     leverage |-> Req(h).leverage, strategy |-> Req(h).strategy, active |-> TRUE]
  <2>3. row \in Rows
    BY <2>1, <2>2 DEF StepOfRequest, Rows
  <2>4. \/ account' = account
        \/ \E i \in Ids : account[i] = NoRow /\ IndexAllows(i, row) /\ account' = [account EXCEPT ![i] = row]
    BY <1>1, Zenon DEF InsertAccount
  <2> HIDE DEF row
  <2> QED BY <2>3, <2>4 DEF RowWritten
<1>2. CASE WriteAccount(h)
  <2>1. handler[h] \in Sessions /\ Req(h) \in Requests /\ StepOfRequest(h) /\ handler[h].step = "write"
    BY <1>2, ServingSession DEF WriteAccount, SessionsInv, Serving
  <2> DEFINE r == Req(h)
             row == Updated(account[r.id], r)
  <2>2. r.op = "update" /\ r.id \in Ids /\ r.leverage \in Nat /\ (r.strategy # "keep" => r.strategy \in Catalog)
    BY <2>1, RequestTypes DEF StepOfRequest
  <2>3. \/ account' = account
        \/ Exists(r.id) /\ IndexAllows(r.id, row) /\ account' = [account EXCEPT ![r.id] = row]
    BY <1>2, Zenon DEF WriteAccount
  <2>4. ASSUME account[r.id] \in Rows
        PROVE  row \in Rows /\ row.state = account[r.id].state /\ row.type = account[r.id].type
               /\ row.exchange = account[r.id].exchange
    <3> HIDE DEF r
    <3> QED BY <2>2, <2>4 DEF Updated, Rows
  <2>5. ASSUME Exists(r.id), IndexAllows(r.id, row), account' = [account EXCEPT ![r.id] = row]
        PROVE  row \in Rows /\ RowWritten(r.id, row)
    BY <2>2, <2>4, <2>5, ExistsIsRow DEF RowWritten, Exists
  <2> HIDE DEF r, row
  <2> QED BY <2>2, <2>3, <2>5
<1>3. CASE RemoveAccount(h)
  <2>1. handler[h] \in Sessions /\ Req(h) \in Requests /\ StepOfRequest(h) /\ handler[h].step = "delete"
    BY <1>3, ServingSession DEF RemoveAccount, SessionsInv, Serving
  <2> DEFINE i == Req(h).id
             row == [account[i] EXCEPT !.state = "deleted"]
  <2>2. i \in Ids
    BY <2>1, RequestTypes DEF StepOfRequest
  <2>3. account' = account \/ (Exists(i) /\ ~traded[i] /\ account' = [account EXCEPT ![i].state = "deleted"])
    BY <1>3, Zenon DEF RemoveAccount
  <2>4. ASSUME Exists(i), ~traded[i], account' = [account EXCEPT ![i].state = "deleted"]
        PROVE  row \in Rows /\ RowWritten(i, row)
    <3>1. account[i] \in Rows
      BY <2>2, <2>4, ExistsIsRow
    <3>2. row \in Rows /\ row.state = "deleted" /\ row.type = account[i].type /\ row.exchange = account[i].exchange
      <4> HIDE DEF i
      <4> QED BY <3>1 DEF Rows
    <3> QED BY <2>2, <2>4, <3>1, <3>2 DEF RowWritten, Exists, AdminTypes
  <2> HIDE DEF i, row
  <2> QED BY <2>2, <2>3, <2>4
<1> QED
  BY <1>1, <1>2, <1>3, Zenon
     DEF HandlerNext, Arrive, CreatePrecheck, CreateRecheck, CheckActive, CheckUnsettled, CheckGuards,
         UpdatePrecheck, ReadExisting, UpdateRecheck, CountUnsettled, ReadsOnly

(* What a step leaves of the rows.                                         *)
RowsKept ==
  /\ account' \in [Ids -> Rows \cup {NoRow}]
  /\ \A i \in Ids : account[i] \in Rows =>
       /\ account'[i] \in Rows /\ account'[i].type = account[i].type /\ account'[i].exchange = account[i].exchange
       /\ account[i].state = "deleted" => account'[i].state = "deleted"
       /\ account[i].state = "row" /\ traded[i] => account'[i].state = "row"

(* A row that is written keeps what RowsKept says.                         *)
LEMMA RowWrittenKept ==
  ASSUME AdminTypes, NEW i \in Ids, NEW row \in Rows, RowWritten(i, row)
  PROVE  RowsKept
<1>1. account' \in [Ids -> Rows \cup {NoRow}] /\ account'[i] = row /\ \A j \in Ids \ {i} : account'[j] = account[j]
  BY DEF AdminTypes, RowWritten
<1>2. account[i] \in Rows => account[i] # NoRow
  BY DEF Rows, NoRow
<1> QED BY <1>1, <1>2 DEF RowsKept, RowWritten

(* Who changes the rows, and the kinds of step.                            *)
LEMMA AdminCases ==
  ASSUME AdminTypes, SessionsInv, AdminNext
  PROVE  /\ RowsKept
         /\ \/ account' = account /\ (Stop \/ Start \/ \E i \in Ids : Dispatch(i) \/ OpenTrade(i) \/ SettleTrade(i))
            \/ \E h \in Handlers : HandlerNext(h)
<1>1. ASSUME account' = account PROVE RowsKept
  BY <1>1 DEF RowsKept, AdminTypes
<1>2. ASSUME NEW h \in Handlers, HandlerNext(h) PROVE RowsKept
  BY <1>1, <1>2, HandlerWrites, RowWrittenKept
<1> QED BY <1>1, <1>2, Zenon DEF AdminNext, Stop, Start, Dispatch, OpenTrade, SettleTrade

(* The index keeps two live accounts of an exchange from being active.     *)
LEMMA OneLiveStep ==
  ASSUME AdminTypes, SessionsInv, OneLivePerExchange, AdminNext
  PROVE  OneLivePerExchange'
<1>1. CASE account' = account
  BY <1>1 DEF OneLivePerExchange, LiveOn, Active, Exists
<1>2. ASSUME NEW i \in Ids, NEW row \in Rows, RowWritten(i, row) PROVE OneLivePerExchange'
  <2>1. account'[i] = row /\ \A j \in Ids \ {i} : account'[j] = account[j]
    BY <1>2 DEF AdminTypes, RowWritten
  <2> SUFFICES ASSUME NEW j \in Ids, NEW k \in Ids \ {j}, Active(j)', Active(k)', account'[j].type = "live",
                      account'[k].type = "live", account'[k].exchange = account'[j].exchange
               PROVE  FALSE
    BY DEF OneLivePerExchange, LiveOn, Active, Exists
  <2>2. CASE j # i /\ k # i
    <3>1. k \in LiveOn(account[j].exchange, j) /\ Active(j) /\ account[j].type = "live"
      BY <2>1, <2>2 DEF LiveOn, Active, Exists
    <3> QED BY <3>1 DEF OneLivePerExchange
  <2>3. CASE j = i
    <3>1. k \in LiveOn(row.exchange, i) /\ row.state = "row" /\ row.type = "live" /\ row.active
      BY <2>1, <2>3 DEF LiveOn, Active, Exists
    <3> QED BY <1>2, <3>1 DEF RowWritten, IndexAllows
  <2>4. CASE k = i
    <3>1. j \in LiveOn(row.exchange, i) /\ row.state = "row" /\ row.type = "live" /\ row.active
      BY <2>1, <2>4 DEF LiveOn, Active, Exists
    <3> QED BY <1>2, <3>1 DEF RowWritten, IndexAllows
  <2> QED BY <2>2, <2>3, <2>4
<1> QED BY <1>1, <1>2, AdminCases, HandlerWrites

(* What a handler leaves alone.                                            *)
LEMMA HandlerFrame ==
  ASSUME NEW h \in Handlers, HandlerNext(h)
  PROVE  UNCHANGED <<up, levels, unsettled, traded, signal>>
  BY Zenon
     DEF HandlerNext, Arrive, CreatePrecheck, CreateRecheck, CheckActive, CheckUnsettled, CheckGuards,
         UpdatePrecheck, ReadExisting, UpdateRecheck, CountUnsettled, ReadsOnly, InsertAccount, WriteAccount,
         RemoveAccount, tradeVars

(* Trades stay on accounts that exist and on exchanges with a level.       *)
LEMMA TradesStep ==
  ASSUME AdminTypes, SessionsInv, TradesInv, AdminNext
  PROVE  TradesInv' /\ up' \in BOOLEAN /\ unsettled' \in [Ids -> Nat] /\ traded' \in [Ids -> BOOLEAN]
         /\ signal' \in [Ids -> BOOLEAN]
<1> USE DEF tradeVars
<1>1. RowsKept
  BY AdminCases
<1>2. ASSUME NEW h \in Handlers, HandlerNext(h)
      PROVE  TradesInv' /\ UNCHANGED <<up, unsettled, traded, signal>>
  <2>1. UNCHANGED <<up, levels, unsettled, traded, signal>>
    BY <1>2, HandlerFrame
  <2> SUFFICES ASSUME NEW i \in Ids
               PROVE  /\ unsettled[i] > 0 => traded[i]
                      /\ traded[i] => Exists(i)'
                      /\ up /\ unsettled[i] > 0 => LevelResolved(levels, account'[i].exchange)
                      /\ signal[i] => up /\ account'[i] \in Rows /\ LevelResolved(levels, account'[i].exchange)
    BY <2>1 DEF TradesInv, LevelResolved
  <2> QED BY <1>1, ExistsIsRow DEF TradesInv, RowsKept, Exists
<1>3. CASE account' = account /\ Stop
  <2>1. UNCHANGED <<levels, account, unsettled, traded>> /\ up' = FALSE /\ signal' = [i \in Ids |-> FALSE]
    BY <1>3 DEF Stop
  <2> QED BY <2>1 DEF TradesInv, AdminTypes, Exists
<1>4. CASE account' = account /\ Start
  <2>1. UNCHANGED <<account, unsettled, traded, signal>> /\ up' = TRUE /\ ~up /\ LevelsAccepted(levels')
    BY <1>4 DEF Start
  <2>2. \A i \in Ids : unsettled[i] > 0 => i \in StartupAccounts
    BY DEF StartupAccounts, TradesInv
  <2> SUFFICES ASSUME NEW i \in Ids
               PROVE  /\ unsettled[i] > 0 => traded[i]
                      /\ traded[i] => Exists(i)
                      /\ unsettled[i] > 0 => LevelResolved(levels', account[i].exchange)
                      /\ ~signal[i]
    BY <2>1 DEF TradesInv, AdminTypes, Exists, LevelResolved
  <2> QED BY <2>1, <2>2 DEF TradesInv, LevelsAccepted
<1>5. ASSUME account' = account, NEW j \in Ids, Dispatch(j)
      PROVE  TradesInv' /\ signal' \in [Ids -> BOOLEAN] /\ UNCHANGED <<up, unsettled, traded>>
  <2>1. /\ UNCHANGED <<up, levels, account, unsettled, traded>> /\ up /\ signal' = [signal EXCEPT ![j] = TRUE]
        /\ account[j] \in Rows /\ LevelResolved(levels, account[j].exchange)
    BY <1>5, ExistsIsRow DEF Dispatch, Active
  <2> QED BY <2>1 DEF TradesInv, AdminTypes, Exists, LevelResolved
<1>6. ASSUME account' = account, NEW j \in Ids, OpenTrade(j)
      PROVE  TradesInv' /\ unsettled' \in [Ids -> Nat] /\ traded' \in [Ids -> BOOLEAN]
             /\ signal' \in [Ids -> BOOLEAN] /\ UNCHANGED up
  <2>1. /\ UNCHANGED <<up, levels, account>> /\ signal[j] /\ signal' = [signal EXCEPT ![j] = FALSE]
        /\ \/ Exists(j) /\ unsettled' = [unsettled EXCEPT ![j] = @ + 1] /\ traded' = [traded EXCEPT ![j] = TRUE]
           \/ UNCHANGED <<unsettled, traded>>
    BY <1>6 DEF OpenTrade
  <2>2. signal' \in [Ids -> BOOLEAN] /\ unsettled' \in [Ids -> Nat] /\ traded' \in [Ids -> BOOLEAN]
    <3>1. signal' \in [Ids -> BOOLEAN] /\ traded' \in [Ids -> BOOLEAN]
      BY <2>1, Zenon DEF AdminTypes
    <3>2. unsettled' \in [Ids -> Nat]
      BY <2>1 DEF AdminTypes
    <3> QED BY <3>1, <3>2
  <2>3. up /\ LevelResolved(levels, account[j].exchange)
    BY <2>1 DEF TradesInv
  <2>4. ASSUME NEW i \in Ids
        PROVE  /\ unsettled'[i] > 0 => traded'[i]
               /\ traded'[i] => Exists(i)
               /\ unsettled'[i] > 0 => LevelResolved(levels, account[i].exchange)
               /\ signal'[i] => account[i] \in Rows /\ LevelResolved(levels, account[i].exchange)
    <3>1. CASE i = j
      BY <2>1, <2>3, <3>1 DEF TradesInv, AdminTypes
    <3>2. CASE i # j
      BY <2>1, <2>3, <3>2 DEF TradesInv, AdminTypes
    <3> QED BY <3>1, <3>2
  <2> QED BY <2>1, <2>2, <2>3, <2>4 DEF TradesInv, Exists, LevelResolved
<1>7. ASSUME account' = account, NEW j \in Ids, SettleTrade(j)
      PROVE  TradesInv' /\ unsettled' \in [Ids -> Nat] /\ UNCHANGED <<up, traded, signal>>
  <2>1. /\ UNCHANGED <<up, levels, account, traded, signal>> /\ unsettled[j] > 0
        /\ unsettled' = [unsettled EXCEPT ![j] = @ - 1]
    BY <1>7 DEF SettleTrade
  <2>2. unsettled' \in [Ids -> Nat] /\ \A i \in Ids : unsettled'[i] > 0 => unsettled[i] > 0
    BY <2>1 DEF AdminTypes
  <2> QED BY <2>1, <2>2 DEF TradesInv, Exists, LevelResolved
<1> QED
  <2>1. CASE account' = account /\ (Stop \/ Start)
    <3>1. UNCHANGED <<unsettled, traded>> /\ up' \in BOOLEAN /\ (signal' = signal \/ signal' = [i \in Ids |-> FALSE])
      BY <2>1 DEF Stop, Start
    <3> QED BY <2>1, <3>1, <1>3, <1>4 DEF AdminTypes
  <2> QED BY <2>1, <1>2, <1>5, <1>6, <1>7, AdminCases, Zenon DEF AdminTypes
-----------------------------------------------------------------------------
(* Handlers.                                                               *)

(* What Facts tells of the state.                                          *)
LEMMA FactsOf ==
  ASSUME AdminTypes, NEW r \in Requests
  PROVE  /\ r.op = "create" =>
              /\ LiveOn(r.exchange, "new") # {} => "rival" \in Facts(r)
              /\ LiveOn(r.exchange, "new") = {} => "no rival" \in Facts(r)
         /\ r.op # "create" =>
              /\ account[r.id] \in Rows /\ LiveOn(account[r.id].exchange, r.id) # {} => "rival" \in Facts(r)
              /\ account[r.id] \in Rows /\ LiveOn(account[r.id].exchange, r.id) = {} => "no rival" \in Facts(r)
              /\ account[r.id] \notin Rows => "no rival" \in Facts(r)
              /\ ~Exists(r.id) => "gone" \in Facts(r)
              /\ unsettled[r.id] > 0 => "unsettled" \in Facts(r)
              /\ ~(unsettled[r.id] > 0) => "flat" \in Facts(r)
              /\ ~Active(r.id) => "inactive" \in Facts(r)
              /\ traded[r.id] => "traded" \in Facts(r)
              /\ ~traded[r.id] => "untraded" \in Facts(r)
<1>1. r.op # "create" => r.id \in Ids /\ (account[r.id] \in Rows <=> account[r.id] # NoRow)
  BY RequestTypes, ExistsIsRow
<1>2. CASE r.op = "create"
  BY <1>2, Zenon DEF Facts
<1>3. CASE r.op # "create"
  <2>1. /\ account[r.id] \in Rows /\ LiveOn(account[r.id].exchange, r.id) # {} => "rival" \in Facts(r)
        /\ account[r.id] \in Rows /\ LiveOn(account[r.id].exchange, r.id) = {} => "no rival" \in Facts(r)
        /\ account[r.id] \notin Rows => "no rival" \in Facts(r)
    BY <1>1, <1>3 DEF Facts
  <2>2. /\ ~Exists(r.id) => "gone" \in Facts(r)
        /\ unsettled[r.id] > 0 => "unsettled" \in Facts(r)
        /\ ~(unsettled[r.id] > 0) => "flat" \in Facts(r)
        /\ ~Active(r.id) => "inactive" \in Facts(r)
        /\ traded[r.id] => "traded" \in Facts(r)
        /\ ~traded[r.id] => "untraded" \in Facts(r)
    BY <1>3 DEF Facts
  <2> QED BY <1>3, <2>1, <2>2
<1> QED BY <1>2, <1>3

(* What is witnessed grows while a request is served.                      *)
LEMMA WitnessGrows ==
  ASSUME AdminNext, NEW h \in Handlers
  PROVE  /\ Serving(h) /\ handler'[h].step # "idle" =>
              witnessed[h] \subseteq witnessed'[h] /\ Facts(Req(h))' \subseteq witnessed'[h]
         /\ ~Serving(h) /\ handler'[h].step \notin {"idle", "done"} => witnessed'[h] = Facts(Req(h))'
         /\ ~Serving(h) /\ handler'[h].step = "done" => witnessed'[h] = witnessed[h]
<1>1. witnessed'[h] = CASE Serving(h) /\ handler'[h].step # "idle" -> witnessed[h] \cup Facts(handler[h].req)'
      [] ~Serving(h) /\ handler'[h].step \notin {"idle", "done"} -> Facts(handler[h].req)'
      [] handler'[h].step = "idle" -> {}
      [] OTHER -> witnessed[h]
  BY DEF AdminNext, Witness
<1> QED BY <1>1 DEF Req

(* What the invariant says of one handler.                                 *)
HandlerOK(h) ==
  /\ Serving(h) => StepOfRequest(h) /\ Facts(Req(h)) \subseteq witnessed[h] /\ ReadEarlier(h)
  /\ handler[h].step = "done" => AnswerTrue(handler[h], witnessed[h])

(* A handler that does not move keeps it, whatever the others do.          *)
LEMMA Unmoved ==
  ASSUME AdminTypes, SessionsInv, AdminNext, NEW h \in Handlers, HandlerOK(h), handler'[h] = handler[h]
  PROVE  HandlerOK(h)'
<1>1. RowsKept
  BY AdminCases
<1>2. Serving(h)' <=> Serving(h)
  BY DEF Serving
<1>3. CASE Serving(h)
  <2>1. handler[h] \in Sessions /\ Req(h) \in Requests /\ Req(h)' = Req(h) /\ handler[h].step \notin {"idle", "done"}
    BY <1>3, ServingSession DEF Serving, Req
  <2>2. witnessed[h] \subseteq witnessed'[h] /\ Facts(Req(h))' \subseteq witnessed'[h]
    BY <1>3, <2>1, WitnessGrows
  <2>3. StepOfRequest(h)'
    BY <1>1, <1>3, <2>1, RequestTypes DEF StepOfRequest, RowsKept, HandlerOK
  <2>4. ReadEarlier(h)'
    <3>1. StepOfRequest(h) /\ ReadEarlier(h)
      BY <1>3 DEF HandlerOK
    <3> DEFINE i == Req(h).id
               Spared == account[i] \in Rows /\ (account[i].state = "deleted" \/ account[i].type # "live")
    <3>2. ASSUME handler[h].step = "existing", Spared PROVE Spared'
      <4>1. i \in Ids /\ i' = i
        BY <2>1, <3>1, <3>2, RequestTypes DEF StepOfRequest
      <4> HIDE DEF i
      <4> QED BY <1>1, <3>2, <4>1 DEF RowsKept
    <3>3. ReadEarlier(h) = /\ handler[h].step = "recheck" => "no rival" \in witnessed[h]
                           /\ handler[h].step = "existing" /\ Req(h).active = "true" =>
                                "no rival" \in witnessed[h] \/ Spared
                           /\ handler[h].step = "write" /\ Req(h).active = "false" /\ ~handler[h].existing =>
                                "gone" \in witnessed[h]
                           /\ handler[h].step = "count" => "unsettled" \in witnessed[h] \/ "gone" \in witnessed[h]
      BY DEF ReadEarlier
    <3>4. ReadEarlier(h)' = /\ handler'[h].step = "recheck" => "no rival" \in witnessed'[h]
                            /\ handler'[h].step = "existing" /\ Req(h)'.active = "true" =>
                                 "no rival" \in witnessed'[h] \/ Spared'
                            /\ handler'[h].step = "write" /\ Req(h)'.active = "false" /\ ~handler'[h].existing =>
                                 "gone" \in witnessed'[h]
                            /\ handler'[h].step = "count" => "unsettled" \in witnessed'[h] \/ "gone" \in witnessed'[h]
      BY DEF ReadEarlier
    <3> HIDE DEF Spared
    <3> QED BY <2>1, <2>2, <3>1, <3>2, <3>3, <3>4
  <2> QED BY <2>1, <2>2, <2>3, <2>4 DEF HandlerOK
<1>4. CASE ~Serving(h)
  <2>1. handler[h].step = "done" => witnessed'[h] = witnessed[h]
    BY <1>4, WitnessGrows
  <2> QED BY <1>2, <1>4, <2>1 DEF HandlerOK
<1> QED BY <1>3, <1>4

(* A handler answers with what it has witnessed.                           *)
LEMMA Answered ==
  ASSUME AdminTypes, AdminNext, NEW h \in Handlers, Serving(h), NEW x, SessionSet(h, x), x.step = "done",
         AnswerTrue(x, witnessed[h])
  PROVE  HandlerOK(h)'
<1>1. handler'[h] = x
  BY DEF SessionSet
<1>2. witnessed[h] \subseteq witnessed'[h]
  BY <1>1, WitnessGrows
<1>3. AnswerTrue(x, witnessed'[h])
  BY <1>2, Zenon DEF AnswerTrue
<1> QED BY <1>1, <1>3 DEF HandlerOK, Serving

(* A handler answers: the fields of its session.                           *)
LEMMA AnswerGiven ==
  ASSUME AdminTypes, AdminNext, NEW h \in Handlers, Serving(h), NEW a \in Answers, Answer(h, a),
         a = "live exists" => "rival" \in witnessed[h],
         a = "internal error" => {"rival", "no rival"} \subseteq witnessed[h],
         a = "not found" => "gone" \in witnessed[h],
         a = "trades exist" => "traded" \in witnessed[h],
         a = "deleted" => "untraded" \in witnessed[h],
         a # "unsettled",
         a = "updated" /\ Req(h).active = "false" => {"flat", "inactive"} \cap witnessed[h] # {}
  PROVE  HandlerOK(h)'
<1> DEFINE x == [handler[h] EXCEPT !.step = "done", !.answer = a]
<1>1. handler[h] \in Sessions
  BY ServingSession DEF Serving
<1>2. SessionSet(h, x)
  BY <1>1, AnswerSet
<1>3. x.step = "done" /\ x.answer = a /\ x.req = Req(h)
  BY <1>1 DEF Sessions, Req
<1> HIDE DEF x
<1>4. AnswerTrue(x, witnessed[h])
  BY <1>3, Zenon DEF AnswerTrue
<1> QED BY <1>2, <1>3, <1>4, Answered

(* A handler goes on: what is left to show.                                *)
LEMMA GoneOn ==
  ASSUME AdminTypes, AdminNext, NEW h \in Handlers, Serving(h), NEW x, SessionSet(h, x),
         x.step \notin {"idle", "done"}, x.req = Req(h),
         witnessed[h] \subseteq witnessed'[h] => StepOfRequest(h)' /\ ReadEarlier(h)'
  PROVE  HandlerOK(h)'
<1>1. handler'[h] = x
  BY DEF SessionSet
<1>2. witnessed[h] \subseteq witnessed'[h] /\ Facts(Req(h))' \subseteq witnessed'[h]
  BY <1>1, WitnessGrows
<1> QED BY <1>1, <1>2 DEF HandlerOK

(* The step that a handler goes to.                                        *)
LEMMA NextStep ==
  ASSUME AdminTypes, NEW h \in Handlers, Serving(h), NEW s \in Steps, GoTo(h, s)
  PROVE  /\ SessionSet(h, [handler[h] EXCEPT !.step = s])
         /\ handler'[h].step = s /\ Req(h)' = Req(h) /\ handler'[h].existing = handler[h].existing
         /\ handler'[h] = [handler[h] EXCEPT !.step = s]
<1>1. handler[h] \in Sessions
  BY ServingSession DEF Serving
<1>2. SessionSet(h, [handler[h] EXCEPT !.step = s])
  BY <1>1, GoToSet
<1> QED BY <1>1, <1>2 DEF SessionSet, Sessions, Req

(* It goes on from a read: the rows are the same.                          *)
LEMMA GoneTo ==
  ASSUME AdminTypes, AdminNext, NEW h \in Handlers, Serving(h), StepOfRequest(h), NEW s \in Steps \ {"done"}, GoTo(h, s),
         UNCHANGED account, s \notin {"insert", "precheck", "recheck", "delete"},
         Req(h).op = "update",
         s \in {"unsettled", "count"} => Req(h).active = "false",
         s \notin {"isActive", "guards"},
         s = "existing" /\ Req(h).active = "true" =>
           \/ "no rival" \in witnessed[h]
           \/ account[Req(h).id] \in Rows /\ (account[Req(h).id].state = "deleted" \/ account[Req(h).id].type # "live"),
         s = "write" => Req(h).active # "false",
         s = "count" => "unsettled" \in witnessed[h] \/ "gone" \in witnessed[h]
  PROVE  HandlerOK(h)'
<1> DEFINE x == [handler[h] EXCEPT !.step = s]
<1>1. SessionSet(h, x) /\ handler'[h].step = s /\ Req(h)' = Req(h) /\ handler'[h] = x
  BY NextStep
<1>2. x.step = s /\ x.req = Req(h)
  BY <1>1 DEF Req
<1> HIDE DEF x
<1>3. StepOfRequest(h)'
  BY <1>1 DEF StepOfRequest
<1>4. ASSUME witnessed[h] \subseteq witnessed'[h] PROVE ReadEarlier(h)'
  BY <1>1, <1>4 DEF ReadEarlier
<1>5. s \notin {"idle", "done"}
  BY DEF Steps
<1> QED BY <1>1, <1>2, <1>3, <1>4, <1>5, GoneOn

(* The first step of a request, after it was checked.                      *)
LEMMA FirstStepOf ==
  ASSUME AdminTypes, NEW r \in Requests, FirstStep(r) # "refuse"
  PROVE  \/ /\ r.op = "create" /\ FirstStep(r) \in {"precheck", "insert"}
            /\ r.type \in {"paper", "live"} /\ r.exchange \in Exchanges /\ r.strategy \in Catalog
         \/ /\ r.op = "update" /\ (r.strategy # "keep" => r.strategy \in Catalog)
            /\ \/ r.active = "false" /\ FirstStep(r) = "isActive"
               \/ r.active = "true" /\ FirstStep(r) = "guards"
               \/ r.active = "keep" /\ FirstStep(r) = "existing"
         \/ r.op = "remove" /\ FirstStep(r) = "delete"
<1>1. CASE r.op = "create"
  BY <1>1 DEF FirstStep, CreateIsValid
<1>2. CASE r.op = "update"
  BY <1>2, RequestTypes DEF FirstStep, UpdateIsValid
<1>3. CASE r.op = "remove"
  BY <1>3 DEF FirstStep
<1> QED BY <1>1, <1>2, <1>3, RequestTypes

(* A request arrives.                                                      *)
LEMMA ArriveMoved ==
  ASSUME AdminTypes, AdminNext, NEW h \in Handlers, HandlerOK(h), Arrive(h)
  PROVE  HandlerOK(h)' /\ SessionSet(h, handler'[h])
<1>1. ~Serving(h)
  BY DEF Arrive, Serving
<1>2. PICK r \in Requests :
        handler' = [handler EXCEPT ![h] = [req |-> r, existing |-> FALSE, count |-> 0,
                      step |-> IF FirstStep(r) = "refuse" THEN "done" ELSE FirstStep(r),
                      answer |-> IF FirstStep(r) = "refuse" THEN "bad request" ELSE "none"]]
  BY Zenon DEF Arrive
<1> DEFINE x == [req |-> r, existing |-> FALSE, count |-> 0,
                 step |-> IF FirstStep(r) = "refuse" THEN "done" ELSE FirstStep(r),
                 answer |-> IF FirstStep(r) = "refuse" THEN "bad request" ELSE "none"]
<1>3. x \in Sessions
  BY FirstStepOf DEF Sessions, Steps, Answers
<1>4. x.req = r /\ (FirstStep(r) = "refuse" => x.step = "done" /\ x.answer = "bad request")
      /\ (FirstStep(r) # "refuse" => x.step = FirstStep(r))
  OBVIOUS
<1> HIDE DEF x
<1>5. SessionSet(h, x) /\ handler'[h] = x
  BY <1>2, <1>3 DEF SessionSet, AdminTypes, x
<1>6. CASE FirstStep(r) = "refuse"
  <2>1. handler'[h].step = "done" /\ AnswerTrue(handler'[h], witnessed'[h])
    BY <1>4, <1>5, <1>6 DEF AnswerTrue
  <2> QED BY <1>5, <2>1 DEF HandlerOK, Serving
<1>7. CASE FirstStep(r) # "refuse"
  <2>1. handler'[h].step = FirstStep(r) /\ Req(h)' = r
    BY <1>4, <1>5, <1>7 DEF Req
  <2>2. StepOfRequest(h)' /\ ReadEarlier(h)'
    BY <1>7, <2>1, FirstStepOf DEF StepOfRequest, ReadEarlier
  <2>3. handler'[h].step \notin {"idle", "done"}
    BY <1>7, <2>1, FirstStepOf
  <2>4. witnessed'[h] = Facts(Req(h))'
    BY <1>1, <2>3, WitnessGrows
  <2> QED BY <1>5, <2>2, <2>3, <2>4 DEF HandlerOK
<1> QED BY <1>5, <1>6, <1>7

(* Every other step of a handler.                                          *)
LEMMA ServedMoved ==
  ASSUME AdminTypes, SessionsInv, AdminNext, NEW h \in Handlers, HandlerOK(h), HandlerNext(h), ~Arrive(h)
  PROVE  HandlerOK(h)'
<1> DEFINE r == Req(h)
           w == witnessed[h]
<1>1. Serving(h)
  BY Zenon DEF HandlerNext, CreatePrecheck, CreateRecheck, CheckActive, CheckUnsettled, CheckGuards,
         UpdatePrecheck, ReadExisting, UpdateRecheck, CountUnsettled, InsertAccount, WriteAccount,
         RemoveAccount, Serving
<1>2. /\ handler[h] \in Sessions /\ r \in Requests /\ StepOfRequest(h) /\ ReadEarlier(h) /\ Facts(r) \subseteq w
  BY <1>1, ServingSession DEF HandlerOK, Serving
<1>3. r.op \in {"create", "update", "remove"} /\ (r.op # "create" => r.id \in Ids)
      /\ (r.op = "update" => r.active \in {"true", "false", "keep"})
  BY <1>2, RequestTypes
<1>4. /\ r.op = "create" /\ LiveOn(r.exchange, "new") # {} => "rival" \in w
      /\ r.op = "create" /\ LiveOn(r.exchange, "new") = {} => "no rival" \in w
      /\ r.op # "create" =>
           /\ account[r.id] \in Rows /\ LiveOn(account[r.id].exchange, r.id) # {} => "rival" \in w
           /\ account[r.id] \in Rows /\ LiveOn(account[r.id].exchange, r.id) = {} => "no rival" \in w
           /\ account[r.id] \notin Rows => "no rival" \in w
           /\ ~Exists(r.id) => "gone" \in w
           /\ unsettled[r.id] > 0 => "unsettled" \in w
           /\ ~(unsettled[r.id] > 0) => "flat" \in w
           /\ ~Active(r.id) => "inactive" \in w
           /\ traded[r.id] => "traded" \in w
           /\ ~traded[r.id] => "untraded" \in w
  BY <1>2, FactsOf
<1> HIDE DEF r, w
<1>5. CASE CreatePrecheck(h)
  <2>1. handler[h].step = "precheck" /\ r.op = "create" /\ UNCHANGED account
        /\ IF LiveOn(r.exchange, "new") # {} THEN Answer(h, "live exists") ELSE GoTo(h, "recheck")
    BY <1>5 DEF CreatePrecheck, ReadsOnly, r
  <2>2. CASE LiveOn(r.exchange, "new") # {}
    BY <1>1, <1>4, <2>1, <2>2, AnswerGiven DEF Answers, w
  <2>3. CASE LiveOn(r.exchange, "new") = {}
    <3>1. "no rival" \in w /\ GoTo(h, "recheck") /\ "recheck" \in Steps
      BY <1>4, <2>1, <2>3 DEF Steps
    <3>2. /\ SessionSet(h, [handler[h] EXCEPT !.step = "recheck"]) /\ handler'[h].step = "recheck"
          /\ Req(h)' = Req(h) /\ handler'[h] = [handler[h] EXCEPT !.step = "recheck"]
      BY <1>1, <3>1, NextStep
    <3>3. StepOfRequest(h)'
      BY <1>2, <2>1, <3>2 DEF StepOfRequest, r
    <3>4. ASSUME witnessed[h] \subseteq witnessed'[h] PROVE ReadEarlier(h)'
      BY <3>1, <3>2, <3>4 DEF ReadEarlier, w
    <3>5. handler'[h].req = Req(h) /\ SessionSet(h, handler'[h])
      BY <3>2 DEF Req
    <3> QED BY <1>1, <3>2, <3>3, <3>4, <3>5, GoneOn
  <2> QED BY <2>2, <2>3
<1>6. CASE CreateRecheck(h)
  <2>1. handler[h].step = "recheck" /\ r.op = "create" /\ UNCHANGED account
        /\ IF LiveOn(r.exchange, "new") # {} THEN Answer(h, "internal error") ELSE GoTo(h, "insert")
    BY <1>6 DEF CreateRecheck, ReadsOnly, r
  <2>2. "no rival" \in w
    BY <1>2, <2>1 DEF ReadEarlier, w
  <2>3. CASE LiveOn(r.exchange, "new") # {}
    BY <1>1, <1>4, <2>1, <2>2, <2>3, AnswerGiven DEF Answers, w
  <2>4. CASE LiveOn(r.exchange, "new") = {}
    <3>1. GoTo(h, "insert") /\ "insert" \in Steps
      BY <2>1, <2>4 DEF Steps
    <3>2. /\ SessionSet(h, [handler[h] EXCEPT !.step = "insert"]) /\ handler'[h].step = "insert"
          /\ Req(h)' = Req(h) /\ handler'[h] = [handler[h] EXCEPT !.step = "insert"]
      BY <1>1, <3>1, NextStep
    <3>3. StepOfRequest(h)' /\ ReadEarlier(h)'
      BY <1>2, <2>1, <3>2 DEF StepOfRequest, ReadEarlier, r
    <3>4. handler'[h].req = Req(h) /\ SessionSet(h, handler'[h])
      BY <3>2 DEF Req
    <3> QED BY <1>1, <3>2, <3>3, <3>4, GoneOn
  <2> QED BY <2>3, <2>4
<1>7. CASE InsertAccount(h)
  <2>1. handler[h].step = "insert" /\ r.op = "create"
    BY <1>2, <1>7 DEF InsertAccount, StepOfRequest, r
  <2>2. CASE Answer(h, "created")
    BY <1>1, <2>2, AnswerGiven DEF Answers
  <2> DEFINE row == [state |-> "row", type |-> Req(h).type, exchange |-> Req(h).exchange,
                     leverage |-> Req(h).leverage, strategy |-> Req(h).strategy, active |-> TRUE]
  <2>3. ASSUME NEW i \in Ids, ~IndexAllows(i, row), Answer(h, "live exists")
        PROVE  HandlerOK(h)'
    <3>1. LiveOn(r.exchange, i) # {}
      BY <2>3 DEF IndexAllows, r
    <3>2. LiveOn(r.exchange, "new") # {}
      BY <3>1, AdminAssumption DEF LiveOn, AdminAssumption
    <3> QED BY <1>1, <1>4, <2>1, <2>3, <3>2, AnswerGiven DEF Answers, w
  <2>4. Answer(h, "created") \/ \E i \in Ids : ~IndexAllows(i, row) /\ Answer(h, "live exists")
    BY <1>7, Zenon DEF InsertAccount
  <2> QED BY <2>2, <2>3, <2>4
<1>8. CASE CheckActive(h)
  <2>1. /\ handler[h].step = "isActive" /\ r.op = "update" /\ r.active = "false" /\ UNCHANGED account
        /\ GoTo(h, "unsettled") \/ GoTo(h, "existing")
    BY <1>2, <1>8 DEF CheckActive, StepOfRequest, ReadsOnly, r
  <2> QED BY <1>1, <1>2, <2>1, GoneTo DEF Steps, r
<1>9. CASE CheckUnsettled(h)
  <2>1. /\ handler[h].step = "unsettled" /\ r.op = "update" /\ r.active = "false" /\ UNCHANGED account
    BY <1>2, <1>9 DEF CheckUnsettled, StepOfRequest, ReadsOnly, r
  <2>2. CASE unsettled[r.id] > 0
    <3> DEFINE x == [handler[h] EXCEPT !.step = "done", !.answer = "unsettled", !.count = unsettled[r.id]]
    <3>1. handler' = [handler EXCEPT ![h] = x]
      BY <1>9, <2>2 DEF CheckUnsettled, AdminTypes, r
    <3>2. unsettled[r.id] \in Nat
      BY <1>3, <2>1 DEF AdminTypes
    <3>3. x \in Sessions /\ x.step = "done" /\ x.answer = "unsettled" /\ x.count = unsettled[r.id]
      BY <1>2, <3>2 DEF Sessions, Steps, Answers
    <3> HIDE DEF x
    <3>4. SessionSet(h, x)
      BY <3>1, <3>3 DEF SessionSet, AdminTypes
    <3>5. AnswerTrue(x, w)
      <4>1. "unsettled" \in w
        BY <1>4, <2>1, <2>2, Zenon
      <4>2. x.count # 0
        BY <2>2, <3>2, <3>3
      <4> QED BY <3>3, <4>1, <4>2 DEF AnswerTrue
    <3> QED BY <1>1, <3>3, <3>4, <3>5, Answered DEF w
  <2>3. CASE ~(unsettled[r.id] > 0)
    <3>1. GoTo(h, "existing")
      BY <1>9, <2>3 DEF CheckUnsettled, r
    <3> QED BY <1>1, <1>2, <2>1, <3>1, GoneTo DEF Steps, r
  <2> QED BY <2>2, <2>3
<1>10. CASE CheckGuards(h)
  <2>1. /\ handler[h].step = "guards" /\ r.op = "update" /\ r.active = "true" /\ UNCHANGED account
    BY <1>2, <1>10 DEF CheckGuards, StepOfRequest, ReadsOnly, r
  <2>2. CASE ~Exists(r.id)
    <3>1. GoTo(h, "existing")
      BY <1>10, <2>2 DEF CheckGuards, r
    <3>2. account[r.id] \in Rows => account[r.id].state = "deleted"
      BY <2>2 DEF Exists, Rows
    <3> QED BY <1>1, <1>2, <1>4, <2>1, <3>1, <3>2, GoneTo DEF Steps, r, w
  <2>3. CASE Exists(r.id) /\ ~LevelResolved(levels, account[r.id].exchange)
    <3>1. Answer(h, "bad request")
      BY <1>10, <2>3 DEF CheckGuards, r
    <3> QED BY <1>1, <3>1, AnswerGiven DEF Answers
  <2>4. CASE Exists(r.id) /\ LevelResolved(levels, account[r.id].exchange)
    <3>1. account[r.id] \in Rows
      BY <1>3, <2>1, <2>4, ExistsIsRow
    <3>2. CASE account[r.id].type = "live"
      <4>1. GoTo(h, "precheck") /\ "precheck" \in Steps
        BY <1>10, <2>4, <3>2 DEF CheckGuards, Steps, r
      <4>2. /\ SessionSet(h, [handler[h] EXCEPT !.step = "precheck"]) /\ handler'[h].step = "precheck"
            /\ Req(h)' = Req(h) /\ handler'[h] = [handler[h] EXCEPT !.step = "precheck"]
        BY <1>1, <4>1, NextStep
      <4>3. StepOfRequest(h)' /\ ReadEarlier(h)'
        BY <1>2, <2>1, <3>1, <4>2 DEF StepOfRequest, ReadEarlier, r
      <4>4. handler'[h].req = Req(h) /\ SessionSet(h, handler'[h])
        BY <4>2 DEF Req
      <4> QED BY <1>1, <4>2, <4>3, <4>4, GoneOn
    <3>3. CASE account[r.id].type # "live"
      <4>1. GoTo(h, "existing")
        BY <1>10, <2>4, <3>3 DEF CheckGuards, r
      <4> QED BY <1>1, <1>2, <2>1, <3>1, <3>3, <4>1, GoneTo DEF Steps, r
    <3> QED BY <3>2, <3>3
  <2> QED BY <2>2, <2>3, <2>4
<1>11. CASE UpdatePrecheck(h)
  <2>1. handler[h].step = "precheck" /\ r.op = "update" /\ UNCHANGED account
        /\ IF LiveOn(account[r.id].exchange, r.id) # {} THEN Answer(h, "live exists") ELSE GoTo(h, "existing")
    BY <1>11 DEF UpdatePrecheck, ReadsOnly, r
  <2>2. account[r.id] \in Rows
    BY <1>2, <2>1 DEF StepOfRequest, r
  <2>3. CASE LiveOn(account[r.id].exchange, r.id) # {}
    BY <1>1, <1>4, <2>1, <2>2, <2>3, AnswerGiven DEF Answers, w
  <2>4. CASE LiveOn(account[r.id].exchange, r.id) = {}
    BY <1>1, <1>2, <1>4, <2>1, <2>2, <2>4, GoneTo DEF Steps, r, w
  <2> QED BY <2>3, <2>4
<1>12. CASE ReadExisting(h)
  <2> DEFINE found == Exists(r.id) /\ (r.leverage # 0 \/ r.active # "keep")
             s == IF found /\ r.active = "true" /\ account[r.id].type = "live" THEN "recheck" ELSE "write"
             x == [handler[h] EXCEPT !.existing = found, !.step = s]
  <2>1. handler[h].step = "existing" /\ r.op = "update" /\ r.id \in Ids /\ UNCHANGED account
    BY <1>2, <1>3, <1>12 DEF ReadExisting, StepOfRequest, ReadsOnly, r
  <2>2. handler' = [handler EXCEPT ![h] = x]
    BY <1>12 DEF ReadExisting, AdminTypes, r
  <2>3. found \in BOOLEAN
    BY Zenon
  <2>4. Exists(r.id) => account[r.id] \in Rows
    BY <2>1, ExistsIsRow
  <2>5. s = "recheck" => r.active = "true" /\ account[r.id] \in Rows /\ "no rival" \in w
    BY <1>2, <2>1, <2>4 DEF ReadEarlier, Exists, r, w
  <2>6. s = "write" /\ r.active = "false" /\ ~found => "gone" \in w
    BY <1>4, <2>1
  <2>7. s \in {"recheck", "write"}
    OBVIOUS
  <2> HIDE DEF found, s
  <2>8. x \in Sessions /\ x.step = s /\ x.req = Req(h) /\ x.existing = found
    BY <1>2, <2>3, <2>7 DEF Sessions, Steps, Req
  <2> HIDE DEF x
  <2>9. SessionSet(h, x) /\ handler'[h] = x
    BY <2>2, <2>8 DEF SessionSet, AdminTypes
  <2>10. Req(h)' = Req(h)
    BY <2>8, <2>9 DEF Req
  <2>11. StepOfRequest(h)'
    BY <1>2, <2>1, <2>5, <2>7, <2>8, <2>9, <2>10 DEF StepOfRequest, r
  <2>12. ASSUME witnessed[h] \subseteq witnessed'[h] PROVE ReadEarlier(h)'
    BY <2>5, <2>6, <2>7, <2>8, <2>9, <2>10, <2>12 DEF ReadEarlier, r, w
  <2> QED BY <1>1, <2>7, <2>8, <2>9, <2>11, <2>12, GoneOn
<1>13. CASE UpdateRecheck(h)
  <2>1. handler[h].step = "recheck" /\ r.op = "update" /\ UNCHANGED account
        /\ IF LiveOn(account[r.id].exchange, r.id) # {} THEN Answer(h, "internal error") ELSE GoTo(h, "write")
    BY <1>13 DEF UpdateRecheck, ReadsOnly, r
  <2>2. account[r.id] \in Rows /\ r.active = "true" /\ "no rival" \in w
    BY <1>2, <2>1 DEF StepOfRequest, ReadEarlier, r, w
  <2>3. CASE LiveOn(account[r.id].exchange, r.id) # {}
    BY <1>1, <1>4, <2>1, <2>2, <2>3, AnswerGiven DEF Answers, w
  <2>4. CASE LiveOn(account[r.id].exchange, r.id) = {}
    BY <1>1, <1>2, <2>1, <2>2, <2>4, GoneTo DEF Steps, r
  <2> QED BY <2>3, <2>4
<1>14. CASE WriteAccount(h)
  <2> DEFINE matches == Exists(r.id) /\ DeactivationAllowed(r)
             row == Updated(account[r.id], r)
  <2>1. handler[h].step = "write" /\ r.op = "update" /\ r.id \in Ids
    BY <1>2, <1>3, <1>14 DEF WriteAccount, StepOfRequest, r
  <2>2. \/ matches /\ Answer(h, "updated")
        \/ matches /\ ~IndexAllows(r.id, row) /\ Answer(h, "live exists")
        \/ ~matches /\ UNCHANGED account /\ NoRowUpdated(h)
    BY <1>14, Zenon DEF WriteAccount, r
  <2>3. unsettled[r.id] \in Nat
    BY <2>1 DEF AdminTypes
  <2>4. ASSUME matches, Answer(h, "updated") PROVE HandlerOK(h)'
    <3>1. r.active = "false" => "flat" \in w \/ "inactive" \in w
      <4>1. unsettled[r.id] = 0 => ~(unsettled[r.id] > 0)
        OBVIOUS
      <4> QED BY <1>4, <2>1, <2>4, <4>1, Zenon DEF DeactivationAllowed, Active
    <3> QED BY <1>1, <2>4, <3>1, AnswerGiven DEF Answers, r, w
  <2>5. ASSUME matches, ~IndexAllows(r.id, row), Answer(h, "live exists") PROVE HandlerOK(h)'
    <3>1. account[r.id] \in Rows
      BY <2>1, <2>5, ExistsIsRow
    <3>2. row.exchange = account[r.id].exchange
      BY <3>1 DEF Updated, Rows
    <3>3. LiveOn(account[r.id].exchange, r.id) # {}
      BY <2>5, <3>2 DEF IndexAllows
    <3> QED BY <1>1, <1>4, <2>1, <2>5, <3>1, <3>3, AnswerGiven DEF Answers, w
  <2>6. ASSUME ~matches, UNCHANGED account, NoRowUpdated(h) PROVE HandlerOK(h)'
    <3>1. ~Exists(r.id) \/ (r.active = "false" /\ unsettled[r.id] > 0)
      BY <2>3, <2>6 DEF DeactivationAllowed
    <3>2. CASE handler[h].existing /\ r.active = "false"
      <4>1. GoTo(h, "count") /\ ("unsettled" \in w \/ "gone" \in w)
        BY <1>4, <2>1, <2>6, <3>1, <3>2 DEF NoRowUpdated, r
      <4> QED BY <1>1, <1>2, <2>1, <2>6, <3>2, <4>1, GoneTo DEF Steps, r, w
    <3>3. CASE ~(handler[h].existing /\ r.active = "false")
      <4>1. Answer(h, "not found")
        BY <2>6, <3>3 DEF NoRowUpdated, r
      <4>2. "gone" \in w
        BY <1>2, <1>4, <2>1, <3>1, <3>3 DEF ReadEarlier, r, w
      <4> QED BY <1>1, <4>1, <4>2, AnswerGiven DEF Answers, w
    <3> QED BY <3>2, <3>3
  <2> QED BY <2>2, <2>4, <2>5, <2>6
<1>15. CASE CountUnsettled(h)
  <2>1. handler[h].step = "count" /\ r.op = "update" /\ r.id \in Ids
    BY <1>2, <1>3, <1>15 DEF CountUnsettled, StepOfRequest, r
  <2> DEFINE x == [handler[h] EXCEPT !.step = "done", !.answer = "unsettled", !.count = unsettled[r.id]]
  <2>2. handler' = [handler EXCEPT ![h] = x]
    BY <1>15 DEF CountUnsettled, AdminTypes, r
  <2>3. unsettled[r.id] \in Nat
    BY <2>1 DEF AdminTypes
  <2>4. x \in Sessions /\ x.step = "done" /\ x.answer = "unsettled" /\ x.count = unsettled[r.id]
    BY <1>2, <2>3 DEF Sessions, Steps, Answers
  <2> HIDE DEF x
  <2>5. SessionSet(h, x)
    BY <2>2, <2>4 DEF SessionSet, AdminTypes
  <2>6. ("unsettled" \in w \/ "gone" \in w) /\ (unsettled[r.id] = 0 => "flat" \in w)
    <3>1. unsettled[r.id] = 0 => ~(unsettled[r.id] > 0)
      OBVIOUS
    <3>2. r.op # "create"
      BY <2>1
    <3> QED BY <1>2, <1>4, <2>1, <3>1, <3>2, Zenon DEF ReadEarlier, w
  <2>7. AnswerTrue(x, w)
    BY <2>4, <2>6 DEF AnswerTrue
  <2> QED BY <1>1, <2>4, <2>5, <2>7, Answered DEF w
<1>16. CASE RemoveAccount(h)
  <2>1. handler[h].step = "delete" /\ r.op = "remove"
    BY <1>2, <1>16 DEF RemoveAccount, StepOfRequest, r
  <2>2. \/ ~traded[r.id] /\ Answer(h, "deleted")
        \/ traded[r.id] /\ Answer(h, "trades exist")
        \/ ~Exists(r.id) /\ Answer(h, "not found")
    BY <1>16, Zenon DEF RemoveAccount, r
  <2> QED BY <1>1, <1>4, <2>1, <2>2, AnswerGiven DEF Answers, w
<1> QED
  BY <1>5, <1>6, <1>7, <1>8, <1>9, <1>10, <1>11, <1>12, <1>13, <1>14, <1>15, <1>16, Zenon DEF HandlerNext

(* A handler that moves has a session afterwards; the others keep theirs.  *)
LEMMA SessionMoved ==
  ASSUME AdminTypes, SessionsInv, AdminNext, NEW h \in Handlers, HandlerOK(h), HandlerNext(h)
  PROVE  SessionSet(h, handler'[h])
<1>1. CASE Arrive(h)
  BY <1>1, ArriveMoved
<1>2. CASE ~Arrive(h)
  <2>1. Serving(h)
    BY <1>2, Zenon DEF HandlerNext, CreatePrecheck, CreateRecheck, CheckActive, CheckUnsettled, CheckGuards,
           UpdatePrecheck, ReadExisting, UpdateRecheck, CountUnsettled, InsertAccount, WriteAccount,
           RemoveAccount, Serving
  <2>2. handler[h] \in Sessions /\ Req(h) \in Requests /\ StepOfRequest(h)
    BY <2>1, ServingSession DEF HandlerOK, Serving
  <2>3. ASSUME NEW a \in Answers, Answer(h, a) PROVE SessionSet(h, handler'[h])
    <3>1. SessionSet(h, [handler[h] EXCEPT !.step = "done", !.answer = a])
      BY <2>2, <2>3, AnswerSet
    <3> QED BY <3>1 DEF SessionSet
  <2>4. ASSUME NEW s \in Steps, GoTo(h, s) PROVE SessionSet(h, handler'[h])
    <3>1. SessionSet(h, [handler[h] EXCEPT !.step = s])
      BY <2>2, <2>4, GoToSet
    <3> QED BY <3>1 DEF SessionSet
  <2>5. CASE CheckUnsettled(h) \/ CountUnsettled(h)
    <3>1. handler[h].step \in {"unsettled", "count"}
      BY <2>5 DEF CheckUnsettled, CountUnsettled
    <3>2. unsettled[Req(h).id] \in Nat
      BY <2>2, <3>1, RequestTypes DEF StepOfRequest, AdminTypes
    <3>3. CASE GoTo(h, "existing")
      BY <2>4, <3>3 DEF Steps
    <3>4. CASE handler' = [handler EXCEPT ![h].step = "done", ![h].answer = "unsettled",
                                          ![h].count = unsettled[Req(h).id]]
      <4> DEFINE x == [handler[h] EXCEPT !.step = "done", !.answer = "unsettled", !.count = unsettled[Req(h).id]]
      <4>1. handler' = [handler EXCEPT ![h] = x]
        BY <3>4 DEF AdminTypes
      <4>2. x \in Sessions
        BY <2>2, <3>2 DEF Sessions, Steps, Answers
      <4> HIDE DEF x
      <4> QED BY <4>1, <4>2 DEF SessionSet, AdminTypes
    <3> QED BY <2>5, <3>3, <3>4, Zenon DEF CheckUnsettled, CountUnsettled
  <2>6. CASE ReadExisting(h)
    <3>1. PICK e \in BOOLEAN, s \in {"recheck", "write"} :
            handler' = [handler EXCEPT ![h].existing = e, ![h].step = s]
      <4> DEFINE e == Exists(Req(h).id) /\ (Req(h).leverage # 0 \/ Req(h).active # "keep")
                 s == IF e /\ Req(h).active = "true" /\ account[Req(h).id].type = "live" THEN "recheck" ELSE "write"
      <4>1. handler' = [handler EXCEPT ![h].existing = e, ![h].step = s]
        BY <2>6, Zenon DEF ReadExisting
      <4>2. e \in BOOLEAN
        BY Zenon
      <4>3. s \in {"recheck", "write"}
        BY Zenon
      <4> HIDE DEF e, s
      <4> QED BY <4>1, <4>2, <4>3
    <3> DEFINE x == [handler[h] EXCEPT !.existing = e, !.step = s]
    <3>2. handler' = [handler EXCEPT ![h] = x]
      BY <3>1 DEF AdminTypes
    <3>3. x \in Sessions
      BY <2>2 DEF Sessions, Steps
    <3> HIDE DEF x
    <3> QED BY <3>2, <3>3 DEF SessionSet, AdminTypes
  <2>7. CASE CreatePrecheck(h) \/ CreateRecheck(h) \/ UpdatePrecheck(h) \/ UpdateRecheck(h)
    BY <2>3, <2>4, <2>7 DEF CreatePrecheck, CreateRecheck, UpdatePrecheck, UpdateRecheck, Answers, Steps
  <2>8. CASE CheckActive(h) \/ CheckGuards(h)
    <3>1. GoTo(h, "unsettled") \/ GoTo(h, "existing") \/ GoTo(h, "precheck") \/ Answer(h, "bad request")
      <4>1. CASE CheckActive(h)
        BY <4>1 DEF CheckActive
      <4>2. CASE CheckGuards(h)
        BY <4>2 DEF CheckGuards
      <4> QED BY <2>8, <4>1, <4>2
    <3> QED BY <2>3, <2>4, <3>1 DEF Answers, Steps
  <2>9. CASE InsertAccount(h) \/ WriteAccount(h) \/ RemoveAccount(h)
    <3>1. \/ Answer(h, "created") \/ Answer(h, "live exists") \/ Answer(h, "updated") \/ Answer(h, "not found")
          \/ Answer(h, "deleted") \/ Answer(h, "trades exist") \/ GoTo(h, "count")
      BY <2>9, Zenon DEF InsertAccount, WriteAccount, RemoveAccount, NoRowUpdated
    <3> QED BY <2>3, <2>4, <3>1 DEF Answers, Steps
  <2> QED BY <1>2, <2>5, <2>6, <2>7, <2>8, <2>9, Zenon DEF HandlerNext
<1> QED BY <1>1, <1>2

(* Initially no handler serves a request and the index holds.              *)
LEMMA AdminInvInit == AdminInit => AdminInv
<1> SUFFICES ASSUME AdminInit PROVE AdminInv
  OBVIOUS
<1>1. InitialAccounts \in [Ids -> Rows \cup {NoRow}] /\ IndexHolds(InitialAccounts)
  BY AdminAssumption DEF AdminAssumption
<1>2. account = InitialAccounts /\ up = TRUE /\ unsettled = [i \in Ids |-> 0] /\ traded = [i \in Ids |-> FALSE]
      /\ signal = [i \in Ids |-> FALSE] /\ handler = [h \in Handlers |-> Idle]
  BY DEF AdminInit
<1>3. \A h \in Handlers : handler[h] = Idle /\ handler[h].step = "idle"
  BY <1>2 DEF Idle
<1>4. AdminTypes
  <2>1. up \in BOOLEAN /\ account \in [Ids -> Rows \cup {NoRow}]
    BY <1>1, <1>2
  <2>2. unsettled \in [Ids -> Nat] /\ traded \in [Ids -> BOOLEAN] /\ signal \in [Ids -> BOOLEAN]
    BY <1>2
  <2>3. handler \in [Handlers -> Sessions \cup {Idle}]
    BY <1>2, Zenon
  <2> QED BY <1>3, <2>1, <2>2, <2>3 DEF AdminTypes
<1>5. TradesInv
  BY <1>2 DEF TradesInv
<1>6. OneLivePerExchange
  BY <1>1, <1>2 DEF OneLivePerExchange, LiveOn, Active, Exists, IndexHolds
<1>7. SessionsInv /\ WitnessInv /\ AnswerIsTrue
  BY <1>3 DEF SessionsInv, WitnessInv, AnswerIsTrue, Serving
<1> QED BY <1>4, <1>5, <1>6, <1>7 DEF AdminInv

(* Every step keeps the invariant.                                         *)
LEMMA AdminInvStep == AdminInv /\ [AdminNext]_adminVars => AdminInv'
<1>1. ASSUME AdminInv, AdminNext PROVE AdminInv'
  <2>1. \A h \in Handlers : HandlerOK(h)
    BY <1>1 DEF AdminInv, SessionsInv, WitnessInv, AnswerIsTrue, HandlerOK
  <2>2. OneLivePerExchange' /\ TradesInv' /\ RowsKept /\ up' \in BOOLEAN /\ unsettled' \in [Ids -> Nat]
        /\ traded' \in [Ids -> BOOLEAN] /\ signal' \in [Ids -> BOOLEAN]
    BY <1>1, OneLiveStep, TradesStep, AdminCases DEF AdminInv
  <2>3. /\ handler' \in [Handlers -> Sessions \cup {Idle}]
        /\ \A h \in Handlers : HandlerOK(h)'
    <3>1. ASSUME NEW h \in Handlers, HandlerNext(h)
          PROVE  /\ handler' \in [Handlers -> Sessions \cup {Idle}]
                 /\ \A k \in Handlers : HandlerOK(k)'
      <4>1. SessionSet(h, handler'[h])
        BY <1>1, <2>1, <3>1, SessionMoved DEF AdminInv
      <4>2. HandlerOK(h)'
        BY <1>1, <2>1, <3>1, ArriveMoved, ServedMoved DEF AdminInv
      <4>3. ASSUME NEW k \in Handlers \ {h} PROVE HandlerOK(k)'
        BY <1>1, <2>1, <4>1, Unmoved DEF AdminInv, SessionSet
      <4> QED BY <4>1, <4>2, <4>3 DEF SessionSet
    <3>2. CASE Stop
      <4>1. handler' = [h \in Handlers |-> Idle]
        BY <3>2 DEF Stop
      <4>2. \A h \in Handlers : handler'[h].step = "idle"
        BY <4>1 DEF Idle
      <4> QED BY <4>1, <4>2, Zenon DEF HandlerOK, Serving
    <3>3. CASE handler' = handler
      <4>1. \A h \in Handlers : HandlerOK(h)'
        BY <1>1, <2>1, <3>3, Unmoved DEF AdminInv
      <4> QED BY <1>1, <3>3, <4>1 DEF AdminInv, AdminTypes
    <3> QED BY <1>1, <3>1, <3>2, <3>3, Zenon DEF AdminNext, Start, Dispatch, OpenTrade, SettleTrade
  <2>4. AdminTypes'
    BY <2>2, <2>3, Zenon DEF AdminTypes, RowsKept
  <2>5. SessionsInv' /\ WitnessInv' /\ AnswerIsTrue'
    BY <2>3 DEF HandlerOK, SessionsInv, WitnessInv, AnswerIsTrue
  <2> QED BY <2>2, <2>4, <2>5 DEF AdminInv
<1>2. ASSUME AdminInv, UNCHANGED adminVars PROVE AdminInv'
  <2>1. UNCHANGED <<up, levels, account, unsettled, traded, signal, handler, witnessed>>
    BY <1>2 DEF adminVars, tradeVars
  <2>2. AdminTypes' /\ TradesInv'
    BY <1>2, <2>1, Zenon DEF AdminInv, AdminTypes, TradesInv, Exists
  <2>3. OneLivePerExchange' /\ AnswerIsTrue'
    BY <1>2, <2>1 DEF AdminInv, OneLivePerExchange, LiveOn, Active, Exists, AnswerIsTrue
  <2>4. SessionsInv'
    BY <1>2, <2>1 DEF AdminInv, SessionsInv, Serving, StepOfRequest, Req
  <2>5. WitnessInv'
    <3>1. ASSUME NEW h \in Handlers PROVE Facts(Req(h))' = Facts(Req(h))
      BY <2>1, Zenon DEF Facts, LiveOn, Active, Exists, Req
    <3>2. ASSUME NEW h \in Handlers PROVE (Serving(h)' <=> Serving(h)) /\ (ReadEarlier(h)' <=> ReadEarlier(h))
      BY <2>1, Zenon DEF Serving, ReadEarlier, Req
    <3> QED BY <1>2, <2>1, <3>1, <3>2 DEF AdminInv, WitnessInv
  <2> QED BY <2>2, <2>3, <2>4, <2>5 DEF AdminInv
<1> QED BY <1>1, <1>2
-----------------------------------------------------------------------------
(* However requests, signals and restarts interleave, an exchange has one  *)
(* active live account at most and every open trade of a running service is*)
(* on an exchange with a liquidation level, for any number of accounts,    *)
(* handlers and configurations.                                            *)
THEOREM AccountsCorrect == AdminSpec => []AccountsAreSound
<1>1. AdminInv => AccountsAreSound
  BY DEF AdminInv, AccountsAreSound, NoStrandedTrade, TradesInv
<1> QED BY <1>1, AdminInvInit, AdminInvStep, PTL DEF AdminSpec

(* The answer to a request is true of a moment at which it was served,     *)
(* although the handler reads the database several times before it writes. *)
THEOREM AnswersCorrect == AdminSpec => []AnswerIsTrue
<1>1. AdminInv => AnswerIsTrue
  BY DEF AdminInv
<1> QED BY <1>1, AdminInvInit, AdminInvStep, PTL DEF AdminSpec

-----------------------------------------------------------------------------
(* The sums of the ledger.                                                 *)

(* The profit of a trade at a bid, the one that the exchange settled it    *)
(* with, and the trades whose profit is not booked yet.                    *)
Profit(t, bid) == PnlOf(t, CloseSideAt(bid, t.dir))
Settled(t) == PnlOf(t, t.gone)
Settling(tr) == {p \in Pairs : tr[p] # NoTrade /\ tr[p].gone # 0}
UnbookedOf(tr) == MapThenSumSet(LAMBDA p : PnlOf(tr[p], tr[p].gone), Settling(tr))

(* The margin of trades as such a sum.                                     *)
LEMMA RequiredIs ==
  ASSUME NEW ts, IsFiniteSet(DOMAIN ts)
  PROVE  Required(ts) = SumOf([p \in DOMAIN ts |-> RequiredMargin(ts[p])], DOMAIN ts)
<1> DEFINE S == DOMAIN ts
           f == [p \in S |-> RequiredMargin(ts[p])]
           Eq(g) == g = [s \in SUBSET S |-> IF s = {} THEN 0
                           ELSE RequiredMargin(ts[CHOOSE x \in s : TRUE]) + g[s \ {CHOOSE x \in s : TRUE}]]
           iter == CHOOSE g : Eq(g)
<1>1. Required(ts) = iter[S]
  BY DEF Required, MapThenSumSet, MapThenFoldSet
<1>2. \A g : Eq(g) <=> Sums(g, f, S)
  <2> TAKE g
  <2>1. \A s \in SUBSET S : s # {} => f[First(s)] = RequiredMargin(ts[CHOOSE x \in s : TRUE])
    BY FirstIs DEF First
  <2>2. [s \in SUBSET S |-> IF s = {} THEN 0
                           ELSE RequiredMargin(ts[CHOOSE x \in s : TRUE]) + g[s \ {CHOOSE x \in s : TRUE}]]
        = [s \in SUBSET S |-> IF s = {} THEN 0 ELSE f[First(s)] + g[s \ {First(s)}]]
    BY <2>1 DEF First
  <2> QED BY <2>2 DEF Sums
<1> HIDE DEF Eq, f, S
<1>3. \E g : Eq(g)
  BY <1>2, SumsExist DEF S
<1>4. Sums(iter, f, S)
  BY <1>2, <1>3
<1> HIDE DEF iter
<1>5. SumOf(f, S) = iter[S]
  BY <1>4, SumOfIs DEF S
<1> QED BY <1>1, <1>5 DEF f, S

(* The profit of open positions as such a sum.                             *)
LEMMA UnrealizedIs ==
  ASSUME NEW ts, IsFiniteSet(DOMAIN ts), NEW quotes
  PROVE  Unrealized(ts, quotes) = SumOf([p \in DOMAIN ts |-> Profit(ts[p], quotes[p])], DOMAIN ts)
<1> DEFINE S == DOMAIN ts
           f == [p \in S |-> Profit(ts[p], quotes[p])]
           Eq(g) == g = [s \in SUBSET S |-> IF s = {} THEN 0
                           ELSE Profit(ts[CHOOSE x \in s : TRUE], quotes[CHOOSE x \in s : TRUE])
                                + g[s \ {CHOOSE x \in s : TRUE}]]
           iter == CHOOSE g : Eq(g)
<1>1. Unrealized(ts, quotes) = iter[S]
  BY DEF Unrealized, Profit, MapThenSumSet, MapThenFoldSet
<1>2. \A g : Eq(g) <=> Sums(g, f, S)
  <2> TAKE g
  <2>1. \A s \in SUBSET S : s # {} =>
          f[First(s)] = Profit(ts[CHOOSE x \in s : TRUE], quotes[CHOOSE x \in s : TRUE])
    BY FirstIs DEF First
  <2>2. [s \in SUBSET S |-> IF s = {} THEN 0
                           ELSE Profit(ts[CHOOSE x \in s : TRUE], quotes[CHOOSE x \in s : TRUE])
                                + g[s \ {CHOOSE x \in s : TRUE}]]
        = [s \in SUBSET S |-> IF s = {} THEN 0 ELSE f[First(s)] + g[s \ {First(s)}]]
    BY <2>1 DEF First
  <2> QED BY <2>2 DEF Sums
<1> HIDE DEF Eq, f, S
<1>3. \E g : Eq(g)
  BY <1>2, SumsExist DEF S
<1>4. Sums(iter, f, S)
  BY <1>2, <1>3
<1> HIDE DEF iter
<1>5. SumOf(f, S) = iter[S]
  BY <1>4, SumOfIs DEF S
<1> QED BY <1>1, <1>5 DEF f, S

(* The profit that is not booked yet as such a sum.                        *)
LEMMA UnbookedIs ==
  ASSUME NEW tr
  PROVE  UnbookedOf(tr) = SumOf([p \in Settling(tr) |-> Settled(tr[p])], Settling(tr))
<1>0. IsFiniteSet(Settling(tr))
  BY FS_Subset, RiskAssumption DEF Settling
<1> DEFINE S == Settling(tr)
           f == [p \in S |-> Settled(tr[p])]
           Eq(g) == g = [s \in SUBSET S |-> IF s = {} THEN 0
                           ELSE Settled(tr[CHOOSE x \in s : TRUE]) + g[s \ {CHOOSE x \in s : TRUE}]]
           iter == CHOOSE g : Eq(g)
<1>1. UnbookedOf(tr) = iter[S]
  BY DEF UnbookedOf, Settled, MapThenSumSet, MapThenFoldSet
<1>2. \A g : Eq(g) <=> Sums(g, f, S)
  <2> TAKE g
  <2>1. \A s \in SUBSET S : s # {} => f[First(s)] = Settled(tr[CHOOSE x \in s : TRUE])
    BY FirstIs DEF First
  <2>2. [s \in SUBSET S |-> IF s = {} THEN 0
                           ELSE Settled(tr[CHOOSE x \in s : TRUE]) + g[s \ {CHOOSE x \in s : TRUE}]]
        = [s \in SUBSET S |-> IF s = {} THEN 0 ELSE f[First(s)] + g[s \ {First(s)}]]
    BY <2>1 DEF First
  <2> QED BY <2>2 DEF Sums
<1> HIDE DEF Eq, f, S
<1>3. \E g : Eq(g)
  BY <1>0, <1>2, SumsExist DEF S
<1>4. Sums(iter, f, S)
  BY <1>2, <1>3
<1> HIDE DEF iter
<1>5. SumOf(f, S) = iter[S]
  BY <1>0, <1>4, SumOfIs DEF S
<1> QED BY <1>1, <1>5 DEF f, S

-----------------------------------------------------------------------------
(* The invariant.                                                          *)
Directions == {"long", "short"}
Trades == [status : {"open", "closing"}, dir : Directions, entry : Nat \ {0}, qty : Nat \ {0}, id : Nat,
           exit : Nat, gone : Nat, holder : {"none", "exit", "monitor"}, hint : Nat \ {0}, bal : Int]
SizedEntries == [step : {"sized"}, pair : Pairs, dir : Directions, qty : Nat \ {0}, hint : Nat \ {0}, bal : Int]
FilledEntries == [step : {"filled"}, pair : Pairs, entry : Nat \ {0}, dir : Directions, qty : Nat \ {0},
                  hint : Nat \ {0}, bal : Int]

RiskTypes ==
  /\ balance \in Int /\ cash \in Int /\ astray \in Int /\ opens \in Nat
  /\ stray \in [Pairs -> [qty : Int, cost : Int]]
  /\ price \in [Pairs -> Prices]
  /\ trade \in [Pairs -> Trades \cup {NoTrade}]
  /\ opening \in {NoEntry} \cup SizedEntries \cup FilledEntries
  /\ lastAlert \in [Levels -> Nat]

(* The size of x can be afforded by the balance it was computed from, at   *)
(* the price it was computed for, until the stop loss.                     *)
Affordable(x) ==
  x.qty * ((LiquidationLevel + MarginBuffer + Leverage * StopLossPct) * x.hint) <= x.bal * Leverage * 100

(* A close that is filled has been locked before; the fill of a live one   *)
(* is one of the exchange, which knows nothing of a dry run.               *)
Settles(t) ==
  /\ t.status = "open" => t.exit = 0
  /\ IF dryRun THEN t.gone = 0 ELSE t.exit # 0 => t.gone # 0

(* Every trade and every entry is of such a size.                          *)
SizesInv ==
  /\ \A p \in Pairs : trade[p] # NoTrade => Affordable(trade[p]) /\ Settles(trade[p])
  /\ opening # NoEntry => Affordable(opening) /\ trade[opening.pair] = NoTrade

(* What the drift check compares with was open when it was read.           *)
DriftInv ==
  drift.step = "trades" =>
    /\ drift = [step |-> "trades", bal |-> drift.bal, equity |-> drift.equity,
                trades |-> drift.trades, quotes |-> drift.quotes, alert |-> drift.alert]
    /\ \A p \in DOMAIN drift.trades : drift.trades[p].status = "open"

RiskInv == RiskTypes /\ SizesInv /\ DriftInv /\ BooksMatchExchange

-----------------------------------------------------------------------------
(* Arithmetic.                                                             *)
(* What is assumed of the configuration.                                   *)
LEMMA Settings ==
  /\ IsFiniteSet(Pairs) /\ Signals \in [Pairs -> SUBSET Directions] /\ ExternalSums \subseteq Int
  /\ InitialBalance \in Nat /\ Spread \in Nat /\ MarginBuffer \in Nat /\ DriftFloor \in Nat
  /\ Leverage \in Nat \ {0} /\ StopLossPct \in Nat \ {0} /\ AllocationPct \in Nat \ {0}
  /\ LiquidationLevel \in Nat \ {0} /\ CoolDown \in Nat
  /\ Prices \subseteq Nat \ {0} /\ StartPrice \in Prices
BY RiskAssumption DEF Directions

(* A quotient that is rounded down, times the divisor.                     *)
LEMMA Quotient ==
  ASSUME NEW n \in Nat, NEW m \in Nat \ {0}
  PROVE  n \div m \in Nat /\ (n \div m) * m <= n
  BY Z3

(* Products of naturals.                                                   *)
LEMMA TimesIs == ASSUME NEW a \in Nat, NEW b \in Nat PROVE a * b \in Nat /\ (a # 0 /\ b # 0 => a * b # 0)
  BY Z3

(* A factor that is not negative keeps an order.                           *)
LEMMA TimesKeeps == ASSUME NEW a \in Int, NEW b \in Int, NEW m \in Nat, a <= b PROVE a * m <= b * m
  BY Z3

(* The smaller of two numbers.                                             *)
LEMMA SmallerOfTwo ==
  ASSUME NEW a \in Int, NEW b \in Int
  PROVE  Min({a, b}) \in {a, b} /\ Min({a, b}) <= a
<1>1. \E x \in {a, b} : \A y \in {a, b} : x <= y
  <2>1. CASE a <= b
    BY <2>1
  <2>2. CASE b <= a
    BY <2>2
  <2> QED BY <2>1, <2>2
<1> DEFINE m == CHOOSE x \in {a, b} : \A y \in {a, b} : x <= y
<1>2. m \in {a, b} /\ \A y \in {a, b} : m <= y
  BY <1>1
<1>3. Min({a, b}) = m
  BY DEF Min
<1> HIDE DEF m
<1> QED BY <1>2, <1>3

(* PositionSizer gives a size that the balance can afford.                 *)
LEMMA QuantityIs ==
  ASSUME NEW bal \in Int, NEW entry \in Nat \ {0}
  PROVE  /\ CalculateQuantity(bal, entry) \in Nat
         /\ CalculateQuantity(bal, entry) > 0 =>
              CalculateQuantity(bal, entry)
                * ((LiquidationLevel + MarginBuffer + Leverage * StopLossPct) * entry) <= bal * Leverage * 100
<1> DEFINE k == LiquidationLevel + MarginBuffer + Leverage * StopLossPct
           d == k * entry
           n == bal * Leverage * 100
           maxAlloc == n \div d
           asked == (bal * Leverage * AllocationPct) \div (100 * entry)
<1>1. CASE bal <= 0
  <2>1. CalculateQuantity(bal, entry) = 0
    BY <1>1 DEF CalculateQuantity
  <2> QED BY <2>1
<1>2. CASE ~(bal <= 0)
  <2>1. Leverage * StopLossPct \in Nat
    BY Settings, TimesIs
  <2>2. k \in Nat \ {0}
    BY <2>1, Settings
  <2>3. d \in Nat \ {0}
    <3> HIDE DEF k
    <3> QED BY <2>2, TimesIs
  <2>4. bal * Leverage \in Nat
    BY <1>2, Settings, TimesIs
  <2>5. n \in Nat
    BY <2>4
  <2>6. bal * Leverage * AllocationPct \in Nat /\ 100 * entry \in Nat \ {0}
    BY <2>4, Settings, TimesIs
  <2>7. maxAlloc \in Nat /\ maxAlloc * d <= n
    <3> HIDE DEF d, n
    <3> QED BY <2>3, <2>5, Quotient
  <2>8. asked \in Nat
    BY <2>6, Quotient
  <2>9. CalculateQuantity(bal, entry) = Min({maxAlloc, asked})
    BY <1>2 DEF CalculateQuantity
  <2> HIDE DEF maxAlloc, asked
  <2>10. Min({maxAlloc, asked}) \in Nat /\ Min({maxAlloc, asked}) <= maxAlloc
    BY <2>7, <2>8, SmallerOfTwo
  <2>11. Min({maxAlloc, asked}) * d <= maxAlloc * d
    <3> HIDE DEF d
    <3> QED BY <2>3, <2>7, <2>10, TimesKeeps
  <2>12. Min({maxAlloc, asked}) * d \in Int /\ maxAlloc * d \in Int
    <3> HIDE DEF d
    <3> QED BY <2>3, <2>7, <2>10
  <2>13. Min({maxAlloc, asked}) * d <= n
    <3> HIDE DEF d, n
    <3> QED BY <2>5, <2>7, <2>11, <2>12
  <2> QED BY <2>9, <2>10, <2>13
<1> QED BY <1>1, <1>2

-----------------------------------------------------------------------------
(* What the ledger adds up, as a function of the trades.                   *)
Held(tr) == {p \in Pairs : tr[p].status # "none"}
UnsettledOf(tr) == [p \in Held(tr) |-> tr[p]]
Locked(t) == IF t = NoTrade THEN 0 ELSE RequiredMargin(t)
Owed(t) == IF t = NoTrade \/ t.gone = 0 THEN 0 ELSE Settled(t)

(* The fields of a trade, its margin and its profit.                       *)
LEMMA TradeIs ==
  ASSUME NEW t \in Trades
  PROVE  /\ t # NoTrade /\ t.status # "none" /\ t.status \in {"open", "closing"} /\ t.dir \in Directions
         /\ t.entry \in Nat \ {0} /\ t.qty \in Nat \ {0} /\ t.exit \in Nat /\ t.gone \in Nat
         /\ t.hint \in Nat \ {0} /\ t.bal \in Int
         /\ t.holder \in {"none", "exit", "monitor"} /\ t.id \in Nat
         /\ RequiredMargin(t) \in Nat /\ Settled(t) \in Int
<1>1. t.status # "none" /\ t.entry \in Nat \ {0} /\ t.qty \in Nat \ {0} /\ t.gone \in Nat
  BY DEF Trades
<1>2. t # NoTrade
  BY <1>1 DEF NoTrade
<1>3. RequiredMargin(t) \in Nat
  <2>1. t.entry * t.qty \in Nat
    BY <1>1, TimesIs
  <2> QED BY <2>1, Settings, Quotient DEF RequiredMargin
<1>4. Settled(t) \in Int
  BY <1>1 DEF Settled, PnlOf, Pnl
<1> QED BY <1>1, <1>2, <1>3, <1>4 DEF Trades

(* Finitely many trades hold margin, or wait to be booked.                 *)
LEMMA HeldIs ==
  ASSUME NEW tr \in [Pairs -> Trades \cup {NoTrade}]
  PROVE  /\ Held(tr) = {p \in Pairs : tr[p] # NoTrade}
         /\ Held(tr) \subseteq Pairs /\ IsFiniteSet(Held(tr)) /\ \A p \in Held(tr) : tr[p] \in Trades
         /\ Settling(tr) \subseteq Pairs /\ IsFiniteSet(Settling(tr)) /\ \A p \in Settling(tr) : tr[p] \in Trades
<1>1. NoTrade.status = "none"
  BY DEF NoTrade
<1>2. \A p \in Pairs : tr[p].status # "none" <=> tr[p] # NoTrade
  BY <1>1, TradeIs
<1>3. Held(tr) \in SUBSET Pairs /\ Settling(tr) \in SUBSET Pairs
  BY DEF Held, Settling
<1>4. IsFiniteSet(Held(tr)) /\ IsFiniteSet(Settling(tr))
  BY <1>3, Settings, FS_Subset
<1> QED BY <1>2, <1>3, <1>4 DEF Held, Settling

(* One trade is replaced.                                                  *)
LEMMA ChangeAt ==
  ASSUME NEW tr \in [Pairs -> Trades \cup {NoTrade}], NEW ur \in [Pairs -> Trades \cup {NoTrade}],
         NEW p \in Pairs, \A q \in Pairs \ {p} : ur[q] = tr[q]
  PROVE  /\ Required(UnsettledOf(tr)) \in Int /\ Required(UnsettledOf(ur)) \in Int
         /\ Required(UnsettledOf(ur)) - Locked(ur[p]) = Required(UnsettledOf(tr)) - Locked(tr[p])
         /\ UnbookedOf(tr) \in Int /\ UnbookedOf(ur) \in Int
         /\ UnbookedOf(ur) - Owed(ur[p]) = UnbookedOf(tr) - Owed(tr[p])
<1>1. /\ Required(UnsettledOf(tr)) \in Int /\ Required(UnsettledOf(ur)) \in Int
      /\ Required(UnsettledOf(ur)) - Locked(ur[p]) = Required(UnsettledOf(tr)) - Locked(tr[p])
  <2> DEFINE f == [q \in Held(tr) |-> RequiredMargin(tr[q])]
             e == [q \in Held(ur) |-> RequiredMargin(ur[q])]
  <2>1. Required(UnsettledOf(tr)) = SumOf(f, Held(tr)) /\ Required(UnsettledOf(ur)) = SumOf(e, Held(ur))
    <3>1. DOMAIN UnsettledOf(tr) = Held(tr) /\ DOMAIN UnsettledOf(ur) = Held(ur)
      BY DEF UnsettledOf
    <3>2. /\ f = [q \in DOMAIN UnsettledOf(tr) |-> RequiredMargin(UnsettledOf(tr)[q])]
          /\ e = [q \in DOMAIN UnsettledOf(ur) |-> RequiredMargin(UnsettledOf(ur)[q])]
      BY DEF UnsettledOf
    <3> HIDE DEF f, e
    <3> QED BY <3>1, <3>2, RequiredIs, HeldIs
  <2>2. Held(tr) \ {p} = Held(ur) \ {p} /\ (p \in Held(tr) <=> tr[p] # NoTrade) /\ (p \in Held(ur) <=> ur[p] # NoTrade)
    BY HeldIs
  <2>3. /\ \A q \in Held(tr) : f[q] \in Int
        /\ \A q \in Held(ur) : e[q] \in Int
        /\ \A q \in Held(tr) \ {p} : f[q] = e[q]
    BY <2>2, HeldIs, TradeIs
  <2>4. (p \in Held(tr) => f[p] = RequiredMargin(tr[p])) /\ (p \in Held(ur) => e[p] = RequiredMargin(ur[p]))
    OBVIOUS
  <2> HIDE DEF f, e
  <2>5. /\ SumOf(f, Held(tr)) \in Int /\ SumOf(e, Held(ur)) \in Int
        /\ SumOf(e, Held(ur)) - (IF p \in Held(ur) THEN e[p] ELSE 0)
             = SumOf(f, Held(tr)) - (IF p \in Held(tr) THEN f[p] ELSE 0)
    <3>1. IsFiniteSet(Held(tr)) /\ IsFiniteSet(Held(ur))
      BY HeldIs
    <3> HIDE DEF Held
    <3> QED BY <2>2, <2>3, <3>1, SumChange, SMTT(40)
  <2>6. Locked(tr[p]) = (IF p \in Held(tr) THEN f[p] ELSE 0) /\ Locked(ur[p]) = (IF p \in Held(ur) THEN e[p] ELSE 0)
    BY <2>2, <2>4 DEF Locked
  <2> QED BY <2>1, <2>5, <2>6
<1>2. /\ UnbookedOf(tr) \in Int /\ UnbookedOf(ur) \in Int
      /\ UnbookedOf(ur) - Owed(ur[p]) = UnbookedOf(tr) - Owed(tr[p])
  <2> DEFINE f == [q \in Settling(tr) |-> Settled(tr[q])]
             e == [q \in Settling(ur) |-> Settled(ur[q])]
  <2>1. UnbookedOf(tr) = SumOf(f, Settling(tr)) /\ UnbookedOf(ur) = SumOf(e, Settling(ur))
    BY UnbookedIs
  <2>2. /\ Settling(tr) \ {p} = Settling(ur) \ {p}
        /\ p \in Settling(tr) <=> tr[p] # NoTrade /\ tr[p].gone # 0
        /\ p \in Settling(ur) <=> ur[p] # NoTrade /\ ur[p].gone # 0
    BY DEF Settling
  <2>3. /\ \A q \in Settling(tr) : f[q] \in Int
        /\ \A q \in Settling(ur) : e[q] \in Int
        /\ \A q \in Settling(tr) \ {p} : f[q] = e[q]
    BY <2>2, HeldIs, TradeIs
  <2>4. (p \in Settling(tr) => f[p] = Settled(tr[p])) /\ (p \in Settling(ur) => e[p] = Settled(ur[p]))
    OBVIOUS
  <2> HIDE DEF f, e
  <2>5. /\ SumOf(f, Settling(tr)) \in Int /\ SumOf(e, Settling(ur)) \in Int
        /\ SumOf(e, Settling(ur)) - (IF p \in Settling(ur) THEN e[p] ELSE 0)
             = SumOf(f, Settling(tr)) - (IF p \in Settling(tr) THEN f[p] ELSE 0)
    <3>1. IsFiniteSet(Settling(tr)) /\ IsFiniteSet(Settling(ur))
      BY HeldIs
    <3> QED BY <2>2, <2>3, <3>1, SumChange, SMTT(40)
  <2>6. /\ Owed(tr[p]) = (IF p \in Settling(tr) THEN f[p] ELSE 0)
        /\ Owed(ur[p]) = (IF p \in Settling(ur) THEN e[p] ELSE 0)
    BY <2>2, <2>4 DEF Owed
  <2> QED BY <2>1, <2>5, <2>6
<1> QED BY <1>1, <1>2

(* The property in these terms.                                            *)
LEMMA BooksAre ==
  /\ Unsettled = UnsettledOf(trade) /\ Unbooked = UnbookedOf(trade)
  /\ BooksMatchExchange <=> balance + Required(UnsettledOf(trade)) + UnbookedOf(trade) + astray = cash
BY DEF Unsettled, UnsettledOf, Held, Unbooked, UnbookedOf, Settling, Gone, BooksMatchExchange

(* Without trades no margin is held.                                       *)
LEMMA NothingHeld == ASSUME NEW tr, Held(tr) = {} PROVE Required(UnsettledOf(tr)) = 0
<1>1. DOMAIN UnsettledOf(tr) = {}
  BY DEF UnsettledOf
<1>2. IsFiniteSet(DOMAIN UnsettledOf(tr))
  BY <1>1, FS_EmptySet
<1> HIDE DEF Held
<1> QED BY <1>1, <1>2, RequiredIs, SumEmpty

(* Without positions that are gone nothing waits to be booked.             *)
LEMMA NothingOwed == ASSUME NEW tr, Settling(tr) = {} PROVE UnbookedOf(tr) = 0
  BY UnbookedIs, SumEmpty

(* Both sums are integers.                                                 *)
LEMMA SumsAreWhole ==
  ASSUME RiskTypes
  PROVE  Required(UnsettledOf(trade)) \in Int /\ UnbookedOf(trade) \in Int
<1>1. trade \in [Pairs -> Trades \cup {NoTrade}]
  BY DEF RiskTypes
<1>2. CASE Pairs = {}
  <2>1. Held(trade) = {} /\ Settling(trade) = {}
    BY <1>2 DEF Held, Settling
  <2> QED BY <2>1, NothingHeld, NothingOwed
<1>3. CASE Pairs # {}
  BY <1>1, <1>3, ChangeAt
<1> QED BY <1>2, <1>3

(* The invariant holds initially.                                          *)
LEMMA RiskInvInit == Init => RiskInv
<1> SUFFICES ASSUME Init PROVE RiskInv
  OBVIOUS
<1> USE DEF Init
<1>1. RiskTypes
  <2>1. opens \in Nat
    BY Settings
  <2> QED BY <2>1, Settings DEF RiskTypes, Levels, Flat
<1>2. SizesInv
  BY DEF SizesInv
<1>3. DriftInv
  BY DEF DriftInv
<1>4. BooksMatchExchange
  <2>1. Held(trade) = {} /\ Settling(trade) = {}
    BY DEF Held, Settling, NoTrade
  <2>2. Required(UnsettledOf(trade)) = 0 /\ UnbookedOf(trade) = 0
    BY <2>1, NothingHeld, NothingOwed
  <2> QED BY <2>2, BooksAre, Settings
<1> QED BY <1>1, <1>2, <1>3, <1>4 DEF RiskInv

-----------------------------------------------------------------------------
(* Steps.  A step leaves the trades alone, or replaces one of them and     *)
(* moves money in the books and at the exchange by what it is worth.       *)
Replaced(p, t) ==
  /\ t \in Trades \cup {NoTrade} /\ trade' = [trade EXCEPT ![p] = t]
  /\ balance' \in Int /\ cash' \in Int /\ astray' \in Int
  /\ balance' + Locked(t) + Owed(t) + astray' - cash' = balance + Locked(trade[p]) + Owed(trade[p]) + astray - cash
  /\ t # NoTrade => Affordable(t) /\ Settles(t)
  /\ opening' = NoEntry \/ (opening' = opening /\ trade[p] # NoTrade)

Kept ==
  /\ UNCHANGED <<balance, trade>>
  /\ \E d \in Int : cash' = cash + d /\ astray' = astray + d
  /\ \/ opening' \in {opening, NoEntry}
     \/ /\ opening' \in SizedEntries \cup FilledEntries
        /\ Affordable(opening') /\ trade[opening'.pair] = NoTrade

(* Prices are positive on both sides of the market.                        *)
LEMMA SidesAre ==
  ASSUME RiskTypes, NEW p \in Pairs, NEW d
  PROVE  EntrySide(p, d) \in Nat \ {0} /\ CloseSide(p, d) \in Nat \ {0}
<1>1. price[p] \in Nat \ {0}
  BY Settings DEF RiskTypes
<1> QED BY <1>1, Settings DEF EntrySide, CloseSide, CloseSideAt, Bid, Ask

(* Fields of a trade are set.                                              *)
Mark(t, s, w, x, g) ==
  [status |-> s, dir |-> t.dir, entry |-> t.entry, qty |-> t.qty, id |-> t.id, exit |-> x, gone |-> g, holder |-> w,
   hint |-> t.hint, bal |-> t.bal]

(* Setting one field of a trade gives its mark.                            *)
LEMMA FieldIsSet ==
  ASSUME NEW t \in Trades, NEW v
  PROVE  /\ [t EXCEPT !.status = v] = Mark(t, v, t.holder, t.exit, t.gone)
         /\ [t EXCEPT !.holder = v] = Mark(t, t.status, v, t.exit, t.gone)
         /\ [t EXCEPT !.exit = v] = Mark(t, t.status, t.holder, v, t.gone)
         /\ [t EXCEPT !.gone = v] = Mark(t, t.status, t.holder, t.exit, v)
BY DEF Trades, Mark

(* Setting two gives the mark of both.                                     *)
LEMMA FieldsAreSet ==
  ASSUME NEW t \in Trades, NEW v, NEW w
  PROVE  /\ [t EXCEPT !.status = v, !.holder = w] = Mark(t, v, w, t.exit, t.gone)
         /\ [t EXCEPT !.holder = v, !.exit = w] = Mark(t, t.status, v, w, t.gone)
<1>1. /\ [t EXCEPT !.status = v] = Mark(t, v, t.holder, t.exit, t.gone)
      /\ [t EXCEPT !.holder = v] = Mark(t, t.status, v, t.exit, t.gone)
  BY FieldIsSet
<1>2. /\ [Mark(t, v, t.holder, t.exit, t.gone) EXCEPT !.holder = w] = Mark(t, v, w, t.exit, t.gone)
      /\ [Mark(t, t.status, v, t.exit, t.gone) EXCEPT !.exit = w] = Mark(t, t.status, v, w, t.gone)
  BY DEF Mark
<1>3. /\ [t EXCEPT !.status = v, !.holder = w] = [[t EXCEPT !.status = v] EXCEPT !.holder = w]
      /\ [t EXCEPT !.holder = v, !.exit = w] = [[t EXCEPT !.holder = v] EXCEPT !.exit = w]
  OBVIOUS
<1> QED BY <1>1, <1>2, <1>3, Zenon

(* A mark leaves the margin alone; what it owes is known from where the    *)
(* exchange has settled it.                                                *)
LEMMA MarkedStep ==
  ASSUME RiskTypes, SizesInv, NEW p \in Pairs, trade[p] # NoTrade,
         NEW s \in {"open", "closing"}, NEW w \in {"none", "exit", "monitor"}, NEW x \in Nat, NEW g \in Nat,
         NEW t, t = Mark(trade[p], s, w, x, g), Settles(t), trade' = [trade EXCEPT ![p] = t],
         UNCHANGED <<balance, opening, astray>>,
         IF g = trade[p].gone THEN UNCHANGED cash
         ELSE trade[p].gone = 0 /\ cash' = cash + PnlOf(trade[p], g)
  PROVE  Replaced(p, t)
<1>1. trade[p] \in Trades
  BY DEF RiskTypes
<1>2. /\ t \in Trades /\ t.entry = trade[p].entry /\ t.qty = trade[p].qty /\ t.dir = trade[p].dir
      /\ t.gone = g /\ t.hint = trade[p].hint /\ t.bal = trade[p].bal
  BY <1>1 DEF Trades, Mark
<1>3. t # NoTrade /\ RequiredMargin(t) = RequiredMargin(trade[p]) /\ RequiredMargin(t) \in Int /\ Settled(t) \in Int
  <2>1. t # NoTrade /\ RequiredMargin(t) \in Nat /\ Settled(t) \in Int
    BY <1>2, TradeIs
  <2> QED BY <1>2, <2>1 DEF RequiredMargin
<1>4. Affordable(t)
  <2>1. Affordable(trade[p])
    BY DEF SizesInv
  <2> QED BY <1>2, <2>1 DEF Affordable
<1>5. Settled(t) = PnlOf(trade[p], g) /\ Settled(trade[p]) = PnlOf(trade[p], trade[p].gone)
  BY <1>2 DEF Settled, PnlOf
<1>6. balance \in Int /\ cash \in Int /\ astray \in Int /\ trade[p].gone \in Nat
  BY <1>1, TradeIs DEF RiskTypes
<1> HIDE DEF Settles, Mark
<1>7. /\ Locked(t) = RequiredMargin(t) /\ Locked(trade[p]) = RequiredMargin(t)
      /\ Owed(t) = IF g = 0 THEN 0 ELSE Settled(t)
      /\ Owed(trade[p]) = IF trade[p].gone = 0 THEN 0 ELSE Settled(trade[p])
  BY <1>2, <1>3 DEF Locked, Owed
<1>8. /\ cash' \in Int
      /\ balance' + Locked(t) + Owed(t) + astray' - cash' = balance + Locked(trade[p]) + Owed(trade[p]) + astray - cash
  <2>1. CASE g = trade[p].gone
    BY <1>3, <1>5, <1>6, <1>7, <2>1
  <2>2. CASE g # trade[p].gone
    <3>1. trade[p].gone = 0 /\ g # 0 /\ cash' = cash + Settled(t)
      BY <1>5, <2>2
    <3> QED BY <1>3, <1>6, <1>7, <3>1
  <2> QED BY <2>1, <2>2
<1> QED BY <1>2, <1>4, <1>6, <1>8 DEF Replaced

(* An order trades: the position goes, and cash and what is owed move by   *)
(* the same profit; or it had gone, and neither moves.                     *)
LEMMA TradedStep ==
  ASSUME RiskTypes, SizesInv, NEW p \in Pairs, trade[p] # NoTrade, ~dryRun,
         NEW s \in {"open", "closing"}, NEW w \in {"none", "exit", "monitor"}, NEW x \in Nat, s = "open" => x = 0,
         NEW d, OrderTrades(p, CloseSide(p, d), Mark(trade[p], s, w, x, trade[p].gone))
  PROVE  \E t : Replaced(p, t)
<1> DEFINE y == CloseSide(p, d)
           m == Mark(trade[p], s, w, x, trade[p].gone)
           g == IF trade[p].gone = 0 THEN y ELSE trade[p].gone
           t == Mark(trade[p], s, w, x, g)
<1>1. trade[p] \in Trades /\ trade[p].gone \in Nat /\ y \in Nat \ {0}
  BY SidesAre, TradeIs DEF RiskTypes
<1>2. [m EXCEPT !.gone = IF @ = 0 THEN y ELSE @] = t
  BY DEF Mark
<1>3. trade' = [trade EXCEPT ![p] = t] /\ UNCHANGED <<balance, opening, astray>>
  BY <1>2 DEF OrderTrades
<1>4. IF trade[p].gone = 0 THEN cash' = cash + PnlOf(trade[p], y) ELSE UNCHANGED cash
  BY DEF OrderTrades
<1>5. g \in Nat /\ g # 0
  BY <1>1
<1>6. Settles(t)
  BY <1>5 DEF Settles, Mark
<1>7. IF g = trade[p].gone THEN UNCHANGED cash
      ELSE trade[p].gone = 0 /\ cash' = cash + PnlOf(trade[p], g)
  BY <1>1, <1>4
<1> HIDE DEF g, t, y, m
<1> QED BY <1>3, <1>5, <1>6, <1>7, MarkedStep DEF t

(* A trade is locked for its close.                                        *)
LEMMA LockedStep ==
  ASSUME RiskTypes, SizesInv, NEW p \in Pairs, NEW who \in {"exit", "monitor"},
         LockTrade(p, who) \/ (who = "exit" /\ TakeOverLock(p))
  PROVE  \E t : Replaced(p, t)
<1> DEFINE t == Mark(trade[p], "closing", who, trade[p].exit, trade[p].gone)
<1>1. /\ trade[p] # NoTrade /\ trade[p] \in Trades /\ trade[p].exit \in Nat /\ trade[p].gone \in Nat
      /\ UNCHANGED <<balance, opening, cash, astray>> /\ Settles(trade[p])
  <2>1. trade[p].status # "none" /\ UNCHANGED <<balance, opening, exchangeVars>>
    BY DEF LockTrade, TakeOverLock
  <2>2. trade[p] # NoTrade /\ trade[p] \in Trades
    BY <2>1 DEF NoTrade, RiskTypes
  <2> QED BY <2>1, <2>2, TradeIs DEF exchangeVars, SizesInv
<1>2. trade' = [trade EXCEPT ![p] = t]
  <2>1. CASE LockTrade(p, who)
    <3>1. trade' = [trade EXCEPT ![p].status = "closing", ![p].holder = who]
      BY <2>1, Zenon DEF LockTrade
    <3>2. trade' = [trade EXCEPT ![p] = [trade[p] EXCEPT !.status = "closing", !.holder = who]]
      <4>1. [trade EXCEPT ![p].status = "closing", ![p].holder = who]
              = [trade EXCEPT ![p] = [[trade[p] EXCEPT !.status = "closing"] EXCEPT !.holder = who]]
        BY DEF RiskTypes
      <4> QED BY <3>1, <4>1
    <3> QED BY <1>1, <3>2, FieldsAreSet, Zenon
  <2>2. CASE who = "exit" /\ TakeOverLock(p)
    <3>1. trade' = [trade EXCEPT ![p].holder = "exit"] /\ trade[p].status = "closing"
      BY <2>2, Zenon DEF TakeOverLock
    <3>2. trade' = [trade EXCEPT ![p] = [trade[p] EXCEPT !.holder = "exit"]]
      BY <3>1
    <3>3. [trade[p] EXCEPT !.holder = "exit"] = Mark(trade[p], trade[p].status, "exit", trade[p].exit, trade[p].gone)
      BY <1>1, FieldIsSet
    <3> QED BY <2>2, <3>1, <3>2, <3>3
  <2> QED BY <2>1, <2>2
<1>3. Settles(t)
  BY <1>1 DEF Settles, Mark
<1> HIDE DEF t
<1> QED BY <1>1, <1>2, <1>3, MarkedStep DEF t

(* A close fails, at the exchange or in the database.                      *)
LEMMA FailedStep ==
  ASSUME RiskTypes, SizesInv, NEW p \in Pairs, CloseFails(p) \/ PersistCloseFails(p)
  PROVE  \E t : Replaced(p, t)
<1>1. /\ trade[p].status = "closing" /\ trade[p] # NoTrade /\ trade[p] \in Trades
      /\ trade[p].exit \in Nat /\ trade[p].gone \in Nat
  <2>1. trade[p].status = "closing"
    BY DEF CloseFails, PersistCloseFails, InFlight
  <2> QED BY <2>1, TradeIs DEF NoTrade, RiskTypes
<1>2. CASE CloseFails(p)
  <2> DEFINE released == [trade[p] EXCEPT !.status = "open", !.holder = "none"]
             t == Mark(trade[p], "open", "none", 0, trade[p].gone)
  <2>1. trade[p].exit = 0
    BY <1>2 DEF CloseFails
  <2>2. released = t
    BY <1>1, <2>1, FieldsAreSet
  <2>3. CASE trade' = [trade EXCEPT ![p] = released] /\ UNCHANGED <<balance, opening, exchangeVars>>
    <3>1. Settles(t)
      BY <1>1 DEF SizesInv, Settles, Mark
    <3>2. trade' = [trade EXCEPT ![p] = t] /\ UNCHANGED <<balance, opening, cash, astray>>
      BY <2>2, <2>3 DEF exchangeVars
    <3> HIDE DEF t, released
    <3> QED BY <1>1, <3>1, <3>2, MarkedStep DEF t
  <2>4. CASE ~dryRun /\ OrderTrades(p, CloseSide(p, trade[p].dir), released)
    <3>1. OrderTrades(p, CloseSide(p, trade[p].dir), t)
      BY <2>2, <2>4, Zenon
    <3> HIDE DEF released
    <3> QED BY <1>1, <2>4, <3>1, TradedStep
  <2> HIDE DEF t
  <2> QED BY <1>2, <2>3, <2>4, Zenon DEF CloseFails
<1>3. CASE PersistCloseFails(p)
  <2> DEFINE t == Mark(trade[p], "closing", "none", 0, trade[p].gone)
  <2>1. trade' = [trade EXCEPT ![p].holder = "none", ![p].exit = 0] /\ UNCHANGED <<balance, opening, cash, astray>>
    BY <1>3 DEF PersistCloseFails, exchangeVars
  <2>2. trade' = [trade EXCEPT ![p] = [trade[p] EXCEPT !.holder = "none", !.exit = 0]]
    <3>1. [trade EXCEPT ![p].holder = "none", ![p].exit = 0]
            = [trade EXCEPT ![p] = [[trade[p] EXCEPT !.holder = "none"] EXCEPT !.exit = 0]]
      BY DEF RiskTypes
    <3> QED BY <2>1, <3>1
  <2>3. [trade[p] EXCEPT !.holder = "none", !.exit = 0] = t
    BY <1>1, FieldsAreSet
  <2>4. Settles(t)
    BY <1>1 DEF SizesInv, Settles, Mark
  <2> HIDE DEF t
  <2> QED BY <1>1, <2>1, <2>2, <2>3, <2>4, MarkedStep DEF t
<1> QED BY <1>2, <1>3

(* A close is filled, by an order of now or by what has traded before.     *)
LEMMA FilledStep ==
  ASSUME RiskTypes, SizesInv, NEW p \in Pairs, FillClose(p)
  PROVE  \E t : Replaced(p, t)
<1> DEFINE x == CloseSide(p, trade[p].dir)
<1>1. /\ trade[p].status = "closing" /\ trade[p] # NoTrade /\ trade[p] \in Trades
      /\ trade[p].gone \in Nat /\ trade[p].holder \in {"none", "exit", "monitor"}
  <2>1. trade[p].status = "closing"
    BY DEF FillClose, InFlight
  <2> QED BY <2>1, TradeIs DEF NoTrade, RiskTypes
<1>2. x \in Nat \ {0}
  BY SidesAre
<1>3. CASE ~dryRun /\ OrderTrades(p, x, [trade[p] EXCEPT !.exit = x])
  <2>1. [trade[p] EXCEPT !.exit = x] = Mark(trade[p], "closing", trade[p].holder, x, trade[p].gone)
    BY <1>1, FieldIsSet
  <2>2. OrderTrades(p, x, Mark(trade[p], "closing", trade[p].holder, x, trade[p].gone))
    BY <1>3, <2>1
  <2> QED BY <1>1, <1>2, <1>3, <2>2, TradedStep
<1>4. ASSUME NEW y \in (IF dryRun THEN {x} ELSE {trade[p].gone} \ {0}),
             trade' = [trade EXCEPT ![p].exit = y], UNCHANGED <<balance, opening, exchangeVars>>
      PROVE  \E t : Replaced(p, t)
  <2> DEFINE t == Mark(trade[p], "closing", trade[p].holder, y, trade[p].gone)
  <2>1. y \in Nat /\ (~dryRun => trade[p].gone # 0)
    BY <1>1, <1>2, <1>4
  <2>2. [trade[p] EXCEPT !.exit = y] = t
    BY <1>1, FieldIsSet
  <2>3. trade' = [trade EXCEPT ![p] = t] /\ UNCHANGED <<balance, opening, cash, astray>>
    BY <1>4, <2>2 DEF exchangeVars
  <2>4. Settles(t)
    BY <1>1, <2>1 DEF SizesInv, Settles, Mark
  <2> HIDE DEF t, x
  <2> QED BY <1>1, <2>1, <2>3, <2>4, MarkedStep DEF t
<1> QED BY <1>3, <1>4 DEF FillClose

(* The protective stop executes.                                           *)
LEMMA StoppedStep ==
  ASSUME RiskTypes, SizesInv, NEW p \in Pairs, StopExecutes(p)
  PROVE  \E t : Replaced(p, t)
<1>1. /\ trade[p] # NoTrade /\ trade[p] \in Trades /\ ~dryRun /\ trade[p].exit \in Nat
      /\ trade[p].status \in {"open", "closing"} /\ trade[p].holder \in {"none", "exit", "monitor"}
  BY TradeIs DEF StopExecutes, RiskTypes
<1>2. trade[p] = Mark(trade[p], trade[p].status, trade[p].holder, trade[p].exit, trade[p].gone)
  BY <1>1 DEF Trades, Mark
<1>3. OrderTrades(p, CloseSide(p, trade[p].dir),
                  Mark(trade[p], trade[p].status, trade[p].holder, trade[p].exit, trade[p].gone))
  BY <1>2 DEF StopExecutes
<1>4. trade[p].status = "open" => trade[p].exit = 0
  BY <1>1 DEF SizesInv, Settles
<1> QED BY <1>1, <1>3, <1>4, TradedStep

(* A close is booked: release_margin returns margin and profit.            *)
LEMMA SettledStep ==
  ASSUME RiskTypes, SizesInv, NEW p \in Pairs, PersistClose(p)
  PROVE  Replaced(p, NoTrade)
<1> DEFINE r == RequiredMargin(trade[p])
           profit == PnlOf(trade[p], trade[p].exit)
           due == PnlOf(trade[p], trade[p].gone)
<1>1. /\ trade[p] # NoTrade /\ trade[p] \in Trades /\ trade[p].exit # 0
      /\ trade[p].exit \in Nat /\ trade[p].gone \in Nat
  <2>1. trade[p].status = "closing" /\ trade[p].exit # 0
    BY DEF PersistClose, PersistCloseReturning, InFlight
  <2> QED BY <2>1, TradeIs DEF NoTrade, RiskTypes
<1>2. IF dryRun THEN trade[p].gone = 0 ELSE trade[p].gone # 0
  BY <1>1 DEF SizesInv, Settles
<1>3. r \in Int /\ profit \in Int /\ due \in Int
  BY <1>1, TradeIs DEF PnlOf, Pnl
<1>4. /\ balance' = balance + r + profit
      /\ trade' = [trade EXCEPT ![p] = NoTrade] /\ UNCHANGED opening
      /\ IF dryRun THEN cash' = cash + profit /\ UNCHANGED astray
         ELSE astray' = astray + due - profit /\ UNCHANGED cash
  BY DEF PersistClose, PersistCloseReturning
<1>5. /\ Locked(trade[p]) = r /\ Owed(trade[p]) = (IF dryRun THEN 0 ELSE due)
      /\ Locked(NoTrade) = 0 /\ Owed(NoTrade) = 0
  BY <1>1, <1>2 DEF Locked, Owed, Settled
<1>6. balance \in Int /\ cash \in Int /\ astray \in Int
  BY DEF RiskTypes
<1> HIDE DEF r, profit, due
<1>7. /\ balance' \in Int /\ cash' \in Int /\ astray' \in Int
      /\ balance' + Locked(NoTrade) + Owed(NoTrade) + astray' - cash'
           = balance + Locked(trade[p]) + Owed(trade[p]) + astray - cash
  <2>1. CASE dryRun
    BY <1>3, <1>4, <1>5, <1>6, <2>1
  <2>2. CASE ~dryRun
    BY <1>3, <1>4, <1>5, <1>6, <2>2
  <2> QED BY <2>1, <2>2
<1> QED BY <1>1, <1>4, <1>7 DEF Replaced

(* An entry is booked: lock_margin takes what the trade requires.          *)
LEMMA EnteredStep ==
  ASSUME RiskTypes, SizesInv, PersistEntry
  PROVE  opening.pair \in Pairs /\ \E t : Replaced(opening.pair, t)
<1> DEFINE p == opening.pair
           t == [status |-> "open", dir |-> opening.dir, entry |-> opening.entry,
                 qty |-> opening.qty, id |-> opens, exit |-> 0, gone |-> 0, holder |-> "none",
                 hint |-> opening.hint, bal |-> opening.bal]
<1>1. opening \in FilledEntries /\ opening # NoEntry
  BY DEF PersistEntry, RiskTypes, SizedEntries, NoEntry
<1>2. p \in Pairs /\ trade[p] = NoTrade /\ Affordable(opening)
  BY <1>1 DEF SizesInv, FilledEntries
<1>3. t \in Trades
  BY <1>1 DEF FilledEntries, Trades, RiskTypes
<1>4. /\ t.entry = opening.entry /\ t.qty = opening.qty /\ t.exit = 0 /\ t.gone = 0
      /\ t.hint = opening.hint /\ t.bal = opening.bal
  OBVIOUS
<1>5. /\ trade' = [trade EXCEPT ![p] = t] /\ balance' = balance - RequiredMargin(opening)
      /\ opening' = NoEntry /\ cash' = cash /\ astray' = astray
  BY DEF PersistEntry, exchangeVars
<1> HIDE DEF t
<1>6. RequiredMargin(t) = RequiredMargin(opening) /\ RequiredMargin(t) \in Int /\ t # NoTrade
  BY <1>3, <1>4, TradeIs DEF RequiredMargin
<1>7. Locked(t) = RequiredMargin(opening) /\ Owed(t) = 0 /\ Locked(trade[p]) = 0 /\ Owed(trade[p]) = 0
  BY <1>2, <1>4, <1>6 DEF Locked, Owed
<1>8. Affordable(t) /\ Settles(t)
  BY <1>2, <1>4 DEF Affordable, Settles
<1>9. balance \in Int /\ cash \in Int /\ astray \in Int
  BY DEF RiskTypes
<1> HIDE DEF p
<1>10. balance' + Locked(t) + Owed(t) + astray' - cash'
         = balance + Locked(trade[p]) + Owed(trade[p]) + astray - cash
  BY <1>5, <1>6, <1>7, <1>9
<1>11. Replaced(p, t)
  BY <1>3, <1>4, <1>5, <1>6, <1>8, <1>9, <1>10 DEF Replaced
<1> QED BY <1>2, <1>11 DEF p

(* An entry is sized.                                                      *)
LEMMA SizedStep ==
  ASSUME RiskTypes, NEW p \in Pairs, NEW d \in Signals[p], PrepareEntry(p, d)
  PROVE  Kept
<1> DEFINE e == EntrySide(p, d)
           qty == CalculateQuantity(balance, e)
           o == [step |-> "sized", pair |-> p, dir |-> d, qty |-> qty, hint |-> e, bal |-> balance]
<1>1. qty > 0 /\ opening' = o /\ trade[p] = NoTrade /\ UNCHANGED <<balance, trade, cash, astray>>
  BY DEF PrepareEntry, exchangeVars
<1>2. e \in Nat \ {0} /\ balance \in Int /\ d \in Directions
  BY SidesAre, Settings DEF RiskTypes
<1> HIDE DEF e
<1>3. /\ qty \in Nat
      /\ qty * ((LiquidationLevel + MarginBuffer + Leverage * StopLossPct) * e) <= balance * Leverage * 100
  BY <1>1, <1>2, QuantityIs
<1> HIDE DEF qty
<1>4. o \in SizedEntries /\ o.pair = p
  BY <1>1, <1>2, <1>3 DEF SizedEntries
<1>5. Affordable(o)
  BY <1>3 DEF Affordable
<1> HIDE DEF o
<1> QED BY <1>1, <1>4, <1>5 DEF Kept, RiskTypes

(* A sized entry is filled.                                                *)
LEMMA FilledEntryStep ==
  ASSUME RiskTypes, SizesInv, FillEntry
  PROVE  Kept
<1> DEFINE e == EntrySide(opening.pair, opening.dir)
           o == [step |-> "filled", pair |-> opening.pair, entry |-> e, dir |-> opening.dir,
                 qty |-> opening.qty, hint |-> opening.hint, bal |-> opening.bal]
<1>1. opening \in SizedEntries /\ opening # NoEntry
  BY DEF FillEntry, RiskTypes, FilledEntries, NoEntry
<1>2. Affordable(opening) /\ trade[opening.pair] = NoTrade /\ opening.pair \in Pairs
  BY <1>1 DEF SizesInv, SizedEntries
<1>3. opening' = o /\ UNCHANGED <<balance, trade, cash, astray>>
  BY DEF FillEntry, exchangeVars
<1>4. e \in Nat \ {0}
  BY <1>2, SidesAre
<1> HIDE DEF e
<1>5. o \in FilledEntries /\ o.pair = opening.pair
  BY <1>1, <1>4 DEF SizedEntries, FilledEntries
<1>6. Affordable(o)
  BY <1>2 DEF Affordable
<1> HIDE DEF o
<1> QED BY <1>2, <1>3, <1>5, <1>6 DEF Kept, RiskTypes

(* What is astray settles, or money moves at the exchange on no trade.     *)
LEMMA AstrayStep ==
  ASSUME RiskTypes, \/ \E p \in Pairs : StraySettles(p)
                    \/ \E d \in ExternalSums : ExternalCash(d)
  PROVE  Kept
<1>1. \E d \in Int : cash' = cash + d /\ astray' = astray + d
  <2>1. ASSUME NEW p \in Pairs PROVE Worth(p, stray[p]) \in Int
    <3>1. stray[p].qty \in Int /\ stray[p].cost \in Int
      BY DEF RiskTypes
    <3>2. CloseSide(p, IF stray[p].qty > 0 THEN "long" ELSE "short") \in Nat
      BY SidesAre
    <3> QED BY <3>1, <3>2 DEF Worth
  <2>2. CASE \E p \in Pairs : StraySettles(p)
    BY <2>1, <2>2 DEF StraySettles
  <2>3. CASE \E d \in ExternalSums : ExternalCash(d)
    BY <2>3, Settings DEF ExternalCash
  <2> QED BY <2>2, <2>3
<1>2. UNCHANGED <<balance, trade, opening>>
  BY DEF StraySettles, ExternalCash
<1>3. cash \in Int /\ astray \in Int
  BY DEF RiskTypes
<1> QED BY <1>1, <1>2, <1>3 DEF Kept

(* Every step is one of these.                                             *)
LEMMA LedgerStep ==
  ASSUME RiskTypes, SizesInv, [Next]_vars
  PROVE  Kept \/ \E p \in Pairs : \E t : Replaced(p, t)
<1>1. ASSUME UNCHANGED <<balance, trade, cash, astray>>, opening' \in {opening, NoEntry} PROVE Kept
  BY <1>1 DEF RiskTypes, Kept
<1>2. ASSUME UNCHANGED ledger PROVE Kept
  BY <1>1, <1>2 DEF ledger, exchangeVars
<1>3. CASE UNCHANGED vars
  BY <1>2, <1>3 DEF vars
<1>4. CASE (\E p \in Pairs : PriceMoves(p)) \/ TimePasses
  BY <1>2, <1>4 DEF PriceMoves, TimePasses
<1>5. CASE (\E d \in ExternalSums : ExternalCash(d)) \/ \E p \in Pairs : StraySettles(p)
  BY <1>5, AstrayStep
<1>6. CASE \E p \in Pairs : \E d \in Signals[p] : PrepareEntry(p, d)
  BY <1>6, SizedStep
<1>7. CASE FillEntry
  BY <1>7, FilledEntryStep
<1>8. CASE FillFails \/ PersistEntryFails
  BY <1>1, <1>8 DEF FillFails, PersistEntryFails
<1>9. CASE PersistEntry
  BY <1>9, EnteredStep
<1>10. CASE \E p \in Pairs : \/ StrategyExit(p) \/ TakeOverLock(p) \/ FillClose(p) \/ CloseFails(p)
                             \/ PersistClose(p) \/ PersistCloseFails(p) \/ StopExecutes(p)
  <2>1. PICK p \in Pairs : \/ StrategyExit(p) \/ TakeOverLock(p) \/ FillClose(p) \/ CloseFails(p)
                           \/ PersistClose(p) \/ PersistCloseFails(p) \/ StopExecutes(p)
    BY <1>10
  <2>2. CASE StrategyExit(p) \/ TakeOverLock(p)
    <3>1. LockTrade(p, "exit") \/ TakeOverLock(p)
      BY <2>2 DEF StrategyExit
    <3> QED BY <3>1, LockedStep
  <2>3. CASE FillClose(p)
    BY <2>3, FilledStep
  <2>4. CASE CloseFails(p) \/ PersistCloseFails(p)
    BY <2>4, FailedStep
  <2>5. CASE PersistClose(p)
    BY <2>5, SettledStep
  <2>6. CASE StopExecutes(p)
    BY <2>6, StoppedStep
  <2> QED BY <2>1, <2>2, <2>3, <2>4, <2>5, <2>6
<1>11. CASE \E p \in Pairs : ListTrades(p) \/ Liquidate(p) \/ SkipTarget(p)
  <2>1. PICK p \in Pairs : ListTrades(p) \/ Liquidate(p) \/ SkipTarget(p)
    BY <1>11
  <2>2. CASE Liquidate(p)
    <3>1. LockTrade(p, "monitor")
      BY <2>2 DEF Liquidate
    <3> QED BY <3>1, LockedStep
  <2>3. CASE ListTrades(p) \/ SkipTarget(p)
    BY <1>2, <2>3 DEF ListTrades, SkipTarget
  <2> QED BY <2>1, <2>2, <2>3
<1>12. CASE ReadAccount \/ ReadPrice \/ JudgeLiquidation \/ JudgeMarginAlert \/ SkipAccount
  BY <1>2, <1>12 DEF ReadAccount, ReadPrice, JudgeLiquidation, JudgeMarginAlert, SkipAccount
<1>13. CASE CheckExit
  <2>1. CASE UNCHANGED ledger
    BY <1>2, <2>1
  <2>2. CASE ~ UNCHANGED ledger
    <3> DEFINE p == monitor.pair
    <3>1. trade[p].status = "open" /\ LockTrade(p, "monitor") /\ SameTrade(p)
      BY <1>13, <2>2 DEF CheckExit
    <3>2. p \in Pairs
      <4>1. trade' = [trade EXCEPT ![p].status = "closing", ![p].holder = "monitor"]
        BY <3>1, Zenon DEF LockTrade
      <4>2. trade' # trade
        BY <2>2, <3>1 DEF LockTrade, ledger
      <4>3. trade = [q \in Pairs |-> trade[q]]
        BY DEF RiskTypes
      <4>4. ASSUME p \notin Pairs PROVE trade' = [q \in Pairs |-> trade[q]]
        <5> HIDE DEF p
        <5> QED BY <4>1, <4>3, <4>4
      <4> QED BY <4>2, <4>3, <4>4
    <3> HIDE DEF p
    <3> QED BY <3>1, <3>2, LockedStep
  <2> QED BY <2>1, <2>2
<1>14. CASE \/ DriftListAccounts \/ DriftGetCollateral \/ DriftLoadTrades
            \/ DriftReadPrice \/ DriftCompare \/ DriftSkips
  BY <1>2, <1>14 DEF DriftListAccounts, DriftGetCollateral, DriftLoadTrades, DriftReadPrice, DriftCompare, DriftSkips
<1> QED BY <1>3, <1>4, <1>5, <1>6, <1>7, <1>8, <1>9, <1>10, <1>11, <1>12, <1>13, <1>14 DEF Next, MonitorStep

(* An order without a row adds to what the exchange holds.                 *)
LEMMA StrayStep ==
  ASSUME RiskTypes, NEW p \in Pairs, NEW d, NEW qty \in Int, NEW x \in Int, LeftAtExchange(p, d, qty, x)
  PROVE  stray' \in [Pairs -> [qty : Int, cost : Int]]
<1> DEFINE s == WithOrder(stray[p], d, qty, x)
<1>1. stray[p].qty \in Int /\ stray[p].cost \in Int
  BY DEF RiskTypes
<1>2. qty * x \in Int /\ (-qty) * x \in Int
  OBVIOUS
<1>3. s \in [qty : Int, cost : Int]
  BY <1>1, <1>2 DEF WithOrder
<1>4. stray' = [stray EXCEPT ![p] = s]
  BY DEF LeftAtExchange
<1> HIDE DEF s
<1> QED BY <1>3, <1>4 DEF RiskTypes

(* So does one that closes what has gone.                                  *)
LEMMA OrderStray ==
  ASSUME RiskTypes, NEW p \in Pairs, trade[p] # NoTrade, NEW t, OrderTrades(p, CloseSide(p, trade[p].dir), t)
  PROVE  stray' \in [Pairs -> [qty : Int, cost : Int]]
<1>1. CASE UNCHANGED stray
  BY <1>1 DEF RiskTypes
<1>2. CASE LeftAtExchange(p, Opposite(trade[p].dir), trade[p].qty, CloseSide(p, trade[p].dir))
  <2>1. trade[p].qty \in Int /\ CloseSide(p, trade[p].dir) \in Int
    BY SidesAre, TradeIs DEF RiskTypes
  <2> QED BY <1>2, <2>1, StrayStep
<1> QED BY <1>1, <1>2 DEF OrderTrades

(* What the ledger does not hold.                                          *)
LEMMA RestStep ==
  ASSUME RiskTypes, [Next]_vars
  PROVE  /\ opens' \in Nat /\ price' \in [Pairs -> Prices] /\ lastAlert' \in [Levels -> Nat]
         /\ stray' \in [Pairs -> [qty : Int, cost : Int]] /\ UNCHANGED dryRun
<1>1. CASE UNCHANGED <<opens, price, lastAlert, stray, dryRun>>
  BY <1>1 DEF RiskTypes
<1>2. CASE \E p \in Pairs : PriceMoves(p)
  BY <1>2 DEF PriceMoves, RiskTypes, judges, ledger, exchangeVars
<1>3. CASE \E d \in ExternalSums : ExternalCash(d)
  BY <1>3 DEF ExternalCash, RiskTypes, judges
<1>4. CASE TimePasses
  <2>1. \A l \in Levels : lastAlert'[l] \in Nat
    <3> TAKE l \in Levels
    <3> DEFINE a == lastAlert[l] + 1
               b == CoolDown + 1
    <3>1. a \in Nat /\ b \in Nat
      BY Settings DEF RiskTypes
    <3>2. Min({a, b}) \in Nat
      <4> HIDE DEF a, b
      <4>1. a \in Int /\ b \in Int
        BY <3>1
      <4>2. Min({a, b}) \in {a, b}
        BY <4>1, SmallerOfTwo, Zenon
      <4> QED BY <3>1, <4>2
    <3> QED BY <1>4, <3>2 DEF TimePasses
  <2>2. lastAlert' \in [Levels -> Nat]
    BY <1>4, <2>1 DEF TimePasses
  <2> QED BY <1>4, <2>2 DEF TimePasses, RiskTypes, ledger, exchangeVars
<1>5. CASE \E p \in Pairs : \E d \in Signals[p] : PrepareEntry(p, d)
  BY <1>5 DEF PrepareEntry, RiskTypes, judges, exchangeVars
<1>6. CASE JudgeMarginAlert
  BY <1>6 DEF JudgeMarginAlert, RiskTypes, ledger, exchangeVars, riskBounds
<1>7. CASE UNCHANGED vars
  BY <1>1, <1>7 DEF vars, judges, ledger, exchangeVars, riskBounds
<1>8. CASE FillEntry \/ PersistEntry
  BY <1>1, <1>8 DEF FillEntry, PersistEntry, judges, exchangeVars, riskBounds
<1>9. CASE FillFails \/ PersistEntryFails
  <2>1. UNCHANGED <<opens, price, lastAlert, dryRun>>
    BY <1>9 DEF FillFails, PersistEntryFails, judges
  <2>2. stray' \in [Pairs -> [qty : Int, cost : Int]]
    <3>1. CASE UNCHANGED stray
      BY <3>1 DEF RiskTypes
    <3>2. CASE FillFails /\ ~UNCHANGED stray
      <4>1. opening \in SizedEntries
        BY <3>2 DEF FillFails, RiskTypes, FilledEntries, NoEntry
      <4>2. opening.pair \in Pairs /\ opening.qty \in Int
        BY <4>1 DEF SizedEntries
      <4>3. EntrySide(opening.pair, opening.dir) \in Int
        BY <4>2, SidesAre
      <4> QED BY <3>2, <4>2, <4>3, StrayStep DEF FillFails
    <3>3. CASE PersistEntryFails /\ ~UNCHANGED stray
      <4>1. opening \in FilledEntries
        BY <3>3 DEF PersistEntryFails, RiskTypes, SizedEntries, NoEntry
      <4>2. opening.pair \in Pairs /\ opening.qty \in Int /\ opening.entry \in Int
        BY <4>1 DEF FilledEntries
      <4> QED BY <3>3, <4>2, StrayStep DEF PersistEntryFails
    <3> QED BY <1>9, <3>1, <3>2, <3>3
  <2> QED BY <2>1, <2>2 DEF RiskTypes
<1>10. CASE \E p \in Pairs : \/ StrategyExit(p) \/ TakeOverLock(p) \/ FillClose(p) \/ CloseFails(p)
                             \/ PersistClose(p) \/ PersistCloseFails(p) \/ StopExecutes(p)
  <2>1. PICK p \in Pairs : \/ StrategyExit(p) \/ TakeOverLock(p) \/ FillClose(p) \/ CloseFails(p)
                           \/ PersistClose(p) \/ PersistCloseFails(p) \/ StopExecutes(p)
    BY <1>10
  <2>2. CASE StrategyExit(p) \/ TakeOverLock(p) \/ PersistClose(p) \/ PersistCloseFails(p)
    BY <1>1, <2>2 DEF StrategyExit, LockTrade, TakeOverLock, PersistClose, PersistCloseReturning, PersistCloseFails,
                      judges, exchangeVars, riskBounds
  <2>3. CASE FillClose(p) \/ CloseFails(p) \/ StopExecutes(p)
    <3>1. UNCHANGED <<opens, price, lastAlert, dryRun>>
      BY <2>3 DEF FillClose, CloseFails, StopExecutes, judges, riskBounds
    <3>2. trade[p] # NoTrade
      BY <2>3 DEF FillClose, CloseFails, StopExecutes, InFlight, NoTrade
    <3>3. UNCHANGED stray \/ \E t : OrderTrades(p, CloseSide(p, trade[p].dir), t)
      BY <2>3 DEF FillClose, CloseFails, StopExecutes, exchangeVars
    <3>4. stray' \in [Pairs -> [qty : Int, cost : Int]]
      BY <3>2, <3>3, OrderStray DEF RiskTypes
    <3> QED BY <3>1, <3>4 DEF RiskTypes
  <2> QED BY <2>1, <2>2, <2>3
<1>11. CASE \E p \in Pairs : StraySettles(p)
  <2>1. UNCHANGED <<opens, price, lastAlert, dryRun>>
    BY <1>11 DEF StraySettles, judges, riskBounds
  <2>2. stray' \in [Pairs -> [qty : Int, cost : Int]]
    BY <1>11 DEF StraySettles, Flat, RiskTypes
  <2> QED BY <2>1, <2>2 DEF RiskTypes
<1>12. CASE \E p \in Pairs : ListTrades(p) \/ Liquidate(p) \/ SkipTarget(p)
  BY <1>1, <1>12 DEF ListTrades, Liquidate, LockTrade, SkipTarget, ledger, exchangeVars, riskBounds
<1>13. CASE ReadAccount \/ ReadPrice \/ JudgeLiquidation \/ SkipAccount \/ CheckExit
  BY <1>1, <1>13 DEF ReadAccount, ReadPrice, JudgeLiquidation, SkipAccount, CheckExit, LockTrade,
                     ledger, exchangeVars, riskBounds
<1>14. CASE \/ DriftListAccounts \/ DriftGetCollateral \/ DriftLoadTrades
            \/ DriftReadPrice \/ DriftCompare \/ DriftSkips
  BY <1>1, <1>14 DEF DriftListAccounts, DriftGetCollateral, DriftLoadTrades, DriftReadPrice, DriftCompare, DriftSkips,
                     ledger, exchangeVars, riskBounds
<1> QED BY <1>2, <1>3, <1>4, <1>5, <1>6, <1>7, <1>8, <1>9, <1>10, <1>11, <1>12, <1>13, <1>14 DEF Next, MonitorStep

(* The drift check loads trades that are open.                             *)
LEMMA DriftStep ==
  ASSUME DriftInv, [Next]_vars
  PROVE  DriftInv'
<1>1. CASE UNCHANGED drift
  BY <1>1 DEF DriftInv
<1>2. CASE DriftListAccounts \/ DriftGetCollateral \/ DriftCompare \/ DriftSkips
  BY <1>2 DEF DriftListAccounts, DriftGetCollateral, DriftCompare, DriftSkips, DriftInv
<1>3. CASE DriftLoadTrades
  <2>1. CASE drift' = [step |-> "idle", alert |-> FALSE]
    BY <2>1 DEF DriftInv
  <2>2. CASE drift' = [step |-> "trades", bal |-> drift.bal, equity |-> drift.equity,
                       trades |-> SplitForEquity.trades, quotes |-> << >>, alert |-> FALSE]
    <3>1. drift'.trades = OpenTrades
      BY <2>2 DEF SplitForEquity
    <3>2. \A p \in DOMAIN drift'.trades : drift'.trades[p].status = "open"
      BY <3>1 DEF OpenTrades
    <3>3. drift' = [step |-> "trades", bal |-> drift'.bal, equity |-> drift'.equity,
                    trades |-> drift'.trades, quotes |-> drift'.quotes, alert |-> drift'.alert]
      BY <2>2
    <3> QED BY <3>2, <3>3 DEF DriftInv
  <2> QED BY <1>3, <2>1, <2>2 DEF DriftLoadTrades
<1>4. CASE DriftReadPrice
  <2>1. /\ drift = [step |-> "trades", bal |-> drift.bal, equity |-> drift.equity,
                    trades |-> drift.trades, quotes |-> drift.quotes, alert |-> drift.alert]
        /\ \A p \in DOMAIN drift.trades : drift.trades[p].status = "open"
    BY <1>4 DEF DriftReadPrice, DriftInv
  <2>2. PICK q : drift' = [drift EXCEPT !.quotes = q]
    BY <1>4 DEF DriftReadPrice
  <2> DEFINE Checking(b, e, ts, quotes, a) ==
               [step |-> "trades", bal |-> b, equity |-> e, trades |-> ts, quotes |-> quotes, alert |-> a]
  <2>3. ASSUME NEW b, NEW e, NEW ts, NEW old, NEW a
        PROVE  [Checking(b, e, ts, old, a) EXCEPT !.quotes = q] = Checking(b, e, ts, q, a)
    OBVIOUS
  <2>4. drift' = Checking(drift.bal, drift.equity, drift.trades, q, drift.alert)
    <3>1. drift = Checking(drift.bal, drift.equity, drift.trades, drift.quotes, drift.alert)
      BY <2>1
    <3> HIDE DEF Checking
    <3>2. [drift EXCEPT !.quotes = q]
            = [Checking(drift.bal, drift.equity, drift.trades, drift.quotes, drift.alert) EXCEPT !.quotes = q]
      BY <3>1, Zenon
    <3>3. [Checking(drift.bal, drift.equity, drift.trades, drift.quotes, drift.alert) EXCEPT !.quotes = q]
            = Checking(drift.bal, drift.equity, drift.trades, q, drift.alert)
      <4> DEFINE b == drift.bal
                 e == drift.equity
                 ts == drift.trades
                 old == drift.quotes
                 a == drift.alert
      <4> HIDE DEF b, e, ts, old, a
      <4>1. [Checking(b, e, ts, old, a) EXCEPT !.quotes = q] = Checking(b, e, ts, q, a)
        BY <2>3
      <4> QED BY <4>1 DEF b, e, ts, old, a
    <3> QED BY <2>2, <3>2, <3>3, Zenon
  <2> QED BY <2>1, <2>4 DEF DriftInv
<1>5. CASE UNCHANGED vars
  BY <1>1, <1>5 DEF vars, judges
<1>6. CASE \/ \E p \in Pairs : PriceMoves(p)
           \/ \E d \in ExternalSums : ExternalCash(d)
           \/ TimePasses
  BY <1>1, <1>6 DEF PriceMoves, ExternalCash, TimePasses, judges
<1>7. CASE \E p \in Pairs : \E d \in Signals[p] : PrepareEntry(p, d)
  BY <1>1, <1>7 DEF PrepareEntry, judges
<1>8. CASE FillEntry \/ FillFails \/ PersistEntry \/ PersistEntryFails
  BY <1>1, <1>8 DEF FillEntry, FillFails, PersistEntry, PersistEntryFails, judges
<1>9. CASE \E p \in Pairs : \/ StrategyExit(p) \/ TakeOverLock(p) \/ FillClose(p) \/ CloseFails(p)
                            \/ PersistClose(p) \/ PersistCloseFails(p) \/ StopExecutes(p) \/ StraySettles(p)
  BY <1>1, <1>9 DEF StrategyExit, TakeOverLock, FillClose, CloseFails, PersistClose, PersistCloseReturning,
                    PersistCloseFails, StopExecutes, StraySettles, judges
<1>10. CASE \E p \in Pairs : ListTrades(p) \/ Liquidate(p) \/ SkipTarget(p)
  BY <1>1, <1>10 DEF ListTrades, Liquidate, SkipTarget
<1>11. CASE ReadAccount \/ ReadPrice \/ JudgeLiquidation \/ JudgeMarginAlert \/ SkipAccount \/ CheckExit
  BY <1>1, <1>11 DEF ReadAccount, ReadPrice, JudgeLiquidation, JudgeMarginAlert, SkipAccount, CheckExit
<1> QED BY <1>2, <1>3, <1>4, <1>5, <1>6, <1>7, <1>8, <1>9, <1>10, <1>11 DEF Next, MonitorStep

(* A step that leaves the ledger alone keeps the invariant.                *)
LEMMA KeptStep ==
  ASSUME RiskInv, Kept, UNCHANGED dryRun
  PROVE  /\ balance' \in Int /\ cash' \in Int /\ astray' \in Int /\ trade' \in [Pairs -> Trades \cup {NoTrade}]
         /\ opening' \in {NoEntry} \cup SizedEntries \cup FilledEntries
         /\ SizesInv' /\ BooksMatchExchange'
<1>1. /\ balance' \in Int /\ cash' \in Int /\ astray' \in Int /\ trade' \in [Pairs -> Trades \cup {NoTrade}]
      /\ opening' \in {NoEntry} \cup SizedEntries \cup FilledEntries
  BY DEF RiskInv, RiskTypes, Kept
<1>2. opening' # NoEntry => Affordable(opening') /\ trade[opening'.pair] = NoTrade
  BY DEF RiskInv, SizesInv, Kept
<1>3. SizesInv'
  BY <1>2 DEF RiskInv, SizesInv, Kept, Affordable, Settles
<1>4. BooksMatchExchange'
  <2>1. balance + Required(UnsettledOf(trade)) + UnbookedOf(trade) + astray = cash
    BY BooksAre DEF RiskInv
  <2>2. Required(UnsettledOf(trade)) \in Int /\ UnbookedOf(trade) \in Int /\ balance \in Int
        /\ cash \in Int /\ astray \in Int
    BY SumsAreWhole DEF RiskInv, RiskTypes
  <2>3. balance + Required(UnsettledOf(trade)) + UnbookedOf(trade) + astray' = cash'
    <3>1. PICK d \in Int : cash' = cash + d /\ astray' = astray + d
      BY DEF Kept
    <3> DEFINE a == balance + Required(UnsettledOf(trade)) + UnbookedOf(trade)
    <3>2. a + astray = cash /\ a \in Int
      BY <2>1, <2>2
    <3> HIDE DEF a
    <3>3. a + (astray + d) = a + astray + d
      BY <2>2, <3>2
    <3>4. a + astray' = cash'
      BY <3>1, <3>2, <3>3
    <3> QED BY <3>4 DEF a
  <2>4. (balance + Required(UnsettledOf(trade)) + UnbookedOf(trade) + astray = cash)'
    BY <2>3 DEF Kept
  <2> QED BY <2>4, BooksAre, PTL
<1> QED BY <1>1, <1>3, <1>4

(* So does one that replaces a trade: the sums change by its summand.      *)
LEMMA ReplacedStep ==
  ASSUME RiskInv, NEW p \in Pairs, NEW t, Replaced(p, t), UNCHANGED dryRun
  PROVE  /\ balance' \in Int /\ cash' \in Int /\ astray' \in Int /\ trade' \in [Pairs -> Trades \cup {NoTrade}]
         /\ opening' \in {NoEntry} \cup SizedEntries \cup FilledEntries
         /\ SizesInv' /\ BooksMatchExchange'
<1>1. /\ balance' \in Int /\ cash' \in Int /\ astray' \in Int /\ trade' \in [Pairs -> Trades \cup {NoTrade}]
      /\ opening' \in {NoEntry} \cup SizedEntries \cup FilledEntries
  BY DEF RiskInv, RiskTypes, Replaced
<1>2. trade'[p] = t /\ \A q \in Pairs \ {p} : trade'[q] = trade[q]
  BY DEF RiskInv, RiskTypes, Replaced
<1>3. SizesInv'
  <2>1. \A q \in Pairs : trade'[q] # NoTrade => Affordable(trade'[q]) /\ Settles(trade'[q])
    BY <1>2 DEF RiskInv, SizesInv, Replaced
  <2>2. ASSUME opening' # NoEntry PROVE Affordable(opening') /\ trade'[opening'.pair] = NoTrade
    <3>1. opening' = opening /\ trade[p] # NoTrade /\ Affordable(opening) /\ trade[opening.pair] = NoTrade
      BY <2>2 DEF RiskInv, SizesInv, Replaced
    <3>2. opening.pair \in Pairs
      BY <2>2, <3>1 DEF RiskInv, RiskTypes, SizedEntries, FilledEntries
    <3> QED BY <1>2, <3>1, <3>2
  <2> QED BY <2>1, <2>2 DEF SizesInv, Affordable, Settles
<1>4. BooksMatchExchange'
  <2>1. trade \in [Pairs -> Trades \cup {NoTrade}]
    BY DEF RiskInv, RiskTypes
  <2>2. /\ Required(UnsettledOf(trade)) \in Int /\ Required(UnsettledOf(trade')) \in Int
        /\ Required(UnsettledOf(trade')) - Locked(t) = Required(UnsettledOf(trade)) - Locked(trade[p])
        /\ UnbookedOf(trade) \in Int /\ UnbookedOf(trade') \in Int
        /\ UnbookedOf(trade') - Owed(t) = UnbookedOf(trade) - Owed(trade[p])
    BY <1>1, <1>2, <2>1, ChangeAt
  <2>3. balance + Required(UnsettledOf(trade)) + UnbookedOf(trade) + astray = cash
    BY BooksAre DEF RiskInv
  <2>4. balance' + Locked(t) + Owed(t) + astray' - cash' = balance + Locked(trade[p]) + Owed(trade[p]) + astray - cash
    BY DEF Replaced
  <2>5. balance \in Int /\ cash \in Int /\ astray \in Int
    BY DEF RiskInv, RiskTypes
  <2>6. Locked(t) \in Int /\ Owed(t) \in Int /\ Locked(trade[p]) \in Int /\ Owed(trade[p]) \in Int
    <3>1. ASSUME NEW u \in Trades \cup {NoTrade} PROVE Locked(u) \in Int /\ Owed(u) \in Int
      BY TradeIs DEF Locked, Owed
    <3>2. t \in Trades \cup {NoTrade} /\ trade[p] \in Trades \cup {NoTrade}
      BY <2>1 DEF Replaced
    <3> QED BY <3>1, <3>2
  <2>7. (balance + Required(UnsettledOf(trade)) + UnbookedOf(trade) + astray = cash)'
    BY <1>1, <2>2, <2>3, <2>4, <2>5, <2>6
  <2> QED BY <2>7, BooksAre, PTL
<1> QED BY <1>1, <1>3, <1>4

(* Every step keeps the invariant.                                         *)
LEMMA RiskInvNext == RiskInv /\ [Next]_vars => RiskInv'
<1> SUFFICES ASSUME RiskInv, [Next]_vars PROVE RiskInv'
  OBVIOUS
<1>1. /\ balance' \in Int /\ cash' \in Int /\ astray' \in Int /\ trade' \in [Pairs -> Trades \cup {NoTrade}]
      /\ opening' \in {NoEntry} \cup SizedEntries \cup FilledEntries
      /\ SizesInv' /\ BooksMatchExchange'
  <2>1. Kept \/ \E p \in Pairs : \E t : Replaced(p, t)
    BY LedgerStep DEF RiskInv
  <2>2. UNCHANGED dryRun
    BY RestStep DEF RiskInv
  <2> QED BY <2>1, <2>2, KeptStep, ReplacedStep
<1>2. /\ opens' \in Nat /\ price' \in [Pairs -> Prices] /\ lastAlert' \in [Levels -> Nat]
      /\ stray' \in [Pairs -> [qty : Int, cost : Int]]
  BY RestStep DEF RiskInv
<1>3. DriftInv'
  BY DriftStep DEF RiskInv
<1> QED BY <1>1, <1>2, <1>3 DEF RiskInv, RiskTypes

(* The ledger is well typed, every position was affordable when it was     *)

(* sized, and the books match the exchange: an invariant of every          *)
(* execution, for every finite set of pairs and every configuration.       *)
THEOREM RiskInvariant == Spec => []RiskInv
  BY RiskInvInit, RiskInvNext, PTL DEF Spec

(* The balance and the margins that it lacks add up to the collateral at   *)

(* the exchange but for profits not booked yet, whichever tasks open and   *)
(* close trades and whatever fails (lock_margin, release_margin), for any  *)
(* number of pairs.                                                        *)
THEOREM BooksCorrect == Spec => []BooksMatchExchange
<1>1. RiskInv => BooksMatchExchange
  BY DEF RiskInv
<1> QED BY <1>1, RiskInvariant, PTL

-----------------------------------------------------------------------------
(* A position that was sized on the whole balance survives its stop loss.  *)
(* The sum of one summand.                                                 *)
LEMMA OnlyOne ==
  ASSUME NEW p, NEW f, f[p] \in Int
  PROVE  SumOf(f, {p}) = f[p]
<1>1. IsFiniteSet({p})
  BY FS_Singleton
<1>2. {p} \ {p} = {} /\ \A x \in {p} : f[x] \in Int
  OBVIOUS
<1>3. SumOf(f, {p}) = f[p] + SumOf(f, {p} \ {p})
  BY <1>1, <1>2, SumRemove
<1>4. SumOf(f, {p}) = f[p] + 0
  BY <1>2, <1>3, SumEmpty
<1> QED BY <1>4

(* The inequality behind calculate_quantity: with a position of size A     *)

(* that the balance B affords, the loss U at the stop and the margin R.    *)
LEMMA SizeSurvives ==
  ASSUME NEW L \in Nat \ {0}, NEW lq \in Nat, NEW mb \in Nat, NEW sl \in Nat, NEW A \in Nat, NEW R \in Nat,
         NEW B \in Int, NEW U \in Int,
         A * (lq + mb + L * sl) <= B * L * 100, R * L <= A, -(sl * A) <= 100 * U
  PROVE  lq * R <= (B + U) * 100
<1> DEFINE W == (B + U) * 100
           V == lq * R
<1>1. (R * L) * lq <= A * lq
  <2>1. R * L \in Int
    OBVIOUS
  <2> QED BY <2>1, TimesKeeps
<1>2. (-(sl * A)) * L <= (100 * U) * L
  <2>1. -(sl * A) \in Int /\ 100 * U \in Int /\ L \in Nat
    OBVIOUS
  <2> QED BY <2>1, TimesKeeps
<1>3. A * (lq + mb + L * sl) = A * lq + A * mb + (sl * A) * L
  BY Z3
<1>4. A * mb \in Nat /\ A * lq \in Nat /\ (sl * A) * L \in Nat
  BY TimesIs
<1>5. (-(sl * A)) * L = -((sl * A) * L)
  BY Z3
<1>6. A * lq - (100 * U) * L <= B * L * 100 + (sl * A) * L - (sl * A) * L
  <2>1. (100 * U) * L \in Int /\ B * L * 100 \in Int
    OBVIOUS
  <2> DEFINE a == A * lq
             b == A * mb
             c == (sl * A) * L
             d == (100 * U) * L
             e == B * L * 100
  <2>2. a + b + c <= e /\ -c <= d
    BY <1>2, <1>3, <1>5
  <2>3. a \in Nat /\ b \in Nat /\ c \in Nat /\ d \in Int /\ e \in Int
    BY <1>4, <2>1
  <2> HIDE DEF a, b, c, d, e
  <2>4. a - d <= e + c - c
    BY <2>2, <2>3
  <2> QED BY <2>4 DEF a, c, d, e
<1>7. V * L <= W * L
  <2>1. V * L = (R * L) * lq /\ W * L = B * L * 100 + (100 * U) * L
    BY Z3
  <2>2. (R * L) * lq \in Int /\ A * lq \in Int /\ (100 * U) * L \in Int /\ B * L * 100 \in Int /\ (sl * A) * L \in Int
    OBVIOUS
  <2> HIDE DEF V, W
  <2> QED BY <1>1, <1>6, <2>1, <2>2
<1>8. V \in Int /\ W \in Int
  OBVIOUS
<1> HIDE DEF V, W
<1>9. V <= W
  <2>1. ASSUME W + 1 <= V PROVE FALSE
    <3>1. (W + 1) * L <= V * L
      BY <1>8, <2>1, TimesKeeps
    <3>2. (W + 1) * L = W * L + L
      BY <1>8, Z3
    <3>3. W * L \in Int /\ V * L \in Int
      BY <1>8
    <3> QED BY <1>7, <3>1, <3>2, <3>3
  <2> QED BY <1>8, <2>1
<1> QED BY <1>9 DEF V, W

(* The invariant implies it: the trade of the ledger is the only summand.  *)
LEMMA RiskSized == RiskInv => SizedSurvivesStop
<1> SUFFICES ASSUME RiskInv, NEW p \in Pairs, DOMAIN Unsettled = {p},
                    trade[p].entry = trade[p].hint,
                    balance + RequiredMargin(trade[p]) = trade[p].bal,
                    ~(trade[p].dir = "long" /\ Bid(p) * 100 < trade[p].entry * (100 - StopLossPct)),
                    ~(trade[p].dir = "short" /\ Ask(p) * 100 > trade[p].entry * (100 + StopLossPct))
             PROVE  ~RatioBelow(balance, Unsettled, price, LiquidationLevel)
  BY DEF SizedSurvivesStop
<1> DEFINE t == trade[p]
           R == RequiredMargin(t)
           U == Profit(t, price[p])
           A == t.entry * t.qty
<1>1. Unsettled = [q \in {p} |-> trade[q]] /\ trade[p].status # "none"
  BY DEF Unsettled
<1>2. t \in Trades
  BY <1>1 DEF RiskInv, RiskTypes, NoTrade
<1>3. /\ t # NoTrade /\ t.dir \in Directions /\ t.entry \in Nat \ {0} /\ t.qty \in Nat \ {0} /\ t.bal \in Int
      /\ R \in Nat
  BY <1>2, TradeIs
<1>4. price[p] \in Nat /\ StopLossPct \in Nat /\ Spread \in Nat /\ balance \in Int
  BY Settings DEF RiskInv, RiskTypes
<1>5. U \in Int /\ A \in Nat
  BY <1>3, <1>4, TimesIs DEF Profit, PnlOf, Pnl, CloseSideAt
<1>6. IsFiniteSet(DOMAIN Unsettled)
  BY FS_Singleton
<1>7. Required(Unsettled) = R
  <2> DEFINE f == [q \in {p} |-> RequiredMargin(Unsettled[q])]
  <2>1. f[p] = R
    BY <1>1
  <2>2. Required(Unsettled) = SumOf(f, {p})
    BY <1>6, RequiredIs
  <2> HIDE DEF f, R
  <2>3. f[p] \in Int
    BY <1>3, <2>1
  <2> QED BY <2>1, <2>2, <2>3, OnlyOne
<1>8. Unrealized(Unsettled, price) = U
  <2> DEFINE f == [q \in {p} |-> Profit(Unsettled[q], price[q])]
  <2>1. f[p] = U
    BY <1>1
  <2>2. Unrealized(Unsettled, price) = SumOf(f, {p})
    BY <1>6, UnrealizedIs
  <2> HIDE DEF f, U
  <2> QED BY <1>5, <2>1, <2>2, OnlyOne
<1>9. A * (LiquidationLevel + MarginBuffer + Leverage * StopLossPct) <= t.bal * Leverage * 100
  <2> DEFINE k == LiquidationLevel + MarginBuffer + Leverage * StopLossPct
  <2>1. t.qty * (k * t.hint) <= t.bal * Leverage * 100
    BY <1>3 DEF RiskInv, SizesInv, Affordable
  <2>2. k \in Int
    BY Settings
  <2> HIDE DEF k
  <2>3. t.qty * (k * t.hint) = (t.entry * t.qty) * k
    BY <1>3, <2>2, Z3
  <2> QED BY <2>1, <2>3 DEF k
<1>10. R * Leverage <= A
  <2>1. A \div Leverage \in Nat /\ (A \div Leverage) * Leverage <= A
    <3> HIDE DEF A
    <3> QED BY <1>5, Settings, Quotient
  <2> QED BY <2>1 DEF RequiredMargin
<1>11. -(StopLossPct * A) <= 100 * U
  <2> DEFINE g == IF t.dir = "long" THEN price[p] - t.entry ELSE t.entry - (price[p] + Spread)
  <2>1. U = g * t.qty
    BY <1>3 DEF Profit, PnlOf, Pnl, CloseSideAt, Directions
  <2>2. -(StopLossPct * t.entry) <= 100 * g /\ g \in Int
    <3>1. CASE t.dir = "long"
      BY <1>3, <1>4, <3>1, Z3 DEF Bid
    <3>2. CASE t.dir = "short"
      BY <1>3, <1>4, <3>2, Z3 DEF Ask
    <3> QED BY <1>3, <3>1, <3>2 DEF Directions
  <2> HIDE DEF g, U
  <2>3. (-(StopLossPct * t.entry)) * t.qty <= (100 * g) * t.qty
    <3>1. -(StopLossPct * t.entry) \in Int /\ 100 * g \in Int /\ t.qty \in Nat
      BY <1>3, <1>4, <2>2
    <3> QED BY <2>2, <3>1, TimesKeeps
  <2>4. (-(StopLossPct * t.entry)) * t.qty = -(StopLossPct * (t.entry * t.qty)) /\ (100 * g) * t.qty = 100 * (g * t.qty)
    BY <1>3, <1>4, <2>2, Z3
  <2> QED BY <2>1, <2>3, <2>4
<1>12. LiquidationLevel * R <= (t.bal + U) * 100
  <2> HIDE DEF R, U, A, t
  <2> QED BY <1>3, <1>5, <1>9, <1>10, <1>11, Settings, SizeSurvives
<1>13. balance + R + U = t.bal + U
  BY <1>3, <1>4, <1>5
<1> HIDE DEF R, U, A, t
<1> QED BY <1>3, <1>4, <1>5, <1>7, <1>8, <1>12, <1>13, Settings DEF RatioBelow

(* A position that calculate_quantity sized on the whole balance is not    *)

(* liquidated before its stop loss, for every leverage, liquidation level, *)
(* buffer, stop distance and price.                                        *)
THEOREM SizedCorrect == Spec => []SizedSurvivesStop
  BY RiskInvariant, RiskSized, PTL

-----------------------------------------------------------------------------
(* What the drift check compares, as sums.                                 *)
LEMMA StrayWorthIs == StrayWorth = SumOf([p \in Pairs |-> Worth(p, stray[p])], Pairs)
<1> DEFINE f == [p \in Pairs |-> Worth(p, stray[p])]
           Eq(g) == g = [s \in SUBSET Pairs |-> IF s = {} THEN 0
                           ELSE Worth(CHOOSE x \in s : TRUE, stray[CHOOSE x \in s : TRUE])
                                + g[s \ {CHOOSE x \in s : TRUE}]]
           iter == CHOOSE g : Eq(g)
<1>1. StrayWorth = iter[Pairs]
  BY DEF StrayWorth, MapThenSumSet, MapThenFoldSet
<1>2. \A g : Eq(g) <=> Sums(g, f, Pairs)
  <2> TAKE g
  <2>1. \A s \in SUBSET Pairs : s # {} =>
          f[First(s)] = Worth(CHOOSE x \in s : TRUE, stray[CHOOSE x \in s : TRUE])
    BY FirstIs DEF First
  <2>2. [s \in SUBSET Pairs |-> IF s = {} THEN 0
                           ELSE Worth(CHOOSE x \in s : TRUE, stray[CHOOSE x \in s : TRUE])
                                + g[s \ {CHOOSE x \in s : TRUE}]]
        = [s \in SUBSET Pairs |-> IF s = {} THEN 0 ELSE f[First(s)] + g[s \ {First(s)}]]
    BY <2>1 DEF First
  <2> QED BY <2>2 DEF Sums
<1> HIDE DEF Eq, f
<1>3. \E g : Eq(g)
  BY <1>2, Settings, SumsExist
<1>4. Sums(iter, f, Pairs)
  BY <1>2, <1>3
<1> HIDE DEF iter
<1>5. SumOf(f, Pairs) = iter[Pairs]
  BY <1>4, Settings, SumOfIs
<1> QED BY <1>1, <1>5 DEF f

(* What positions that are gone have settled at, less what they would now. *)
GoneDifference ==
  MapThenSumSet(LAMBDA p : PnlOf(trade[p], trade[p].gone) - PnlOf(trade[p], CloseSide(p, trade[p].dir)),
                GoneUnnoticed)
Difference(p) == PnlOf(trade[p], trade[p].gone) - PnlOf(trade[p], CloseSide(p, trade[p].dir))

LEMMA GoneIs == GoneDifference = SumOf([p \in GoneUnnoticed |-> Difference(p)], GoneUnnoticed)
<1> DEFINE S == GoneUnnoticed
           f == [p \in S |-> Difference(p)]
           Eq(g) == g = [s \in SUBSET S |-> IF s = {} THEN 0
                           ELSE Difference(CHOOSE x \in s : TRUE) + g[s \ {CHOOSE x \in s : TRUE}]]
           iter == CHOOSE g : Eq(g)
<1>0. IsFiniteSet(S)
  BY Settings, FS_Subset DEF GoneUnnoticed, Gone
<1>1. GoneDifference = iter[S]
  BY DEF GoneDifference, Difference, MapThenSumSet, MapThenFoldSet
<1>2. \A g : Eq(g) <=> Sums(g, f, S)
  <2> TAKE g
  <2>1. \A s \in SUBSET S : s # {} => f[First(s)] = Difference(CHOOSE x \in s : TRUE)
    BY FirstIs DEF First
  <2>2. [s \in SUBSET S |-> IF s = {} THEN 0
                           ELSE Difference(CHOOSE x \in s : TRUE) + g[s \ {CHOOSE x \in s : TRUE}]]
        = [s \in SUBSET S |-> IF s = {} THEN 0 ELSE f[First(s)] + g[s \ {First(s)}]]
    BY <2>1 DEF First
  <2> QED BY <2>2 DEF Sums
<1> HIDE DEF Eq, f, S
<1>3. \E g : Eq(g)
  BY <1>0, <1>2, SumsExist
<1>4. Sums(iter, f, S)
  BY <1>2, <1>3
<1> HIDE DEF iter
<1>5. SumOf(f, S) = iter[S]
  BY <1>0, <1>4, SumOfIs
<1> QED BY <1>1, <1>5 DEF f, S

(* What the exchange holds beside the rows is worth a whole number.        *)
LEMMA StrayIsWhole ==
  ASSUME RiskTypes
  PROVE  StrayWorth \in Int /\ Unrealized(Entry, price) \in Int
<1>1. StrayWorth \in Int
  <2> DEFINE f == [p \in Pairs |-> Worth(p, stray[p])]
  <2>1. ASSUME NEW p \in Pairs PROVE f[p] \in Int
    <3>1. stray[p].qty \in Int /\ stray[p].cost \in Int
      BY DEF RiskTypes
    <3>2. CloseSide(p, IF stray[p].qty > 0 THEN "long" ELSE "short") \in Nat
      BY SidesAre
    <3> QED BY <3>1, <3>2 DEF Worth
  <2> HIDE DEF f
  <2>2. SumOf(f, Pairs) \in Int
    BY <2>1, Settings, SumType
  <2> QED BY <2>2, StrayWorthIs DEF f
<1>2. Unrealized(Entry, price) \in Int
  <2> DEFINE f == [q \in DOMAIN Entry |-> Profit(Entry[q], price[q])]
  <2>1. /\ IsFiniteSet(DOMAIN Entry) /\ DOMAIN Entry \subseteq Pairs
        /\ \A q \in DOMAIN Entry : Entry[q] = opening /\ opening.step = "filled"
    <3>1. DOMAIN Entry \in SUBSET Pairs /\ \A q \in DOMAIN Entry : Entry[q] = opening /\ opening.step = "filled"
      BY DEF Entry
    <3> QED BY <3>1, Settings, FS_Subset
  <2>2. ASSUME NEW q \in DOMAIN Entry PROVE f[q] \in Int
    <3>1. opening \in FilledEntries
      BY <2>1 DEF RiskTypes, SizedEntries, NoEntry
    <3>2. opening.entry \in Int /\ opening.qty \in Int
      BY <3>1 DEF FilledEntries
    <3>3. CloseSideAt(price[q], opening.dir) \in Int
      BY <2>1, SidesAre DEF CloseSide
    <3> QED BY <2>1, <3>2, <3>3 DEF Profit, PnlOf, Pnl
  <2> HIDE DEF f
  <2>3. SumOf(f, DOMAIN Entry) \in Int
    BY <2>1, <2>2, SumType
  <2> QED BY <2>1, <2>3, UnrealizedIs DEF f
<1> QED BY <1>1, <1>2

(* The trades of the books are worth what the positions of the exchange    *)
(* are, and the profit that is not booked, but for the difference.         *)
LEMMA PositionsAndGone ==
  ASSUME RiskInv, \A p \in Held(trade) : trade[p].status = "open"
  PROVE  /\ Unrealized(Unsettled, price) \in Int /\ Unrealized(Positions, price) \in Int
         /\ GoneDifference \in Int
         /\ Unrealized(Unsettled, price) - Unbooked = Unrealized(Positions, price) - GoneDifference
<1> DEFINE H == Held(trade)
           G == Settling(trade)
           f == [q \in H |-> Profit(trade[q], price[q])]
           u == [q \in G |-> Settled(trade[q])]
           d == [q \in G |-> u[q] - f[q]]
<1>1. /\ H = {q \in Pairs : trade[q] # NoTrade} /\ H \subseteq Pairs /\ IsFiniteSet(H)
      /\ \A q \in H : trade[q] \in Trades
      /\ G \in SUBSET H /\ IsFiniteSet(G) /\ IsFiniteSet(H \ G)
  <2>1. trade \in [Pairs -> Trades \cup {NoTrade}]
    BY DEF RiskInv, RiskTypes
  <2>2. /\ H = {q \in Pairs : trade[q] # NoTrade} /\ H \subseteq Pairs /\ IsFiniteSet(H)
        /\ \A q \in H : trade[q] \in Trades
    BY <2>1, HeldIs
  <2>3. G \in SUBSET H
    BY <2>2 DEF Settling
  <2>4. H \ G \in SUBSET H
    OBVIOUS
  <2> HIDE DEF H, G
  <2> QED BY <2>2, <2>3, <2>4, FS_Subset
<1>2. /\ \A q \in H : f[q] \in Int
      /\ \A q \in G : f[q] \in Int /\ u[q] \in Int
  <2>1. ASSUME NEW q \in H PROVE Profit(trade[q], price[q]) \in Int /\ Settled(trade[q]) \in Int
    <3>1. trade[q].entry \in Int /\ trade[q].qty \in Int /\ Settled(trade[q]) \in Int
      BY <1>1, TradeIs
    <3>2. CloseSideAt(price[q], trade[q].dir) \in Int
      BY <1>1, SidesAre DEF CloseSide, RiskInv
    <3> QED BY <3>1, <3>2 DEF Profit, PnlOf, Pnl
  <2> HIDE DEF H, G
  <2> QED BY <1>1, <2>1
<1>3. Unsettled = [q \in H |-> trade[q]] /\ Positions = [q \in H \ G |-> trade[q]] /\ GoneUnnoticed = G
  <2>1. \A q \in Pairs : trade[q].status # "none" <=> q \in H
    BY DEF Held
  <2>2. \A q \in Pairs : (trade[q] # NoTrade /\ trade[q].gone = 0) <=> q \in H \ G
    BY <1>1 DEF Settling
  <2>3. Gone = G
    BY DEF Gone, Settling
  <2>4. GoneUnnoticed = G
    BY <1>1, <2>3 DEF GoneUnnoticed
  <2> HIDE DEF H, G
  <2> QED BY <1>1, <2>1, <2>2, <2>4 DEF Unsettled, Positions
<1>4. Unrealized(Unsettled, price) = SumOf(f, H)
  <2>1. DOMAIN Unsettled = H /\ f = [q \in DOMAIN Unsettled |-> Profit(Unsettled[q], price[q])]
    BY <1>3
  <2> HIDE DEF f, H, G
  <2> QED BY <1>1, <2>1, UnrealizedIs
<1>5. Unrealized(Positions, price) = SumOf(f, H \ G)
  <2> DEFINE e == [q \in H \ G |-> Profit(trade[q], price[q])]
  <2>1. DOMAIN Positions = H \ G /\ e = [q \in DOMAIN Positions |-> Profit(Positions[q], price[q])]
    BY <1>3
  <2>2. \A q \in H \ G : e[q] = f[q]
    OBVIOUS
  <2> HIDE DEF e, f, H, G
  <2>3. SumOf(e, H \ G) = SumOf(f, H \ G)
    BY <1>1, <2>2, SumSame
  <2> QED BY <1>1, <2>1, <2>3, UnrealizedIs
<1>6. Unbooked = SumOf(u, G)
  BY UnbookedIs, BooksAre
<1>7. GoneDifference = SumOf(d, G)
  <2>1. \A q \in G : d[q] = Difference(q)
    <3>1. \A q \in G : f[q] = Profit(trade[q], price[q])
      BY <1>1
    <3> HIDE DEF f
    <3> QED BY <3>1 DEF Difference, Settled, Profit, CloseSide
  <2>2. [q \in G |-> Difference(q)] = d
    BY <2>1
  <2> HIDE DEF d, G
  <2> QED BY <1>3, <2>2, GoneIs
<1> HIDE DEF f, u, H, G
<1>8. SumOf(d, G) = SumOf(u, G) - SumOf(f, G)
  BY <1>1, <1>2, SumMinus
<1>9. SumOf(f, H \ G) = SumOf(f, H) - SumOf(f, G)
  BY <1>1, <1>2, SumOthers
<1>10. SumOf(f, H) \in Int /\ SumOf(f, G) \in Int /\ SumOf(u, G) \in Int
  BY <1>1, <1>2, SumType
<1> HIDE DEF d
<1> QED BY <1>4, <1>5, <1>6, <1>7, <1>8, <1>9, <1>10

(* What the drift check concludes is right at the step that concludes it.  *)
LEMMA DriftVerdictStep ==
  ASSUME RiskInv, DriftCompare, drift.bal = balance, drift.trades = Unsettled,
         \A p \in DOMAIN drift.trades : drift.quotes[p] = price[p], drift.equity = ExchangeEquity
  PROVE  drift'.alert <=> IsDrift(ExchangeEquity, ExchangeEquity - Unaccounted)
<1> DEFINE U == Unrealized(Unsettled, price)
           P == Unrealized(Positions, price)
           E == Unrealized(Entry, price)
           R == Required(Unsettled)
<1>1. \A p \in Held(trade) : trade[p].status = "open"
  <2>1. \A p \in Held(trade) : p \in DOMAIN drift.trades /\ drift.trades[p] = trade[p]
    BY DEF Unsettled, Held
  <2> QED BY <2>1 DEF RiskInv, DriftInv, DriftCompare
<1>2. U \in Int /\ P \in Int /\ GoneDifference \in Int /\ U - Unbooked = P - GoneDifference
  BY <1>1, PositionsAndGone
<1>3. StrayWorth \in Int /\ E \in Int
  BY StrayIsWhole DEF RiskInv
<1>4. R \in Int /\ Unbooked \in Int
  BY SumsAreWhole, BooksAre DEF RiskInv
<1>5. balance + R + Unbooked + astray = cash /\ balance \in Int /\ cash \in Int /\ astray \in Int
  BY DEF RiskInv, RiskTypes, BooksMatchExchange
<1>6. ExchangeEquity = cash + P + E + StrayWorth /\ Unaccounted = astray + StrayWorth + E + GoneDifference
  BY DEF ExchangeEquity, Unaccounted, GoneDifference
<1>7. Unrealized(drift.trades, drift.quotes) = U
  <2> DEFINE f == [p \in DOMAIN Unsettled |-> Profit(Unsettled[p], drift.quotes[p])]
             e == [p \in DOMAIN Unsettled |-> Profit(Unsettled[p], price[p])]
  <2>1. \A p \in DOMAIN Unsettled : f[p] = e[p]
    OBVIOUS
  <2>2. IsFiniteSet(DOMAIN Unsettled)
    <3>1. DOMAIN Unsettled = Held(trade)
      BY DEF Unsettled, Held
    <3> QED BY <3>1, HeldIs DEF RiskInv, RiskTypes
  <2>3. Unrealized(Unsettled, drift.quotes) = SumOf(f, DOMAIN Unsettled) /\ U = SumOf(e, DOMAIN Unsettled)
    BY <2>2, UnrealizedIs
  <2> HIDE DEF f, e
  <2>4. SumOf(f, DOMAIN Unsettled) = SumOf(e, DOMAIN Unsettled)
    BY <2>1, <2>2, SumSame
  <2> QED BY <2>3, <2>4
<1>8. drift'.alert = IsDrift(ExchangeEquity, balance + R + U)
  BY <1>7 DEF DriftCompare
<1> HIDE DEF U, P, E, R
<1>9. balance + R + U = ExchangeEquity - Unaccounted
  BY <1>2, <1>3, <1>4, <1>5, <1>6
<1> QED BY <1>8, <1>9

(* When nothing that it has read changed while it ran, the drift check     *)
(* alerts if and only if what the books do not know of exceeds the         *)
(* threshold, for any number of trades, whatever failed before.            *)
THEOREM DriftCorrect == Spec => DriftVerdict
<1>1. RiskInv /\ [Next]_vars =>
        [DriftCompare /\ drift.bal = balance /\ drift.trades = Unsettled
         /\ (\A p \in DOMAIN drift.trades : drift.quotes[p] = price[p]) /\ drift.equity = ExchangeEquity =>
           (drift'.alert <=> IsDrift(ExchangeEquity, ExchangeEquity - Unaccounted))]_vars
  BY DriftVerdictStep
<1> QED BY <1>1, RiskInvariant, PTL DEF Spec, DriftVerdict
=============================================================================
