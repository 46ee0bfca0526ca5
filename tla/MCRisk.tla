------------------------------- MODULE MCRisk -------------------------------
(***************************************************************************)
(* An instance for TLC of the two modules about accounts, which share no   *)
(* state: in a behaviour either the money of one account moves             *)
(* (AccountRisk) or operators change the accounts (AccountAdmin).          *)
(***************************************************************************)
EXTENDS AccountRisk, AccountAdmin, TLC

CONSTANTS pairX, pairY, live1, live2, fresh

VARIABLE part  \* "risk" or "admin"

\* AccountRisk: one pair is bought, the other sold.
MCSignals == (pairX :> {"long"}) @@ (pairY :> {"short"})

\* AccountAdmin: two live accounts of one exchange, one of them active, and
\* configurations in which an exchange has a level, none, or zero.
Row(active) ==
  [state |-> "row", type |-> "live", exchange |-> "gmo_fx", leverage |-> 2, strategy |-> "s", active |-> active]
MCAccounts == (live1 :> Row(TRUE)) @@ (live2 :> Row(FALSE)) @@ (fresh :> NoRow)
MCCap == ("gmo_fx" :> 25) @@ ("bitflyer_cfd" :> 2)
MCConfigs ==
  {"gmo_fx" :> 1, ("gmo_fx" :> 1) @@ ("bitflyer_cfd" :> 1), ("gmo_fx" :> 0) @@ ("bitflyer_cfd" :> 1)}

Create(type, exchange, leverage, currency) ==
  [op |-> "create", type |-> type, exchange |-> exchange, leverage |-> leverage, strategy |-> "s",
   currency |-> currency, balance |-> 1]
Update(id, leverage, active) ==
  [op |-> "update", id |-> id, leverage |-> leverage, strategy |-> "keep", active |-> active]

MCRequests ==
  {Create("live", "gmo_fx", 25, "USD"), Create("paper", "bitflyer_cfd", 2, "USD"), Create("paper", "gmo_fx", 2, "JPY"),
   Update(live1, 0, "false"), Update(live1, 0, "true"), Update(live2, 0, "true"), Update(live1, 4, "keep"),
   [op |-> "remove", id |-> live1]}

MCInit ==
  /\ part \in {"risk", "admin"}
  /\ Init /\ AdminInit
  \* The state of the other part is fixed.
  /\ part = "admin" => dryRun /\ judge = "monitor" /\ opens = 0 /\ incidents = 0
  \* Two entries, or one and an incident; for a dry-run account both.
  /\ part = "risk" => /\ dryRun => opens = 0 /\ incidents = 0
                      /\ ~dryRun => <<opens, incidents>> \in {<<0, MaxIncidents>>, <<1, 0>>}
  /\ part = "risk" => levels = "gmo_fx" :> 1

MCNext ==
  \/ part = "risk" /\ Next /\ UNCHANGED <<part, adminVars>>
  \/ part = "admin" /\ AdminNext /\ UNCHANGED <<part, vars>>

\* The fairness of AccountRisk.
MCSpec ==
  /\ MCInit /\ [][MCNext]_<<part, vars, adminVars>>
  /\ WF_vars(part = "risk" /\ \E p \in Pairs : ListTrades(p))
  /\ WF_vars(part = "risk" /\ MonitorStep)
  /\ \A p \in Pairs : WF_vars(part = "risk" /\ FillClose(p)) /\ WF_vars(part = "risk" /\ PersistClose(p))
=============================================================================
