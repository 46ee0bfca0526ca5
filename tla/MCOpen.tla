------------------------------- MODULE MCOpen -------------------------------
(***************************************************************************)
(* An instance for TLC of the opening of trades and of the exchange        *)
(* clients whose answers it works with.  In a behaviour either the one or  *)
(* the other runs; OpenProtocol allows every answer that ExchangeClient    *)
(* can give.                                                               *)
(***************************************************************************)
EXTENDS OpenProtocol, ExchangeClient

MCSkews == {-1, 1}
MCForeignTimes == {-3, -1, 1}

VARIABLE part  \* "open" or "client"

MCInit ==
  /\ part \in {"open", "client"}
  /\ Init /\ (part = "client" => mode = "paper")
  /\ ClientInit /\ (part = "open" => client = "oanda")

MCNext ==
  \/ part = "open" /\ Next /\ UNCHANGED <<part, clientVars>>
  \/ part = "client" /\ ClientNext /\ UNCHANGED <<part, vars>>

MCSpec == MCInit /\ [][MCNext]_<<part, vars, clientVars>>
=============================================================================
