--------------------------- MODULE TradeLifecycle ---------------------------
(***************************************************************************)
(* What the rest of the system may assume of a trade and its account,      *)
(* whatever the closers, the exchange and the database do: a trade is      *)
(* locked and unlocked any number of times, charged only while it is open, *)
(* and settled once, which returns its margin with its profit or loss.     *)
(***************************************************************************)
EXTENDS Integers

CONSTANTS Margin, PnLs

VARIABLES status, balance, charged, pnl

lvars == <<status, balance, charged, pnl>>

Init == status = "open" /\ balance = -Margin /\ charged = 0 /\ pnl = 0

Lock ==
  /\ status \in {"open", "closing"} /\ status' = "closing"
  /\ UNCHANGED <<balance, charged, pnl>>

Unlock ==
  /\ status = "closing" /\ status' = "open"
  /\ UNCHANGED <<balance, charged, pnl>>

Charge ==
  /\ status = "open"
  /\ charged' = charged + 1 /\ balance' = balance - 1
  /\ UNCHANGED <<status, pnl>>

Settle ==
  /\ status \in {"open", "closing"} /\ status' = "closed"
  /\ \E p \in PnLs : pnl' = p /\ balance' = balance + Margin + p
  /\ UNCHANGED charged

Next == Lock \/ Unlock \/ Charge \/ Settle

Spec == Init /\ [][Next]_lvars
=============================================================================
