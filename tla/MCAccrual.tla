----------------------------- MODULE MCAccrual -----------------------------
(* Instances of FeeAccrual for TLC.                                        *)
EXTENDS FeeAccrual

CONSTANTS t1, t2  \* trades
=============================================================================
