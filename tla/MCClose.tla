------------------------------ MODULE MCClose ------------------------------
(* Instances of CloseProtocol for TLC.                                     *)
EXTENDS CloseProtocol

CONSTANTS m1, m2, sd  \* closers: two tasks that watch the trade, and the stop-fill loop

MCPnLs == {-1, 1}
=============================================================================
