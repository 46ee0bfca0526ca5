------------------------------ MODULE MCEngine ------------------------------
(***************************************************************************)
(* An instance for TLC of a run of the simulator (SimEngine) and of the    *)
(* older backtest (Backtest).  In a behaviour either the one or the other  *)
(* runs.                                                                   *)
(***************************************************************************)
EXTENDS SimEngine, Backtest

\* Rise, fall with a dip below, and a bar that opens with a gap.
MCShapes == {[open |-> 4, high |-> 7, low |-> 4, close |-> 7],
             [open |-> 6, high |-> 6, low |-> 3, close |-> 4],
             [open |-> 1, high |-> 2, low |-> 1, close |-> 2]}

Asks(n, ks, catch, r) == [ops |-> n, keys |-> ks, catches |-> catch, result |-> r]
MCCalls == {Asks(1, <<"sma">>, FALSE, 1), Asks(1, <<"sma">>, FALSE, -1), Asks(2, <<>>, FALSE, 0),
            Asks(1, <<"sma", "rsi">>, FALSE, 1), Asks(1, <<"rsi", "sma">>, TRUE, -1),
            Asks(3, <<>>, FALSE, 0), Asks(1, <<>>, FALSE, 2), Asks(1, <<>>, FALSE, Fatal)}

\* A calm candle, one that reaches a target or a stop, and one that reaches both.
MCReplayShapes == {[high |-> 6, low |-> 5, close |-> 6], [high |-> 10, low |-> 6, close |-> 9],
                   [high |-> 10, low |-> 2, close |-> 4]}

VARIABLE part  \* "simulator" or "backtest"

MCInit == part \in {"simulator", "backtest"} /\ Init /\ BacktestInit

MCNext ==
  \/ part = "simulator" /\ Next /\ UNCHANGED <<part, backtestVars>>
  \/ part = "backtest" /\ BacktestNext /\ UNCHANGED <<part, vars>>

MCSpec == MCInit /\ [][MCNext]_<<part, vars, backtestVars>>
=============================================================================
