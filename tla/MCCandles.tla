----------------------------- MODULE MCCandles -----------------------------
(***************************************************************************)
(* An instance for TLC of the candle feeds and of a strategy that works on *)
(* their candles.  In a behaviour either the one or the other runs:        *)
(* FxStrategy takes any sequence of candles that CandleFeed can publish.   *)
(***************************************************************************)
EXTENDS CandleFeed, FxStrategy

\* A quiet, a rising and a falling candle.
MCCandleShapes ==
  {[high |-> 3, low |-> 1, close |-> 2], [high |-> 6, low |-> 3, close |-> 5],
   [high |-> 2, low |-> 0, close |-> 0]}

VARIABLE part  \* "feed" or "strategy"

MCInit ==
  /\ part \in {"feed", "strategy"}
  /\ FeedInit /\ (part = "strategy" => kind = "oanda")
  /\ FxInit

MCNext ==
  \/ part = "feed" /\ FeedNext /\ UNCHANGED <<part, fxVars>>
  \/ part = "strategy" /\ FxNext /\ UNCHANGED <<part, allFeedVars>>

\* The fairness of CandleFeed.
MCSpec ==
  /\ MCInit /\ [][MCNext]_<<part, allFeedVars, fxVars>>
  /\ WF_allFeedVars(part = "feed" /\ HeartbeatTimeout)
  /\ WF_allFeedVars(part = "feed" /\ Reconnect)
=============================================================================
