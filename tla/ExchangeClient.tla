--------------------------- MODULE ExchangeClient ---------------------------
(***************************************************************************)
(* What the exchange clients answer about an order and about the position  *)
(* it opened.  An answer is put together from several HTTP requests, and   *)
(* the exchange goes on between them: it triggers and fills the order, it  *)
(* drops it, and it lists executions and positions later than they happen. *)
(*                                                                         *)
(* One order of size Size, a protective stop (stop_order_status) or a      *)
(* market order (get_executions, get_child_orders), and for GMO the search *)
(* for the position the order opened among the positions of the pair.      *)
(* CloseProtocol and OpenProtocol take the answers from here.              *)
(***************************************************************************)
EXTENDS Integers, FiniteSets

CONSTANTS
  Clients,          \* clients to consider, a subset of ClientNames
  Size,             \* size of the order
  Skews,            \* bound: clock of the exchange minus our clock
  Margin,           \* POSITION_CUTOFF_CLOCK_SKEW_MARGIN_SECS
  ForeignTimes,     \* bound: when a position of somebody else was opened
  MaxResolveTries,  \* MAX_ATTEMPTS of resolve_position_id_with_retry
  MaxRequestFails   \* bound: failed requests of a call

ClientNames == {"bitflyer", "gmo", "oanda"}

ASSUME ClientAssumption ==
  /\ Clients \subseteq ClientNames
  /\ Size \in Nat \ {0} /\ Margin \in Nat /\ MaxResolveTries \in Nat \ {0}
  /\ Skews \subseteq Int /\ ForeignTimes \subseteq Int
  /\ MaxRequestFails \in Nat

VARIABLES
  client,    \* whose API is called
  order,     \* exchange: state of the order
  fills,     \* exchange: executed size of the order
  listed,    \* exchange: how much of it the list of executions shows
  skew,      \* exchange: its clock minus ours
  positions, \* exchange: positions of the pair, "own" among them
  shown,     \* exchange: the ones its list of positions shows
  query,     \* the call under way, "none" between two calls
  request,   \* the request it sends next
  parent,    \* what an earlier request of the call said of the order
  counted,   \* executions fetched so far by the call
  tries,     \* tries of resolve_position_id_with_retry
  requestFails,  \* failed requests of the call
  past,      \* history: the states of the order since the call began
  answer     \* result of the last call

clientVars == <<client, order, fills, listed, skew, positions, shown, query, request, parent,
                counted, tries, requestFails, past, answer>>
orderVars == <<order, fills, listed>>
positionVars == <<skew, positions, shown>>
callVars == <<query, request, parent, counted, tries, requestFails, past, answer>>

Alive == {"waiting", "working"}
NoAnswer == [query |-> "none", result |-> "none", size |-> 0]

\* The position of the order and one that somebody else opened on the same
\* account. Our order is sent at time 0 of our clock.
Foreign == [id : {"other"}, side : {"BUY", "SELL"}, size : 1..Size, at : ForeignTimes]
Own == [id : {"own"}, side : {"BUY"}, size : 1..Size, at : {0, 1}]

ClientInit ==
  /\ client \in Clients
  /\ order = "unlisted" /\ fills = 0 /\ listed = 0
  /\ IF client = "gmo"
     THEN skew \in Skews /\ positions \in {{o, f} : o \in Own, f \in Foreign}
     ELSE skew = 0 /\ positions = {}
  /\ shown = {p \in positions : p.id = "other" /\ p.at < 0}
  /\ query = "none" /\ request = "none" /\ parent = "none"
  /\ counted = 0 /\ tries = 0 /\ requestFails = 0
  /\ past = {} /\ answer = NoAnswer

-----------------------------------------------------------------------------
(* The exchange (external).                                                *)

(* The order moves on; what it goes through during a call is remembered.   *)
OrderMoves(o, f) ==
  /\ order' = o /\ fills' = f
  /\ past' = (IF query = "none" THEN past ELSE past \cup {[order |-> o, fills |-> f]})
  /\ UNCHANGED <<client, listed, positionVars, query, request, parent, counted, tries,
                 requestFails, answer>>

ListOrder == order = "unlisted" /\ OrderMoves("waiting", 0)
TriggerOrder == order = "waiting" /\ OrderMoves("working", 0)

\* An order of OANDA is fill-or-kill.
FillSome ==
  /\ order = "working"
  /\ \E n \in 1..(Size - fills) :
       /\ client = "oanda" => n = Size
       /\ OrderMoves(IF fills + n = Size THEN "completed" ELSE "working", fills + n)

CancelOrder == order \in Alive /\ OrderMoves("canceled", fills)

ListExecution ==
  /\ listed < fills
  /\ listed' = listed + 1
  /\ UNCHANGED <<client, order, fills, positionVars, callVars>>

ListPosition ==
  /\ query = "resolve_position_id"
  /\ \E p \in positions \ shown : shown' = shown \cup {p}
  /\ UNCHANGED <<client, orderVars, skew, positions, callVars>>

ExchangeStep == ListOrder \/ TriggerOrder \/ FillSome \/ CancelOrder \/ ListExecution \/ ListPosition

-----------------------------------------------------------------------------
(* The calls.                                                              *)

(* The first request of each call, and the calls a client does not have:   *)
(* OANDA places no stops, and only GMO closes by position.                 *)
FirstRequest ==
  [bitflyer |-> [stop_order_status |-> "getparentorder", get_executions |-> "executions",
                 get_child_orders |-> "orders"],
   gmo |-> [stop_order_status |-> "orders", get_executions |-> "executions",
            get_child_orders |-> "orders", resolve_position_id |-> "openPositions"],
   oanda |-> [get_executions |-> "order", get_child_orders |-> "orders"]]

Call(q) ==
  /\ query = "none" /\ q \in DOMAIN FirstRequest[client]
  /\ query' = q /\ request' = FirstRequest[client][q]
  /\ parent' = "none" /\ counted' = 0 /\ tries' = 1 /\ requestFails' = 0
  /\ past' = {[order |-> order, fills |-> fills]} /\ answer' = NoAnswer
  /\ UNCHANGED <<client, orderVars, positionVars>>

Return(r, n) ==
  /\ answer' = [query |-> query, result |-> r, size |-> n]
  /\ query' = "none" /\ request' = "none"
  /\ UNCHANGED <<client, orderVars, positionVars, parent, counted, tries, requestFails, past>>

Continue(r) ==
  /\ request' = r
  /\ UNCHANGED <<client, orderVars, positionVars, query, tries, requestFails, past, answer>>

(* request, signed_request and send_json: no connection, a timeout, an     *)
(* error status or a body that cannot be used. The whole call fails, except*)
(* that the search for a position tries again and then finds none.         *)
RequestFails ==
  /\ query # "none" /\ requestFails < MaxRequestFails
  /\ requestFails' = requestFails + 1
  /\ IF query = "resolve_position_id" /\ tries < MaxResolveTries
     THEN tries' = tries + 1 /\ UNCHANGED <<query, request, answer>>
     ELSE /\ answer' = [query |-> query, size |-> 0,
                        result |-> IF query = "resolve_position_id" THEN "none" ELSE "error"]
          /\ query' = "none" /\ request' = "none" /\ UNCHANGED tries
  /\ UNCHANGED <<client, orderVars, positionVars, parent, counted, past>>

(* What getparentorder says: the state of the order, which may be missing. *)
ParentOrderState ==
  {"missing", IF order \in Alive THEN "Active" ELSE IF order = "completed" THEN "Completed" ELSE "Canceled"}

(* stop_order_status of bitFlyer: the parent order decides unless it is    *)
(* completed or has no state.                                              *)
GetParentOrder ==
  /\ request = "getparentorder"
  /\ \/ order = "unlisted" /\ Return("Gone", 0)
     \/ /\ order # "unlisted"
        /\ \E s \in ParentOrderState :
             \/ s = "Active" /\ Return("Active", 0)
             \/ s = "Canceled" /\ Return("Gone", 0)
             \/ /\ s \in {"Completed", "missing"}
                /\ parent' = s /\ Continue("children") /\ UNCHANGED counted

\* Mutant: a missing state is taken for a completed order.
GoneWithoutChild == "Gone"

(* A parent order without executed child: completed is gone, no state is   *)
(* taken to be active.                                                     *)
WithoutExecutedChild == IF parent = "missing" THEN "Active" ELSE "Gone"

(* get_child_orders_by_parent.                                             *)
GetChildOrdersByParent ==
  /\ request = "children"
  /\ \/ fills > 0 /\ Continue("executions") /\ UNCHANGED <<parent, counted>>
     \/ fills = 0 /\ Return(WithoutExecutedChild, 0)

(* The price of an executed stop: of the executions, otherwise the average *)
(* price of the order, and an error when bitFlyer gives none.              *)
StopExecutions ==
  /\ query = "stop_order_status" /\ request = "executions"
  /\ \/ Return("Executed", listed)
     \/ client = "bitflyer" /\ listed = 0 /\ Return("error", 0)

(* stop_order_status of GMO: the state in the list of orders.              *)
GmoStopOrder ==
  /\ query = "stop_order_status" /\ request = "orders"
  /\ \/ order = "completed" /\ Continue("executions") /\ UNCHANGED <<parent, counted>>
     \/ order \in Alive /\ Return("Active", 0)
     \/ order \in {"unlisted", "canceled"} /\ Return("Gone", 0)

(* get_executions of bitFlyer and GMO.                                     *)
GetExecutions ==
  /\ query = "get_executions" /\ request = "executions"
  /\ Return("list", listed)

(* fetch_filled_order of OANDA: an order that is not filled has no         *)
(* executions, a dead one is an error (an unlisted one, too).              *)
FetchFilledOrder ==
  /\ request = "order"
  /\ \/ order = "completed" /\ Continue("transaction") /\ UNCHANGED <<parent, counted>>
     \/ order \in Alive /\ Return("list", 0)
     \/ order \in {"unlisted", "canceled"} /\ Return("error", 0)

(* fetch_execution for each of the fills the order names.                  *)
FetchExecution ==
  /\ request = "transaction"
  /\ IF counted + 1 < fills
     THEN counted' = counted + 1 /\ Continue("transaction") /\ UNCHANGED parent
     ELSE Return("list", counted + 1)

(* get_child_orders, gmo_status_to_state and order_json_to_child. OANDA    *)
(* reports an executed size only for a filled order.                       *)
ChildOrderState ==
  IF order = "completed" THEN "Completed" ELSE IF order = "canceled" THEN "Canceled" ELSE "Active"

GetChildOrders ==
  /\ query = "get_child_orders" /\ request = "orders"
  /\ \/ order = "unlisted" /\ Return(IF client = "oanda" THEN "error" ELSE "unknown", 0)
     \/ /\ order # "unlisted"
        /\ Return(ChildOrderState, IF client = "oanda" /\ order # "completed" THEN 0 ELSE fills)

-----------------------------------------------------------------------------
(* resolve_position_id_with_retry and resolve_position_id of GMO.          *)

(* position_cutoff: the time before sending, less a margin for the clocks. *)
PositionCutoff == 0 - Margin

(* The size execute asks for is what the order filled.                     *)
ExpectedSize == Size

Candidates ==
  {p \in shown : p.side = "BUY" /\ p.size = ExpectedSize /\ p.at + skew >= PositionCutoff}

(* The newest candidate; of two of the same time the first in the list,    *)
(* which may be either.                                                    *)
ResolvePositionId ==
  /\ request = "openPositions"
  /\ \/ \E p \in Candidates :
          /\ \A q \in Candidates : q.at <= p.at
          /\ Return(p.id, p.size)
     \/ /\ Candidates = {}
        /\ \/ tries = MaxResolveTries /\ Return("none", 0)
           \/ /\ tries < MaxResolveTries
              /\ tries' = tries + 1
              /\ UNCHANGED <<client, orderVars, positionVars, query, request, parent, counted,
                             requestFails, past, answer>>

-----------------------------------------------------------------------------
Queries == UNION {DOMAIN FirstRequest[c] : c \in ClientNames}

ClientStep ==
  \/ \E q \in Queries : Call(q)
  \/ RequestFails
  \/ GetParentOrder \/ GetChildOrdersByParent \/ StopExecutions \/ GmoStopOrder
  \/ GetExecutions \/ FetchFilledOrder \/ FetchExecution \/ GetChildOrders
  \/ ResolvePositionId

ClientNext == ExchangeStep \/ ClientStep

ClientSpec == ClientInit /\ [][ClientNext]_clientVars

-----------------------------------------------------------------------------
(* Properties.                                                             *)

(* What is said about a stop was so at some moment of the call, although   *)
(* its requests see different states of the order: an executed stop has    *)
(* traded its whole size, a stop that is gone was dropped or unknown and   *)
(* never completed, an active one was alive. The exception is bitFlyer     *)
(* without a state: a stop that is filled in part counts as executed, and  *)
(* a canceled one as active (stop_order_status).                           *)
StopAnswerTrue ==
  answer.query = "stop_order_status" =>
    /\ answer.result = "Executed" =>
         \E p \in past : p.fills = Size \/ (parent = "missing" /\ p.fills > 0)
    /\ answer.result = "Gone" => \E p \in past : p.order \in {"unlisted", "canceled"}
    /\ answer.result = "Active" =>
         \E p \in past : p.order \in Alive \/ (parent = "missing" /\ p.order = "canceled")

(* Executions of an order are never more than it traded, those of OANDA    *)
(* are all of them or none, and a completed order traded its whole size    *)
(* (get_executions, get_child_orders).                                     *)
ExecutionsTrue ==
  /\ answer.query = "get_executions" /\ answer.result = "list" =>
       /\ \E p \in past : answer.size <= p.fills
       /\ client = "oanda" => answer.size \in {0, Size}
  /\ answer.query = "get_child_orders" /\ answer.result = "Completed" => answer.size = Size

(* While the clocks differ by no more than the margin, the position the    *)
(* order opened is found if the exchange lists it in time and answers,     *)
(* unless there is a newer one of the same side and size; and a position   *)
(* that was there longer than twice the margin is never taken for it, or   *)
(* the trade would be closed with the identifier of a position of somebody *)
(* else (resolve_position_id and the cutoff of execute).                   *)
ResolvedIsOwn ==
  answer.query = "resolve_position_id" /\ skew \in -Margin..Margin =>
    \A o \in positions : o.id = "own" /\ o.size = Size =>
      /\ answer.result = "none" /\ requestFails = 0 => o \notin shown
      /\ \A p \in positions : p.id = "other" /\ answer.result = "other" =>
           p.at >= -2 * Margin /\ (o \notin shown \/ p.at >= o.at)

(* The answers of the clients can be relied on.                            *)
ClientAnswersTrue == StopAnswerTrue /\ ExecutionsTrue /\ ResolvedIsOwn
=============================================================================
