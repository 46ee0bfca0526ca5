------------------------------ MODULE Pipeline ------------------------------
(***************************************************************************)
(* The tasks of the trading process and the bounded channels between them: *)
(*                                                                         *)
(*   feeds --price--> engine --fx------> FX drain                          *)
(*                           --crypto--> position monitor --+              *)
(*                           --signal--> executor ----------+-trade-> rec. *)
(*                           --exit----> exit executor -----+              *)
(*                                       stop-fill loop ----+              *)
(*                                                                         *)
(* A task takes one message at a time and does not take the next one       *)
(* before every message it derives from the first has been sent; a send    *)
(* waits while the channel is full and drops the message when the reader   *)
(* is gone.  A channel ends for its reader when it is empty and every task *)
(* that owns a sender has ended.  Shutdown drops the senders of main,      *)
(* aborts feeds and background loops and waits for the rest, for at most   *)
(* DRAIN_TIMEOUT_SECS.  What a task does with a message (opening, closing) *)
(* is the subject of OpenProtocol and CloseProtocol; here only the         *)
(* messages that it derives from it count.                                 *)
(***************************************************************************)
EXTENDS Naturals, Sequences, FiniteSets

CONSTANTS
  Feeds,        \* market feeds, one per exchange
  OandaFeeds,   \* the feeds whose events go to the FX drain
  Slots,        \* strategy slots of the engine
  DisabledSlots,\* the slots whose mode is "disabled"
  PriceCap, MonitorCap, SignalCap, ExitCap, TradeCap, \* channel capacities
  MaxEvents,    \* bound: price events
  MayPanic      \* bound: the tasks that may die

ASSUME CapAssumption ==
  {PriceCap, MonitorCap, SignalCap, ExitCap, TradeCap} \subseteq Nat \ {0}

ASSUME FeedAssumption ==
  OandaFeeds \subseteq Feeds /\ DisabledSlots \subseteq Slots /\ IsFiniteSet(Slots)

Tasks == {"engine", "fxDrain", "cryptoMonitor", "executor", "exitExecutor", "recorder"}
Chans == {"price", "fx", "crypto", "signal", "exit", "trade"}

\* The channel that a task reads, and the reader of a channel.
Input == [engine |-> "price", fxDrain |-> "fx", cryptoMonitor |-> "crypto",
          executor |-> "signal", exitExecutor |-> "exit", recorder |-> "trade"]
Reader(c) == CHOOSE t \in Tasks : Input[t] = c

Cap == [price |-> PriceCap, fx |-> MonitorCap, crypto |-> MonitorCap,
        signal |-> SignalCap, exit |-> ExitCap, trade |-> TradeCap]

VARIABLES
  q,         \* q[c]: messages in channel c
  task,      \* task[t]: "running", "done" (its input ended) or "dead" (it panicked)
  out,       \* out[t]: <<channel, message>> pairs that task t still has to send
  feed,      \* feed[f]: "running" or "stopped"
  stopFill,  \* the stop-fill loop: "idle", "closed" (trade closed, event unsent), "stopped"
  published, \* published[f]: price events of f that entered the price channel
  seen,      \* seen[f]: events of f that its monitor took, in order
  owed,      \* trade events that are neither recorded nor lost
  lost,      \* trade events dropped by the abort of the stop-fill loop
  main,      \* "running", "draining" or "exited"
  timedOut   \* whether the drain ran into its timeout

taskVars == <<q, task, out>>
eventVars == <<published, seen, owed, lost>>
mainVars == <<main, timedOut>>
vars == <<taskVars, feed, stopFill, eventVars, mainVars>>

\* A price event: the feed and its number.  Other messages have no content.
PriceEvents == [feed : Feeds, n : 1..MaxEvents]
Token == "token"

TypeOK ==
  /\ \A c \in {"price", "fx", "crypto"} : q[c] \in Seq(PriceEvents)
  /\ \A c \in Chans : Len(q[c]) <= Cap[c]
  /\ task \in [Tasks -> {"running", "done", "dead"}]
  /\ \A t \in Tasks : \A i \in DOMAIN out[t] : out[t][i][1] \in Chans
  /\ feed \in [Feeds -> {"running", "stopped"}]
  /\ stopFill \in {"idle", "closed", "stopped"}
  /\ published \in [Feeds -> 0..MaxEvents]
  /\ owed \in Nat /\ lost \in Nat
  /\ main \in {"running", "draining", "exited"}
  /\ timedOut \in BOOLEAN

Init ==
  /\ q = [c \in Chans |-> <<>>]
  /\ task = [t \in Tasks |-> "running"]
  /\ out = [t \in Tasks |-> <<>>]
  /\ feed = [f \in Feeds |-> "running"]
  /\ stopFill = "idle"
  /\ published = [f \in Feeds |-> 0]
  /\ seen = [f \in Feeds |-> <<>>]
  /\ owed = 0 /\ lost = 0
  /\ main = "running" /\ timedOut = FALSE

\* The process is alive: once main has returned, the runtime drops every task.
Alive == main # "exited"

HasReader(c) == task[Reader(c)] = "running"
Room(c) == Len(q[c]) < Cap[c]

\* Task t waits for its next message.
Receiving(t) == Alive /\ task[t] = "running" /\ out[t] = <<>>

\* Task t takes the next message and owes the messages s.
Take(t, s) ==
  /\ Receiving(t)
  /\ q[Input[t]] # <<>>
  /\ q' = [q EXCEPT ![Input[t]] = Tail(@)]
  /\ out' = [out EXCEPT ![t] = s]
  /\ UNCHANGED task

Message(t) == Head(q[Input[t]])

AllPublished == {e \in PriceEvents : e.n <= published[e.feed]}

Repeat(n, m) == [i \in 1..n |-> m]
-----------------------------------------------------------------------------
(* Feeds                                                                   *)

\* Price channel: a feed publishes a price event, waiting for room.
PublishPrice(f) ==
  /\ Alive /\ feed[f] = "running" /\ Cardinality(AllPublished) < MaxEvents
  /\ HasReader("price") /\ Room("price")
  /\ q' = [q EXCEPT !["price"] = Append(@, [feed |-> f, n |-> published[f] + 1])]
  /\ published' = [published EXCEPT ![f] = @ + 1]
  /\ UNCHANGED <<task, out, feed, stopFill, seen, owed, lost, mainVars>>

\* A feed that finds the price channel closed stops.
FeedFindsPriceClosed(f) ==
  /\ Alive /\ feed[f] = "running" /\ ~HasReader("price")
  /\ feed' = [feed EXCEPT ![f] = "stopped"]
  /\ UNCHANGED <<taskVars, stopFill, eventVars, mainVars>>

-----------------------------------------------------------------------------
(* Engine                                                                  *)

\* The channel of the position monitor of an event's exchange.
MonitorChannel(e) == IF e.feed \in OandaFeeds THEN "fx" ELSE "crypto"

\* Mutant: the event is sent to the position monitor again with the exits.
HandlePriceEventTwice ==
  \E firing, exiting \in SUBSET (Slots \ DisabledSlots) :
    /\ Take("engine", Repeat(1 + Cardinality(exiting),
                            <<MonitorChannel(Message("engine")), Message("engine")>>)
                      \o Repeat(Cardinality(firing), <<"signal", Token>>))
    /\ UNCHANGED <<feed, stopFill, eventVars, mainVars>>

\* Engine: the event goes to the position monitor first; then the enabled
\* strategies are asked in turn, each signal being sent before the next one
\* is asked; the exits of all of them are sent at the end.
HandlePriceEvent ==
  \E firing, exiting \in SUBSET (Slots \ DisabledSlots) :
    /\ Take("engine", <<<<MonitorChannel(Message("engine")), Message("engine")>>>>
                      \o Repeat(Cardinality(firing), <<"signal", Token>>)
                      \o Repeat(Cardinality(exiting), <<"exit", Token>>))
    /\ UNCHANGED <<feed, stopFill, eventVars, mainVars>>

-----------------------------------------------------------------------------
(* Monitors, executors and recorder                                        *)

\* The FX drain takes the event and does nothing with it.
FxDrain ==
  /\ Take("fxDrain", <<>>)
  /\ seen' = [seen EXCEPT ![Message("fxDrain").feed] = Append(@, Message("fxDrain").n)]
  /\ UNCHANGED <<feed, stopFill, published, owed, lost, mainVars>>

\* The position monitor takes the event and may close a trade.
ProcessPriceEvent ==
  \E n \in 0..1 :
    /\ Take("cryptoMonitor", Repeat(n, <<"trade", Token>>))
    /\ seen' = [seen EXCEPT ![Message("cryptoMonitor").feed] = Append(@, Message("cryptoMonitor").n)]
    /\ owed' = owed + n
    /\ UNCHANGED <<feed, stopFill, published, lost, mainVars>>

\* The executor takes a signal and may open a trade for an account.
ProcessSignal ==
  \E n \in 0..1 :
    /\ Take("executor", Repeat(n, <<"trade", Token>>))
    /\ owed' = owed + n
    /\ UNCHANGED <<feed, stopFill, published, seen, lost, mainVars>>

\* The exit executor takes an exit; the trade may be closed already.
ProcessExit ==
  \E n \in 0..1 :
    /\ Take("exitExecutor", Repeat(n, <<"trade", Token>>))
    /\ owed' = owed + n
    /\ UNCHANGED <<feed, stopFill, published, seen, lost, mainVars>>

Record ==
  /\ Take("recorder", <<>>)
  /\ owed' = owed - 1
  /\ UNCHANGED <<feed, stopFill, published, seen, lost, mainVars>>

\* Task t sends the next message it owes; it is dropped when the reader is gone.
Deliver(c, m) ==
  IF HasReader(c) THEN Room(c) /\ q' = [q EXCEPT ![c] = Append(@, m)]
                  ELSE UNCHANGED q

Send(t) ==
  /\ Alive /\ task[t] = "running" /\ out[t] # <<>>
  /\ Deliver(Head(out[t])[1], Head(out[t])[2])
  /\ out' = [out EXCEPT ![t] = Tail(@)]
  /\ UNCHANGED <<task, feed, stopFill, eventVars, mainVars>>

\* The stop-fill loop closes a trade whose stop was filled, then publishes.
StopFillCloses ==
  /\ Alive /\ stopFill = "idle"
  /\ stopFill' = "closed"
  /\ owed' = owed + 1
  /\ UNCHANGED <<taskVars, feed, published, seen, lost, mainVars>>

StopFillPublishes ==
  /\ Alive /\ stopFill = "closed"
  /\ Deliver("trade", Token)
  /\ stopFill' = "idle"
  /\ UNCHANGED <<task, out, feed, eventVars, mainVars>>

\* Every task that owns a sender of channel c has dropped it.
Ended(t) == task[t] # "running"

\* Mutant: shutdown keeps the trade sender of main.
SendersGoneButMain(c) == c \in {"fx", "crypto", "signal", "exit"} /\ Ended("engine")

SendersGone(c) ==
  CASE c = "price" -> main = "draining" /\ \A f \in Feeds : feed[f] = "stopped"
    [] c = "trade" -> /\ main = "draining" /\ stopFill = "stopped"
                      /\ Ended("cryptoMonitor") /\ Ended("executor") /\ Ended("exitExecutor")
    [] OTHER -> Ended("engine")

\* A task whose input has ended returns.
Finish(t) ==
  /\ Receiving(t) /\ q[Input[t]] = <<>> /\ SendersGone(Input[t])
  /\ task' = [task EXCEPT ![t] = "done"]
  /\ UNCHANGED <<q, out, feed, stopFill, eventVars, mainVars>>

\* A task panics: nobody restarts it; its channel loses its reader.
Panic(t) ==
  /\ Alive /\ t \in MayPanic /\ task[t] = "running"
  /\ task' = [task EXCEPT ![t] = "dead"]
  /\ q' = [q EXCEPT ![Input[t]] = <<>>]
  /\ out' = [out EXCEPT ![t] = <<>>]
  /\ UNCHANGED <<feed, stopFill, eventVars, mainVars>>
-----------------------------------------------------------------------------
(* Shutdown                                                                *)

\* Ctrl+C: main drops its senders and requests the aborts.
Shutdown ==
  /\ main = "running"
  /\ main' = "draining"
  /\ UNCHANGED <<taskVars, feed, stopFill, eventVars, timedOut>>

\* An abort takes effect at the next suspension point of the task.
AbortFeed(f) ==
  /\ main = "draining" /\ feed[f] = "running"
  /\ feed' = [feed EXCEPT ![f] = "stopped"]
  /\ UNCHANGED <<taskVars, stopFill, eventVars, mainVars>>

AbortStopFill ==
  /\ main = "draining" /\ stopFill # "stopped"
  /\ lost' = IF stopFill = "closed" THEN lost + 1 ELSE lost
  /\ owed' = IF stopFill = "closed" THEN owed - 1 ELSE owed
  /\ stopFill' = "stopped"
  /\ UNCHANGED <<taskVars, feed, published, seen, mainVars>>

\* Mutant: main awaits the engine only.
DrainedEngine ==
  /\ main = "draining" /\ Ended("engine")
  /\ main' = "exited"
  /\ UNCHANGED <<taskVars, feed, stopFill, eventVars, timedOut>>

\* main has awaited every pipeline task.
Drained ==
  /\ main = "draining" /\ \A t \in Tasks : Ended(t)
  /\ main' = "exited"
  /\ UNCHANGED <<taskVars, feed, stopFill, eventVars, timedOut>>

\* The timeout: main returns, and the runtime drops every task where it is.
DrainTimeout ==
  /\ main = "draining"
  /\ main' = "exited" /\ timedOut' = TRUE
  /\ q' = [c \in Chans |-> <<>>]
  /\ out' = [t \in Tasks |-> <<>>]
  /\ task' = [t \in Tasks |-> "dead"]
  /\ feed' = [f \in Feeds |-> "stopped"]
  /\ stopFill' = "stopped"
  /\ UNCHANGED eventVars
-----------------------------------------------------------------------------
Handle(t) ==
  \/ t = "engine" /\ HandlePriceEvent
  \/ t = "fxDrain" /\ FxDrain
  \/ t = "cryptoMonitor" /\ ProcessPriceEvent
  \/ t = "executor" /\ ProcessSignal
  \/ t = "exitExecutor" /\ ProcessExit
  \/ t = "recorder" /\ Record

Step(t) == Handle(t) \/ Send(t) \/ Finish(t)

Next ==
  \/ \E f \in Feeds : PublishPrice(f) \/ FeedFindsPriceClosed(f) \/ AbortFeed(f)
  \/ \E t \in Tasks : Step(t) \/ Panic(t)
  \/ StopFillCloses \/ StopFillPublishes
  \/ Shutdown \/ AbortStopFill \/ Drained \/ DrainTimeout

Spec == Init /\ [][Next]_vars

\* Tokio keeps polling a task that can make progress, and a sender that waits
\* for room is served in turn.  Nothing is assumed of the feeds, of panics,
\* of Ctrl+C or of the timeout.
Fairness ==
  /\ \A t \in Tasks : WF_vars(Step(t))
  /\ \A f \in Feeds : WF_vars(AbortFeed(f))
  /\ WF_vars(StopFillPublishes) /\ WF_vars(AbortStopFill)

FairSpec == Spec /\ Fairness
-----------------------------------------------------------------------------
(* Properties                                                              *)

Dead == {t \in Tasks : task[t] = "dead"}

\* Every trade event that was owed is recorded when the process exits after a
\* complete drain with no task dead, except the one of a stop-fill close that
\* the abort interrupted between the close and its report.
CleanShutdown ==
  (main = "exited" /\ ~timedOut /\ Dead = {}) =>
    /\ \A c \in Chans : q[c] = <<>>
    /\ owed = 0
    /\ lost <= 1
    /\ \A f \in Feeds : Len(seen[f]) = published[f]

\* The position monitors see the events of every feed as EventStream says,
\* through two bounded channels, panics and shutdown.
Stream == INSTANCE EventStream WITH Feeds <- Feeds, published <- published, seen <- seen
MonitorsSeeTheStream == Stream!Spec

\* The drain ends by itself: no cycle of full channels and no sender left
\* behind keeps a task waiting.
DrainTerminates ==
  main = "draining" ~> (\A t \in Tasks : Ended(t)) \/ timedOut
=============================================================================
