--------------------------- MODULE PipelineProofs ---------------------------
(***************************************************************************)
(* Proofs about the price pipeline, for every set of feeds and strategies, *)
(* every capacity of the channels, every set of tasks that may die and any *)
(* number of events: the position monitors see the stream of each feed as  *)
(* EventStream says, and a complete drain leaves nothing behind.  Then,    *)
(* about a strategy that trades on the prices: it sees what happened.  At  *)
(* last, about the feeds at the other end: candles, indicators and price   *)
(* store tell what has been received.                                      *)
(*                                                                         *)
(* The stream needs to know where the events are that a feed published and *)
(* its monitor has not seen: the oldest in the channel of the monitor, the *)
(* next one in the hands of the engine, the rest in the price channel.     *)
(***************************************************************************)
EXTENDS Pipeline, FxStrategy, CandleFeed, Integers, FiniteSetTheorems, SequenceTheorems,
  WellFoundedInduction, TLAPS

Events == [feed : Feeds, n : Nat]
PriceChans == {"price", "fx", "crypto"}
Monitors == {"fx", "crypto"}
Traders == {"cryptoMonitor", "executor", "exitExecutor"}

(* The channel and the task that the events of a feed go to.               *)
ChannelOf(f) == IF f \in OandaFeeds THEN "fx" ELSE "crypto"
MonitorOf(f) == IF f \in OandaFeeds THEN "fxDrain" ELSE "cryptoMonitor"

(* Event number n of feed f is in the sequence s.                          *)
Has(s, f, n) == \E i \in DOMAIN s : s[i].feed = f /\ s[i].n = n

(* The events of a feed are in order.                                      *)
Increasing(s) == \A i, j \in DOMAIN s : i < j /\ s[i].feed = s[j].feed => s[i].n < s[j].n

(* The engine has the event in its hands and not yet sent it on.           *)
Held(f, n) ==
  /\ out["engine"] # <<>> /\ out["engine"][1][1] \in Monitors
  /\ out["engine"][1][2].feed = f /\ out["engine"][1][2].n = n

(* The types, with numbers of events that have no bound.                   *)
PipeTypes ==
  /\ q \in [Chans -> Seq(Events \cup {Token})]
  /\ \A c \in PriceChans : q[c] \in Seq(Events)
  /\ task \in [Tasks -> {"running", "done", "dead"}]
  /\ out \in [Tasks -> Seq(Chans \X (Events \cup {Token}))]
  /\ feed \in [Feeds -> {"running", "stopped"}]
  /\ published \in [Feeds -> Nat] /\ seen \in [Feeds -> Seq(Nat)]
  /\ owed \in Int /\ lost \in Int

(* What each task may have to send: the engine an event first and then     *)
(* signals and exits, the tasks that trade their trade events.             *)
OutInv ==
  /\ \A i \in DOMAIN out["engine"] :
       \/ /\ i = 1 /\ out["engine"][i][1] \in Monitors /\ out["engine"][i][2] \in Events
          /\ out["engine"][i][1] = ChannelOf(out["engine"][i][2].feed)
       \/ out["engine"][i][1] \in {"signal", "exit"} /\ out["engine"][i][2] = Token
  /\ \A t \in Traders : \A i \in DOMAIN out[t] : out[t][i] = <<"trade", Token>>
  /\ out["fxDrain"] = <<>> /\ out["recorder"] = <<>>
  /\ \A t \in Tasks : task[t] # "running" => out[t] = <<>>

(* A monitor gets the events of its own feeds only, events are in order in *)
(* every channel, and nothing is in the price channel before it was        *)
(* published.                                                              *)
RouteInv ==
  /\ \A c \in Monitors : \A i \in DOMAIN q[c] : ChannelOf(q[c][i].feed) = c
  /\ \A c \in PriceChans : Increasing(q[c])
  /\ \A i \in DOMAIN q["price"] : q["price"][i].n <= published[q["price"][i].feed]

(* Where the events of a feed are: those up to the number a in the channel *)
(* of its monitor, from there to b with the engine, the rest in the price  *)
(* channel. What is upstream of a dead engine is lost.                     *)
Placed(f, a, b) ==
  /\ Len(seen[f]) <= a /\ a <= b /\ b <= published[f]
  /\ \A n \in Nat : Has(q[ChannelOf(f)], f, n) <=> (Len(seen[f]) < n /\ n <= a)
  /\ task["engine"] # "dead" =>
       /\ \A n \in Nat : Held(f, n) <=> (a < n /\ n <= b)
       /\ \A n \in Nat : Has(q["price"], f, n) <=> (b < n /\ n <= published[f])

StreamInv ==
  \A f \in Feeds : task[MonitorOf(f)] # "dead" => \E a, b \in Nat : Placed(f, a, b)

(* A task that is done had nothing left to take, and no one to send more.  *)
DoneInv ==
  /\ \A t \in Tasks : task[t] = "done" => q[Input[t]] = <<>>
  /\ task["engine"] = "done" => main # "running" /\ \A f \in Feeds : feed[f] = "stopped"
  /\ \A t \in {"fxDrain", "cryptoMonitor", "executor", "exitExecutor"} :
       task[t] = "done" => task["engine"] # "running"
  /\ task["recorder"] = "done" =>
       stopFill = "stopped" /\ \A t \in Traders : task[t] # "running"
  /\ stopFill = "stopped" => main # "running"
  /\ main = "exited" => \A t \in Tasks : task[t] # "running"

(* The trade events that are in the trade channel, with the tasks that     *)
(* send them and with the stop-fill loop.                                  *)
Unsent == IF stopFill = "closed" THEN 1 ELSE 0
Waiting ==
  Len(q["trade"]) + Len(out["cryptoMonitor"]) + Len(out["executor"]) + Len(out["exitExecutor"]) + Unsent

(* Every trade event that is owed is waiting; after a panic there may be   *)
(* more that are owed and will never arrive. One event at most is lost to  *)
(* the abort of the stop-fill loop.                                        *)
OwedInv ==
  /\ owed >= Waiting
  /\ Dead = {} => owed = Waiting
  /\ lost <= (IF stopFill = "stopped" THEN 1 ELSE 0)

(* The inductive invariant.                                                *)
PipeInv == PipeTypes /\ OutInv /\ RouteInv /\ StreamInv /\ DoneInv /\ OwedInv

-----------------------------------------------------------------------------
(* The channel that each task reads, and the reader of each channel.       *)
LEMMA InputIs ==
  /\ Input["engine"] = "price" /\ Input["fxDrain"] = "fx" /\ Input["cryptoMonitor"] = "crypto"
  /\ Input["executor"] = "signal" /\ Input["exitExecutor"] = "exit" /\ Input["recorder"] = "trade"
BY DEF Input

(* The task that reads each channel.                                       *)
LEMMA ReaderIs ==
  /\ Reader("price") = "engine" /\ Reader("fx") = "fxDrain" /\ Reader("crypto") = "cryptoMonitor"
  /\ Reader("signal") = "executor" /\ Reader("exit") = "exitExecutor" /\ Reader("trade") = "recorder"
BY InputIs DEF Reader, Tasks

(* The fields of an event.                                                 *)
LEMMA EventFields == \A e \in Events : e.feed \in Feeds /\ e.n \in Nat
BY DEF Events

(* An event that is sent joins the channel and changes nothing else.       *)
LEMMA HasAppend ==
  ASSUME NEW s \in Seq(Events), NEW e \in Events, NEW f, NEW n
  PROVE  /\ Append(s, e) \in Seq(Events)
         /\ Has(Append(s, e), f, n) <=> Has(s, f, n) \/ (e.feed = f /\ e.n = n)
<1>1. /\ Append(s, e) \in Seq(Events) /\ Len(Append(s, e)) = Len(s) + 1
      /\ \A i \in 1..Len(s) : Append(s, e)[i] = s[i]
      /\ Append(s, e)[Len(s) + 1] = e
  OBVIOUS
<1>2. DOMAIN s = 1..Len(s) /\ Len(s) \in Nat /\ DOMAIN Append(s, e) = 1..(Len(s) + 1)
  BY <1>1
<1>3. ASSUME Has(Append(s, e), f, n), ~(e.feed = f /\ e.n = n) PROVE Has(s, f, n)
  <2>1. PICK i \in 1..(Len(s) + 1) : Append(s, e)[i].feed = f /\ Append(s, e)[i].n = n
    BY <1>2, <1>3 DEF Has
  <2>2. i # Len(s) + 1
    BY <1>1, <1>3, <2>1
  <2>3. i \in 1..Len(s)
    BY <1>2, <2>2
  <2> QED BY <1>1, <1>2, <2>1, <2>3 DEF Has
<1>4. ASSUME Has(s, f, n) PROVE Has(Append(s, e), f, n)
  <2>1. PICK i \in 1..Len(s) : s[i].feed = f /\ s[i].n = n
    BY <1>2, <1>4 DEF Has
  <2>2. i \in 1..(Len(s) + 1)
    BY <1>2
  <2> QED BY <1>1, <1>2, <2>1, <2>2 DEF Has
<1>5. ASSUME e.feed = f, e.n = n PROVE Has(Append(s, e), f, n)
  <2>1. Len(s) + 1 \in 1..(Len(s) + 1)
    BY <1>2
  <2> QED BY <1>1, <1>2, <1>5, <2>1 DEF Has
<1> QED BY <1>1, <1>3, <1>4, <1>5

(* What is taken from a channel is its oldest event of the feed, and it is *)
(* gone then.                                                              *)
LEMMA HasTail ==
  ASSUME NEW s \in Seq(Events), s # <<>>, Increasing(s), NEW f, NEW n
  PROVE  /\ Tail(s) \in Seq(Events) /\ Head(s) \in Events
         /\ Has(Tail(s), f, n) <=> Has(s, f, n) /\ ~(Head(s).feed = f /\ Head(s).n = n)
         /\ Has(s, Head(s).feed, Head(s).n)
         /\ Has(s, Head(s).feed, n) => Head(s).n <= n
<1>1. /\ Tail(s) \in Seq(Events) /\ Head(s) \in Events /\ Head(s) = s[1]
      /\ Len(Tail(s)) = Len(s) - 1 /\ Len(s) \in Nat /\ Len(s) >= 1
      /\ \A i \in 1..(Len(s) - 1) : Tail(s)[i] = s[i + 1]
  OBVIOUS
<1>2. DOMAIN s = 1..Len(s) /\ DOMAIN Tail(s) = 1..(Len(s) - 1) /\ 1 \in 1..Len(s)
  BY <1>1
<1>3. \A i \in 1..Len(s) : s[i] \in Events /\ s[i].n \in Nat
  <2>1. \A i \in 1..Len(s) : s[i] \in Events
    BY <1>2
  <2> QED BY <2>1, EventFields
<1>4. \A j \in 2..Len(s) : s[1].feed = s[j].feed => s[1].n < s[j].n
  BY <1>1, <1>2 DEF Increasing
<1>5. ASSUME Has(Tail(s), f, n)
      PROVE  Has(s, f, n) /\ ~(Head(s).feed = f /\ Head(s).n = n)
  <2>1. PICK i \in 1..(Len(s) - 1) : Tail(s)[i].feed = f /\ Tail(s)[i].n = n
    BY <1>2, <1>5 DEF Has
  <2>2. i + 1 \in 2..Len(s) /\ i + 1 \in 1..Len(s) /\ s[i + 1].feed = f /\ s[i + 1].n = n
    BY <1>1, <2>1
  <2>3. Has(s, f, n)
    BY <1>2, <2>2 DEF Has
  <2>4. s[1].feed = f => s[1].n < n
    BY <1>4, <2>2
  <2> QED BY <1>1, <1>2, <1>3, <2>2, <2>3, <2>4
<1>6. ASSUME Has(s, f, n), ~(Head(s).feed = f /\ Head(s).n = n)
      PROVE  Has(Tail(s), f, n)
  <2>1. PICK i \in 1..Len(s) : s[i].feed = f /\ s[i].n = n
    BY <1>2, <1>6 DEF Has
  <2>2. i # 1
    BY <1>1, <1>6, <2>1
  <2>3. i - 1 \in 1..(Len(s) - 1) /\ (i - 1) + 1 = i
    BY <1>1, <2>2
  <2>4. Tail(s)[i - 1] = s[i]
    BY <1>1, <2>3
  <2> QED BY <1>2, <2>1, <2>3, <2>4 DEF Has
<1>7. Has(s, Head(s).feed, Head(s).n)
  BY <1>1, <1>2 DEF Has
<1>8. ASSUME Has(s, Head(s).feed, n) PROVE Head(s).n <= n
  <2>1. PICK i \in 1..Len(s) : s[i].feed = s[1].feed /\ s[i].n = n
    BY <1>1, <1>2, <1>8 DEF Has
  <2> QED BY <1>1, <1>2, <1>3, <1>4, <2>1
<1> QED BY <1>1, <1>5, <1>6, <1>7, <1>8

(* Taking an event keeps the order, and so does sending one that is newer  *)
(* than those of its feed in the channel.                                  *)
LEMMA IncreasingTail ==
  ASSUME NEW s \in Seq(Events), s # <<>>, Increasing(s)
  PROVE  Increasing(Tail(s))
<1>1. /\ Len(Tail(s)) = Len(s) - 1 /\ Len(s) \in Nat /\ Len(s) >= 1 /\ Tail(s) \in Seq(Events)
      /\ \A i \in 1..(Len(s) - 1) : Tail(s)[i] = s[i + 1]
  OBVIOUS
<1>2. DOMAIN s = 1..Len(s) /\ DOMAIN Tail(s) = 1..(Len(s) - 1)
  BY <1>1
<1> SUFFICES ASSUME NEW i \in 1..(Len(s) - 1), NEW j \in 1..(Len(s) - 1), i < j,
                    Tail(s)[i].feed = Tail(s)[j].feed
             PROVE  Tail(s)[i].n < Tail(s)[j].n
  BY <1>2 DEF Increasing
<1>3. i + 1 \in DOMAIN s /\ j + 1 \in DOMAIN s /\ i + 1 < j + 1
  BY <1>1, <1>2
<1> QED BY <1>1, <1>3 DEF Increasing

(* A channel stays in the order of its feeds when a later event joins it.  *)
LEMMA IncreasingAppend ==
  ASSUME NEW s \in Seq(Events), NEW e \in Events, Increasing(s),
         \A n \in Nat : Has(s, e.feed, n) => n < e.n
  PROVE  Increasing(Append(s, e))
<1>1. /\ Append(s, e) \in Seq(Events) /\ Len(Append(s, e)) = Len(s) + 1
      /\ \A i \in 1..Len(s) : Append(s, e)[i] = s[i]
      /\ Append(s, e)[Len(s) + 1] = e
  OBVIOUS
<1>2. DOMAIN s = 1..Len(s) /\ Len(s) \in Nat /\ DOMAIN Append(s, e) = 1..(Len(s) + 1)
  BY <1>1
<1>3. \A i \in 1..Len(s) : s[i].n \in Nat
  <2>1. \A i \in 1..Len(s) : s[i] \in Events
    BY <1>2
  <2> QED BY <2>1, EventFields
<1>4. \A i \in 1..Len(s) : s[i].feed = e.feed => s[i].n < e.n
  BY <1>2, <1>3 DEF Has
<1> SUFFICES ASSUME NEW i \in 1..(Len(s) + 1), NEW j \in 1..(Len(s) + 1), i < j,
                    Append(s, e)[i].feed = Append(s, e)[j].feed
             PROVE  Append(s, e)[i].n < Append(s, e)[j].n
  BY <1>2 DEF Increasing
<1>5. i \in 1..Len(s)
  BY <1>2
<1>6. CASE j = Len(s) + 1
  BY <1>1, <1>4, <1>5, <1>6
<1>7. CASE j \in 1..Len(s)
  BY <1>1, <1>2, <1>5, <1>7 DEF Increasing
<1> QED BY <1>2, <1>6, <1>7

-----------------------------------------------------------------------------
Messages == Chans \X (Events \cup {Token})

(* What the engine owes for an event: the event, then signals, then exits. *)
EngineOwes(e, k, l) ==
  <<<<ChannelOf(e.feed), e>>>> \o Repeat(k, <<"signal", Token>>) \o Repeat(l, <<"exit", Token>>)

(* The event comes first, and every other message is a signal or an exit.  *)
LEMMA EngineOwesIs ==
  ASSUME NEW e \in Events, NEW k \in Nat, NEW l \in Nat
  PROVE  /\ EngineOwes(e, k, l) \in Seq(Messages)
         /\ EngineOwes(e, k, l) # <<>> /\ EngineOwes(e, k, l)[1] = <<ChannelOf(e.feed), e>>
         /\ \A i \in DOMAIN EngineOwes(e, k, l) :
              i = 1 \/ EngineOwes(e, k, l)[i] \in {<<"signal", Token>>, <<"exit", Token>>}
<1> DEFINE m == <<ChannelOf(e.feed), e>>
           a == <<m>>
           b == Repeat(k, <<"signal", Token>>)
           c == Repeat(l, <<"exit", Token>>)
<1>1. m \in Messages /\ <<"signal", Token>> \in Messages /\ <<"exit", Token>> \in Messages
  BY EventFields DEF Messages, Chans, ChannelOf
<1>2. a \in Seq(Messages) /\ Len(a) = 1 /\ a[1] = m
  BY <1>1
<1>3. b \in Seq(Messages) /\ Len(b) = k /\ \A i \in 1..k : b[i] = <<"signal", Token>>
  BY <1>1 DEF Repeat
<1>4. c \in Seq(Messages) /\ Len(c) = l /\ \A i \in 1..l : c[i] = <<"exit", Token>>
  BY <1>1 DEF Repeat
<1> HIDE DEF m, a, b, c
<1>5. /\ a \o b \in Seq(Messages) /\ Len(a \o b) = 1 + k
      /\ \A i \in 1..(1 + k) : (a \o b)[i] = IF i <= 1 THEN a[i] ELSE b[i - 1]
  <2>1. /\ a \o b \in Seq(Messages) /\ Len(a \o b) = Len(a) + Len(b)
        /\ \A i \in 1..Len(a) + Len(b) : (a \o b)[i] = IF i <= Len(a) THEN a[i] ELSE b[i - Len(a)]
    BY <1>2, <1>3, ConcatProperties, Zenon
  <2> QED BY <1>2, <1>3, <2>1
<1>6. /\ (a \o b) \o c \in Seq(Messages) /\ Len((a \o b) \o c) = 1 + k + l
      /\ \A i \in 1..(1 + k + l) : ((a \o b) \o c)[i] = IF i <= 1 + k THEN (a \o b)[i] ELSE c[i - (1 + k)]
  <2> DEFINE d == a \o b
  <2>1. d \in Seq(Messages) /\ Len(d) = 1 + k
    BY <1>5
  <2> HIDE DEF d
  <2>2. /\ d \o c \in Seq(Messages) /\ Len(d \o c) = Len(d) + Len(c)
        /\ \A i \in 1..Len(d) + Len(c) : (d \o c)[i] = IF i <= Len(d) THEN d[i] ELSE c[i - Len(d)]
    BY <1>4, <2>1, ConcatProperties, Zenon
  <2>3. /\ d \o c \in Seq(Messages) /\ Len(d \o c) = 1 + k + l
        /\ \A i \in 1..(1 + k + l) : (d \o c)[i] = IF i <= 1 + k THEN d[i] ELSE c[i - (1 + k)]
    BY <1>4, <2>1, <2>2
  <2> QED BY <2>3 DEF d
<1>7. EngineOwes(e, k, l) = (a \o b) \o c
  BY DEF EngineOwes, m, a, b, c
<1>8. DOMAIN ((a \o b) \o c) = 1..(1 + k + l) /\ 1 \in 1..(1 + k + l) /\ 1 \in 1..(1 + k)
  BY <1>6
<1>9. ((a \o b) \o c)[1] = m
  BY <1>2, <1>5, <1>6, <1>8
<1>10. ASSUME NEW i \in 1..(1 + k + l), i # 1
       PROVE  ((a \o b) \o c)[i] \in {<<"signal", Token>>, <<"exit", Token>>}
  <2>1. CASE i <= 1 + k
    <3>1. i - 1 \in 1..k /\ i \in 1..(1 + k) /\ ~(i <= 1)
      BY <1>10, <2>1
    <3> QED BY <1>3, <1>5, <1>6, <2>1, <3>1
  <2>2. CASE ~(i <= 1 + k)
    <3>1. i - (1 + k) \in 1..l
      BY <2>2
    <3> QED BY <1>4, <1>6, <2>2, <3>1
  <2> QED BY <2>1, <2>2
<1>11. (a \o b) \o c # <<>>
  BY <1>6
<1> QED BY <1>6, <1>7, <1>8, <1>9, <1>10, <1>11 DEF m

(* What a task that trades owes for a message: one trade event or none.    *)
LEMMA RepeatIs ==
  ASSUME NEW n \in 0..1
  PROVE  /\ Repeat(n, <<"trade", Token>>) \in Seq(Messages)
         /\ Len(Repeat(n, <<"trade", Token>>)) = n
         /\ \A i \in DOMAIN Repeat(n, <<"trade", Token>>) : Repeat(n, <<"trade", Token>>)[i] = <<"trade", Token>>
<1>1. <<"trade", Token>> \in Messages
  BY DEF Messages, Chans
<1> QED BY <1>1 DEF Repeat

(* HandlePriceEvent with names for its parts.                              *)
LEMMA EngineTakes ==
  ASSUME PipeTypes, HandlePriceEvent
  PROVE  /\ Alive /\ task["engine"] = "running" /\ out["engine"] = <<>>
         /\ q["price"] # <<>> /\ Head(q["price"]) \in Events
         /\ q' = [q EXCEPT !["price"] = Tail(@)]
         /\ \E k, l \in Nat : out' = [out EXCEPT !["engine"] = EngineOwes(Head(q["price"]), k, l)]
         /\ UNCHANGED <<task, feed, stopFill, published, seen, owed, lost, main, timedOut>>
<1>1. PICK firing, exiting \in SUBSET (Slots \ DisabledSlots) :
        /\ Take("engine", <<<<MonitorChannel(Message("engine")), Message("engine")>>>>
                          \o Repeat(Cardinality(firing), <<"signal", Token>>)
                          \o Repeat(Cardinality(exiting), <<"exit", Token>>))
        /\ UNCHANGED <<feed, stopFill, eventVars, mainVars>>
  BY DEF HandlePriceEvent
<1>2. Cardinality(firing) \in Nat /\ Cardinality(exiting) \in Nat
  BY FeedAssumption, FS_Subset, FS_CardinalityType
<1>3. q["price"] # <<>> /\ q["price"] \in Seq(Events) /\ Message("engine") = Head(q["price"])
  BY <1>1, InputIs DEF Take, Message, PipeTypes, PriceChans
<1>4. Head(q["price"]) \in Events
  BY <1>3
<1>5. out' = [out EXCEPT !["engine"] = EngineOwes(Head(q["price"]), Cardinality(firing), Cardinality(exiting))]
  BY <1>1, <1>3 DEF Take, EngineOwes, MonitorChannel, ChannelOf
<1> QED BY <1>1, <1>2, <1>3, <1>4, <1>5, InputIs DEF Take, Receiving, eventVars, mainVars

(* The steps of the tasks that trade, with names for their parts.          *)
TraderTakes(t, n) ==
  /\ Alive /\ task[t] = "running" /\ out[t] = <<>> /\ q[Input[t]] # <<>>
  /\ q' = [q EXCEPT ![Input[t]] = Tail(@)]
  /\ out' = [out EXCEPT ![t] = Repeat(n, <<"trade", Token>>)]
  /\ owed' = owed + n
  /\ UNCHANGED <<task, feed, stopFill, published, lost, main, timedOut>>

(* The crypto monitor and both executors take a message this way.          *)
LEMMA TraderTakesIs ==
  /\ ProcessPriceEvent =>
       /\ \E n \in 0..1 : TraderTakes("cryptoMonitor", n)
       /\ LET e == Head(q["crypto"]) IN seen' = [seen EXCEPT ![e.feed] = Append(@, e.n)]
  /\ ProcessSignal => UNCHANGED seen /\ \E n \in 0..1 : TraderTakes("executor", n)
  /\ ProcessExit => UNCHANGED seen /\ \E n \in 0..1 : TraderTakes("exitExecutor", n)
BY InputIs DEF ProcessPriceEvent, ProcessSignal, ProcessExit, Take, Receiving, TraderTakes, Message, mainVars

(* The steps of the tasks that send nothing on.                            *)
SinkTakes(t) ==
  /\ Alive /\ task[t] = "running" /\ out[t] = <<>> /\ q[Input[t]] # <<>>
  /\ q' = [q EXCEPT ![Input[t]] = Tail(@)]
  /\ out' = [out EXCEPT ![t] = <<>>]
  /\ UNCHANGED <<task, feed, stopFill, published, lost, main, timedOut>>

(* The FX drain and the recorder take a message this way.                  *)
LEMMA SinkTakesIs ==
  /\ FxDrain => /\ SinkTakes("fxDrain") /\ UNCHANGED owed
                /\ LET e == Head(q["fx"]) IN seen' = [seen EXCEPT ![e.feed] = Append(@, e.n)]
  /\ Record => SinkTakes("recorder") /\ UNCHANGED seen /\ owed' = owed - 1
BY InputIs DEF FxDrain, Record, Take, Receiving, SinkTakes, Message, mainVars

(* The steps that leave channels, tasks and events alone.                  *)
Aside == UNCHANGED <<q, task, out, published, seen>>

(* A feed that stops, an order of main and a stop-fill close are such steps.*)
LEMMA AsideIs ==
  ASSUME \/ \E f \in Feeds : FeedFindsPriceClosed(f) \/ AbortFeed(f)
         \/ StopFillCloses \/ Shutdown \/ AbortStopFill \/ Drained
  PROVE  Aside
BY DEF FeedFindsPriceClosed, AbortFeed, StopFillCloses, Shutdown, AbortStopFill, Drained, Aside,
       taskVars, eventVars, mainVars

(* Every step keeps the types.                                             *)
LEMMA TypesStep ==
  ASSUME PipeTypes, OutInv, Next
  PROVE  PipeTypes'
<1> USE DEF PipeTypes
<1>0. Chans \X (Events \cup {Token}) = Messages
  BY DEF Messages
<1>1. CASE \E f \in Feeds : PublishPrice(f)
  <2>1. PICK f \in Feeds : PublishPrice(f)
    BY <1>1
  <2> DEFINE e == [feed |-> f, n |-> published[f] + 1]
  <2>2. e \in Events
    BY DEF Events
  <2>3. /\ q' = [q EXCEPT !["price"] = Append(@, e)] /\ published' = [published EXCEPT ![f] = @ + 1]
        /\ UNCHANGED <<task, out, feed, seen, owed, lost>>
    BY <2>1 DEF PublishPrice
  <2> HIDE DEF e
  <2>4. Append(q["price"], e) \in Seq(Events) /\ Append(q["price"], e) \in Seq(Events \cup {Token})
    BY <2>2 DEF PriceChans, Chans
  <2>5. "price" \in Chans
    BY DEF Chans
  <2>6. q' \in [Chans -> Seq(Events \cup {Token})] /\ \A c \in PriceChans : q'[c] \in Seq(Events)
    BY <2>3, <2>4, <2>5 DEF PriceChans, Chans
  <2>7. published' \in [Feeds -> Nat]
    BY <2>3
  <2> QED BY <2>3, <2>6, <2>7
<1>2. CASE \E f \in Feeds : FeedFindsPriceClosed(f) \/ AbortFeed(f)
  BY <1>2 DEF FeedFindsPriceClosed, AbortFeed, taskVars, eventVars
<1>3. CASE StopFillCloses \/ Shutdown \/ AbortStopFill \/ Drained
  BY <1>3 DEF StopFillCloses, Shutdown, AbortStopFill, Drained, taskVars, eventVars
<1>4. CASE StopFillPublishes
  <2>1. q' = q \/ q' = [q EXCEPT !["trade"] = Append(@, Token)]
    BY <1>4 DEF StopFillPublishes, Deliver
  <2>2. UNCHANGED <<task, out, feed, published, seen, owed, lost>>
    BY <1>4 DEF StopFillPublishes, eventVars
  <2>3. Append(q["trade"], Token) \in Seq(Events \cup {Token})
    BY DEF Chans
  <2> QED BY <2>1, <2>2, <2>3 DEF PriceChans, Chans
<1>5. CASE HandlePriceEvent
  <2>1. PICK k, l \in Nat : out' = [out EXCEPT !["engine"] = EngineOwes(Head(q["price"]), k, l)]
    BY <1>5, EngineTakes
  <2>2. EngineOwes(Head(q["price"]), k, l) \in Seq(Messages)
    BY <1>5, EngineTakes, EngineOwesIs
  <2>3. out' \in [Tasks -> Seq(Messages)]
    BY <1>0, <2>1, <2>2 DEF Tasks
  <2>4. Tail(q["price"]) \in Seq(Events) /\ Tail(q["price"]) \in Seq(Events \cup {Token})
    BY <1>5, EngineTakes DEF PriceChans, Chans
  <2>5. /\ q' = [q EXCEPT !["price"] = Tail(@)]
        /\ UNCHANGED <<task, feed, published, seen, owed, lost>>
    BY <1>5, EngineTakes
  <2>6. q' \in [Chans -> Seq(Events \cup {Token})]
    BY <2>4, <2>5
  <2>7. \A c \in PriceChans : q'[c] \in Seq(Events)
    BY <2>4, <2>5 DEF PriceChans, Chans
  <2> QED BY <1>0, <2>3, <2>5, <2>6, <2>7
<1>6. ASSUME NEW t \in Tasks, q[Input[t]] # <<>>, q' = [q EXCEPT ![Input[t]] = Tail(@)]
      PROVE  q' \in [Chans -> Seq(Events \cup {Token})] /\ \A c \in PriceChans : q'[c] \in Seq(Events)
  <2>1. Input[t] \in Chans
    BY InputIs DEF Tasks, Chans
  <2>2. Tail(q[Input[t]]) \in Seq(Events \cup {Token})
    BY <1>6, <2>1
  <2>3. Input[t] \in PriceChans => Tail(q[Input[t]]) \in Seq(Events)
    BY <1>6
  <2> QED BY <1>6, <2>1, <2>2, <2>3 DEF PriceChans, Chans
<1>7. ASSUME NEW t \in Traders, NEW n \in 0..1, TraderTakes(t, n)
      PROVE  /\ q' \in [Chans -> Seq(Events \cup {Token})] /\ \A c \in PriceChans : q'[c] \in Seq(Events)
             /\ out' \in [Tasks -> Seq(Messages)] /\ owed' \in Int
             /\ UNCHANGED <<task, feed, published, lost>>
  <2>1. t \in Tasks
    BY DEF Traders, Tasks
  <2>2. q[Input[t]] # <<>> /\ q' = [q EXCEPT ![Input[t]] = Tail(@)]
    BY <1>7 DEF TraderTakes
  <2>3. out' \in [Tasks -> Seq(Messages)]
    BY <1>0, <1>7, <2>1, RepeatIs DEF TraderTakes
  <2>4. q' \in [Chans -> Seq(Events \cup {Token})] /\ \A c \in PriceChans : q'[c] \in Seq(Events)
    BY <1>6, <2>1, <2>2
  <2>5. owed' \in Int /\ UNCHANGED <<task, feed, published, lost>>
    BY <1>7 DEF TraderTakes
  <2> QED BY <2>3, <2>4, <2>5
<1>8. ASSUME NEW t \in Tasks, SinkTakes(t)
      PROVE  /\ q' \in [Chans -> Seq(Events \cup {Token})] /\ \A c \in PriceChans : q'[c] \in Seq(Events)
             /\ out' \in [Tasks -> Seq(Messages)] /\ UNCHANGED <<task, feed, published, lost>>
  <2>1. q[Input[t]] # <<>> /\ q' = [q EXCEPT ![Input[t]] = Tail(@)]
    BY <1>8 DEF SinkTakes
  <2>2. out' \in [Tasks -> Seq(Messages)]
    BY <1>0, <1>8 DEF SinkTakes
  <2> QED BY <1>6, <1>8, <2>1, <2>2 DEF SinkTakes
<1>9. ASSUME NEW c \in Monitors, q[c] # <<>>,
             LET e == Head(q[c]) IN seen' = [seen EXCEPT ![e.feed] = Append(@, e.n)]
      PROVE  seen' \in [Feeds -> Seq(Nat)]
  <2>1. Head(q[c]) \in Events
    BY <1>9 DEF Monitors, PriceChans
  <2> QED BY <1>9, <2>1, EventFields
<1>10. CASE ProcessPriceEvent
  <2>1. PICK n \in 0..1 : TraderTakes("cryptoMonitor", n)
    BY <1>10, TraderTakesIs
  <2>2. seen' \in [Feeds -> Seq(Nat)]
    BY <1>9, <1>10, <2>1, TraderTakesIs, InputIs DEF TraderTakes, Monitors
  <2> QED BY <1>0, <1>7, <2>1, <2>2 DEF Traders
<1>11. CASE ProcessSignal
  <2>1. PICK n \in 0..1 : TraderTakes("executor", n)
    BY <1>11, TraderTakesIs
  <2> QED BY <1>0, <1>7, <1>11, <2>1, TraderTakesIs DEF Traders
<1>12. CASE ProcessExit
  <2>1. PICK n \in 0..1 : TraderTakes("exitExecutor", n)
    BY <1>12, TraderTakesIs
  <2> QED BY <1>0, <1>7, <1>12, <2>1, TraderTakesIs DEF Traders
<1>13. CASE FxDrain
  <2>1. SinkTakes("fxDrain") /\ UNCHANGED owed
    BY <1>13, SinkTakesIs
  <2>2. seen' \in [Feeds -> Seq(Nat)]
    BY <1>9, <1>13, <2>1, SinkTakesIs, InputIs DEF SinkTakes, Monitors
  <2> QED BY <1>0, <1>8, <2>1, <2>2 DEF Tasks
<1>14. CASE Record
  <2>1. SinkTakes("recorder") /\ UNCHANGED seen /\ owed' = owed - 1
    BY <1>14, SinkTakesIs
  <2>2. "recorder" \in Tasks
    BY DEF Tasks
  <2>3. owed' \in Int
    BY <2>1
  <2> QED BY <1>0, <1>8, <2>1, <2>2, <2>3
<1>15. ASSUME NEW t \in Tasks, Send(t)
       PROVE  PipeTypes'
  <2> DEFINE m == Head(out[t])
  <2>1. m \in Messages /\ m[1] \in Chans /\ m[2] \in Events \cup {Token}
    BY <1>15 DEF Send, Messages
  <2>2. m[1] \in PriceChans => m[2] \in Events
    <3>1. out[t] \in Seq(Messages) /\ out[t] # <<>> /\ 1 \in DOMAIN out[t] /\ m = out[t][1]
      BY <1>0, <1>15 DEF Send
    <3>2. CASE t = "engine"
      BY <3>1, <3>2 DEF OutInv, PriceChans
    <3>3. CASE t \in Traders
      <4>1. m = <<"trade", Token>>
        BY <3>1, <3>3 DEF OutInv
      <4> QED BY <4>1 DEF PriceChans
    <3>4. CASE t \in {"fxDrain", "recorder"}
      BY <3>1, <3>4 DEF OutInv
    <3> QED BY <3>2, <3>3, <3>4 DEF Tasks, Traders
  <2>3. q' = q \/ q' = [q EXCEPT ![m[1]] = Append(@, m[2])]
    BY <1>15 DEF Send, Deliver
  <2>4. out' \in [Tasks -> Seq(Messages)]
    BY <1>0, <1>15 DEF Send
  <2>5. UNCHANGED <<task, feed, published, seen, owed, lost>>
    BY <1>15 DEF Send, eventVars
  <2> HIDE DEF m
  <2>6. Append(q[m[1]], m[2]) \in Seq(Events \cup {Token})
    BY <2>1
  <2>7. m[1] \in PriceChans => Append(q[m[1]], m[2]) \in Seq(Events)
    BY <2>2
  <2>8. /\ q' \in [Chans -> Seq(Events \cup {Token})]
        /\ \A c \in PriceChans : q'[c] \in Seq(Events)
    <3>1. CASE q' = q
      BY <3>1
    <3>2. CASE q' = [q EXCEPT ![m[1]] = Append(@, m[2])]
      <4>1. q' \in [Chans -> Seq(Events \cup {Token})]
        BY <2>1, <2>6, <3>2
      <4>2. ASSUME NEW c \in PriceChans PROVE q'[c] \in Seq(Events)
        <5>1. c \in Chans
          BY DEF Chans, PriceChans
        <5>2. q'[c] = IF c = m[1] THEN Append(q[m[1]], m[2]) ELSE q[c]
          BY <3>2, <5>1
        <5> QED BY <2>7, <5>2
      <4> QED BY <4>1, <4>2
    <3> QED BY <2>3, <3>1, <3>2
  <2> QED BY <1>0, <2>4, <2>5, <2>8
<1>16. ASSUME NEW t \in Tasks, Finish(t)
       PROVE  PipeTypes'
  BY <1>16 DEF Finish, eventVars
<1>17. ASSUME NEW t \in Tasks, Panic(t)
       PROVE  PipeTypes'
  <2>1. Input[t] \in Chans
    BY InputIs DEF Tasks, Chans
  <2> QED BY <1>17, <2>1 DEF Panic, eventVars, PriceChans, Chans
<1>18. CASE DrainTimeout
  BY <1>18 DEF DrainTimeout, eventVars, PriceChans, Chans
<1> QED
  BY <1>1, <1>2, <1>3, <1>4, <1>5, <1>10, <1>11, <1>12, <1>13, <1>14, <1>15, <1>16, <1>17, <1>18
  DEF Next, Step, Handle

(* Every step keeps what the tasks owe in shape.                           *)
LEMMA OutStep ==
  ASSUME PipeTypes, OutInv, Next
  PROVE  OutInv'
<1>0. DOMAIN <<>> = {}
  OBVIOUS
<1>1. CASE UNCHANGED <<task, out>>
  BY <1>1 DEF OutInv
<1>2. CASE HandlePriceEvent
  <2>1. PICK k, l \in Nat : out' = [out EXCEPT !["engine"] = EngineOwes(Head(q["price"]), k, l)]
    BY <1>2, EngineTakes
  <2> DEFINE s == EngineOwes(Head(q["price"]), k, l)
  <2>2. /\ s[1] = <<ChannelOf(Head(q["price"]).feed), Head(q["price"])>>
        /\ \A i \in DOMAIN s : i = 1 \/ s[i] \in {<<"signal", Token>>, <<"exit", Token>>}
    BY <1>2, EngineTakes, EngineOwesIs
  <2>3. Head(q["price"]) \in Events /\ ChannelOf(Head(q["price"]).feed) \in Monitors
    BY <1>2, EngineTakes DEF ChannelOf, Monitors
  <2>4. out' = [out EXCEPT !["engine"] = s] /\ task' = task /\ task["engine"] = "running"
    BY <1>2, <2>1, EngineTakes
  <2> HIDE DEF s
  <2>5. out'["engine"] = s /\ \A t \in Tasks \ {"engine"} : out'[t] = out[t]
    BY <2>4 DEF PipeTypes, Tasks
  <2>6. \A i \in DOMAIN s :
          \/ /\ i = 1 /\ s[i][1] \in Monitors /\ s[i][2] \in Events
             /\ s[i][1] = ChannelOf(s[i][2].feed)
          \/ s[i][1] \in {"signal", "exit"} /\ s[i][2] = Token
    BY <2>2, <2>3
  <2> QED BY <2>4, <2>5, <2>6 DEF OutInv, Traders, Tasks
<1>3. ASSUME NEW t \in Traders, NEW n \in 0..1, TraderTakes(t, n) PROVE OutInv'
  <2>1. t \in Tasks /\ t # "engine" /\ t # "fxDrain" /\ t # "recorder"
    BY DEF Traders, Tasks
  <2>2. /\ out'[t] = Repeat(n, <<"trade", Token>>) /\ \A u \in Tasks \ {t} : out'[u] = out[u]
        /\ task' = task /\ task[t] = "running"
    BY <1>3, <2>1 DEF TraderTakes, PipeTypes
  <2>3. \A i \in DOMAIN out'[t] : out'[t][i] = <<"trade", Token>>
    BY <2>2, RepeatIs
  <2>4. out'["engine"] = out["engine"] /\ out'["fxDrain"] = <<>> /\ out'["recorder"] = <<>>
    BY <2>1, <2>2 DEF OutInv, Tasks
  <2>5. \A u \in Traders : \A i \in DOMAIN out'[u] : out'[u][i] = <<"trade", Token>>
    BY <2>2, <2>3 DEF OutInv, Traders, Tasks
  <2>6. \A u \in Tasks : task'[u] # "running" => out'[u] = <<>>
    BY <2>2 DEF OutInv
  <2> QED BY <2>4, <2>5, <2>6 DEF OutInv
<1>4. CASE ProcessPriceEvent \/ ProcessSignal \/ ProcessExit
  BY <1>3, <1>4, TraderTakesIs DEF Traders
<1>5. ASSUME NEW t \in Tasks, SinkTakes(t) PROVE OutInv'
  <2>1. out' = out /\ task' = task
    BY <1>5 DEF SinkTakes, PipeTypes
  <2> QED BY <1>1, <2>1
<1>6. CASE FxDrain \/ Record
  BY <1>5, <1>6, SinkTakesIs DEF Tasks
<1>7. ASSUME NEW t \in Tasks, Send(t) PROVE OutInv'
  <2>1. /\ out'[t] = Tail(out[t]) /\ \A u \in Tasks \ {t} : out'[u] = out[u]
        /\ task' = task /\ task[t] = "running" /\ out[t] # <<>> /\ out[t] \in Seq(Messages)
    BY <1>7 DEF Send, PipeTypes, Messages
  <2>2. /\ \A i \in DOMAIN out'[t] : i \in 1..(Len(out[t]) - 1) /\ i + 1 \in DOMAIN out[t] /\ i + 1 # 1
        /\ \A i \in DOMAIN out'[t] : out'[t][i] = out[t][i + 1]
    BY <2>1
  <2>3. t = "engine" => \A i \in DOMAIN out'[t] :
                          out'[t][i][1] \in {"signal", "exit"} /\ out'[t][i][2] = Token
    BY <2>2 DEF OutInv
  <2>4. t \in Traders => \A i \in DOMAIN out'[t] : out'[t][i] = <<"trade", Token>>
    BY <2>2 DEF OutInv
  <2>5. t # "fxDrain" /\ t # "recorder"
    BY <2>1 DEF OutInv
  <2>6. out'["fxDrain"] = <<>> /\ out'["recorder"] = <<>> /\ (t # "engine" => out'["engine"] = out["engine"])
    BY <2>1, <2>5 DEF OutInv, Tasks
  <2>7. \A u \in Traders : \A i \in DOMAIN out'[u] : out'[u][i] = <<"trade", Token>>
    BY <2>1, <2>4, ZenonT(60) DEF OutInv, Traders, Tasks
  <2>8. \A u \in Tasks : task'[u] # "running" => out'[u] = <<>>
    BY <2>1 DEF OutInv
  <2>9. CASE t = "engine"
    BY <2>3, <2>6, <2>7, <2>8, <2>9 DEF OutInv
  <2>10. CASE t # "engine"
    BY <2>6, <2>7, <2>8, <2>10 DEF OutInv
  <2> QED BY <2>9, <2>10
<1>8. ASSUME NEW t \in Tasks, Finish(t) PROVE OutInv'
  BY <1>8 DEF Finish, Receiving, OutInv, PipeTypes
<1>9. ASSUME NEW t \in Tasks, Panic(t) PROVE OutInv'
  <2>1. /\ out'[t] = <<>> /\ \A u \in Tasks \ {t} : out'[u] = out[u] /\ task'[u] = task[u]
    BY <1>9 DEF Panic, PipeTypes
  <2>2. \A u \in Tasks : out'[u] = <<>> \/ (out'[u] = out[u] /\ task'[u] = task[u])
    BY <2>1
  <2> QED BY <1>0, <2>2 DEF OutInv, Tasks, Traders
<1>10. CASE DrainTimeout
  BY <1>0, <1>10 DEF DrainTimeout, OutInv, Tasks, Traders
<1>11. CASE \E f \in Feeds : PublishPrice(f)
  BY <1>1, <1>11 DEF PublishPrice
<1>12. CASE StopFillPublishes
  BY <1>1, <1>12 DEF StopFillPublishes
<1>13. CASE Aside
  BY <1>1, <1>13 DEF Aside
<1> QED
  BY <1>2, <1>4, <1>6, <1>7, <1>8, <1>9, <1>10, <1>11, <1>12, <1>13, AsideIs DEF Next, Step, Handle

-----------------------------------------------------------------------------
(* The stream of a feed.                                                   *)

(* A step that touches neither the price channels nor the events, and      *)
(* brings no dead task back.                                               *)
Elsewhere ==
  /\ \A c \in PriceChans : q'[c] = q[c]
  /\ out'["engine"] = out["engine"] /\ published' = published /\ seen' = seen
  /\ \A t \in Tasks : task[t] = "dead" => task'[t] = "dead"

(* A step that leaves the events in place keeps routes and stream.         *)
LEMMA StreamElsewhere ==
  ASSUME PipeTypes, RouteInv, StreamInv, Elsewhere
  PROVE  RouteInv' /\ StreamInv'
<1>1. RouteInv'
  BY DEF Elsewhere, RouteInv, PriceChans, Monitors
<1>2. ASSUME NEW f \in Feeds, task'[MonitorOf(f)] # "dead"
      PROVE  \E a, b \in Nat : Placed(f, a, b)'
  <2>1. task[MonitorOf(f)] # "dead" /\ (task'["engine"] # "dead" => task["engine"] # "dead")
    BY <1>2 DEF Elsewhere, MonitorOf, Tasks
  <2>2. PICK a \in Nat, b \in Nat : Placed(f, a, b)
    BY <2>1 DEF StreamInv
  <2>3. /\ q'[ChannelOf(f)] = q[ChannelOf(f)] /\ q'["price"] = q["price"]
        /\ out'["engine"] = out["engine"] /\ published' = published /\ seen' = seen
    BY DEF Elsewhere, ChannelOf, PriceChans
  <2>4. Placed(f, a, b)'
    BY <2>1, <2>2, <2>3 DEF Placed, Held
  <2> QED BY <2>4
<1>3. StreamInv'
  BY <1>2 DEF StreamInv
<1> QED BY <1>1, <1>3

(* A feed publishes an event: the newest in the price channel.             *)
LEMMA StreamPublish ==
  ASSUME PipeTypes, RouteInv, StreamInv, NEW g \in Feeds, PublishPrice(g)
  PROVE  RouteInv' /\ StreamInv'
<1> DEFINE e == [feed |-> g, n |-> published[g] + 1]
<1>1. e \in Events /\ e.feed = g /\ e.n = published[g] + 1 /\ published[g] \in Nat
  BY DEF Events, PipeTypes
<1>2. /\ q' = [q EXCEPT !["price"] = Append(@, e)] /\ published' = [published EXCEPT ![g] = @ + 1]
      /\ UNCHANGED <<task, out, seen>>
  BY DEF PublishPrice
<1> HIDE DEF e
<1>3. /\ q["price"] \in Seq(Events) /\ q'["price"] = Append(q["price"], e)
      /\ q'["fx"] = q["fx"] /\ q'["crypto"] = q["crypto"]
      /\ published'[g] = published[g] + 1 /\ \A f \in Feeds \ {g} : published'[f] = published[f]
  BY <1>2 DEF PipeTypes, PriceChans, Chans
<1>4. RouteInv'
  <2>1. \A n \in Nat : Has(q["price"], g, n) => n < e.n
    BY <1>1 DEF RouteInv, Has
  <2>2. Increasing(q'["price"])
    BY <1>1, <1>3, <2>1, IncreasingAppend DEF RouteInv, PriceChans
  <2>3. \A i \in DOMAIN q'["price"] : q'["price"][i].n <= published'[q'["price"][i].feed]
    <3> SUFFICES ASSUME NEW i \in DOMAIN q'["price"]
                 PROVE  q'["price"][i].n <= published'[q'["price"][i].feed]
      OBVIOUS
    <3>1. CASE i = Len(q["price"]) + 1
      BY <1>1, <1>3, <3>1
    <3>2. CASE i # Len(q["price"]) + 1
      <4>1. i \in DOMAIN q["price"] /\ q'["price"][i] = q["price"][i]
        BY <1>1, <1>3, <3>2
      <4>2. q["price"][i] \in Events
        BY <1>3, <4>1
      <4>3. q["price"][i].feed \in Feeds /\ q["price"][i].n \in Nat
        BY <4>2, EventFields
      <4>4. q["price"][i].n <= published[q["price"][i].feed]
        BY <4>1 DEF RouteInv
      <4>5. \A f \in Feeds : published[f] \in Nat /\ published[f] <= published'[f] /\ published'[f] \in Nat
        <5> TAKE f \in Feeds
        <5>1. CASE f = g
          BY <1>1, <1>3, <5>1
        <5>2. CASE f # g
          BY <1>3, <5>2 DEF PipeTypes
        <5> QED BY <5>1, <5>2
      <4> QED BY <4>1, <4>3, <4>4, <4>5
    <3> QED BY <3>1, <3>2
  <2> QED BY <1>3, <2>2, <2>3 DEF RouteInv, Monitors, PriceChans
<1>5. ASSUME NEW f \in Feeds, task'[MonitorOf(f)] # "dead"
      PROVE  \E a, b \in Nat : Placed(f, a, b)'
  <2>1. PICK a \in Nat, b \in Nat : Placed(f, a, b)
    BY <1>2, <1>5 DEF StreamInv
  <2>2. q'[ChannelOf(f)] = q[ChannelOf(f)] /\ task' = task /\ seen' = seen /\ out' = out
    BY <1>2, <1>3 DEF ChannelOf
  <2>3. \A n \in Nat : Has(q'["price"], f, n) <=> Has(q["price"], f, n) \/ (f = g /\ n = published[g] + 1)
    BY <1>1, <1>3, HasAppend
  <2>4. published[f] \in Nat /\ published'[f] = IF f = g THEN published[f] + 1 ELSE published[f]
    BY <1>3 DEF PipeTypes
  <2>5. \A n \in Nat : Held(f, n)' <=> Held(f, n)
    BY <2>2 DEF Held
  <2>6. b <= published[f]
    BY <2>1 DEF Placed
  <2>7. task["engine"] # "dead" =>
          \A n \in Nat : Has(q'["price"], f, n) <=> (b < n /\ n <= published'[f])
    BY <2>1, <2>3, <2>4, <2>6 DEF Placed
  <2>8. Placed(f, a, b)'
    BY <2>1, <2>2, <2>4, <2>5, <2>6, <2>7 DEF Placed
  <2> QED BY <2>8
<1> QED BY <1>4, <1>5 DEF StreamInv

(* The engine takes the oldest event of the price channel in its hands.    *)
LEMMA StreamEngineTakes ==
  ASSUME PipeTypes, RouteInv, StreamInv, HandlePriceEvent
  PROVE  RouteInv' /\ StreamInv'
<1> DEFINE e == Head(q["price"])
<1>1. /\ task["engine"] = "running" /\ out["engine"] = <<>>
      /\ q["price"] \in Seq(Events) /\ q["price"] # <<>> /\ Increasing(q["price"])
      /\ q'["price"] = Tail(q["price"]) /\ q'["fx"] = q["fx"] /\ q'["crypto"] = q["crypto"]
      /\ UNCHANGED <<task, published, seen>>
  BY EngineTakes DEF PipeTypes, PriceChans, Chans, RouteInv
<1>2. e \in Events /\ e.feed \in Feeds /\ e.n \in Nat
  BY EngineTakes, EventFields
<1>3. out'["engine"] # <<>> /\ out'["engine"][1] = <<ChannelOf(e.feed), e>>
  <2>1. PICK k, l \in Nat : out' = [out EXCEPT !["engine"] = EngineOwes(e, k, l)]
    BY EngineTakes
  <2>2. out'["engine"] = EngineOwes(e, k, l)
    BY <2>1 DEF PipeTypes, Tasks
  <2>3. EngineOwes(e, k, l) # <<>> /\ EngineOwes(e, k, l)[1] = <<ChannelOf(e.feed), e>>
    BY <1>2, EngineOwesIs, Zenon
  <2> QED BY <2>2, <2>3, Zenon
<1> HIDE DEF e
<1>4. RouteInv'
  <2>1. Increasing(q'["price"])
    BY <1>1, IncreasingTail
  <2>2. \A i \in DOMAIN q'["price"] : i + 1 \in DOMAIN q["price"] /\ q'["price"][i] = q["price"][i + 1]
    BY <1>1
  <2>3. \A i \in DOMAIN q'["price"] : q'["price"][i].n <= published[q'["price"][i].feed]
    BY <2>2 DEF RouteInv
  <2> QED BY <1>1, <2>1, <2>3 DEF RouteInv, Monitors, PriceChans
<1>5. ASSUME NEW f \in Feeds, task'[MonitorOf(f)] # "dead"
      PROVE  \E a, b \in Nat : Placed(f, a, b)'
  <2>1. PICK a \in Nat, b \in Nat : Placed(f, a, b)
    BY <1>1, <1>5 DEF StreamInv
  <2>2. q'[ChannelOf(f)] = q[ChannelOf(f)] /\ task' = task /\ seen' = seen /\ published' = published
    BY <1>1 DEF ChannelOf
  <2>3. \A n \in Nat : Has(q'["price"], f, n) <=> Has(q["price"], f, n) /\ ~(e.feed = f /\ e.n = n)
    BY <1>1, HasTail DEF e
  <2>4. \A n \in Nat : Held(f, n)' <=> (e.feed = f /\ e.n = n)
    BY <1>3 DEF Held, Monitors, ChannelOf
  <2>5. a = b
    <3>1. ~Held(f, b)
      BY <1>1 DEF Held
    <3> QED BY <1>1, <2>1, <3>1 DEF Placed
  <2>6. /\ \A n \in Nat : Has(q["price"], f, n) <=> (b < n /\ n <= published[f])
        /\ published[f] \in Nat /\ b <= published[f]
    BY <1>1, <2>1 DEF Placed, PipeTypes
  <2>7. CASE e.feed = f
    <3>1. b < e.n /\ e.n <= published[f] /\ e.n <= b + 1
      <4>1. Has(q["price"], f, e.n) /\ (Has(q["price"], f, b + 1) => e.n <= b + 1)
        BY <1>1, <2>7, HasTail DEF e
      <4> QED BY <1>2, <2>6, <4>1
    <3>2. e.n = b + 1
      BY <1>2, <3>1
    <3>3. Placed(f, a, b + 1)'
      <4>1. \A n \in Nat : Held(f, n)' <=> (a < n /\ n <= b + 1)
        BY <1>2, <2>4, <2>5, <2>7, <3>2
      <4>2. \A n \in Nat : Has(q'["price"], f, n) <=> (b + 1 < n /\ n <= published[f])
        BY <1>2, <2>3, <2>6, <2>7, <3>2
      <4>3. /\ Len(seen[f]) <= a /\ a <= b + 1 /\ b + 1 <= published[f]
            /\ \A n \in Nat : Has(q[ChannelOf(f)], f, n) <=> (Len(seen[f]) < n /\ n <= a)
        BY <1>2, <2>1, <2>5, <2>6, <3>1, <3>2 DEF Placed
      <4> QED BY <2>2, <4>1, <4>2, <4>3 DEF Placed
    <3> QED BY <3>3
  <2>8. CASE e.feed # f
    <3>1. \A n \in Nat : (Held(f, n)' <=> (a < n /\ n <= b)) /\ (Has(q'["price"], f, n) <=> (b < n /\ n <= published[f]))
      BY <2>3, <2>4, <2>5, <2>6, <2>8
    <3>2. Placed(f, a, b)'
      BY <2>1, <2>2, <3>1 DEF Placed
    <3> QED BY <3>2
  <2> QED BY <2>7, <2>8
<1> QED BY <1>4, <1>5 DEF StreamInv

(* A monitor takes the event after the last one it saw of the feed.        *)
LEMMA MonitorSees ==
  ASSUME PipeTypes, RouteInv, StreamInv, NEW c \in Monitors, task[Reader(c)] = "running", q[c] # <<>>
  PROVE  /\ Head(q[c]) \in Events /\ Head(q[c]).feed \in Feeds
         /\ ChannelOf(Head(q[c]).feed) = c
         /\ Head(q[c]).n = Len(seen[Head(q[c]).feed]) + 1
         /\ Len(seen[Head(q[c]).feed]) < published[Head(q[c]).feed]
<1> DEFINE e == Head(q[c])
           f == e.feed
<1>1. q[c] \in Seq(Events) /\ Increasing(q[c])
  BY DEF PipeTypes, RouteInv, Monitors, PriceChans
<1>2. e \in Events /\ f \in Feeds /\ e.n \in Nat /\ e = q[c][1] /\ 1 \in DOMAIN q[c]
  BY <1>1, EventFields
<1>3. ChannelOf(f) = c
  BY <1>2 DEF RouteInv
<1>4. MonitorOf(f) = Reader(c)
  BY <1>3, ReaderIs DEF ChannelOf, MonitorOf, Monitors
<1>5. PICK a \in Nat, b \in Nat : Placed(f, a, b)
  BY <1>2, <1>4 DEF StreamInv
<1>6. Len(seen[f]) \in Nat /\ published[f] \in Nat
  BY <1>2 DEF PipeTypes
<1>7. /\ \A n \in Nat : Has(q[c], f, n) <=> (Len(seen[f]) < n /\ n <= a)
      /\ Len(seen[f]) <= a /\ a <= b /\ b <= published[f]
  BY <1>3, <1>5 DEF Placed
<1>8. Has(q[c], f, e.n) /\ (Has(q[c], f, Len(seen[f]) + 1) => e.n <= Len(seen[f]) + 1)
  BY <1>1, HasTail
<1>9. e.n = Len(seen[f]) + 1 /\ Len(seen[f]) < published[f]
  <2> DEFINE x == Len(seen[f])
  <2>1. e.n \in Nat /\ x \in Nat /\ x + 1 \in Nat /\ published[f] \in Nat
    BY <1>2, <1>6
  <2>a. \A n \in Nat : Has(q[c], f, n) <=> (x < n /\ n <= a)
    BY <1>7
  <2>b. Has(q[c], f, e.n) /\ (Has(q[c], f, x + 1) => e.n <= x + 1)
    BY <1>8
  <2>c. x <= a /\ a <= b /\ b <= published[f]
    BY <1>7
  <2> HIDE DEF x, e, f
  <2>2. x < e.n /\ e.n <= a /\ (x + 1 <= a => e.n <= x + 1)
    BY <2>1, <2>a, <2>b
  <2>3. e.n = x + 1 /\ x < published[f]
    BY <2>1, <2>2, <2>c
  <2> QED BY <2>3 DEF x
<1> QED BY <1>2, <1>3, <1>9

(* A monitor that takes the first event of its channel keeps the stream.   *)
LEMMA StreamMonitorTakes ==
  ASSUME PipeTypes, RouteInv, StreamInv, NEW c \in Monitors, task[Reader(c)] = "running", q[c] # <<>>,
         q' = [q EXCEPT ![c] = Tail(@)], out'["engine"] = out["engine"],
         LET e == Head(q[c]) IN seen' = [seen EXCEPT ![e.feed] = Append(@, e.n)],
         UNCHANGED <<task, published>>
  PROVE  RouteInv' /\ StreamInv'
<1> DEFINE e == Head(q[c])
<1>1. q[c] \in Seq(Events) /\ Increasing(q[c]) /\ c \in Chans /\ c # "price"
  BY DEF PipeTypes, RouteInv, Monitors, PriceChans, Chans
<1>2. /\ e \in Events /\ e.feed \in Feeds /\ ChannelOf(e.feed) = c
      /\ e.n = Len(seen[e.feed]) + 1 /\ Len(seen[e.feed]) < published[e.feed]
  BY MonitorSees
<1>3. /\ q'[c] = Tail(q[c]) /\ \A d \in Chans \ {c} : q'[d] = q[d]
  BY <1>1 DEF PipeTypes
<1>4. RouteInv'
  <2>1. Increasing(q'[c])
    BY <1>1, <1>3, IncreasingTail
  <2>2. \A i \in DOMAIN q'[c] : i + 1 \in DOMAIN q[c] /\ q'[c][i] = q[c][i + 1]
    <3> DEFINE s == q[c]
    <3>1. s \in Seq(Events) /\ s # <<>> /\ q'[c] = Tail(s)
      BY <1>1, <1>3
    <3> HIDE DEF s
    <3>2. \A i \in DOMAIN Tail(s) : i + 1 \in DOMAIN s /\ Tail(s)[i] = s[i + 1]
      BY <3>1
    <3> QED BY <3>1, <3>2 DEF s
  <2>3. \A i \in DOMAIN q'[c] : ChannelOf(q'[c][i].feed) = c
    BY <2>2 DEF RouteInv
  <2>4. q'["price"] = q["price"]
    BY <1>1, <1>3 DEF Chans
  <2>5. \A d \in PriceChans : Increasing(q'[d])
    BY <1>3, <2>1 DEF RouteInv, PriceChans, Chans
  <2>6. \A d \in Monitors : \A i \in DOMAIN q'[d] : ChannelOf(q'[d][i].feed) = d
    BY <1>3, <2>3 DEF RouteInv, Monitors, Chans
  <2> QED BY <2>4, <2>5, <2>6 DEF RouteInv
<1>5. ASSUME NEW f \in Feeds, task'[MonitorOf(f)] # "dead"
      PROVE  \E a, b \in Nat : Placed(f, a, b)'
  <2>1. PICK a \in Nat, b \in Nat : Placed(f, a, b)
    BY <1>5 DEF StreamInv
  <2>2. q'["price"] = q["price"] /\ task' = task /\ published' = published /\ \A n \in Nat : Held(f, n)' <=> Held(f, n)
    BY <1>1, <1>3 DEF Chans, Held
  <2>3. Len(seen[f]) \in Nat /\ seen[f] \in Seq(Nat) /\ e.n \in Nat
    BY <1>2, EventFields DEF PipeTypes
  <2>4. CASE f = e.feed
    <3>1. Len(seen'[f]) = Len(seen[f]) + 1
      BY <2>3, <2>4 DEF PipeTypes
    <3>2. \A n \in Nat : Has(q'[c], f, n) <=> Has(q[c], f, n) /\ n # e.n
      BY <1>1, <1>3, <2>4, HasTail
    <3>3. \A n \in Nat : Has(q[c], f, n) <=> (Len(seen[f]) < n /\ n <= a)
      BY <1>2, <2>1, <2>4 DEF Placed
    <3>4. \A n \in Nat : Has(q'[c], f, n) <=> (Len(seen[f]) + 1 < n /\ n <= a)
      BY <1>2, <2>3, <2>4, <3>2, <3>3, SMTT(30)
    <3>5. Len(seen[f]) + 1 <= a
      <4>1. Has(q[c], f, e.n)
        BY <1>1, <2>4, HasTail
      <4> QED BY <1>2, <2>3, <2>4, <3>3, <4>1
    <3>6. Placed(f, a, b)'
      BY <1>2, <2>1, <2>2, <2>4, <3>1, <3>4, <3>5 DEF Placed
    <3> QED BY <3>6
  <2>5. CASE f # e.feed
    <3>1. seen'[f] = seen[f]
      BY <2>5 DEF PipeTypes
    <3>2. \A n \in Nat : Has(q'[ChannelOf(f)], f, n) <=> Has(q[ChannelOf(f)], f, n)
      <4>1. CASE ChannelOf(f) = c
        BY <1>1, <1>3, <2>5, <4>1, HasTail
      <4>2. CASE ChannelOf(f) # c
        BY <1>3, <4>2 DEF ChannelOf, Chans
      <4> QED BY <4>1, <4>2
    <3>3. Placed(f, a, b)'
      BY <2>1, <2>2, <3>1, <3>2 DEF Placed
    <3> QED BY <3>3
  <2> QED BY <2>4, <2>5
<1> QED BY <1>4, <1>5 DEF StreamInv

(* The engine sends what it has in its hands on to the monitor.            *)
LEMMA StreamEngineSends ==
  ASSUME PipeTypes, OutInv, RouteInv, StreamInv, DoneInv, Send("engine")
  PROVE  RouteInv' /\ StreamInv'
<1> DEFINE c == out["engine"][1][1]
           e == out["engine"][1][2]
<1>1. /\ out["engine"] \in Seq(Messages) /\ out["engine"] # <<>> /\ task["engine"] = "running"
      /\ Head(out["engine"]) = out["engine"][1] /\ 1 \in DOMAIN out["engine"]
      /\ out'["engine"] = Tail(out["engine"]) /\ UNCHANGED <<task, published, seen>>
  BY DEF Send, PipeTypes, Tasks, eventVars, Messages
<1>2. IF HasReader(c) THEN q' = [q EXCEPT ![c] = Append(@, e)] ELSE q' = q
  BY <1>1 DEF Send, Deliver
<1>3. \A f \in Feeds, n \in Nat : ~Held(f, n)'
  <2>1. out'["engine"] # <<>> => 2 \in DOMAIN out["engine"] /\ out'["engine"][1] = out["engine"][2]
    BY <1>1
  <2>2. 2 \in DOMAIN out["engine"] => out["engine"][2][1] \in {"signal", "exit"}
    BY DEF OutInv
  <2> QED BY <2>1, <2>2 DEF Held, Monitors
<1>4. \/ c \in {"signal", "exit"}
      \/ c \in Monitors /\ e \in Events /\ c = ChannelOf(e.feed)
  BY <1>1 DEF OutInv
<1>5. CASE c \in {"signal", "exit"}
  <2>1. \A d \in PriceChans : q'[d] = q[d]
    BY <1>2, <1>5 DEF PipeTypes, PriceChans, Chans
  <2>2. RouteInv'
    BY <1>1, <2>1 DEF RouteInv, PriceChans, Monitors
  <2>3. ASSUME NEW f \in Feeds, task'[MonitorOf(f)] # "dead"
        PROVE  \E a, b \in Nat : Placed(f, a, b)'
    <3>1. PICK a \in Nat, b \in Nat : Placed(f, a, b)
      BY <1>1, <2>3 DEF StreamInv
    <3>2. \A n \in Nat : ~Held(f, n)
      BY <1>5 DEF Held, Monitors
    <3>3. q'[ChannelOf(f)] = q[ChannelOf(f)] /\ q'["price"] = q["price"]
      BY <2>1 DEF PriceChans, ChannelOf
    <3>4. Placed(f, a, b)'
      BY <1>1, <1>3, <3>1, <3>2, <3>3 DEF Placed
    <3> QED BY <3>4
  <2> QED BY <2>2, <2>3 DEF StreamInv
<1>6. CASE c \in Monitors
  <2>1. e \in Events /\ c = ChannelOf(e.feed) /\ e.feed \in Feeds /\ e.n \in Nat
    BY <1>4, <1>6, EventFields DEF Monitors
  <2>2. \A f \in Feeds, n \in Nat : Held(f, n) <=> (f = e.feed /\ n = e.n)
    BY <1>1, <1>6 DEF Held
  <2> HIDE DEF c, e
  <2>3. c \in Chans /\ c # "price" /\ c \in PriceChans /\ q[c] \in Seq(Events) /\ Increasing(q[c])
    BY <1>6 DEF Monitors, Chans, PriceChans, PipeTypes, RouteInv
  <2>4. ASSUME NEW f \in Feeds, ChannelOf(f) = c, task[MonitorOf(f)] # "dead"
        PROVE  HasReader(c)
    <3>1. MonitorOf(f) = Reader(c) /\ Reader(c) \in {"fxDrain", "cryptoMonitor"}
      BY <2>4, ReaderIs DEF ChannelOf, MonitorOf
    <3>2. task[Reader(c)] # "done"
      BY <1>1, <3>1 DEF DoneInv
    <3> QED BY <2>4, <3>1, <3>2 DEF HasReader, PipeTypes, Tasks
  <2>5. CASE ~HasReader(c)
    <3>1. q' = q
      BY <1>2, <2>5
    <3>2. RouteInv'
      BY <1>1, <3>1 DEF RouteInv
    <3>3. ASSUME NEW f \in Feeds, task'[MonitorOf(f)] # "dead"
          PROVE  \E a, b \in Nat : Placed(f, a, b)'
      <4>1. PICK a \in Nat, b \in Nat : Placed(f, a, b)
        BY <1>1, <3>3 DEF StreamInv
      <4>2. f # e.feed
        BY <1>1, <2>1, <2>4, <2>5, <3>3
      <4>3. Placed(f, a, b)'
        BY <1>1, <1>3, <2>2, <3>1, <4>1, <4>2 DEF Placed
      <4> QED BY <4>3
    <3> QED BY <3>2, <3>3 DEF StreamInv
  <2>6. CASE HasReader(c)
    <3>1. q'[c] = Append(q[c], e) /\ \A d \in Chans \ {c} : q'[d] = q[d]
      BY <1>2, <2>3, <2>6 DEF PipeTypes
    <3>2. task[MonitorOf(e.feed)] # "dead"
      BY <1>6, <2>1, <2>6, ReaderIs DEF HasReader, ChannelOf, MonitorOf
    <3>3. PICK a \in Nat, b \in Nat : Placed(e.feed, a, b)
      BY <2>1, <3>2 DEF StreamInv
    <3>4. e.n = a + 1 /\ b = a + 1
      <4>1. \A n \in Nat : n = e.n <=> (a < n /\ n <= b)
        BY <1>1, <2>1, <2>2, <3>3 DEF Placed
      <4> QED BY <2>1, <4>1
    <3>5. Len(seen[e.feed]) \in Nat /\ published[e.feed] \in Nat
      BY <2>1 DEF PipeTypes
    <3>6. \A n \in Nat : Has(q[c], e.feed, n) <=> (Len(seen[e.feed]) < n /\ n <= a)
      BY <2>1, <3>3 DEF Placed
    <3>7. RouteInv'
      <4>1. \A n \in Nat : Has(q[c], e.feed, n) => n < e.n
        BY <3>4, <3>6
      <4>2. Increasing(q'[c])
        BY <2>1, <2>3, <3>1, <4>1, IncreasingAppend
      <4>3. \A i \in DOMAIN q'[c] : ChannelOf(q'[c][i].feed) = c
        <5>1. ASSUME NEW i \in DOMAIN q'[c] PROVE ChannelOf(q'[c][i].feed) = c
          <6>1. q'[c][i] = e \/ (i \in DOMAIN q[c] /\ q'[c][i] = q[c][i])
            BY <2>1, <2>3, <3>1
          <6> QED BY <1>6, <2>1, <6>1 DEF RouteInv
        <5> QED BY <5>1
      <4>4. q'["price"] = q["price"]
        BY <2>3, <3>1 DEF Chans
      <4>5. \A d \in PriceChans : Increasing(q'[d])
        BY <3>1, <4>2 DEF RouteInv, PriceChans, Chans
      <4>6. \A d \in Monitors : \A i \in DOMAIN q'[d] : ChannelOf(q'[d][i].feed) = d
        BY <3>1, <4>3 DEF RouteInv, Monitors, Chans
      <4> QED BY <1>1, <4>4, <4>5, <4>6 DEF RouteInv
    <3>a. PICK g \in Feeds : g = e.feed
      BY <2>1
    <3>8. Placed(g, b, b)'
      <4>1. \A n \in Nat : Has(q'[c], g, n) <=> Has(q[c], g, n) \/ n = e.n
        BY <2>1, <2>3, <3>1, <3>a, HasAppend
      <4>2. \A n \in Nat : Has(q'[c], g, n) <=> (Len(seen[g]) < n /\ n <= b)
        <5>1. Len(seen[g]) <= a
          BY <3>3, <3>a DEF Placed
        <5> QED BY <3>4, <3>5, <3>6, <3>a, <4>1, <5>1
      <4>3. q'["price"] = q["price"]
        BY <2>3, <3>1 DEF Chans
      <4>4. \A n \in Nat : Held(g, n)' <=> (b < n /\ n <= b)
        BY <1>3
      <4>5. /\ Len(seen[g]) <= b /\ b <= published[g]
            /\ \A n \in Nat : Has(q["price"], g, n) <=> (b < n /\ n <= published[g])
        BY <1>1, <3>3, <3>4, <3>5, <3>a DEF Placed
      <4> QED BY <1>1, <2>1, <3>a, <4>2, <4>3, <4>4, <4>5 DEF Placed
    <3>9. ASSUME NEW f \in Feeds, f # g, task'[MonitorOf(f)] # "dead"
          PROVE  \E x, y \in Nat : Placed(f, x, y)'
      <4>1. PICK x \in Nat, y \in Nat : Placed(f, x, y)
        BY <1>1, <3>9 DEF StreamInv
      <4>2. \A n \in Nat : Has(q'[ChannelOf(f)], f, n) <=> Has(q[ChannelOf(f)], f, n)
        <5>1. CASE ChannelOf(f) = c
          <6>1. \A n \in Nat : Has(Append(q[c], e), f, n) <=> Has(q[c], f, n) \/ (e.feed = f /\ e.n = n)
            BY <2>1, <2>3, HasAppend
          <6>2. e.feed # f
            BY <3>9, <3>a
          <6> QED BY <3>1, <5>1, <6>1, <6>2
        <5>2. CASE ChannelOf(f) # c
          BY <3>1, <5>2 DEF ChannelOf, Chans
        <5> QED BY <5>1, <5>2
      <4>3. q'["price"] = q["price"]
        BY <2>3, <3>1 DEF Chans
      <4>4. Placed(f, x, y)'
        BY <1>1, <1>3, <2>2, <3>9, <3>a, <4>1, <4>2, <4>3 DEF Placed
      <4> QED BY <4>4
    <3> QED BY <3>7, <3>8, <3>9 DEF StreamInv
  <2> QED BY <2>5, <2>6
<1> QED BY <1>4, <1>5, <1>6

(* A step that takes from, or adds to, a channel that carries no events.   *)
LEMMA ElsewhereIs ==
  ASSUME PipeTypes, NEW c \in {"signal", "exit", "trade"}, NEW s,
         q' = q \/ q' = [q EXCEPT ![c] = s], out'["engine"] = out["engine"],
         published' = published, seen' = seen, \A t \in Tasks : task[t] = "dead" => task'[t] = "dead"
  PROVE  Elsewhere
BY DEF Elsewhere, PipeTypes, PriceChans, Chans

(* Every step keeps the events of every feed in place.                     *)
LEMMA StreamStep ==
  ASSUME PipeTypes, OutInv, RouteInv, StreamInv, DoneInv, Next
  PROVE  RouteInv' /\ StreamInv'
<1>1. CASE \E f \in Feeds : PublishPrice(f)
  BY <1>1, StreamPublish
<1>2. CASE HandlePriceEvent
  BY <1>2, StreamEngineTakes
<1>3. CASE FxDrain
  <2>1. /\ task["fxDrain"] = "running" /\ q["fx"] # <<>> /\ q' = [q EXCEPT !["fx"] = Tail(@)]
        /\ out'["engine"] = out["engine"] /\ UNCHANGED <<task, published>>
        /\ LET e == Head(q["fx"]) IN seen' = [seen EXCEPT ![e.feed] = Append(@, e.n)]
    BY <1>3, SinkTakesIs, InputIs DEF SinkTakes, PipeTypes, Tasks
  <2>2. "fx" \in Monitors /\ task[Reader("fx")] = "running"
    BY <2>1, ReaderIs DEF Monitors
  <2> QED BY <2>1, <2>2, StreamMonitorTakes
<1>4. CASE ProcessPriceEvent
  <2>1. /\ task["cryptoMonitor"] = "running" /\ q["crypto"] # <<>> /\ q' = [q EXCEPT !["crypto"] = Tail(@)]
        /\ out'["engine"] = out["engine"] /\ UNCHANGED <<task, published>>
        /\ LET e == Head(q["crypto"]) IN seen' = [seen EXCEPT ![e.feed] = Append(@, e.n)]
    BY <1>4, TraderTakesIs, InputIs, ZenonT(30) DEF TraderTakes, PipeTypes, Tasks
  <2>2. "crypto" \in Monitors /\ task[Reader("crypto")] = "running"
    BY <2>1, ReaderIs DEF Monitors
  <2> QED BY <2>1, <2>2, StreamMonitorTakes
<1>5. CASE ProcessSignal
  <2>1. q' = [q EXCEPT !["signal"] = Tail(@)] /\ out'["engine"] = out["engine"] /\ UNCHANGED <<task, published, seen>>
    BY <1>5, TraderTakesIs, InputIs, ZenonT(30) DEF TraderTakes, PipeTypes, Tasks
  <2> QED BY <2>1, ElsewhereIs, StreamElsewhere
<1>6. CASE ProcessExit
  <2>1. q' = [q EXCEPT !["exit"] = Tail(@)] /\ out'["engine"] = out["engine"] /\ UNCHANGED <<task, published, seen>>
    BY <1>6, TraderTakesIs, InputIs, ZenonT(30) DEF TraderTakes, PipeTypes, Tasks
  <2> QED BY <2>1, ElsewhereIs, StreamElsewhere
<1>7. CASE Record
  <2>1. q' = [q EXCEPT !["trade"] = Tail(@)] /\ out'["engine"] = out["engine"] /\ UNCHANGED <<task, published, seen>>
    BY <1>7, SinkTakesIs, InputIs DEF SinkTakes, PipeTypes, Tasks
  <2> QED BY <2>1, ElsewhereIs, StreamElsewhere
<1>8. CASE Send("engine")
  BY <1>8, StreamEngineSends
<1>9. ASSUME NEW t \in Tasks \ {"engine"}, Send(t) PROVE RouteInv' /\ StreamInv'
  <2>1. /\ out[t] # <<>> /\ out[t] \in Seq(Messages) /\ out' = [out EXCEPT ![t] = Tail(@)]
        /\ UNCHANGED <<task, published, seen>>
    BY <1>9 DEF Send, PipeTypes, Messages, eventVars
  <2>2. t \in Traders /\ 1 \in DOMAIN out[t] /\ Head(out[t]) = out[t][1]
    BY <2>1 DEF OutInv, Tasks, Traders
  <2>3. Head(out[t]) = <<"trade", Token>>
    BY <2>2 DEF OutInv
  <2>4. q' = q \/ q' = [q EXCEPT !["trade"] = Append(@, Token)]
    BY <1>9, <2>3 DEF Send, Deliver
  <2>5. out'["engine"] = out["engine"]
    BY <2>1 DEF PipeTypes, Tasks
  <2> QED BY <2>1, <2>4, <2>5, ElsewhereIs, StreamElsewhere
<1>10. ASSUME NEW t \in Tasks, Finish(t) PROVE RouteInv' /\ StreamInv'
  <2>1. Elsewhere
    BY <1>10 DEF Finish, Receiving, Elsewhere, PipeTypes, eventVars
  <2> QED BY <2>1, StreamElsewhere
<1>11. ASSUME NEW t \in Tasks, Panic(t) PROVE RouteInv' /\ StreamInv'
  <2>1. /\ q' = [q EXCEPT ![Input[t]] = <<>>] /\ out' = [out EXCEPT ![t] = <<>>]
        /\ task' = [task EXCEPT ![t] = "dead"] /\ UNCHANGED <<published, seen>>
    BY <1>11 DEF Panic, eventVars
  <2>2. \A c \in PriceChans : q'[c] = q[c] \/ q'[c] = <<>>
    BY <2>1, InputIs DEF PipeTypes, PriceChans, Chans, Tasks
  <2>3. Increasing(<<>>)
    BY DEF Increasing
  <2>4. RouteInv'
    BY <2>1, <2>2, <2>3 DEF RouteInv, PriceChans, Monitors
  <2>5. ASSUME NEW f \in Feeds, task'[MonitorOf(f)] # "dead"
        PROVE  \E a, b \in Nat : Placed(f, a, b)'
    <3>1. t # MonitorOf(f) /\ task[MonitorOf(f)] # "dead" /\ (task'["engine"] # "dead" => t # "engine" /\ task["engine"] # "dead")
      BY <2>1, <2>5 DEF PipeTypes, MonitorOf, Tasks
    <3>2. PICK a \in Nat, b \in Nat : Placed(f, a, b)
      BY <3>1 DEF StreamInv
    <3>3. q'[ChannelOf(f)] = q[ChannelOf(f)]
      BY <2>1, <3>1, InputIs DEF PipeTypes, MonitorOf, ChannelOf, Chans, Tasks
    <3>4. t # "engine" => q'["price"] = q["price"] /\ out'["engine"] = out["engine"]
      BY <2>1, InputIs DEF PipeTypes, Chans, Tasks
    <3>5. Placed(f, a, b)'
      BY <2>1, <3>1, <3>2, <3>3, <3>4 DEF Placed, Held
    <3> QED BY <3>5
  <2> QED BY <2>4, <2>5 DEF StreamInv
<1>12. CASE DrainTimeout
  <2>1. /\ \A c \in Chans : q'[c] = <<>>
        /\ \A t \in Tasks : task'[t] = "dead"
    BY <1>12 DEF DrainTimeout
  <2>2. RouteInv'
    BY <2>1 DEF RouteInv, Increasing, PriceChans, Monitors, Chans
  <2> QED BY <2>1, <2>2 DEF StreamInv, MonitorOf, Tasks
<1>13. CASE StopFillPublishes
  <2>1. (q' = q \/ q' = [q EXCEPT !["trade"] = Append(@, Token)]) /\ UNCHANGED <<task, out, published, seen>>
    BY <1>13 DEF StopFillPublishes, Deliver, eventVars
  <2> QED BY <2>1, ElsewhereIs, StreamElsewhere
<1>14. CASE Aside
  <2>1. Elsewhere
    BY <1>14 DEF Aside, Elsewhere
  <2> QED BY <2>1, StreamElsewhere
<1> QED
  BY <1>1, <1>2, <1>3, <1>4, <1>5, <1>6, <1>7, <1>8, <1>9, <1>10, <1>11, <1>12, <1>13, <1>14, AsideIs
  DEF Next, Step, Handle

-----------------------------------------------------------------------------
(* The end of the tasks, and the trade events.                             *)

(* A step that ends no task and adds only to the channel of a running one. *)
Onward ==
  /\ UNCHANGED <<task, feed, stopFill, main>>
  /\ \A t \in Tasks : task[t] = "done" => q'[Input[t]] = q[Input[t]]

(* Such a step leaves the finished tasks with empty channels.              *)
LEMMA DoneOnward ==
  ASSUME DoneInv, Onward
  PROVE  DoneInv'
<1>1. \A t \in Tasks : task'[t] = "done" => q'[Input[t]] = <<>>
  BY DEF DoneInv, Onward
<1> QED BY <1>1 DEF DoneInv, Onward

(* What is sent goes to a running task or nowhere.                         *)
LEMMA DeliverOnward ==
  ASSUME PipeTypes, NEW c \in Chans, NEW m, Deliver(c, m)
  PROVE  \A t \in Tasks : task[t] = "done" => q'[Input[t]] = q[Input[t]]
<1>1. ASSUME NEW t \in Tasks, task[t] = "done" PROVE q'[Input[t]] = q[Input[t]]
  <2>1. Reader(Input[t]) = t /\ Input[t] \in Chans
    BY InputIs, ReaderIs DEF Tasks, Chans
  <2>2. CASE Input[t] = c
    BY <1>1, <2>1, <2>2 DEF Deliver, HasReader
  <2>3. CASE Input[t] # c
    BY <2>1, <2>3 DEF Deliver, PipeTypes
  <2> QED BY <2>2, <2>3
<1> QED BY <1>1

(* Every step keeps what is known of the tasks that are done.              *)
LEMMA DoneStep ==
  ASSUME PipeTypes, OutInv, DoneInv, Next
  PROVE  DoneInv'
<1>0. \A t, u \in Tasks : Input[t] \in Chans /\ (Input[t] = Input[u] => t = u)
  BY InputIs DEF Tasks, Chans
<1>1. CASE \E f \in Feeds : PublishPrice(f)
  <2>1. PICK f \in Feeds : PublishPrice(f)
    BY <1>1
  <2>2. task["engine"] = "running"
    BY <2>1, ReaderIs DEF PublishPrice, HasReader
  <2>3. \A t \in Tasks : task[t] = "done" => Input[t] # "price" /\ Input[t] \in Chans
    BY <2>2, InputIs DEF Tasks, Chans
  <2>4. Onward
    BY <2>1, <2>3 DEF PublishPrice, Onward, PipeTypes, mainVars
  <2> QED BY <2>4, DoneOnward
<1>2. ASSUME NEW t \in Tasks, task[t] = "running", q' = [q EXCEPT ![Input[t]] = Tail(@)],
             UNCHANGED <<task, feed, stopFill, main>>
      PROVE  DoneInv'
  <2>1. Onward
    BY <1>0, <1>2 DEF Onward, PipeTypes
  <2> QED BY <2>1, DoneOnward
<1>3. CASE HandlePriceEvent
  BY <1>2, <1>3, EngineTakes, InputIs DEF Tasks
<1>4. CASE ProcessPriceEvent \/ ProcessSignal \/ ProcessExit
  BY <1>2, <1>4, TraderTakesIs DEF Tasks, TraderTakes
<1>5. CASE FxDrain \/ Record
  BY <1>2, <1>5, SinkTakesIs DEF Tasks, SinkTakes
<1>6. ASSUME NEW t \in Tasks, Send(t) PROVE DoneInv'
  <2>1. Head(out[t])[1] \in Chans
    BY <1>6 DEF Send, PipeTypes
  <2>2. \A u \in Tasks : task[u] = "done" => q'[Input[u]] = q[Input[u]]
    BY <1>6, <2>1, DeliverOnward DEF Send
  <2>3. Onward
    BY <1>6, <2>2 DEF Send, Onward, mainVars
  <2> QED BY <2>3, DoneOnward
<1>7. CASE StopFillPublishes
  <2>1. \A u \in Tasks : task[u] = "done" => q'[Input[u]] = q[Input[u]]
    BY <1>7, DeliverOnward DEF StopFillPublishes, Chans
  <2>2. stopFill = "closed" /\ stopFill' = "idle" /\ UNCHANGED <<task, feed, main>>
    BY <1>7 DEF StopFillPublishes, mainVars
  <2>3. \A t \in Tasks : task'[t] = "done" => q'[Input[t]] = <<>>
    BY <2>1, <2>2 DEF DoneInv
  <2> QED BY <2>2, <2>3 DEF DoneInv
<1>8. ASSUME NEW t \in Tasks, Finish(t) PROVE DoneInv'
  <2>1. /\ task[t] = "running" /\ q[Input[t]] = <<>> /\ SendersGone(Input[t]) /\ main # "exited"
        /\ task'[t] = "done" /\ \A u \in Tasks \ {t} : task'[u] = task[u]
        /\ UNCHANGED <<q, feed, stopFill, main>>
    BY <1>8 DEF Finish, Receiving, Alive, PipeTypes, mainVars
  <2>2. \A u \in Tasks : task'[u] = "done" => q'[Input[u]] = <<>>
    BY <2>1 DEF DoneInv
  <2>3. \A u \in Tasks : task[u] # "running" => task'[u] # "running"
    BY <2>1
  <2>4. task'["engine"] = "done" => main # "running" /\ \A f \in Feeds : feed[f] = "stopped"
    BY <2>1, InputIs DEF DoneInv, SendersGone, Tasks
  <2>5. t \in {"fxDrain", "cryptoMonitor", "executor", "exitExecutor"} => task["engine"] # "running"
    BY <2>1, InputIs DEF SendersGone, Ended
  <2>6. \A u \in {"fxDrain", "cryptoMonitor", "executor", "exitExecutor"} :
          task'[u] = "done" => task'["engine"] # "running"
    BY <2>1, <2>3, <2>5 DEF DoneInv, Tasks
  <2>7. task'["recorder"] = "done" =>
          stopFill = "stopped" /\ \A u \in Traders : task'[u] # "running"
    <3>1. task'["recorder"] = "done" => stopFill = "stopped" /\ \A u \in Traders : task[u] # "running"
      BY <2>1, InputIs DEF DoneInv, SendersGone, Ended, Tasks, Traders
    <3> QED BY <2>3, <3>1 DEF Traders, Tasks
  <2> QED BY <2>1, <2>2, <2>4, <2>6, <2>7 DEF DoneInv
<1>9. ASSUME NEW t \in Tasks, Panic(t) PROVE DoneInv'
  <2>1. /\ task[t] = "running" /\ task'[t] = "dead" /\ \A u \in Tasks \ {t} : task'[u] = task[u]
        /\ q' = [q EXCEPT ![Input[t]] = <<>>] /\ main # "exited"
        /\ UNCHANGED <<feed, stopFill, main>>
    BY <1>9 DEF Panic, PipeTypes, mainVars, Alive
  <2>2. \A u \in Tasks : task'[u] = "done" => q'[Input[u]] = <<>>
    BY <1>0, <2>1 DEF DoneInv, PipeTypes
  <2>3. \A u \in Tasks : (task[u] # "running" => task'[u] # "running") /\ (task'[u] = "done" => task[u] = "done")
    BY <2>1
  <2> QED BY <2>1, <2>2, <2>3 DEF DoneInv, Tasks, Traders
<1>10. CASE DrainTimeout
  BY <1>0, <1>10 DEF DrainTimeout, DoneInv, Tasks, Traders, Chans
<1>11. CASE \E f \in Feeds : FeedFindsPriceClosed(f) \/ AbortFeed(f)
  <2>1. /\ UNCHANGED <<q, task, stopFill, main>>
        /\ \A f \in Feeds : feed[f] = "stopped" => feed'[f] = "stopped"
    BY <1>11 DEF FeedFindsPriceClosed, AbortFeed, taskVars, mainVars, PipeTypes
  <2> QED BY <2>1 DEF DoneInv
<1>12. CASE StopFillCloses
  BY <1>12 DEF StopFillCloses, DoneInv, taskVars, mainVars
<1>13. CASE Shutdown \/ AbortStopFill
  BY <1>13 DEF Shutdown, AbortStopFill, DoneInv, taskVars, mainVars
<1>14. CASE Drained
  BY <1>14 DEF Drained, Ended, DoneInv, taskVars
<1> QED
  BY <1>1, <1>3, <1>4, <1>5, <1>6, <1>7, <1>8, <1>9, <1>10, <1>11, <1>12, <1>13, <1>14 DEF Next, Step, Handle

(* Every step keeps account of the trade events.                           *)
LEMMA OwedStep ==
  ASSUME PipeTypes, OutInv, DoneInv, OwedInv, Next
  PROVE  OwedInv'
<1>0. /\ Len(q["trade"]) \in Nat /\ Len(out["cryptoMonitor"]) \in Nat
      /\ Len(out["executor"]) \in Nat /\ Len(out["exitExecutor"]) \in Nat
      /\ q["trade"] \in Seq(Events \cup {Token}) /\ owed \in Int /\ lost \in Int
  BY DEF PipeTypes, Tasks, Chans
<1>p. PICK w, x1, x2, x3 \in Nat :
        /\ Len(q["trade"]) = w /\ Len(out["cryptoMonitor"]) = x1
        /\ Len(out["executor"]) = x2 /\ Len(out["exitExecutor"]) = x3
  BY <1>0, Zenon
<1>a. Unsent \in Nat /\ Waiting \in Nat /\ Waiting = w + x1 + x2 + x3 + Unsent
  <2>1. Unsent \in Nat
    BY DEF Unsent
  <2> QED BY <1>p, <2>1 DEF Waiting
<1>b. stopFill' = stopFill => Unsent' = Unsent
  BY DEF Unsent
<1>1. ASSUME q'["trade"] = q["trade"], \A t \in Traders : out'[t] = out[t],
             UNCHANGED <<stopFill, owed, lost>>, Dead' = {} => Dead = {}
      PROVE  OwedInv'
  BY <1>1 DEF OwedInv, Waiting, Unsent, Traders
<1>c. ASSUME NEW t \in Traders, NEW x \in Int, NEW y \in Int, Len(out'[t]) = Len(out[t]) + x,
             \A u \in Traders \ {t} : out'[u] = out[u], Len(q'["trade"]) = Len(q["trade"]) + y,
             stopFill' = stopFill
      PROVE  Waiting' = Waiting + x + y
  <2>1. CASE t = "cryptoMonitor"
    <3>1. /\ Len(out'["cryptoMonitor"]) = x1 + x /\ Len(out'["executor"]) = x2
          /\ Len(out'["exitExecutor"]) = x3 /\ Len(q'["trade"]) = w + y
      BY <1>p, <1>c, <2>1 DEF Traders
    <3>2. Waiting' = (w + y) + (x1 + x) + x2 + x3 + Unsent
      BY <1>b, <1>c, <3>1, Zenon DEF Waiting
    <3> QED BY <1>a, <3>2
  <2>2. CASE t = "executor"
    <3>1. /\ Len(out'["cryptoMonitor"]) = x1 /\ Len(out'["executor"]) = x2 + x
          /\ Len(out'["exitExecutor"]) = x3 /\ Len(q'["trade"]) = w + y
      BY <1>p, <1>c, <2>2 DEF Traders
    <3>2. Waiting' = (w + y) + x1 + (x2 + x) + x3 + Unsent
      BY <1>b, <1>c, <3>1, Zenon DEF Waiting
    <3> QED BY <1>a, <3>2
  <2>3. CASE t = "exitExecutor"
    <3>1. /\ Len(out'["cryptoMonitor"]) = x1 /\ Len(out'["executor"]) = x2
          /\ Len(out'["exitExecutor"]) = x3 + x /\ Len(q'["trade"]) = w + y
      BY <1>p, <1>c, <2>3 DEF Traders
    <3>2. Waiting' = (w + y) + x1 + x2 + (x3 + x) + Unsent
      BY <1>b, <1>c, <3>1, Zenon DEF Waiting
    <3> QED BY <1>a, <3>2
  <2> QED BY <2>1, <2>2, <2>3 DEF Traders
<1>2. CASE \E f \in Feeds : PublishPrice(f)
  BY <1>1, <1>2 DEF PublishPrice, PipeTypes, Chans, Dead
<1>3. CASE HandlePriceEvent
  <2>1. q'["trade"] = q["trade"] /\ \A t \in Traders : out'[t] = out[t]
    BY <1>3, EngineTakes DEF PipeTypes, Chans, Tasks, Traders
  <2> QED BY <1>1, <1>3, <2>1, EngineTakes DEF Dead
<1>4. ASSUME NEW t \in Traders, NEW n \in 0..1, TraderTakes(t, n) PROVE OwedInv'
  <2>1. /\ q'["trade"] = q["trade"] /\ owed' = owed + n /\ UNCHANGED <<stopFill, lost, task>>
        /\ out[t] = <<>> /\ out'[t] = Repeat(n, <<"trade", Token>>)
        /\ \A u \in Traders \ {t} : out'[u] = out[u]
    BY <1>4, InputIs DEF TraderTakes, PipeTypes, Chans, Tasks, Traders
  <2>2. Len(out[t]) = 0 /\ Len(out'[t]) = n
    BY <2>1, RepeatIs
  <2>3. Waiting' = Waiting + n
    <3>1. Len(out'[t]) = Len(out[t]) + n /\ Len(q'["trade"]) = Len(q["trade"]) + 0
      BY <1>0, <2>1, <2>2
    <3>2. Waiting' = Waiting + n + 0
      BY <1>c, <2>1, <3>1
    <3> QED BY <1>a, <3>2
  <2> QED BY <1>0, <1>a, <2>1, <2>3, SMTT(40) DEF OwedInv, Dead
<1>5. CASE ProcessPriceEvent \/ ProcessSignal \/ ProcessExit
  BY <1>4, <1>5, TraderTakesIs DEF Traders
<1>6. CASE FxDrain
  <2>1. /\ q'["trade"] = q["trade"] /\ \A t \in Traders : out'[t] = out[t]
        /\ UNCHANGED <<stopFill, owed, lost, task>>
    BY <1>6, SinkTakesIs, InputIs DEF SinkTakes, PipeTypes, Chans, Tasks, Traders
  <2> QED BY <1>1, <2>1 DEF Dead
<1>7. CASE Record
  <2>1. /\ q["trade"] # <<>> /\ q'["trade"] = Tail(q["trade"]) /\ \A t \in Traders : out'[t] = out[t]
        /\ owed' = owed - 1 /\ UNCHANGED <<stopFill, lost, task>>
    <3>1. SinkTakes("recorder") /\ owed' = owed - 1 /\ Input["recorder"] = "trade"
      BY <1>7, SinkTakesIs, InputIs
    <3>2. q["trade"] # <<>> /\ q'["trade"] = Tail(q["trade"])
      BY <3>1 DEF SinkTakes, PipeTypes, Chans
    <3>3. \A t \in Traders : out'[t] = out[t]
      BY <3>1 DEF SinkTakes, PipeTypes, Tasks, Traders
    <3> QED BY <3>1, <3>2, <3>3 DEF SinkTakes
  <2>2. Len(q'["trade"]) = Len(q["trade"]) - 1
    BY <1>0, <2>1
  <2>3. Waiting' = Waiting - 1
    <3>2. Len(out'["cryptoMonitor"]) = x1 + 0 /\ \A u \in Traders \ {"cryptoMonitor"} : out'[u] = out[u]
      BY <1>p, <2>1 DEF Traders
    <3>3. Len(q'["trade"]) = Len(q["trade"]) + (-1) /\ Len(out'["cryptoMonitor"]) = Len(out["cryptoMonitor"]) + 0
      BY <1>p, <2>2, <3>2
    <3>4. Waiting' = Waiting + 0 + (-1)
      BY <1>c, <2>1, <3>2, <3>3 DEF Traders
    <3> QED BY <1>a, <3>4
  <2> QED BY <1>0, <1>a, <2>1, <2>3, SMTT(40) DEF OwedInv, Dead
<1>8. ASSUME Deliver("trade", Token)
      PROVE  /\ HasReader("trade") => Len(q'["trade"]) = Len(q["trade"]) + 1
             /\ ~HasReader("trade") => q' = q
             /\ ~HasReader("trade") /\ Dead = {} => task["recorder"] = "done"
  <2>1. HasReader("trade") => q'["trade"] = Append(q["trade"], Token)
    BY <1>8 DEF Deliver, PipeTypes, Chans
  <2>2. ~HasReader("trade") /\ Dead = {} => task["recorder"] = "done"
    BY ReaderIs DEF HasReader, Dead, PipeTypes, Tasks
  <2> QED BY <1>0, <1>8, <2>1, <2>2 DEF Deliver
<1>9. ASSUME NEW t \in Tasks, Send(t) PROVE OwedInv'
  <2>1. /\ out[t] # <<>> /\ out[t] \in Seq(Messages) /\ task[t] = "running"
        /\ out' = [out EXCEPT ![t] = Tail(@)] /\ UNCHANGED <<task, stopFill, owed, lost>>
        /\ Deliver(Head(out[t])[1], Head(out[t])[2])
    BY <1>9 DEF Send, PipeTypes, Messages, eventVars
  <2>2. 1 \in DOMAIN out[t] /\ Head(out[t]) = out[t][1] /\ t \in Traders \cup {"engine"}
    BY <2>1 DEF OutInv, Tasks, Traders
  <2>3. CASE t = "engine"
    <3>1. Head(out[t])[1] # "trade"
      BY <2>2, <2>3 DEF OutInv, Monitors
    <3>2. q'["trade"] = q["trade"]
      BY <2>1, <3>1 DEF Deliver, PipeTypes, Chans
    <3>3. \A u \in Traders : out'[u] = out[u]
      BY <2>1, <2>3 DEF PipeTypes, Traders, Tasks
    <3> QED BY <1>1, <2>1, <3>2, <3>3 DEF Dead
  <2>4. CASE t \in Traders
    <3>1. Head(out[t]) = <<"trade", Token>>
      BY <2>2, <2>4 DEF OutInv
    <3>2. Deliver("trade", Token)
      BY <2>1, <3>1
    <3>3. Len(out'[t]) = Len(out[t]) - 1 /\ Len(out[t]) \in Nat /\ \A u \in Traders \ {t} : out'[u] = out[u]
      BY <2>1 DEF PipeTypes, Traders, Tasks
    <3>4. Dead' = Dead /\ (~HasReader("trade") => Dead # {})
      BY <1>8, <2>1, <2>4, <3>2 DEF DoneInv, Dead
    <3>5. Len(out'[t]) = Len(out[t]) + (-1) /\ -1 \in Int
      BY <3>3
    <3>6. CASE HasReader("trade")
      <4>1. Len(q'["trade"]) = Len(q["trade"]) + 1
        BY <1>8, <3>2, <3>6
      <4>2. Waiting' = Waiting + (-1) + 1
        BY <1>c, <2>1, <2>4, <3>3, <3>5, <4>1
      <4>3. Waiting' = Waiting
        BY <1>a, <4>2
      <4> QED BY <2>1, <3>4, <4>3 DEF OwedInv
    <3>7. CASE ~HasReader("trade")
      <4>1. Len(q'["trade"]) = Len(q["trade"]) + 0
        BY <1>0, <1>8, <3>2, <3>7
      <4>2. Waiting' = Waiting + (-1) + 0
        BY <1>c, <2>1, <2>4, <3>3, <3>5, <4>1
      <4>3. Waiting' = Waiting - 1
        BY <1>a, <4>2
      <4> QED BY <1>0, <1>a, <2>1, <3>4, <3>7, <4>3 DEF OwedInv
    <3> QED BY <3>6, <3>7
  <2> QED BY <2>2, <2>3, <2>4
<1>10. ASSUME NEW t \in Tasks, Finish(t) PROVE OwedInv'
  <2>1. Dead' = {} => Dead = {}
    BY <1>10 DEF Finish, Receiving, Dead, PipeTypes
  <2> QED BY <1>1, <1>10, <2>1 DEF Finish, eventVars
<1>11. ASSUME NEW t \in Tasks, Panic(t) PROVE OwedInv'
  <2>1. /\ q' = [q EXCEPT ![Input[t]] = <<>>] /\ out' = [out EXCEPT ![t] = <<>>]
        /\ UNCHANGED <<stopFill, owed, lost>> /\ t \in Dead'
    BY <1>11 DEF Panic, Dead, PipeTypes, eventVars
  <2>2. q'["trade"] = q["trade"] \/ q'["trade"] = <<>>
    BY <2>1 DEF PipeTypes, Chans
  <2>3. \A u \in Traders : out'[u] = out[u] \/ out'[u] = <<>>
    BY <2>1 DEF PipeTypes, Traders, Tasks
  <2>4. Len(q'["trade"]) \in Nat /\ Len(q'["trade"]) <= Len(q["trade"])
    BY <1>0, <2>2
  <2>5. \A u \in Traders : Len(out'[u]) \in Nat /\ Len(out'[u]) <= Len(out[u])
    BY <1>0, <2>3 DEF Traders
  <2>6. Waiting' <= Waiting /\ Waiting' \in Int
    <3>1. PICK v, y1, y2, y3 \in Nat :
            /\ Len(q'["trade"]) = v /\ Len(out'["cryptoMonitor"]) = y1
            /\ Len(out'["executor"]) = y2 /\ Len(out'["exitExecutor"]) = y3
      BY <2>4, <2>5, Zenon DEF Traders
    <3>2. v <= w /\ y1 <= x1 /\ y2 <= x2 /\ y3 <= x3
      BY <1>p, <2>4, <2>5, <3>1 DEF Traders
    <3>3. Unsent' = Unsent
      BY <1>b, <2>1
    <3>4. Waiting' = v + y1 + y2 + y3 + Unsent
      BY <3>1, <3>3, Zenon DEF Waiting
    <3> QED BY <1>a, <3>2, <3>4
  <2> QED BY <1>0, <1>a, <2>1, <2>6 DEF OwedInv
<1>12. CASE DrainTimeout
  <2>1. /\ q'["trade"] = <<>> /\ \A u \in Traders : out'[u] = <<>>
        /\ stopFill' = "stopped" /\ UNCHANGED <<owed, lost>> /\ Dead' # {}
    BY <1>12 DEF DrainTimeout, Dead, Tasks, Traders, Chans, eventVars
  <2>2. Waiting' = 0
    <3>1. /\ Len(q'["trade"]) = 0 /\ Len(out'["cryptoMonitor"]) = 0
          /\ Len(out'["executor"]) = 0 /\ Len(out'["exitExecutor"]) = 0
      BY <2>1 DEF Traders
    <3>2. Unsent' = 0
      BY <2>1 DEF Unsent
    <3> QED BY <3>1, <3>2 DEF Waiting
  <2> QED BY <1>0, <1>a, <2>1, <2>2 DEF OwedInv
<1>13. CASE StopFillCloses
  <2>1. /\ stopFill = "idle" /\ stopFill' = "closed" /\ owed' = owed + 1 /\ UNCHANGED <<q, task, out, lost>>
    BY <1>13 DEF StopFillCloses, taskVars
  <2>2. Waiting' = Waiting + 1
    BY <1>0, <2>1 DEF Waiting, Unsent
  <2> QED BY <1>0, <1>a, <2>1, <2>2 DEF OwedInv, Dead
<1>14. CASE StopFillPublishes
  <2>1. /\ stopFill = "closed" /\ stopFill' = "idle" /\ Deliver("trade", Token)
        /\ UNCHANGED <<task, out, owed, lost>>
    BY <1>14 DEF StopFillPublishes, eventVars
  <2>2. Dead' = Dead /\ (~HasReader("trade") => Dead # {})
    BY <1>8, <2>1 DEF DoneInv, Dead
  <2>3. Unsent = 1 /\ Unsent' = 0
    BY <2>1 DEF Unsent
  <2>4. HasReader("trade") => Waiting' = Waiting
    <3>1. HasReader("trade") => Len(q'["trade"]) = Len(q["trade"]) + 1
      BY <1>8, <2>1
    <3>2. HasReader("trade") => Waiting' = (w + 1) + x1 + x2 + x3 + 0
      BY <1>p, <2>1, <2>3, <3>1, Zenon DEF Waiting
    <3> QED BY <1>a, <2>3, <3>2
  <2>5. ~HasReader("trade") => Waiting' = Waiting - 1
    <3>1. ~HasReader("trade") => q' = q
      BY <1>8, <2>1
    <3> QED BY <1>0, <2>1, <2>3, <3>1 DEF Waiting
  <2> QED BY <1>0, <1>a, <2>1, <2>2, <2>4, <2>5 DEF OwedInv
<1>15. CASE AbortStopFill
  <2>1. /\ stopFill # "stopped" /\ stopFill' = "stopped" /\ UNCHANGED <<q, task, out>>
        /\ lost' = (IF stopFill = "closed" THEN lost + 1 ELSE lost)
        /\ owed' = (IF stopFill = "closed" THEN owed - 1 ELSE owed)
    BY <1>15 DEF AbortStopFill, taskVars
  <2>2. Waiting' = (IF stopFill = "closed" THEN Waiting - 1 ELSE Waiting)
    BY <1>0, <2>1 DEF Waiting, Unsent
  <2> QED BY <1>0, <1>a, <2>1, <2>2 DEF OwedInv, Dead
<1>16. CASE \/ \E f \in Feeds : FeedFindsPriceClosed(f) \/ AbortFeed(f)
            \/ Shutdown \/ Drained
  BY <1>1, <1>16 DEF FeedFindsPriceClosed, AbortFeed, Shutdown, Drained, taskVars, eventVars, Dead
<1> QED
  BY <1>2, <1>3, <1>5, <1>6, <1>7, <1>9, <1>10, <1>11, <1>12, <1>13, <1>14, <1>15, <1>16 DEF Next, Step, Handle

-----------------------------------------------------------------------------
(* Empty channels and running tasks to begin with.                         *)
LEMMA InitInv ==
  ASSUME Init
  PROVE  PipeInv
<1> USE DEF Init
<1>1. PipeTypes
  BY DEF PipeTypes, PriceChans, Chans
<1>2. OutInv
  BY DEF OutInv, Tasks, Traders
<1>3. RouteInv
  BY DEF RouteInv, Increasing, PriceChans, Monitors, Chans
<1>4. ASSUME NEW f \in Feeds PROVE Placed(f, 0, 0)
  <2>1. q[ChannelOf(f)] = <<>> /\ q["price"] = <<>> /\ out["engine"] = <<>> /\ seen[f] = <<>> /\ published[f] = 0
    BY DEF ChannelOf, Chans, Tasks
  <2>2. \A n \in Nat : ~Has(<<>>, f, n) /\ ~Held(f, n)
    BY <2>1 DEF Has, Held
  <2> QED BY <2>1, <2>2 DEF Placed
<1>5. StreamInv
  BY <1>4 DEF StreamInv
<1>6. DoneInv
  BY DEF DoneInv, Tasks, Traders
<1>7. OwedInv
  BY DEF OwedInv, Waiting, Unsent, Dead, Tasks, Chans
<1> QED BY <1>1, <1>2, <1>3, <1>5, <1>6, <1>7 DEF PipeInv

(* The invariant holds in every reachable state.                           *)
LEMMA PipeInvariant == Spec => []PipeInv
<1>1. PipeInv /\ [Next]_vars => PipeInv'
  <2> SUFFICES ASSUME PipeInv, [Next]_vars PROVE PipeInv'
    OBVIOUS
  <2>1. CASE Next
    BY <2>1, TypesStep, OutStep, StreamStep, DoneStep, OwedStep DEF PipeInv
  <2>2. CASE UNCHANGED vars
    <3>1. UNCHANGED <<q, task, out, feed, stopFill, published, seen, owed, lost, main>>
      BY <2>2 DEF vars, taskVars, eventVars, mainVars
    <3>2. PipeTypes' /\ OutInv' /\ RouteInv'
      BY <3>1 DEF PipeInv, PipeTypes, OutInv, RouteInv
    <3>3. StreamInv'
      <4>1. Elsewhere
        BY <3>1 DEF Elsewhere
      <4> QED BY <4>1, StreamElsewhere DEF PipeInv
    <3>4. DoneInv'
      BY <3>1 DEF PipeInv, DoneInv
    <3>5. OwedInv'
      BY <3>1 DEF PipeInv, OwedInv, Waiting, Unsent, Dead
    <3> QED BY <3>2, <3>3, <3>4, <3>5 DEF PipeInv
  <2> QED BY <2>1, <2>2
<1> QED BY InitInv, <1>1, PTL DEF Spec

(* A drain that ends by itself with no task dead leaves no message in any  *)
(* channel, no trade event unrecorded but one that the abort of the        *)
(* stop-fill loop may have lost, and no price event unseen.                *)
THEOREM ShutdownCorrect == Spec => []CleanShutdown
<1>1. PipeInv => CleanShutdown
  <2> SUFFICES ASSUME PipeInv, main = "exited", Dead = {}
               PROVE  /\ \A c \in Chans : q[c] = <<>>
                      /\ owed = 0 /\ lost <= 1
                      /\ \A f \in Feeds : Len(seen[f]) = published[f]
    BY DEF CleanShutdown
  <2> USE DEF PipeInv
  <2>1. \A t \in Tasks : task[t] = "done"
    BY DEF DoneInv, Dead, PipeTypes
  <2>2. \A c \in Chans : q[c] = <<>>
    BY <2>1, InputIs DEF DoneInv, Tasks, Chans
  <2>3. stopFill = "stopped" /\ \A t \in Tasks : out[t] = <<>>
    BY <2>1 DEF DoneInv, OutInv, Tasks
  <2>4. owed = 0 /\ lost <= 1
    <3>1. /\ Len(q["trade"]) = 0 /\ Len(out["cryptoMonitor"]) = 0
          /\ Len(out["executor"]) = 0 /\ Len(out["exitExecutor"]) = 0
      BY <2>2, <2>3 DEF Tasks, Chans
    <3>2. Unsent = 0
      BY <2>3 DEF Unsent
    <3>3. Waiting = 0
      BY <3>1, <3>2 DEF Waiting
    <3> QED BY <2>3, <3>3 DEF OwedInv
  <2>5. ASSUME NEW f \in Feeds PROVE Len(seen[f]) = published[f]
    <3>1. task[MonitorOf(f)] # "dead" /\ task["engine"] # "dead"
      BY <2>1 DEF MonitorOf, Tasks
    <3>2. PICK a \in Nat, b \in Nat : Placed(f, a, b)
      BY <3>1 DEF StreamInv
    <3>3. q[ChannelOf(f)] = <<>> /\ q["price"] = <<>> /\ out["engine"] = <<>>
      BY <2>2, <2>3 DEF ChannelOf, Chans, Tasks
    <3>4. \A n \in Nat : ~Has(q[ChannelOf(f)], f, n) /\ ~Held(f, n) /\ ~Has(q["price"], f, n)
      BY <3>3 DEF Has, Held
    <3>5. Len(seen[f]) \in Nat /\ published[f] \in Nat
      BY DEF PipeTypes
    <3>6. /\ Len(seen[f]) <= a /\ a <= b /\ b <= published[f]
          /\ ~(Len(seen[f]) < a /\ a <= a) /\ ~(a < b /\ b <= b) /\ ~(b < published[f] /\ published[f] <= published[f])
      BY <3>1, <3>2, <3>4, <3>5 DEF Placed
    <3> QED BY <3>5, <3>6
  <2> QED BY <2>2, <2>4, <2>5
<1> QED BY <1>1, PipeInvariant, PTL

(* The pipeline implements the stream: through bounded channels, panics of *)
(* any task and shutdown at any time, the monitor of a feed sees the       *)
(* events in the order in which they were published, none twice and none   *)
(* skipped.                                                                *)
THEOREM StreamImplemented == Spec => MonitorsSeeTheStream
<1>1. Init => Stream!Init
  BY DEF Init, Stream!Init
<1>2. PipeInv /\ [Next]_vars => [Stream!Next]_<<published, seen>>
  <2> SUFFICES ASSUME PipeInv, Next PROVE Stream!Next \/ UNCHANGED <<published, seen>>
    BY DEF vars, eventVars
  <2> USE DEF PipeInv
  <2>1. CASE \E f \in Feeds : PublishPrice(f)
    BY <2>1 DEF PublishPrice, Stream!Next, Stream!Publish
  <2>2. ASSUME NEW c \in Monitors, task[Reader(c)] = "running", q[c] # <<>>, UNCHANGED published,
               LET e == Head(q[c]) IN seen' = [seen EXCEPT ![e.feed] = Append(@, e.n)]
        PROVE  Stream!Next
    <3> DEFINE f == Head(q[c]).feed
    <3>1. f \in Feeds /\ Head(q[c]).n = Len(seen[f]) + 1 /\ Len(seen[f]) < published[f]
      BY <2>2, MonitorSees
    <3>2. Stream!See(f)
      BY <2>2, <3>1 DEF Stream!See
    <3> QED BY <3>1, <3>2 DEF Stream!Next
  <2>3. CASE FxDrain
    <3>1. task["fxDrain"] = "running" /\ q["fx"] # <<>> /\ UNCHANGED published
      BY <2>3, SinkTakesIs, InputIs DEF SinkTakes
    <3> QED BY <2>2, <2>3, <3>1, SinkTakesIs, ReaderIs DEF Monitors
  <2>4. CASE ProcessPriceEvent
    <3>1. task["cryptoMonitor"] = "running" /\ q["crypto"] # <<>> /\ UNCHANGED published
      BY <2>4, TraderTakesIs, InputIs DEF TraderTakes
    <3> QED BY <2>2, <2>4, <3>1, TraderTakesIs, ReaderIs DEF Monitors
  <2>5. CASE HandlePriceEvent \/ ProcessSignal \/ ProcessExit \/ Record
    BY <2>5, EngineTakes, TraderTakesIs, SinkTakesIs DEF TraderTakes, SinkTakes
  <2>6. CASE Aside
    BY <2>6 DEF Aside
  <2>7. CASE StopFillPublishes \/ DrainTimeout \/ \E t \in Tasks : Send(t) \/ Finish(t) \/ Panic(t)
    BY <2>7 DEF StopFillPublishes, DrainTimeout, Send, Finish, Panic, eventVars
  <2> QED BY <2>1, <2>3, <2>4, <2>5, <2>6, <2>7, AsideIs DEF Next, Step, Handle
<1> QED BY <1>1, <1>2, PipeInvariant, PTL DEF Spec, MonitorsSeeTheStream, Stream!Spec

-----------------------------------------------------------------------------
(***************************************************************************)
(* FxStrategy.  The inductive invariant FxInv says that the pending        *)
(* candles are of one bar and one for each period, that every bar holds    *)
(* the candles of all its periods, that nothing is of a period to come,    *)
(* and that without late candles all of it was stored.  The restart needs  *)
(* it of what warmup builds, for any number of stored candles: a recursive *)
(* function, which is shown to exist and to be right by looking at the     *)
(* first period for which it would not be.                                 *)
(***************************************************************************)

(* The assumption on the constants, in the form that is used.              *)
LEMMA FxSettings ==
  /\ PerBar \in Nat /\ PerBar > 1 /\ HistoryLen \in Nat \ {0}
  /\ ExitChannel \in Nat \ {0} /\ EntryChannel \in Nat \ {0}
  /\ MaxCandles \in Nat /\ MaxAgain \in Nat
  /\ CandleShapes \subseteq [high : Int, low : Int, close : Int]
BY FxAssumption

-----------------------------------------------------------------------------
(* The periods in which a bar starts.                                      *)
IsStart(k) == \E i \in Nat : k = i * PerBar

(* Two bars start a whole bar apart or at the same time.                   *)
LEMMA StartsApart ==
  ASSUME NEW k \in Nat, NEW m \in Nat, IsStart(k), IsStart(m), k < m + PerBar
  PROVE  k <= m
<1>1. PICK i \in Nat : k = i * PerBar
  BY DEF IsStart
<1>2. PICK j \in Nat : m = j * PerBar
  BY DEF IsStart
<1>3. PerBar \in Nat
  BY FxSettings
<1>4. ASSUME i >= j + 1 PROVE FALSE
  <2>1. i * PerBar >= (j + 1) * PerBar
    BY <1>3, <1>4, Z3
  <2>2. (j + 1) * PerBar = j * PerBar + PerBar
    BY <1>3, Z3
  <2> QED BY <1>1, <1>2, <1>3, <2>1, <2>2
<1>5. i <= j
  BY <1>4
<1>6. i * PerBar <= j * PerBar
  BY <1>3, <1>5, Z3
<1> QED BY <1>1, <1>2, <1>6

(* Every period lies in the bar that its bucket starts.                    *)
LEMMA BucketIs ==
  ASSUME NEW t \in Nat
  PROVE  Bucket(t) \in Nat /\ Bucket(t) <= t /\ t < Bucket(t) + PerBar /\ IsStart(Bucket(t))
<1>1. PerBar \in Nat \ {0}
  BY FxSettings
<1>2. /\ t % PerBar \in Nat /\ t % PerBar < PerBar /\ t \div PerBar \in Nat
      /\ t = PerBar * (t \div PerBar) + (t % PerBar)
  BY <1>1, Z3
<1>3. Bucket(t) = (t \div PerBar) * PerBar
  BY <1>1, <1>2, Z3 DEF Bucket
<1>4. Bucket(t) = t - (t % PerBar)
  BY DEF Bucket
<1>5. IsStart(Bucket(t))
  BY <1>2, <1>3 DEF IsStart
<1>6. (t \div PerBar) * PerBar \in Nat
  BY <1>1, <1>2
<1> QED BY <1>1, <1>2, <1>3, <1>4, <1>5, <1>6

(* All the periods of a bar have its start as bucket.                      *)
LEMMA BucketOfStart ==
  ASSUME NEW k \in Nat, IsStart(k), NEW t \in k..(k + PerBar - 1)
  PROVE  Bucket(t) = k
<1>1. PerBar \in Nat /\ t \in Nat /\ k <= t /\ t < k + PerBar
  BY FxSettings
<1>2. Bucket(t) \in Nat /\ Bucket(t) <= t /\ t < Bucket(t) + PerBar /\ IsStart(Bucket(t))
  BY <1>1, BucketIs
<1>3. k <= Bucket(t)
  BY <1>1, <1>2, StartsApart
<1>4. Bucket(t) <= k
  BY <1>1, <1>2, StartsApart
<1> QED BY <1>2, <1>3, <1>4

(* Where a bar ends the next one starts.                                   *)
LEMMA NextStart == ASSUME NEW k \in Nat, IsStart(k) PROVE IsStart(k + PerBar) /\ k + PerBar \in Nat
<1>1. PICK i \in Nat : k = i * PerBar
  BY DEF IsStart
<1>2. PerBar \in Nat
  BY FxSettings
<1>3. (i + 1) * PerBar = i * PerBar + PerBar
  BY <1>2, Z3
<1> QED BY <1>1, <1>2, <1>3 DEF IsStart

-----------------------------------------------------------------------------
(* Candles and bars: what may be pending, and a bar with all its periods.  *)
Candles == [t : Nat, high : Int, low : Int, close : Int]
OnePerPeriod(S) == \A c, d \in S : c.t = d.t => c = d
PendingOK(P) ==
  /\ P \subseteq Candles /\ IsFiniteSet(P) /\ OnePerPeriod(P)
  /\ \A c, d \in P : Bucket(c.t) = Bucket(d.t)

Bars == [t : Nat, candles : SUBSET Candles]
WholeBar(b) ==
  /\ IsStart(b.t) /\ IsFiniteSet(b.candles) /\ {c.t : c \in b.candles} = b.t..(b.t + PerBar - 1)
BarsOK(s) == s \in Seq(Bars) /\ \A i \in DOMAIN s : WholeBar(s[i])

(* The candles come from S, and they are of periods before n.              *)
MadeOf(P, s, S) == P \subseteq S /\ \A i \in DOMAIN s : s[i].candles \subseteq S
Before(P, s, n) == (\A c \in P : c.t < n) /\ \A i \in DOMAIN s : \A c \in s[i].candles : c.t < n
Ascends(s) == \A i \in 1..(Len(s) - 1) : s[i].t < s[i + 1].t

(* As many candles as a bar has periods are one of each of them.           *)
LEMMA FilledBar ==
  ASSUME NEW A \in SUBSET Candles, IsFiniteSet(A), OnePerPeriod(A), NEW k \in Nat, IsStart(k),
         \A c \in A : Bucket(c.t) = k, Cardinality(A) = PerBar
  PROVE  {c.t : c \in A} = k..(k + PerBar - 1)
<1> DEFINE I == k..(k + PerBar - 1)
           f == [c \in A |-> c.t]
<1>1. PerBar \in Nat \ {0}
  BY FxSettings
<1>2. \A c \in A : c.t \in I
  <2> SUFFICES ASSUME NEW c \in A PROVE c.t \in I
    OBVIOUS
  <2>1. c.t \in Nat /\ Bucket(c.t) = k
    BY DEF Candles
  <2>2. Bucket(c.t) <= c.t /\ c.t < Bucket(c.t) + PerBar
    BY <2>1, BucketIs
  <2> QED BY <1>1, <2>1, <2>2
<1>3. IsFiniteSet(I) /\ Cardinality(I) = PerBar
  <2>1. k \in Int /\ k + PerBar - 1 \in Int /\ ~(k > k + PerBar - 1) /\ (k + PerBar - 1) - k + 1 = PerBar
    BY <1>1
  <2> QED BY <2>1, FS_Interval
<1> HIDE DEF I
<1>4. f \in Injection(A, I)
  <2>1. f \in [A -> I]
    BY <1>2
  <2>2. \A a, b \in A : f[a] = f[b] => a = b
    BY DEF OnePerPeriod
  <2> HIDE DEF f
  <2> QED BY <2>1, <2>2 DEF Injection, IsInjective
<1>5. f \in Surjection(A, I)
  <2> HIDE DEF f
  <2> QED BY <1>3, <1>4, FS_Injection
<1>6. \A x \in I : \E c \in A : f[c] = x
  <2> HIDE DEF f
  <2> QED BY <1>5 DEF Surjection
<1> QED BY <1>2, <1>6 DEF I

(* What aggregate_m15 keeps and the bar that it completes.                 *)
LEMMA Aggregated ==
  ASSUME NEW P, PendingOK(P), NEW c \in Candles, NEW r, r = AggregateM15(P, c)
  PROVE  /\ PendingOK(r.pending) /\ r.pending \subseteq P \cup {c}
         /\ \/ r.bars = <<>>
            \/ \E b \in Bars : /\ r.bars = <<b>> /\ b.t = Bucket(c.t)
                              /\ WholeBar(b) /\ b.candles \subseteq P \cup {c}
<1> DEFINE fresh == FreshPending(P, c)
           all == IF \E d \in fresh : d.t = c.t THEN fresh ELSE fresh \cup {c}
<1>0. c.t \in Nat
  BY DEF Candles
<1>1. fresh \subseteq P /\ \A d \in fresh : Bucket(d.t) = Bucket(c.t)
  BY DEF FreshPending
<1>2. IsFiniteSet(fresh)
  BY <1>1, FS_Subset DEF PendingOK
<1>3. IsFiniteSet(all)
  BY <1>2, FS_AddElement
<1>4. all \subseteq P \cup {c} /\ all \subseteq Candles /\ \A d \in all : Bucket(d.t) = Bucket(c.t)
  BY <1>1 DEF PendingOK
<1>5. OnePerPeriod(all)
  BY <1>1 DEF PendingOK, OnePerPeriod
<1>6. PendingOK(all)
  BY <1>3, <1>4, <1>5 DEF PendingOK
<1>7. PendingOK({})
  BY FS_EmptySet DEF PendingOK, OnePerPeriod
<1>8. CASE all # fresh /\ Cardinality(all) = PerBar
  <2> DEFINE b == [t |-> Bucket(c.t), candles |-> all]
  <2>1. r.pending = {} /\ r.bars = <<b>>
    BY <1>8 DEF AggregateM15
  <2> HIDE DEF all
  <2>2. Bucket(c.t) \in Nat /\ IsStart(Bucket(c.t))
    BY <1>0, BucketIs
  <2>3. {d.t : d \in all} = Bucket(c.t)..(Bucket(c.t) + PerBar - 1)
    BY <1>3, <1>4, <1>5, <1>8, <2>2, FilledBar
  <2>4. b \in Bars /\ WholeBar(b)
    BY <1>3, <1>4, <2>2, <2>3 DEF Bars, WholeBar
  <2> QED BY <1>4, <1>7, <2>1, <2>4
<1>9. CASE ~(all # fresh /\ Cardinality(all) = PerBar)
  <2>1. r.pending = all /\ r.bars = <<>>
    BY <1>9 DEF AggregateM15
  <2> HIDE DEF all
  <2> QED BY <1>4, <1>6, <2>1
<1> QED BY <1>8, <1>9

-----------------------------------------------------------------------------
(* The greater one of two numbers.                                         *)
LEMMA BiggerOfTwo ==
  ASSUME NEW a \in Int, NEW b \in Int
  PROVE  Max({a, b}) \in {a, b} /\ a <= Max({a, b}) /\ b <= Max({a, b})
<1>1. \E x \in {a, b} : \A y \in {a, b} : x >= y
  <2>1. CASE a <= b
    BY <2>1
  <2>2. CASE b <= a
    BY <2>2
  <2> QED BY <2>1, <2>2
<1> DEFINE m == CHOOSE x \in {a, b} : \A y \in {a, b} : x >= y
<1>2. m \in {a, b} /\ \A y \in {a, b} : m >= y
  BY <1>1
<1>3. Max({a, b}) = m
  BY DEF Max
<1> HIDE DEF m
<1> QED BY <1>2, <1>3

(* kept is the end of z.                                                  *)
EndOf(kept, z) == \E k \in Nat : Len(kept) + k = Len(z) /\ \A i \in 1..Len(kept) : kept[i] = z[i + k]

(* push_limited drops bars at the front only.                              *)
LEMMA Pushed ==
  ASSUME NEW s \in Seq(Bars), NEW bs \in Seq(Bars)
  PROVE  PushLimited(s, bs) \in Seq(Bars) /\ EndOf(PushLimited(s, bs), s \o bs)
<1> DEFINE r == s \o bs
           kept == PushLimited(s, bs)
           a == Len(r) - HistoryLen + 1
           m == Max({1, a})
<1>1. r \in Seq(Bars) /\ Len(r) \in Nat
  OBVIOUS
<1>2. a \in Int /\ a <= Len(r)
  BY <1>1, FxSettings
<1>3. kept = SubSeq(r, m, Len(r))
  BY DEF PushLimited
<1> HIDE DEF r, kept
<1>4. m \in {1, a} /\ 1 <= m
  <2>1. 1 \in Int /\ a \in Int
    BY <1>2
  <2> HIDE DEF a
  <2> QED BY <2>1, BiggerOfTwo
<1>5. m \in Int /\ m <= Len(r) + 1
  BY <1>1, <1>2, <1>4
<1> HIDE DEF m, a
<1>6. kept \in Seq(Bars) /\ Len(kept) = Len(r) - m + 1 /\ \A i \in 1..Len(kept) : kept[i] = r[i + m - 1]
  <2>1. CASE m <= Len(r)
    BY <1>1, <1>3, <1>4, <1>5, <2>1, SubSeqProperties
  <2>2. CASE m = Len(r) + 1
    BY <1>1, <1>3, <1>4, <1>5, <2>2, SubSeqProperties
  <2> QED BY <1>1, <1>5, <2>1, <2>2
<1> DEFINE k == m - 1
<1>7. k \in Nat /\ Len(kept) + k = Len(r) /\ \A i \in 1..Len(kept) : kept[i] = r[i + k]
  BY <1>1, <1>4, <1>5, <1>6
<1> HIDE DEF k
<1>8. kept \in Seq(Bars) /\ EndOf(kept, r)
  BY <1>6, <1>7 DEF EndOf
<1> QED BY <1>8 DEF kept, r

(* A candle comes in: the bars stay whole, and in order if it is newer     *)
(* than all the others.                                                    *)
LEMMA EventKeeps ==
  ASSUME NEW P, NEW s, PendingOK(P), BarsOK(s), NEW c \in Candles,
         NEW r, r = AggregateM15(P, c), NEW kept, kept = PushLimited(s, r.bars)
  PROVE  /\ PendingOK(r.pending) /\ BarsOK(kept)
         /\ \A S : MadeOf(P, s, S) /\ c \in S => MadeOf(r.pending, kept, S)
         /\ \A n \in Nat : Before(P, s, n) /\ c.t < n => Before(r.pending, kept, n)
         /\ Before(P, s, c.t) /\ Ascends(s) => Ascends(kept)
         /\ r.bars = <<>> \/ \E b \in Bars : r.bars = <<b>> /\ b.t = Bucket(c.t) /\ WholeBar(b)
<1>1. /\ PendingOK(r.pending) /\ r.pending \subseteq P \cup {c}
      /\ \/ r.bars = <<>>
         \/ \E b \in Bars : /\ r.bars = <<b>> /\ b.t = Bucket(c.t)
                           /\ WholeBar(b) /\ b.candles \subseteq P \cup {c}
  BY Aggregated
<1>2. s \in Seq(Bars) /\ r.bars \in Seq(Bars)
  <2>1. \A b \in Bars : <<b>> \in Seq(Bars)
    OBVIOUS
  <2>2. <<>> \in Seq(Bars)
    OBVIOUS
  <2> QED BY <1>1, <2>1, <2>2 DEF BarsOK
<1> DEFINE z == s \o r.bars
<1>3. kept \in Seq(Bars) /\ EndOf(kept, z)
  BY <1>2, Pushed
<1>4. PICK k \in Nat : Len(kept) + k = Len(z) /\ \A i \in 1..Len(kept) : kept[i] = z[i + k]
  BY <1>3 DEF EndOf
<1>5. /\ z \in Seq(Bars) /\ Len(z) \in Nat /\ Len(kept) \in Nat
      /\ DOMAIN z = 1..Len(z) /\ DOMAIN kept = 1..Len(kept)
  BY <1>2, <1>3
<1>6. \A j \in DOMAIN z : \/ j \in DOMAIN s /\ z[j] = s[j]
                          \/ /\ j = Len(s) + 1 /\ r.bars = <<z[j]>> /\ z[j].t = Bucket(c.t)
                             /\ WholeBar(z[j]) /\ z[j].candles \subseteq P \cup {c}
  BY <1>1, <1>2
<1> HIDE DEF z
<1>7. \A i \in DOMAIN kept : i + k \in DOMAIN z /\ kept[i] = z[i + k]
  BY <1>4, <1>5
<1>8. BarsOK(kept)
  BY <1>3, <1>6, <1>7 DEF BarsOK
<1>9. ASSUME NEW S, MadeOf(P, s, S), c \in S PROVE MadeOf(r.pending, kept, S)
  BY <1>1, <1>6, <1>7, <1>9 DEF MadeOf
<1>10. ASSUME NEW n \in Nat, Before(P, s, n), c.t < n PROVE Before(r.pending, kept, n)
  BY <1>1, <1>6, <1>7, <1>10 DEF Before
<1>11. ASSUME Before(P, s, c.t), Ascends(s) PROVE Ascends(kept)
  <2>0. c.t \in Nat /\ PerBar \in Nat /\ PerBar > 1
    BY FxSettings DEF Candles
  <2>1. \A i \in DOMAIN s : s[i].t < Bucket(c.t)
    <3> SUFFICES ASSUME NEW i \in DOMAIN s PROVE s[i].t < Bucket(c.t)
      OBVIOUS
    <3>0. s[i] \in Bars
      BY <1>2
    <3>1. WholeBar(s[i]) /\ s[i].t \in Nat
      BY <3>0 DEF BarsOK, Bars
    <3>2. \E d \in s[i].candles : d.t = s[i].t + PerBar - 1
      BY <2>0, <3>1 DEF WholeBar
    <3>3. s[i].t + PerBar - 1 < c.t
      BY <1>11, <3>2 DEF Before
    <3>4. IsStart(s[i].t + PerBar) /\ s[i].t + PerBar \in Nat
      BY <3>1, NextStart DEF WholeBar
    <3>5. Bucket(c.t) \in Nat /\ c.t < Bucket(c.t) + PerBar /\ IsStart(Bucket(c.t))
      BY <2>0, BucketIs
    <3>6. s[i].t + PerBar <= Bucket(c.t)
      BY <2>0, <3>1, <3>3, <3>4, <3>5, StartsApart
    <3> QED BY <2>0, <3>1, <3>5, <3>6
  <2>2. \A j \in 1..(Len(z) - 1) : z[j].t < z[j + 1].t
    <3> SUFFICES ASSUME NEW j \in 1..(Len(z) - 1) PROVE z[j].t < z[j + 1].t
      OBVIOUS
    <3>1. j \in DOMAIN z /\ j + 1 \in DOMAIN z
      BY <1>5
    <3>2. /\ Len(s) \in Nat /\ DOMAIN s = 1..Len(s)
          /\ (r.bars # <<>> => Len(z) = Len(s) + 1) /\ (r.bars = <<>> => z = s)
      <4>1. Len(s) \in Nat /\ DOMAIN s = 1..Len(s) /\ s \o <<>> = s
        BY <1>2
      <4>2. \A b : Len(<<b>>) = 1
        OBVIOUS
      <4>3. Len(z) = Len(s) + Len(r.bars)
        BY <1>2 DEF z
      <4> QED BY <1>1, <4>1, <4>2, <4>3 DEF z
    <3>3. CASE j + 1 \in DOMAIN s /\ z[j + 1] = s[j + 1]
      <4>1. z[j] = s[j] /\ j \in 1..(Len(s) - 1)
        BY <1>6, <3>1, <3>2, <3>3
      <4> QED BY <1>11, <3>3, <4>1 DEF Ascends
    <3>4. CASE j + 1 = Len(s) + 1 /\ z[j + 1].t = Bucket(c.t)
      <4>1. j \in DOMAIN s
        BY <3>2, <3>4
      <4>2. z[j] = s[j]
        BY <1>6, <3>1, <3>2, <3>4, <4>1
      <4> QED BY <2>1, <3>4, <4>1, <4>2
    <3> QED BY <1>6, <3>1, <3>3, <3>4
  <2>3. ASSUME NEW i \in 1..(Len(kept) - 1) PROVE kept[i].t < kept[i + 1].t
    <3>1. i \in DOMAIN kept /\ i + 1 \in DOMAIN kept /\ i + k \in 1..(Len(z) - 1)
      BY <1>4, <1>5
    <3>2. kept[i] = z[i + k] /\ kept[i + 1] = z[(i + k) + 1]
      BY <1>7, <3>1
    <3> QED BY <2>2, <3>1, <3>2
  <2> QED BY <2>3 DEF Ascends
<1> QED BY <1>1, <1>8, <1>9, <1>10, <1>11

-----------------------------------------------------------------------------
(* A set of natural numbers has a least element.                           *)
LEMMA LeastOne ==
  ASSUME NEW T, T \subseteq Nat, T # {}
  PROVE  \E x \in T : \A y \in T : x <= y
<1>1. PICK x \in T : \A y \in T : ~(<<y, x>> \in OpToRel(<, Nat))
  BY NatLessThanWellFounded, WFMin
<1>2. \A y \in T : ~(y < x)
  BY <1>1 DEF OpToRel
<1> QED BY <1>2

(* What the warmup makes of the candles of the first m periods.            *)
WarmedNothing == [pending |-> {}, bars |-> <<>>]
WarmOf(g, m) ==
  g = [n \in 0..m |-> IF n = 0 THEN WarmedNothing ELSE WithStored(g[n - 1], {c \in stored : c.t = n - 1})]

(* One more period can be added,                                           *)
LEMMA WarmExtends ==
  ASSUME NEW m \in Nat, NEW g, WarmOf(g, m)
  PROVE  \E h : WarmOf(h, m + 1)
<1> DEFINE F(f, n) == IF n = 0 THEN WarmedNothing ELSE WithStored(f[n - 1], {c \in stored : c.t = n - 1})
           h == [n \in 0..(m + 1) |-> IF n \in 0..m THEN g[n] ELSE WithStored(g[m], {c \in stored : c.t = m})]
<1>1. \A n \in 0..m : g[n] = F(g, n)
  BY DEF WarmOf
<1>2. \A n \in 0..(m + 1) : n # 0 =>
        n - 1 \in 0..m /\ n - 1 \in 0..(m + 1) /\ (n \notin 0..m => n = m + 1 /\ n - 1 = m)
  OBVIOUS
<1>3. \A n \in 0..m : h[n] = g[n] /\ n \in 0..(m + 1)
  OBVIOUS
<1>4. h[m + 1] = WithStored(g[m], {c \in stored : c.t = m}) /\ m + 1 # 0 /\ (m + 1) - 1 = m /\ m \in 0..m
  OBVIOUS
<1> HIDE DEF h
<1>5. \A n \in 0..(m + 1) : h[n] = F(h, n)
  <2> SUFFICES ASSUME NEW n \in 0..(m + 1) PROVE h[n] = F(h, n)
    OBVIOUS
  <2>1. CASE n = 0
    <3>1. 0 \in 0..m
      OBVIOUS
    <3> QED BY <1>1, <1>3, <2>1, <3>1
  <2>2. CASE n # 0 /\ n \in 0..m
    <3>1. h[n] = WithStored(g[n - 1], {c \in stored : c.t = n - 1})
      BY <1>1, <1>3, <2>2
    <3>2. h[n - 1] = g[n - 1]
      BY <1>2, <1>3, <2>2
    <3> QED BY <2>2, <3>1, <3>2
  <2>3. CASE n \notin 0..m
    <3>1. n = m + 1 /\ n # 0 /\ n - 1 = m
      BY <2>3
    <3>2. h[n - 1] = g[m]
      BY <1>3, <1>4, <3>1
    <3> QED BY <1>4, <3>1, <3>2
  <2> QED BY <2>1, <2>2, <2>3
<1>6. h = [n \in 0..(m + 1) |-> h[n]]
  BY DEF h
<1>7. h = [n \in 0..(m + 1) |-> F(h, n)]
  <2> HIDE DEF F
  <2> QED BY <1>5, <1>6
<1>8. WarmOf(h, m + 1)
  BY <1>7 DEF WarmOf
<1> QED BY <1>8

(* so that the warmup is defined for any number of periods,                *)
LEMMA WarmExists == ASSUME NEW m \in Nat PROVE \E g : WarmOf(g, m)
<1> DEFINE T == {n \in Nat : ~ \E g : WarmOf(g, n)}
<1>1. SUFFICES ASSUME T # {} PROVE FALSE
  OBVIOUS
<1>2. PICK n \in T : \A y \in T : n <= y
  <2> HIDE DEF T
  <2>1. T \subseteq Nat
    BY DEF T
  <2> QED BY <1>1, <2>1, LeastOne
<1>3. n # 0
  <2> DEFINE g == [k \in 0..0 |-> WarmedNothing]
  <2>1. g = [k \in 0..0 |-> IF k = 0 THEN WarmedNothing
                            ELSE WithStored(g[k - 1], {c \in stored : c.t = k - 1})]
    <3>1. \A k \in 0..0 : k = 0
      OBVIOUS
    <3> QED BY <3>1
  <2>2. WarmOf(g, 0)
    BY <2>1 DEF WarmOf
  <2> QED BY <1>2, <2>2
<1>4. n - 1 \in Nat /\ n - 1 \notin T /\ (n - 1) + 1 = n
  BY <1>2, <1>3
<1>5. PICK g : WarmOf(g, n - 1)
  BY <1>4
<1>6. \E h : WarmOf(h, n)
  BY <1>4, <1>5, WarmExtends
<1> QED BY <1>2, <1>6

(* and does what its definition says.                                      *)
LEMMA WarmedUpIs ==
  /\ WarmedUp[0] = WarmedNothing
  /\ \A n \in 0..MaxCandles : n # 0 => WarmedUp[n] = WithStored(WarmedUp[n - 1], {c \in stored : c.t = n - 1})
<1>1. \E g : WarmOf(g, MaxCandles)
  BY FxSettings, WarmExists
<1>2. WarmedUp = CHOOSE g : WarmOf(g, MaxCandles)
  BY DEF WarmedUp, WarmOf, WarmedNothing
<1>3. WarmOf(WarmedUp, MaxCandles)
  BY <1>1, <1>2
<1> HIDE DEF WarmedUp
<1>4. \A n \in 0..MaxCandles :
        WarmedUp[n] = IF n = 0 THEN WarmedNothing ELSE WithStored(WarmedUp[n - 1], {c \in stored : c.t = n - 1})
  BY <1>3 DEF WarmOf
<1>5. 0 \in 0..MaxCandles
  BY FxSettings
<1> QED BY <1>4, <1>5

(* The bars of w are whole, in order, and made of candles of S before n.   *)
WarmOK(w, n, S) ==
  /\ PendingOK(w.pending) /\ BarsOK(w.bars)
  /\ MadeOf(w.pending, w.bars, S) /\ Before(w.pending, w.bars, n) /\ Ascends(w.bars)

(* One more stored candle keeps what the warmup has built in order.        *)
LEMMA WarmStep ==
  ASSUME NEW S \in SUBSET Candles, NEW n \in Nat, NEW w, WarmOK(w, n, S)
  PROVE  WarmOK(WithStored(w, {c \in S : c.t = n}), n + 1, S)
<1> DEFINE found == {c \in S : c.t = n}
           c == CHOOSE c \in found : TRUE
           r == AggregateM15(w.pending, c)
           kept == PushLimited(w.bars, r.bars)
           v == [pending |-> r.pending, bars |-> kept]
<1>0. Before(w.pending, w.bars, n + 1)
  <2>1. \A d \in w.pending : d \in Candles
    BY DEF WarmOK, PendingOK
  <2>2. \A i \in DOMAIN w.bars : w.bars[i] \in Bars
    BY DEF WarmOK, BarsOK
  <2>3. \A i \in DOMAIN w.bars : \A d \in w.bars[i].candles : d \in Candles
    BY <2>2 DEF Bars
  <2>4. \A d \in Candles : d.t < n => d.t < n + 1
    BY DEF Candles
  <2> QED BY <2>1, <2>3, <2>4 DEF WarmOK, Before
<1>1. CASE found = {}
  BY <1>0, <1>1 DEF WarmOK, WithStored
<1>2. CASE found # {}
  <2>1. c \in found
    BY <1>2
  <2>2. WithStored(w, found) = v
    BY <1>2 DEF WithStored
  <2>3. c \in S /\ c \in Candles /\ c.t = n /\ c.t < n + 1
    BY <2>1
  <2> HIDE DEF c
  <2>4. PendingOK(w.pending) /\ BarsOK(w.bars)
    BY DEF WarmOK
  <2>5. /\ PendingOK(r.pending) /\ BarsOK(kept)
        /\ \A X : MadeOf(w.pending, w.bars, X) /\ c \in X => MadeOf(r.pending, kept, X)
        /\ \A k \in Nat : Before(w.pending, w.bars, k) /\ c.t < k => Before(r.pending, kept, k)
        /\ Before(w.pending, w.bars, c.t) /\ Ascends(w.bars) => Ascends(kept)
    <3> HIDE DEF r, kept
    <3>1. r = AggregateM15(w.pending, c) /\ kept = PushLimited(w.bars, r.bars)
      BY DEF r, kept
    <3> QED BY <2>3, <2>4, <3>1, EventKeeps
  <2> HIDE DEF r, kept
  <2>6. v.pending = r.pending /\ v.bars = kept
    OBVIOUS
  <2> HIDE DEF v
  <2>7. WarmOK(v, n + 1, S)
    BY <1>0, <2>3, <2>5, <2>6 DEF WarmOK
  <2> QED BY <2>2, <2>7
<1> QED BY <1>1, <1>2

(* What a restart builds from the stored candles is whole and in order.    *)
LEMMA WarmedUpOK ==
  ASSUME stored \in SUBSET Candles, NEW n \in 0..MaxCandles
  PROVE  WarmOK(WarmedUp[n], n, stored)
<1> DEFINE T == {k \in 0..MaxCandles : ~WarmOK(WarmedUp[k], k, stored)}
<1>1. SUFFICES ASSUME T # {} PROVE FALSE
  OBVIOUS
<1>2. PICK k \in T : \A y \in T : k <= y
  <2> HIDE DEF T
  <2>1. T \subseteq Nat
    BY DEF T
  <2> QED BY <1>1, <2>1, LeastOne
<1>3. k # 0
  <2>1. PendingOK({}) /\ BarsOK(<<>>)
    BY FS_EmptySet DEF PendingOK, BarsOK, OnePerPeriod
  <2>2. MadeOf({}, <<>>, stored) /\ Before({}, <<>>, 0) /\ Ascends(<<>>)
    BY DEF MadeOf, Before, Ascends
  <2>3. WarmOK(WarmedNothing, 0, stored)
    BY <2>1, <2>2 DEF WarmOK, WarmedNothing
  <2> QED BY <1>2, <2>3, WarmedUpIs
<1>4. k \in 0..MaxCandles /\ k - 1 \in Nat /\ k - 1 \in 0..MaxCandles /\ k - 1 \notin T /\ (k - 1) + 1 = k
  BY <1>2, <1>3, FxSettings
<1>5. WarmOK(WarmedUp[k - 1], k - 1, stored)
  BY <1>4
<1>6. WarmOK(WithStored(WarmedUp[k - 1], {c \in stored : c.t = k - 1}), k, stored)
  <2> DEFINE w == WarmedUp[k - 1]
             m == k - 1
  <2>1. WarmOK(w, m, stored) /\ m \in Nat
    BY <1>4, <1>5
  <2> HIDE DEF w, m
  <2>2. WarmOK(WithStored(w, {c \in stored : c.t = m}), m + 1, stored)
    BY <2>1, WarmStep
  <2>3. m + 1 = k
    BY <1>4 DEF m
  <2> QED BY <2>2, <2>3 DEF w, m
<1> QED BY <1>2, <1>3, <1>4, <1>6, WarmedUpIs

-----------------------------------------------------------------------------
(* A finite set of numbers has a greatest and a least one.                 *)
LEMMA GreatestOne ==
  ASSUME NEW S, IsFiniteSet(S), S \subseteq Int, S # {}
  PROVE  \E x \in S : \A y \in S : x >= y
<1> DEFINE Tops(X) == {x \in X : \A y \in X : x >= y}
           B == {X \in SUBSET S : X # {} /\ Tops(X) = {}}
<1>1. SUFFICES ASSUME B # {} PROVE FALSE
  OBVIOUS
<1>2. PICK X \in B : \A Y \in B : ~(<<Y, X>> \in StrictSubsetOrdering(S))
  <2>1. B \subseteq FiniteSubsetsOf(S)
    BY FS_Subset DEF FiniteSubsetsOf
  <2> HIDE DEF B
  <2> QED BY <1>1, <2>1, FS_StrictSubsetOrderingWellFounded, WFMin
<1>3. X \subseteq S /\ X # {} /\ Tops(X) = {}
  OBVIOUS
<1>4. PICK x \in X : TRUE
  BY <1>3
<1> DEFINE Y == X \ {x}
<1>5. Y \notin B
  BY <1>2, <1>3, <1>4 DEF StrictSubsetOrdering
<1>6. Y # {}
  <2>1. SUFFICES ASSUME Y = {} PROVE FALSE
    OBVIOUS
  <2>2. X = {x} /\ x \in Int
    BY <1>3, <1>4, <2>1
  <2>3. x \in Tops(X)
    BY <2>2
  <2> QED BY <1>3, <2>3
<1>7. PICK y \in Y : \A z \in Y : y >= z
  BY <1>3, <1>5, <1>6
<1>8. x \in Int /\ y \in Int /\ X \subseteq Int
  BY <1>3, <1>4, <1>7
<1>9. CASE x >= y
  <2>1. x \in Tops(X)
    BY <1>4, <1>7, <1>8, <1>9
  <2> QED BY <1>3, <2>1
<1>10. CASE ~(x >= y)
  <2>1. y \in Tops(X)
    BY <1>4, <1>7, <1>8, <1>10
  <2> QED BY <1>3, <2>1
<1> QED BY <1>9, <1>10

(* Max and Min choose an element of the set.                               *)
LEMMA MaxIn ==
  ASSUME NEW S, IsFiniteSet(S), S \subseteq Int, S # {}
  PROVE  Max(S) \in S
<1>1. \E x \in S : \A y \in S : x >= y
  BY GreatestOne
<1> QED BY <1>1 DEF Max

(* The values of a function on a finite set are finitely many.             *)
LEMMA FiniteValues ==
  ASSUME NEW S, IsFiniteSet(S), NEW f, NEW T, f \in [S -> T], \A y \in T : \E x \in S : f[x] = y
  PROVE  IsFiniteSet(T)
<1>1. f \in Surjection(S, T)
  BY DEF Surjection
<1> QED BY <1>1, FS_Surjection

(* The same of the least element.                                          *)
LEMMA MinIn ==
  ASSUME NEW S, IsFiniteSet(S), S \subseteq Int, S # {}
  PROVE  Min(S) \in S
<1> DEFINE N == {-x : x \in S}
<1>1. IsFiniteSet(N)
  <2> DEFINE f == [x \in S |-> -x]
  <2>1. f \in [S -> N] /\ \A y \in N : \E x \in S : f[x] = y
    OBVIOUS
  <2> HIDE DEF f, N
  <2> QED BY <2>1, FiniteValues
<1>2. N \subseteq Int /\ N # {}
  <2>1. \A x \in S : -x \in Int
    OBVIOUS
  <2>2. N \subseteq Int
    BY <2>1
  <2>3. N # {}
    <3>1. PICK x \in S : TRUE
      OBVIOUS
    <3>2. -x \in N
      BY <3>1
    <3> QED BY <3>2
  <2> QED BY <2>2, <2>3
<1>3. \E x \in N : \A y \in N : x >= y
  <2> HIDE DEF N
  <2> QED BY <1>1, <1>2, GreatestOne
<1>4. PICK x \in S : \A y \in S : -x >= -y
  BY <1>3
<1>5. x \in S /\ \A y \in S : x <= y
  BY <1>4
<1> QED BY <1>5 DEF Min

(* The extremes of a bar are those of two of its candles.                  *)
LEMMA BarExtremes ==
  ASSUME NEW b \in Bars, WholeBar(b)
  PROVE  /\ \E c \in b.candles : c.high = High(b)
         /\ \E c \in b.candles : c.low = Low(b)
<1>1. b.candles \subseteq Candles /\ b.t \in Nat /\ IsFiniteSet(b.candles)
  BY DEF Bars, WholeBar
<1>2. b.candles # {}
  <2>1. b.t \in b.t..(b.t + PerBar - 1)
    BY <1>1, FxSettings
  <2> QED BY <2>1 DEF WholeBar
<1> DEFINE H == {c.high : c \in b.candles}
           L == {c.low : c \in b.candles}
<1>3. IsFiniteSet(H) /\ IsFiniteSet(L)
  <2> DEFINE S == b.candles
             h == [c \in S |-> c.high]
             l == [c \in S |-> c.low]
  <2>1. h \in [S -> H] /\ \A y \in H : \E x \in S : h[x] = y
    OBVIOUS
  <2>2. l \in [S -> L] /\ \A y \in L : \E x \in S : l[x] = y
    OBVIOUS
  <2>3. IsFiniteSet(S)
    BY <1>1
  <2> HIDE DEF S, h, l, H, L
  <2> QED BY <2>1, <2>2, <2>3, FiniteValues
<1>4. H \subseteq Int /\ H # {} /\ L \subseteq Int /\ L # {}
  BY <1>1, <1>2 DEF Candles
<1>5. Max(H) \in H /\ Min(L) \in L
  <2> HIDE DEF H, L
  <2> QED BY <1>3, <1>4, MaxIn, MinIn
<1> QED BY <1>5 DEF High, Low

-----------------------------------------------------------------------------
(* The inductive invariant: besides the property, that nothing is of a     *)
(* period to come, that without late candles all there is was stored, and  *)
(* that the bar of an entry has begun.                                     *)
FxInv ==
  /\ m5 \in 0..MaxCandles /\ late \in {"no", "before", "yes"}
  /\ stored \in SUBSET Candles /\ \A c \in stored : c.t < m5
  /\ PendingOK(m5Pending) /\ BarsOK(m15) /\ Before(m5Pending, m15, m5)
  /\ late = "no" => MadeOf(m5Pending, m15, stored)
  /\ late # "yes" => Ascends(m15)
  /\ held # NoPosition => held.at \in Nat /\ (late = "no" => Bucket(held.at) <= m5)
  /\ ExitIsEarned

(* What is before a period is before every later one.                      *)
LEMMA LaterBefore ==
  ASSUME NEW P, NEW s, PendingOK(P), BarsOK(s), NEW n \in Nat, NEW m \in Nat, n <= m, Before(P, s, n)
  PROVE  Before(P, s, m)
<1>1. \A d \in P : d \in Candles
  BY DEF PendingOK
<1>2. \A i \in DOMAIN s : s[i] \in Bars
  BY DEF BarsOK
<1>3. \A i \in DOMAIN s : \A d \in s[i].candles : d \in Candles
  BY <1>2 DEF Bars
<1>4. \A d \in Candles : d.t < n => d.t < m
  BY DEF Candles
<1> QED BY <1>1, <1>3, <1>4 DEF Before

(* What a candle does to the bars.                                         *)
LEMMA EventBars ==
  ASSUME FxInv, NEW c \in Candles, OnEvent(c), m5' \in 0..MaxCandles, m5 <= m5', c.t < m5'
  PROVE  /\ stored' \in SUBSET Candles /\ (\A d \in stored' : d.t < m5') /\ c \in stored'
         /\ PendingOK(m5Pending') /\ BarsOK(m15') /\ Before(m5Pending', m15', m5')
         /\ c.t = m5 => /\ stored \subseteq stored'
                        /\ Ascends(m15) => Ascends(m15')
                        /\ MadeOf(m5Pending, m15, stored) => MadeOf(m5Pending', m15', stored')
<1> DEFINE r == AggregateM15(m5Pending, c)
           kept == PushLimited(m15, r.bars)
<1>0. m5 \in Nat /\ m5' \in Nat /\ c.t \in Nat
  BY FxSettings DEF FxInv, Candles
<1>1. m5Pending' = r.pending /\ m15' = kept /\ stored' = {d \in stored : d.t # c.t} \cup {c}
  BY DEF OnEvent
<1>2. PendingOK(m5Pending) /\ BarsOK(m15) /\ Before(m5Pending, m15, m5)
  BY DEF FxInv
<1>3. /\ PendingOK(r.pending) /\ BarsOK(kept)
      /\ \A S : MadeOf(m5Pending, m15, S) /\ c \in S => MadeOf(r.pending, kept, S)
      /\ \A n \in Nat : Before(m5Pending, m15, n) /\ c.t < n => Before(r.pending, kept, n)
      /\ Before(m5Pending, m15, c.t) /\ Ascends(m15) => Ascends(kept)
  <2>1. r = AggregateM15(m5Pending, c) /\ kept = PushLimited(m15, r.bars)
    OBVIOUS
  <2> HIDE DEF r, kept
  <2> QED BY <1>2, <2>1, EventKeeps
<1> HIDE DEF r, kept
<1>4. Before(m5Pending, m15, m5')
  BY <1>0, <1>2, LaterBefore
<1>5. stored \in SUBSET Candles /\ \A d \in stored : d.t < m5 /\ d.t \in Nat
  BY DEF FxInv, Candles
<1>6. stored' \in SUBSET Candles /\ (\A d \in stored' : d.t < m5') /\ c \in stored'
  BY <1>0, <1>1, <1>5
<1>7. PendingOK(m5Pending') /\ BarsOK(m15') /\ Before(m5Pending', m15', m5')
  BY <1>0, <1>1, <1>3, <1>4
<1>8. ASSUME c.t = m5 PROVE stored \subseteq stored'
  BY <1>0, <1>1, <1>5, <1>8
<1>9. ASSUME c.t = m5, Ascends(m15) PROVE Ascends(m15')
  BY <1>1, <1>2, <1>3, <1>9
<1>10. ASSUME c.t = m5, MadeOf(m5Pending, m15, stored) PROVE MadeOf(m5Pending', m15', stored')
  <2>1. MadeOf(m5Pending, m15, stored')
    BY <1>8, <1>10 DEF MadeOf
  <2> QED BY <1>1, <1>3, <1>6, <2>1
<1> QED BY <1>6, <1>7, <1>8, <1>9, <1>10

(* The channel of an exit ended before the candle began.                   *)
LEMMA ChannelEnded ==
  ASSUME NEW s, BarsOK(s), NEW c \in Candles, NEW n,
         NEW b \in LastBars(s, EndedBars(s, c), n), NEW d \in b.candles
  PROVE  d.t < c.t
<1>1. PICK i \in EndedBars(s, c) : b = s[i]
  BY DEF LastBars
<1>2. s \in Seq(Bars) /\ i \in DOMAIN s /\ s[i].t + PerBar <= c.t
  BY <1>1 DEF EndedBars, BarEnd, BarsOK
<1>3. b \in Bars /\ WholeBar(b)
  BY <1>1, <1>2 DEF BarsOK
<1>4. b.t \in Nat /\ c.t \in Nat /\ PerBar \in Nat
  BY <1>3, FxSettings DEF Bars, Candles
<1>5. d.t \in b.t..(b.t + PerBar - 1)
  BY <1>3 DEF WholeBar
<1> QED BY <1>1, <1>2, <1>4, <1>5

(* Who reached one risk unit did so in a candle since the bar of the entry.*)
LEMMA Earned ==
  ASSUME NEW P, NEW s, NEW S, BarsOK(s), MadeOf(P, s, S), S \in SUBSET Candles, NEW c \in S,
         NEW p, p.at \in Nat, Bucket(p.at) <= c.t, ReachedOneR(p, s, c)
  PROVE  \E d \in S : d.t >= Bucket(p.at) /\ Touches(p, d.high, d.low)
<1>0. Bucket(p.at) \in Nat /\ Bucket(p.at) <= p.at /\ IsStart(Bucket(p.at)) /\ c.t \in Nat /\ PerBar \in Nat
  BY BucketIs, FxSettings DEF Candles
<1>1. CASE Touches(p, c.high, c.low)
  BY <1>0, <1>1
<1>2. CASE \E b \in BarsOf(s) : BarEnd(b) > p.at /\ Touches(p, High(b), Low(b))
  <2>1. PICK b \in BarsOf(s) : b.t + PerBar > p.at /\ Touches(p, High(b), Low(b))
    BY <1>2 DEF BarEnd
  <2>2. s \in Seq(Bars)
    BY DEF BarsOK
  <2>3. PICK i \in 1..Len(s) : b = s[i]
    BY <2>1 DEF BarsOf
  <2>4. i \in DOMAIN s /\ s[i] \in Bars
    BY <2>2, <2>3
  <2>5. b \in Bars /\ WholeBar(b) /\ b.candles \subseteq S
    BY <2>3, <2>4 DEF BarsOK, MadeOf
  <2>6. b.t \in Nat /\ IsStart(b.t)
    BY <2>5 DEF Bars, WholeBar
  <2>7. Bucket(p.at) <= b.t
    BY <1>0, <2>1, <2>6, StartsApart
  <2>8. \A d \in b.candles : d \in S /\ d.t >= Bucket(p.at)
    <3> SUFFICES ASSUME NEW d \in b.candles PROVE d \in S /\ d.t >= Bucket(p.at)
      OBVIOUS
    <3>1. d.t \in b.t..(b.t + PerBar - 1)
      BY <2>5 DEF WholeBar
    <3> QED BY <1>0, <2>5, <2>6, <2>7, <3>1
  <2>9. PICK d \in b.candles : d.high = High(b)
    BY <2>5, BarExtremes
  <2>10. PICK e \in b.candles : e.low = Low(b)
    BY <2>5, BarExtremes
  <2>11. Touches(p, d.high, d.low) \/ Touches(p, e.high, e.low)
    BY <2>1, <2>9, <2>10 DEF Touches
  <2> QED BY <2>8, <2>9, <2>10, <2>11
<1> QED BY <1>1, <1>2 DEF ReachedOneR

(* An entry is taken when a bar is complete, so that the next one begins.  *)
LEMMA EntryAtStart ==
  ASSUME FxInv, NEW c \in Candles, c.t = m5, AggregateM15(m5Pending, c).bars # <<>>, NEW wait \in 0..1
  PROVE  Bucket(m5 + 1 + wait) = m5 + 1
<1> DEFINE r == AggregateM15(m5Pending, c)
<1>0. m5 \in Nat /\ PerBar \in Nat /\ PerBar > 1
  BY FxSettings DEF FxInv
<1>1. PendingOK(m5Pending) /\ \A d \in m5Pending : d.t < m5
  BY DEF FxInv, Before
<1>2. PICK b \in Bars : b.t = Bucket(c.t) /\ WholeBar(b) /\ b.candles \subseteq m5Pending \cup {c}
  <2>1. r = AggregateM15(m5Pending, c)
    OBVIOUS
  <2> HIDE DEF r
  <2>2. r.bars # <<>>
    BY DEF r
  <2> QED BY <1>1, <2>1, <2>2, Aggregated
<1>3. b.t \in Nat /\ IsStart(b.t) /\ b.t <= m5 /\ m5 < b.t + PerBar
  BY <1>0, <1>2, BucketIs DEF WholeBar
<1>4. b.t + PerBar - 1 \in b.t..(b.t + PerBar - 1)
  BY <1>0, <1>3
<1>5. PICK d \in b.candles : d.t = b.t + PerBar - 1
  BY <1>2, <1>4 DEF WholeBar
<1>6. d.t <= m5
  BY <1>0, <1>1, <1>2, <1>3, <1>5
<1>7. m5 + 1 = b.t + PerBar
  BY <1>0, <1>3, <1>5, <1>6
<1>8. IsStart(m5 + 1) /\ m5 + 1 \in Nat
  BY <1>3, <1>7, NextStart
<1>9. m5 + 1 + wait \in (m5 + 1)..(m5 + 1 + PerBar - 1)
  BY <1>0
<1> QED BY <1>8, <1>9, BucketOfStart

(* What a candle does to the position and to the last exit.                *)
LEMMA EventTrades ==
  ASSUME FxInv, NEW c \in Candles, OnEvent(c), m5' \in 0..MaxCandles, m5 <= m5', c.t < m5',
         late' = "no" => late = "no" /\ c.t = m5 /\ m5' = m5 + 1
  PROVE  /\ held' # NoPosition => held'.at \in Nat /\ (late' = "no" => Bucket(held'.at) <= m5')
         /\ ExitIsEarned'
<1> DEFINE r == AggregateM15(m5Pending, c)
           s == PushLimited(m15, r.bars)
<1>0. m5 \in Nat /\ m5' \in Nat /\ c.t \in Nat
  BY FxSettings DEF FxInv, Candles
<1>1. /\ stored' \in SUBSET Candles /\ c \in stored' /\ BarsOK(m15')
      /\ c.t = m5 => /\ stored \subseteq stored'
                     /\ MadeOf(m5Pending, m15, stored) => MadeOf(m5Pending', m15', stored')
  BY EventBars
<1>2. m15' = s
  BY DEF OnEvent
<1>3. held # NoPosition => held.at \in Nat /\ (late' = "no" => Bucket(held.at) <= m5)
  BY DEF FxInv
<1>4. held # NoPosition /\ late' = "no" => Bucket(held.at) <= m5'
  <2>1. held # NoPosition => Bucket(held.at) \in Nat
    BY <1>3, BucketIs
  <2> QED BY <1>0, <1>3, <2>1
<1>5. CASE /\ ExitsOn(held, s, c)
           /\ held' = NoPosition
           /\ exit' = [direction |-> held.direction, position |-> held, candle |-> c,
                       channel |-> LastBars(s, EndedBars(s, c), ExitChannel)]
  <2>1. held # NoPosition /\ ReachedOneR(held, s, c)
    BY <1>5 DEF ExitsOn
  <2> HIDE DEF s
  <2>2. exit'.position = held /\ exit'.candle = c /\ exit'.channel = LastBars(s, EndedBars(s, c), ExitChannel)
    BY <1>5
  <2>3. \A b \in exit'.channel : \A d \in b.candles : d.t < exit'.candle.t
    BY <1>1, <1>2, <2>2, ChannelEnded
  <2>4. ASSUME late' = "no"
        PROVE  \E d \in stored' : d.t >= Bucket(exit'.position.at) /\ Touches(exit'.position, d.high, d.low)
    <3>1. MadeOf(m5Pending', s, stored') /\ BarsOK(s)
      BY <1>1, <1>2, <2>4 DEF FxInv
    <3>2. held.at \in Nat /\ Bucket(held.at) <= c.t
      BY <1>3, <2>1, <2>4
    <3>3. \E d \in stored' : d.t >= Bucket(held.at) /\ Touches(held, d.high, d.low)
      BY <1>1, <2>1, <3>1, <3>2, Earned
    <3> QED BY <2>2, <3>3
  <2> QED BY <1>5, <2>3, <2>4 DEF ExitIsEarned
<1>6. ASSUME UNCHANGED exit PROVE ExitIsEarned'
  <2>1. exit # NoPosition =>
          /\ \A b \in exit.channel : \A d \in b.candles : d.t < exit.candle.t
          /\ late = "no" =>
               \E d \in stored : d.t >= Bucket(exit.position.at) /\ Touches(exit.position, d.high, d.low)
    BY DEF FxInv, ExitIsEarned
  <2>2. late' = "no" => late = "no" /\ stored \subseteq stored'
    BY <1>1
  <2> QED BY <1>6, <2>1, <2>2 DEF ExitIsEarned
<1>7. CASE UNCHANGED <<exit, held>>
  BY <1>3, <1>4, <1>6, <1>7
<1>8. CASE /\ UNCHANGED exit /\ r.bars # <<>>
           /\ \E d \in EntrySignals(s), wait \in 0..1 : held' = Opened(d, Close(r.bars[1]), m5' + wait)
  <2>1. PICK wait \in 0..1 : \E d \in EntrySignals(s) : held' = Opened(d, Close(r.bars[1]), m5' + wait)
    BY <1>8
  <2>2. held'.at = m5' + wait
    BY <2>1 DEF Opened
  <2>3. held'.at \in Nat
    <3>1. \A n \in Nat, w \in 0..1 : n + w \in Nat
      OBVIOUS
    <3> QED BY <1>0, <2>1, <2>2, <3>1
  <2>4. late' = "no" => Bucket(held'.at) <= m5'
    <3>1. SUFFICES ASSUME late' = "no" PROVE Bucket(m5' + wait) <= m5'
      BY <2>2
    <3>2. c.t = m5 /\ m5' = m5 + 1
      BY <3>1
    <3>3. Bucket(m5 + 1 + wait) = m5 + 1
      BY <1>8, <3>2, EntryAtStart
    <3> QED BY <1>0, <3>2, <3>3
  <2> QED BY <1>6, <1>8, <2>3, <2>4
<1> QED BY <1>5, <1>7, <1>8 DEF OnEvent

(* The candles of the market are candles.                                  *)
LEMMA ShapedCandle ==
  ASSUME NEW t \in Nat, NEW h \in CandleShapes
  PROVE  CandleOf(t, h) \in Candles /\ CandleOf(t, h).t = t
BY FxSettings DEF CandleOf, Candles

(* The invariant holds at the start, before any candle,                    *)
LEMMA FxInvInit == FxInit => FxInv
<1> SUFFICES ASSUME FxInit PROVE FxInv
  OBVIOUS
<1>1. PendingOK({}) /\ BarsOK(<<>>)
  BY FS_EmptySet DEF PendingOK, BarsOK, OnePerPeriod
<1>2. MadeOf({}, <<>>, {}) /\ Before({}, <<>>, 0) /\ Ascends(<<>>)
  BY DEF MadeOf, Before, Ascends
<1> QED BY <1>1, <1>2, FxSettings DEF FxInit, FxInv, ExitIsEarned

(* every candle and every restart keeps it,                                *)
LEMMA FxInvNext == FxInv /\ [FxNext]_fxVars => FxInv'
<1> SUFFICES ASSUME FxInv, [FxNext]_fxVars PROVE FxInv'
  OBVIOUS
<1>0. m5 \in Nat /\ m5 \in 0..MaxCandles /\ MaxCandles \in Nat
  BY FxSettings DEF FxInv
<1>1. CASE NextCandle
  <2>1. m5 < MaxCandles /\ m5' = m5 + 1 /\ late' = late
    BY <1>1 DEF NextCandle
  <2>2. PICK h \in CandleShapes : OnEvent(CandleOf(m5, h))
    BY <1>1 DEF NextCandle
  <2> DEFINE c == CandleOf(m5, h)
  <2>3. c \in Candles /\ c.t = m5
    BY <1>0, ShapedCandle
  <2> HIDE DEF c
  <2>4. OnEvent(c) /\ m5' \in 0..MaxCandles /\ m5 <= m5' /\ c.t < m5'
    BY <1>0, <2>1, <2>2, <2>3 DEF c
  <2>5. /\ stored' \in SUBSET Candles /\ (\A d \in stored' : d.t < m5')
        /\ PendingOK(m5Pending') /\ BarsOK(m15') /\ Before(m5Pending', m15', m5')
        /\ Ascends(m15) => Ascends(m15')
        /\ MadeOf(m5Pending, m15, stored) => MadeOf(m5Pending', m15', stored')
    BY <2>3, <2>4, EventBars
  <2>6. /\ held' # NoPosition => held'.at \in Nat /\ (late' = "no" => Bucket(held'.at) <= m5')
        /\ ExitIsEarned'
    BY <2>1, <2>3, <2>4, EventTrades
  <2> QED BY <2>1, <2>4, <2>5, <2>6 DEF FxInv
<1>2. CASE NoCandleInPeriod
  <2>1. /\ m5 < MaxCandles /\ m5' = m5 + 1
        /\ UNCHANGED <<m5Pending, m15, stored, held, exit, late>>
    BY <1>2 DEF NoCandleInPeriod
  <2>2. m5' \in 0..MaxCandles /\ m5' \in Nat /\ m5 <= m5'
    BY <1>0, <2>1
  <2>3. Before(m5Pending', m15', m5')
    BY <1>0, <2>1, <2>2, LaterBefore DEF FxInv
  <2>4. \A d \in stored' : d.t < m5'
    BY <1>0, <2>1 DEF FxInv, Candles
  <2>5. held' # NoPosition => held'.at \in Nat /\ (late' = "no" => Bucket(held'.at) <= m5')
    <3>1. held # NoPosition =>
            held.at \in Nat /\ Bucket(held.at) \in Nat /\ (late = "no" => Bucket(held.at) <= m5)
      BY BucketIs DEF FxInv
    <3> QED BY <1>0, <2>1, <3>1
  <2>6. ExitIsEarned'
    BY <2>1 DEF FxInv, ExitIsEarned
  <2> QED BY <2>1, <2>2, <2>3, <2>4, <2>5, <2>6 DEF FxInv
<1>3. CASE LateCandle
  <2>1. late' = "yes" /\ m5' = m5
    BY <1>3 DEF LateCandle
  <2>2. PICK t \in 0..(m5 - 1), h \in CandleShapes : OnEvent(CandleOf(t, h))
    BY <1>3 DEF LateCandle
  <2> DEFINE c == CandleOf(t, h)
  <2>3. t \in Nat /\ t < m5
    BY <1>0
  <2>4. c \in Candles /\ c.t = t
    BY <2>3, ShapedCandle
  <2> HIDE DEF c
  <2>5. OnEvent(c) /\ m5' \in 0..MaxCandles /\ m5 <= m5' /\ c.t < m5'
    BY <1>0, <2>1, <2>2, <2>3, <2>4 DEF c
  <2>6. /\ stored' \in SUBSET Candles /\ (\A d \in stored' : d.t < m5')
        /\ PendingOK(m5Pending') /\ BarsOK(m15') /\ Before(m5Pending', m15', m5')
    BY <2>4, <2>5, EventBars
  <2>7. late' # "no"
    BY <2>1
  <2>8. /\ held' # NoPosition => held'.at \in Nat /\ (late' = "no" => Bucket(held'.at) <= m5')
        /\ ExitIsEarned'
    BY <2>4, <2>5, <2>7, EventTrades
  <2> QED BY <2>1, <2>5, <2>6, <2>8 DEF FxInv
<1>4. CASE FxRestart
  <2>1. /\ m5Pending' = WarmedUp[m5].pending /\ m15' = WarmedUp[m5].bars
        /\ late' = (IF late = "no" THEN "no" ELSE "before")
        /\ UNCHANGED <<m5, stored, held, exit>>
    BY <1>4 DEF FxRestart
  <2>2. WarmOK(WarmedUp[m5], m5, stored)
    BY <1>0, WarmedUpOK DEF FxInv
  <2>3. /\ PendingOK(m5Pending') /\ BarsOK(m15') /\ MadeOf(m5Pending', m15', stored')
        /\ Before(m5Pending', m15', m5') /\ Ascends(m15')
    BY <2>1, <2>2 DEF WarmOK
  <2>4. late' \in {"no", "before", "yes"} /\ (late' = "no" => late = "no")
    BY <2>1
  <2>5. ExitIsEarned'
    BY <2>1, <2>4 DEF FxInv, ExitIsEarned
  <2> QED BY <2>1, <2>3, <2>4, <2>5 DEF FxInv
<1>5. CASE UNCHANGED fxVars
  BY <1>5 DEF fxVars, FxInv, ExitIsEarned
<1> QED BY <1>1, <1>2, <1>3, <1>4, <1>5 DEF FxNext

(* and the property follows from it.                                       *)
LEMMA FxInvImplies == FxInv => StrategySeesThePast
<1> SUFFICES ASSUME FxInv PROVE BarsAreWhole
  BY DEF FxInv, StrategySeesThePast
<1>1. m15 \in Seq(Bars) /\ \A i \in DOMAIN m15 : WholeBar(m15[i])
  BY DEF FxInv, BarsOK
<1>2. \A i \in 1..Len(m15) : WholeBar(m15[i])
  BY <1>1
<1>3. \A b \in BarsOf(m15) : {c.t : c \in b.candles} = b.t..(b.t + PerBar - 1)
  BY <1>2 DEF BarsOf, WholeBar
<1> QED BY <1>3 DEF FxInv, BarsAreWhole, Ascends

(* Whatever candles are missing, late or repeated, and after any restart,  *)
(* the strategy's bars are whole and every exit was earned.                *)
THEOREM StrategyCorrect == FxSpec => []StrategySeesThePast
BY FxInvInit, FxInvNext, FxInvImplies, PTL DEF FxSpec
-----------------------------------------------------------------------------
(* The market feeds: what the candles, the indicators and the price store  *)
(* say of the ticks.                                                       *)

(* The assumptions on the constants, in the form that is used.             *)
LEMMA FeedSettings ==
  /\ Primary \in Nat \ {0} /\ H1 \in Nat \ {0} /\ H1 % Primary = 0
  /\ DrainCap \in Nat \ {0} /\ HistoryCap \in Nat \ {0} /\ BackoffCap \in Nat \ {0}
  /\ MaxTime \in Nat /\ Kinds \subseteq {"bitflyer", "gmo", "oanda"}
  /\ \A f \in Frames : Length[f] \in Nat \ {0}
BY FrameAssumption DEF Length, Frames

-----------------------------------------------------------------------------
(* A multiple of l, which is the start of a period of that length.         *)
Multiple(k, l) == \E i \in Int : k = i * l

(* Two multiples are a whole period apart or the same.                     *)
LEMMA MultiplesApart ==
  ASSUME NEW l \in Nat \ {0}, NEW k \in Int, NEW m \in Int, Multiple(k, l), Multiple(m, l), k < m + l
  PROVE  k <= m
<1>1. PICK i \in Int : k = i * l
  BY DEF Multiple
<1>2. PICK j \in Int : m = j * l
  BY DEF Multiple
<1>3. ASSUME i >= j + 1 PROVE FALSE
  <2>1. i * l >= (j + 1) * l
    BY <1>3, Z3
  <2>2. (j + 1) * l = j * l + l
    BY Z3
  <2> QED BY <1>1, <1>2, <2>1, <2>2
<1>4. i <= j
  BY <1>3
<1>5. i * l <= j * l
  BY <1>4, Z3
<1> QED BY <1>1, <1>2, <1>5

(* The period of a time stamp begins at it or before, and less than its    *)
(* length before.                                                          *)
LEMMA PeriodIs ==
  ASSUME NEW f \in Frames, NEW t \in Int
  PROVE  /\ PeriodStart(f, t) \in Int /\ PeriodStart(f, t) <= t /\ t < PeriodStart(f, t) + Length[f]
         /\ Multiple(PeriodStart(f, t), Length[f]) /\ Length[f] \in Nat \ {0}
<1> DEFINE l == Length[f]
<1>1. l \in Nat \ {0}
  BY FeedSettings
<1> HIDE DEF l
<1>2. t % l \in Nat /\ t % l < l /\ t \div l \in Int /\ t = l * (t \div l) + (t % l)
  BY <1>1, Z3
<1>3. t - (t % l) = (t \div l) * l
  BY <1>1, <1>2, Z3
<1>4. Multiple(t - (t % l), l)
  BY <1>2, <1>3 DEF Multiple
<1>5. PeriodStart(f, t) = t - (t % l)
  BY DEF PeriodStart, l
<1>6. t - (t % l) \in Int /\ t - (t % l) <= t /\ t < (t - (t % l)) + l
  BY <1>1, <1>2
<1> QED BY <1>1, <1>4, <1>5, <1>6 DEF l

(* The only multiple in reach is the start.                                *)
LEMMA PeriodOnly ==
  ASSUME NEW f \in Frames, NEW t \in Int, NEW k \in Int, Multiple(k, Length[f]), k <= t, t < k + Length[f]
  PROVE  PeriodStart(f, t) = k
<1>1. /\ PeriodStart(f, t) \in Int /\ PeriodStart(f, t) <= t /\ t < PeriodStart(f, t) + Length[f]
      /\ Multiple(PeriodStart(f, t), Length[f]) /\ Length[f] \in Nat \ {0}
  BY PeriodIs
<1>2. PeriodStart(f, t) < k + Length[f] /\ k < PeriodStart(f, t) + Length[f]
  BY <1>1
<1>3. PeriodStart(f, t) <= k
  BY <1>1, <1>2, MultiplesApart
<1>4. k <= PeriodStart(f, t)
  BY <1>1, <1>2, MultiplesApart
<1> QED BY <1>1, <1>3, <1>4

(* Later time stamps have later periods.                                   *)
LEMMA PeriodsAscend ==
  ASSUME NEW f \in Frames, NEW t \in Int, NEW u \in Int, t <= u
  PROVE  PeriodStart(f, t) <= PeriodStart(f, u)
<1>1. /\ PeriodStart(f, t) \in Int /\ PeriodStart(f, t) <= t
      /\ Multiple(PeriodStart(f, t), Length[f]) /\ Length[f] \in Nat \ {0}
  BY PeriodIs
<1>2. /\ PeriodStart(f, u) \in Int /\ u < PeriodStart(f, u) + Length[f]
      /\ Multiple(PeriodStart(f, u), Length[f])
  BY PeriodIs
<1>3. PeriodStart(f, t) < PeriodStart(f, u) + Length[f]
  BY <1>1, <1>2
<1> QED BY <1>1, <1>2, <1>3, MultiplesApart

(* Time stamps have periods in the time that is looked at, and None has a  *)
(* period before.                                                          *)
LEMMA PeriodOfTime ==
  ASSUME NEW f \in Frames
  PROVE  /\ \A t \in Times : PeriodStart(f, t) \in Times /\ PeriodStart(f, t) # None
         /\ PeriodStart(f, None) < 0
<1>1. ASSUME NEW t \in Times PROVE PeriodStart(f, t) \in Times /\ PeriodStart(f, t) # None
  <2>1. t \in Int /\ 0 <= t /\ t <= MaxTime /\ MaxTime \in Nat
    BY FeedSettings DEF Times
  <2>2. /\ PeriodStart(f, t) \in Int /\ PeriodStart(f, t) <= t /\ t < PeriodStart(f, t) + Length[f]
        /\ Multiple(PeriodStart(f, t), Length[f]) /\ Length[f] \in Nat \ {0}
    BY <2>1, PeriodIs
  <2>3. Multiple(0, Length[f])
    BY <2>2, Z3 DEF Multiple
  <2>4. 0 < PeriodStart(f, t) + Length[f]
    BY <2>1, <2>2
  <2>5. 0 <= PeriodStart(f, t)
    BY <2>2, <2>3, <2>4, MultiplesApart
  <2> QED BY <2>1, <2>2, <2>5 DEF Times, None
<1>2. PeriodStart(f, None) < 0
  <2>1. -1 \in Int
    OBVIOUS
  <2>2. PeriodStart(f, -1) \in Int /\ PeriodStart(f, -1) <= -1
    BY <2>1, PeriodIs
  <2> QED BY <2>2 DEF None
<1> QED BY <1>1, <1>2

(* An hour consists of whole periods of the primary timeframe.             *)
LEMMA PeriodsNest ==
  ASSUME NEW t \in Times
  PROVE  PeriodStart("h1", PeriodStart("primary", t)) = PeriodStart("h1", t)
<1> DEFINE p == PeriodStart("primary", t)
           h == PeriodStart("h1", t)
<1>0. t \in Int /\ Length["primary"] = Primary /\ Length["h1"] = H1 /\ {"primary", "h1"} = Frames
  BY DEF Times, Length, Frames
<1>1. p \in Int /\ p <= t /\ t < p + Primary /\ Multiple(p, Primary) /\ Primary \in Nat \ {0}
  BY <1>0, PeriodIs
<1>2. h \in Int /\ h <= t /\ t < h + H1 /\ Multiple(h, H1) /\ H1 \in Nat \ {0}
  BY <1>0, PeriodIs
<1> HIDE DEF p, h
<1>3. Multiple(h, Primary)
  <2>1. PICK i \in Int : h = i * H1
    BY <1>2 DEF Multiple
  <2>2. H1 \div Primary \in Int /\ H1 = Primary * (H1 \div Primary) + (H1 % Primary) /\ H1 % Primary = 0
    BY <1>1, <1>2, FeedSettings, Z3
  <2>3. H1 = Primary * (H1 \div Primary)
    BY <1>1, <1>2, <2>2
  <2> DEFINE k == H1 \div Primary
  <2>4. k \in Int /\ H1 = Primary * k
    BY <2>2, <2>3
  <2> HIDE DEF k
  <2>5. i * (Primary * k) = (i * k) * Primary
    BY <1>1, <2>1, <2>4, Z3
  <2>6. i * k \in Int
    BY <2>1, <2>4
  <2> QED BY <2>1, <2>4, <2>5, <2>6 DEF Multiple
<1>4. h < p + Primary
  BY <1>0, <1>1, <1>2
<1>5. h <= p
  BY <1>1, <1>2, <1>3, <1>4, MultiplesApart
<1>6. p < h + H1
  BY <1>0, <1>1, <1>2
<1>7. PeriodStart("h1", p) = h
  BY <1>0, <1>1, <1>2, <1>5, <1>6, PeriodOnly
<1> QED BY <1>7 DEF p, h

-----------------------------------------------------------------------------
(* There are finitely many time stamps.                                    *)
LEMMA TimesFinite == IsFiniteSet(Times)
<1>1. 0 \in Int /\ MaxTime \in Int
  BY FeedSettings
<1> QED BY <1>1, FS_Interval DEF Times

(* The newest time stamp of a set.                                         *)
LEMMA NewestIs ==
  ASSUME NEW S \in SUBSET Times
  PROVE  Newest(S) \in S \cup {None} /\ \A x \in S \cup {None} : x <= Newest(S)
<1>1. S \cup {None} \subseteq Int /\ S \cup {None} # {}
  BY DEF Times, None
<1>2. IsFiniteSet(S \cup {None})
  <2>2. IsFiniteSet(S)
    BY TimesFinite, FS_Subset
  <2> QED BY <2>2, FS_AddElement
<1>3. \E x \in S \cup {None} : \A y \in S \cup {None} : x >= y
  BY <1>1, <1>2, GreatestOne
<1> DEFINE m == CHOOSE x \in S \cup {None} : \A y \in S \cup {None} : x >= y
<1>4. m \in S \cup {None} /\ \A y \in S \cup {None} : m >= y
  BY <1>3
<1>5. Newest(S) = m
  BY DEF Newest, Max
<1> HIDE DEF m
<1> QED BY <1>1, <1>4, <1>5

(* What has all the others before it is the newest one.                    *)
LEMMA NewestOnly ==
  ASSUME NEW S \in SUBSET Times, NEW x \in S \cup {None}, \A y \in S : y <= x, None <= x
  PROVE  Newest(S) = x
<1>1. Newest(S) \in S \cup {None} /\ \A y \in S \cup {None} : y <= Newest(S)
  BY NewestIs
<1>2. S \cup {None} \subseteq Int
  BY DEF Times, None
<1> QED BY <1>1, <1>2

(* One more time stamp.                                                    *)
LEMMA NewestAdd ==
  ASSUME NEW S \in SUBSET Times, NEW t \in Times
  PROVE  Newest(S \cup {t}) = IF Newest(S) < t THEN t ELSE Newest(S)
<1>1. Newest(S) \in S \cup {None} /\ \A y \in S \cup {None} : y <= Newest(S)
  BY NewestIs
<1>2. S \cup {None} \subseteq Int /\ t \in Int /\ S \cup {t} \in SUBSET Times
  BY DEF Times, None
<1>3. Newest(S) \in Int
  BY <1>1, <1>2
<1>4. CASE Newest(S) < t
  <2>1. (\A y \in S \cup {t} : y <= t) /\ None <= t
    BY <1>1, <1>2, <1>3, <1>4
  <2> QED BY <1>2, <1>4, <2>1, NewestOnly
<1>5. CASE ~(Newest(S) < t)
  <2>1. (\A y \in S \cup {t} : y <= Newest(S)) /\ None <= Newest(S)
    BY <1>1, <1>2, <1>3, <1>5
  <2> QED BY <1>1, <1>2, <1>5, <2>1, NewestOnly
<1> QED BY <1>4, <1>5

-----------------------------------------------------------------------------
(* Every finite set of numbers has an ascending order.                     *)
IsOrder(e, S) ==
  /\ e \in [1..Cardinality(S) -> S]
  /\ \A i, j \in 1..Cardinality(S) : i < j => e[i] < e[j]

(* One more number behind all others.                                      *)
LEMMA OrderExtends ==
  ASSUME NEW X, IsFiniteSet(X), X \subseteq Int, NEW x \in X, \A y \in X : x >= y,
         NEW d, IsOrder(d, X \ {x})
  PROVE  \E e : IsOrder(e, X)
<1> DEFINE Y == X \ {x}
           n == Cardinality(Y)
           e == [i \in 1..(n + 1) |-> IF i = n + 1 THEN x ELSE d[i]]
<1>1. IsFiniteSet(Y) /\ n \in Nat /\ Cardinality(X) = n + 1
  <2>1. IsFiniteSet(Y) /\ Cardinality(Y) = Cardinality(X) - 1
    BY FS_RemoveElement
  <2>2. Cardinality(X) \in Nat /\ Cardinality(Y) \in Nat
    BY <2>1, FS_CardinalityType
  <2> QED BY <2>1, <2>2
<1>2. d \in [1..n -> Y] /\ \A i, j \in 1..n : i < j => d[i] < d[j]
  BY DEF IsOrder
<1>3. \A y \in Y : y < x /\ y \in X
  OBVIOUS
<1> HIDE DEF n, Y
<1>4. \A i \in 1..(n + 1) : (i # n + 1 => i \in 1..n)
  BY <1>1
<1>5. e \in [1..(n + 1) -> X]
  <2>1. \A i \in 1..(n + 1) : (IF i = n + 1 THEN x ELSE d[i]) \in X
    BY <1>2, <1>3, <1>4
  <2> QED BY <2>1
<1>6. ASSUME NEW i \in 1..(n + 1), NEW j \in 1..(n + 1), i < j PROVE e[i] < e[j]
  <2>1. i \in 1..n /\ e[i] = d[i]
    BY <1>1, <1>6
  <2>2. CASE j = n + 1
    <3>1. e[j] = x /\ d[i] \in Y
      BY <1>2, <2>1, <2>2
    <3> QED BY <1>3, <2>1, <3>1
  <2>3. CASE j # n + 1
    <3>1. j \in 1..n /\ e[j] = d[j]
      BY <1>4, <2>3
    <3> QED BY <1>2, <1>6, <2>1, <3>1
  <2> QED BY <2>2, <2>3
<1> HIDE DEF e
<1>7. IsOrder(e, X)
  BY <1>1, <1>5, <1>6 DEF IsOrder
<1> QED BY <1>7

(* So there is one of every finite set: a smallest set without one would   *)
(* be the extension of another.                                            *)
LEMMA OrderExists ==
  ASSUME NEW S, IsFiniteSet(S), S \subseteq Int
  PROVE  \E e : IsOrder(e, S)
<1> DEFINE B == {X \in SUBSET S : ~ \E e : IsOrder(e, X)}
<1>1. SUFFICES ASSUME B # {} PROVE FALSE
  OBVIOUS
<1>2. PICK X \in B : \A Y \in B : ~(<<Y, X>> \in StrictSubsetOrdering(S))
  <2>1. B \subseteq FiniteSubsetsOf(S)
    BY FS_Subset DEF FiniteSubsetsOf
  <2> HIDE DEF B
  <2> QED BY <1>1, <2>1, FS_StrictSubsetOrderingWellFounded, WFMin
<1>3. X \subseteq S /\ IsFiniteSet(X) /\ X \subseteq Int /\ ~ \E e : IsOrder(e, X)
  BY FS_Subset
<1>4. X # {}
  <2>1. IsOrder(<<>>, {})
    <3>1. Cardinality({}) = 0
      BY FS_EmptySet
    <3> QED BY <3>1 DEF IsOrder
  <2> QED BY <1>3, <2>1
<1>5. PICK x \in X : \A y \in X : x >= y
  BY <1>3, <1>4, GreatestOne
<1>6. X \ {x} \notin B
  BY <1>2, <1>3, <1>5 DEF StrictSubsetOrdering
<1>7. PICK d : IsOrder(d, X \ {x})
  BY <1>3, <1>6
<1> QED BY <1>3, <1>5, <1>7, OrderExtends

(* InOrder is such an order.                                               *)
LEMMA InOrderIs ==
  ASSUME NEW S \in SUBSET Times
  PROVE  /\ InOrder(S) \in Seq(S) /\ \A i, j \in DOMAIN InOrder(S) : i < j => InOrder(S)[i] < InOrder(S)[j]
<1>1. IsFiniteSet(S) /\ S \subseteq Int
  <2>1. S \subseteq Int
    BY DEF Times
  <2> QED BY <2>1, TimesFinite, FS_Subset
<1>2. \E e : IsOrder(e, S)
  BY <1>1, OrderExists
<1>3. Cardinality(S) \in Nat
  BY <1>1, FS_CardinalityType
<1> DEFINE o == CHOOSE e \in [1..Cardinality(S) -> S] : \A i, j \in 1..Cardinality(S) : i < j => e[i] < e[j]
<1>4. o \in [1..Cardinality(S) -> S] /\ \A i, j \in 1..Cardinality(S) : i < j => o[i] < o[j]
  BY <1>2 DEF IsOrder
<1>5. InOrder(S) = o
  BY DEF InOrder
<1> HIDE DEF o
<1>6. o \in Seq(S) /\ DOMAIN o = 1..Cardinality(S)
  BY <1>3, <1>4
<1> QED BY <1>4, <1>5, <1>6

(* LastOf cuts at the front.                                               *)
LEMMA LastOfIs ==
  ASSUME NEW s \in Seq(Int), NEW n \in Nat \ {0}
  PROVE  /\ LastOf(s, n) \in Seq(Int) /\ EndOf(LastOf(s, n), s)
         /\ s # <<>> => LastOf(s, n) # <<>>
<1> DEFINE z == LastOf(s, n)
           a == Len(s) - n + 1
           m == Max({1, a})
<1>1. Len(s) \in Nat
  OBVIOUS
<1>2. a \in Int /\ 1 \in Int /\ a <= Len(s)
  BY <1>1
<1>3. z = SubSeq(s, m, Len(s))
  BY DEF LastOf
<1> HIDE DEF z
<1>4. m \in {1, a} /\ 1 <= m
  <2> HIDE DEF a
  <2> QED BY <1>2, BiggerOfTwo
<1>5. m \in Int /\ m <= Len(s) + 1 /\ (s # <<>> => m <= Len(s))
  <2>1. s # <<>> => Len(s) >= 1
    BY <1>1
  <2> QED BY <1>1, <1>2, <1>4, <2>1
<1> HIDE DEF m, a
<1>6. z \in Seq(Int) /\ Len(z) = Len(s) - m + 1 /\ \A i \in 1..Len(z) : z[i] = s[i + m - 1]
  <2>1. \A i \in m..Len(s) : s[i] \in Int
    BY <1>1, <1>4, <1>5
  <2>2. m \in Int /\ Len(s) \in Int
    BY <1>1, <1>5
  <2>3. /\ z \in Seq(Int) /\ Len(z) = IF m <= Len(s) THEN Len(s) - m + 1 ELSE 0
        /\ \A i \in 1..(Len(s) - m + 1) : z[i] = s[m + i - 1]
    BY <1>3, <2>1, <2>2, SubSeqProperties
  <2>4. Len(z) = Len(s) - m + 1
    BY <1>5, <2>2, <2>3
  <2>5. \A i \in 1..Len(z) : m + i - 1 = i + m - 1
    BY <2>2
  <2> QED BY <2>3, <2>4, <2>5
<1> DEFINE k == m - 1
<1>7. k \in Nat /\ Len(z) + k = Len(s) /\ \A i \in 1..Len(z) : z[i] = s[i + k]
  BY <1>1, <1>4, <1>5, <1>6
<1>8. s # <<>> => Len(z) > 0
  BY <1>1, <1>5, <1>6
<1> HIDE DEF k
<1>9. z \in Seq(Int) /\ EndOf(z, s) /\ (s # <<>> => z # <<>>)
  BY <1>6, <1>7, <1>8 DEF EndOf
<1> QED BY <1>9 DEF z

-----------------------------------------------------------------------------
(* The inductive invariant.  The period of the newest tick is the one of   *)
(* the open candle, unless it was torn, or the market is closed and its    *)
(* candle published; no row is of a later one.                             *)
Torn(f, s) == <<f, s>> \in mixed
TopOf(f) == PeriodStart(f, Newest(got))
RowSets == UNION {[D -> SUBSET Times] : D \in SUBSET Times}

FeedTypes ==
  /\ kind \in {"bitflyer", "gmo", "oanda"} /\ now \in Times /\ got \in SUBSET (0..now)
  /\ builder \in [Frames -> [start : Int, ticks : SUBSET Times]]
  /\ rows \in [Frames -> RowSets] /\ last \in [Frames -> Int]
  /\ history \in Seq(Int) /\ indicators \in Int /\ attached \in Int

BuilderInv(f) ==
  builder[f].start # None =>
    /\ builder[f].start \in Times /\ builder[f].start <= TopOf(f)
    /\ ~Torn(f, builder[f].start) => builder[f].ticks = got \cap TicksOf(f, builder[f].start)

RowInv(f) ==
  \A s \in DOMAIN rows[f] :
    /\ s <= TopOf(f)
    /\ s = TopOf(f) => Torn(f, s) \/ s <= last[f]
    /\ ~Torn(f, s) => rows[f][s] = got \cap TicksOf(f, s)

TopInv(f) ==
  TopOf(f) >= 0 => \/ Torn(f, TopOf(f)) \/ builder[f].start = TopOf(f)
                   \/ kind = "gmo" /\ builder[f].start = None /\ TopOf(f) <= last[f]

FrameInv == kind # "oanda" => \A f \in Frames : BuilderInv(f) /\ RowInv(f) /\ TopInv(f)

(* OANDA gives complete candles.                                           *)
OandaInv ==
  kind = "oanda" =>
    /\ \A f \in Frames : builder[f].start = None
    /\ DOMAIN rows["h1"] = {}
    /\ \A s \in DOMAIN rows["primary"] :
         TicksOf("primary", s) \subseteq got /\ rows["primary"][s] = TicksOf("primary", s)

(* The candle that bitFlyer's history ends with is older than the open one,*)
(* and what comes next cannot be in its period without a tear.             *)
HistoryInv ==
  /\ HistoryAscending
  /\ kind = "gmo" => history = <<>>
  /\ kind = "bitflyer" /\ history # <<>> =>
       LET h == history[Len(history)]
       IN  /\ h <= TopOf("primary")
           /\ h = TopOf("primary") => Torn("primary", h) \/ h <= last["primary"]
           /\ builder["primary"].start # None =>
                h < builder["primary"].start \/ Torn("primary", builder["primary"].start)

(* The open candles of bitFlyer have the same last tick.                   *)
HourInv ==
  /\ H1CarriesFreshPrimary
  /\ kind = "bitflyer" =>
       /\ builder["primary"].start = None <=> builder["h1"].start = None
       /\ builder["primary"].start # None =>
            PeriodStart("h1", builder["primary"].start) = builder["h1"].start

(* A tick is in the store or older, on its way, or was dropped.            *)
DrainInv ==
  /\ queue \in Seq(Times) /\ store \in Times \cup {None} /\ dropped \in SUBSET got
  /\ \A i \in DOMAIN queue : queue[i] \in got \ dropped
  /\ kind # "oanda" =>
       /\ store \in (got \ dropped) \cup {None}
       /\ \A ts \in got \ dropped : ts <= store \/ \E i \in DOMAIN queue : queue[i] = ts

FeedInv == FeedTypes /\ FrameInv /\ OandaInv /\ HistoryInv /\ HourInv /\ DrainInv

(* The types in the form that is used.                                     *)
LEMMA FeedTypesAre ==
  ASSUME FeedTypes
  PROVE  /\ got \in SUBSET Times /\ now \in Times /\ Times \subseteq Int
         /\ \A f \in Frames : /\ builder[f] \in [start : Int, ticks : SUBSET Times]
                              /\ builder[f].start \in Int /\ builder[f].ticks \in SUBSET Times
                              /\ rows[f] \in RowSets /\ DOMAIN rows[f] \in SUBSET Times
                              /\ last[f] \in Int /\ TopOf(f) \in Int
         /\ Newest(got) \in got \cup {None} /\ \A x \in got : x <= Newest(got)
         /\ Newest(got) \in Int /\ Newest(got) <= now
<1>0. now \in Nat /\ MaxTime \in Nat /\ now <= MaxTime /\ now \in Times /\ Times \subseteq Int
  BY FeedSettings DEF FeedTypes, Times
<1>1. got \in SUBSET Times /\ \A x \in got : x <= now
  BY <1>0 DEF FeedTypes, Times
<1>2. Newest(got) \in got \cup {None} /\ \A x \in got : x <= Newest(got)
  BY <1>1, NewestIs
<1>3. Newest(got) \in Int /\ Newest(got) <= now
  <2>1. None \in Int /\ None <= now
    BY <1>0 DEF None
  <2> QED BY <1>0, <1>1, <1>2, <2>1
<1>4. ASSUME NEW f \in Frames
      PROVE  /\ builder[f] \in [start : Int, ticks : SUBSET Times]
             /\ builder[f].start \in Int /\ builder[f].ticks \in SUBSET Times
             /\ rows[f] \in RowSets /\ DOMAIN rows[f] \in SUBSET Times
             /\ last[f] \in Int /\ TopOf(f) \in Int
  <2>1. /\ builder[f] \in [start : Int, ticks : SUBSET Times]
        /\ rows[f] \in RowSets /\ last[f] \in Int
    BY DEF FeedTypes
  <2>2. DOMAIN rows[f] \in SUBSET Times
    BY <2>1 DEF RowSets
  <2>3. TopOf(f) \in Int
    BY <1>3, PeriodIs DEF TopOf
  <2> QED BY <2>1, <2>2, <2>3
<1> QED BY <1>0, <1>1, <1>2, <1>3, <1>4

(* What follows from the invariant.                                        *)
LEMMA FeedInvImplies == FeedInv => MarketDataIsTrue
<1> SUFFICES ASSUME FeedInv PROVE RowsComplete /\ StoreUpToDate
  BY DEF FeedInv, HistoryInv, HourInv, MarketDataIsTrue, IndicatorsFollowCandles
<1>1. RowsComplete
  <2>1. CASE kind # "oanda"
    BY <2>1 DEF FeedInv, FrameInv, RowInv, RowsComplete, Torn
  <2>2. CASE kind = "oanda"
    <3>1. Frames = {"primary", "h1"}
      BY DEF Frames
    <3>2. \A s \in DOMAIN rows["primary"] : rows["primary"][s] = got \cap TicksOf("primary", s)
      BY <2>2 DEF FeedInv, OandaInv
    <3> QED BY <2>2, <3>1, <3>2 DEF FeedInv, OandaInv, RowsComplete
  <2> QED BY <2>1, <2>2
<1>2. ASSUME queue = <<>>, kind # "oanda" PROVE store = Newest(got \ dropped)
  <2>1. store \in (got \ dropped) \cup {None} /\ \A ts \in got \ dropped : ts <= store
    BY <1>2 DEF FeedInv, DrainInv
  <2>2. got \ dropped \in SUBSET Times /\ got \subseteq Int
    BY FeedTypesAre DEF FeedInv
  <2>3. None <= store
    BY <2>1, <2>2, FeedTypesAre DEF FeedInv, None, Times
  <2> QED BY <2>1, <2>2, <2>3, NewestOnly
<1> QED BY <1>1, <1>2 DEF StoreUpToDate

(* It holds at the start.                                                  *)
LEMMA FeedInvInit == FeedInit => FeedInv
<1> SUFFICES ASSUME FeedInit PROVE FeedInv
  OBVIOUS
<1>0. 0 \in Times /\ MaxTime \in Nat /\ None \in Int
  BY FeedSettings DEF Times, None
<1>1. FeedTypes
  <2>1. kind \in {"bitflyer", "gmo", "oanda"}
    BY FeedSettings DEF FeedInit
  <2>2. builder \in [Frames -> [start : Int, ticks : SUBSET Times]]
    BY <1>0 DEF FeedInit, NoCandle
  <2>3. <<>> \in RowSets
    <3>1. <<>> \in [{} -> SUBSET Times]
      OBVIOUS
    <3> QED BY <3>1 DEF RowSets
  <2>4. rows \in [Frames -> RowSets] /\ last \in [Frames -> Int]
    BY <1>0, <2>3 DEF FeedInit
  <2> QED BY <1>0, <2>1, <2>2, <2>4 DEF FeedInit, FeedTypes
<1>2. Newest(got) = None
  <2>1. got = {}
    BY DEF FeedInit
  <2> QED BY <2>1, NewestIs
<1>3. ASSUME NEW f \in Frames
      PROVE builder[f].start = None /\ DOMAIN rows[f] = {} /\ TopOf(f) < 0 /\ TopOf(f) \in Int /\ last[f] = None
  <2>1. builder[f].start = None /\ DOMAIN rows[f] = {} /\ last[f] = None
    BY <1>3 DEF FeedInit, NoCandle
  <2> QED BY <1>1, <1>2, <2>1, FeedTypesAre, PeriodOfTime DEF TopOf
<1>4. FrameInv
  <2>1. ASSUME NEW f \in Frames PROVE BuilderInv(f) /\ RowInv(f) /\ TopInv(f)
    BY <1>3 DEF BuilderInv, RowInv, TopInv
  <2> QED BY <2>1 DEF FrameInv
<1>5. "primary" \in Frames /\ "h1" \in Frames
  BY DEF Frames
<1>6. OandaInv
  BY <1>3, <1>5 DEF OandaInv
<1>7. HistoryInv
  BY DEF FeedInit, HistoryInv, HistoryAscending
<1>8. HourInv
  BY <1>3, <1>5 DEF HourInv, H1CarriesFreshPrimary
<1>9. DrainInv
  BY DEF FeedInit, DrainInv
<1> QED BY <1>1, <1>4, <1>6, <1>7, <1>8, <1>9 DEF FeedInv

-----------------------------------------------------------------------------
(* upsert_candle changes one row.                                          *)
LEMMA UpsertIs ==
  ASSUME NEW r \in RowSets, NEW c \in [start : Int, ticks : SUBSET Times], c.start \in Times
  PROVE  /\ Upsert(r, c) \in RowSets /\ DOMAIN Upsert(r, c) = DOMAIN r \cup {c.start}
         /\ Upsert(r, c)[c.start] = c.ticks
         /\ \A s \in DOMAIN r : s # c.start => Upsert(r, c)[s] = r[s]
<1>1. PICK D \in SUBSET Times : r \in [D -> SUBSET Times]
  BY DEF RowSets
<1>2. DOMAIN r = D
  BY <1>1
<1>3. Upsert(r, c) \in [D \cup {c.start} -> SUBSET Times]
  <2>1. \A s \in D \cup {c.start} : (IF s = c.start THEN c.ticks ELSE r[s]) \in SUBSET Times
    BY <1>1
  <2> QED BY <1>2, <2>1 DEF Upsert
<1>4. D \cup {c.start} \in SUBSET Times
  OBVIOUS
<1>5. Upsert(r, c) \in RowSets
  BY <1>3, <1>4 DEF RowSets
<1>6. DOMAIN Upsert(r, c) = DOMAIN r \cup {c.start} /\ Upsert(r, c)[c.start] = c.ticks
  BY DEF Upsert
<1>7. \A s \in DOMAIN r : s # c.start => Upsert(r, c)[s] = r[s]
  BY DEF Upsert
<1> QED BY <1>5, <1>6, <1>7

(* What is published of each timeframe, and of the history.                *)
LEMMA PublishIs ==
  ASSUME FeedTypes, NEW c \in [Frames -> [start : Int, ticks : SUBSET Times]], NEW unsaved, Publish(c, unsaved),
         \A f \in Frames : c[f].start \in Times \cup {None}
  PROVE  /\ \A f \in Frames :
              /\ c[f].start # None => /\ last'[f] = c[f].start
                                      /\ rows'[f] = rows[f] \/ rows'[f] = Upsert(rows[f], c[f])
              /\ c[f].start = None => last'[f] = last[f] /\ rows'[f] = rows[f]
         /\ rows' \in [Frames -> RowSets] /\ last' \in [Frames -> Int]
         /\ kind = "bitflyer" /\ c["primary"].start # None =>
              history' = LastOf(Append(history, c["primary"].start), HistoryCap) /\ indicators' = c["primary"].start
         /\ ~(kind = "bitflyer" /\ c["primary"].start # None) => UNCHANGED <<history, indicators>>
         /\ attached' = IF c["h1"].start # None THEN indicators' ELSE attached
<1> DEFINE done == {f \in Frames : c[f].start # None}
<1>1. /\ rows' = [f \in Frames |-> IF f \in done \ unsaved THEN Upsert(rows[f], c[f]) ELSE rows[f]]
      /\ last' = [f \in Frames |-> IF f \in done THEN c[f].start ELSE last[f]]
      /\ IF kind = "bitflyer" /\ "primary" \in done
         THEN /\ history' = LastOf(Append(history, c["primary"].start), HistoryCap)
              /\ indicators' = c["primary"].start
         ELSE UNCHANGED <<history, indicators>>
      /\ attached' = IF "h1" \in done THEN indicators' ELSE attached
  BY DEF Publish, HourIndicators
<1>2. "primary" \in Frames /\ "h1" \in Frames
  BY DEF Frames
<1>3. ASSUME NEW f \in Frames
      PROVE /\ c[f].start # None => /\ last'[f] = c[f].start
                                    /\ rows'[f] = rows[f] \/ rows'[f] = Upsert(rows[f], c[f])
            /\ c[f].start = None => last'[f] = last[f] /\ rows'[f] = rows[f]
  BY <1>1
<1>4. ASSUME NEW f \in Frames PROVE rows'[f] \in RowSets /\ last'[f] \in Int
  <2>1. rows[f] \in RowSets /\ last[f] \in Int /\ c[f] \in [start : Int, ticks : SUBSET Times]
    BY FeedTypesAre
  <2>2. CASE c[f].start = None
    BY <1>3, <2>1, <2>2
  <2>3. CASE c[f].start # None
    BY <1>3, <2>1, <2>3, UpsertIs
  <2> QED BY <2>2, <2>3
<1>5. rows' = [f \in Frames |-> rows'[f]] /\ last' = [f \in Frames |-> last'[f]]
  BY <1>1
<1>6. rows' \in [Frames -> RowSets] /\ last' \in [Frames -> Int]
  BY <1>4, <1>5
<1>7. "primary" \in done <=> c["primary"].start # None
  BY <1>2
<1>8. "h1" \in done <=> c["h1"].start # None
  BY <1>2
<1> HIDE DEF done
<1>9. /\ kind = "bitflyer" /\ c["primary"].start # None =>
           history' = LastOf(Append(history, c["primary"].start), HistoryCap) /\ indicators' = c["primary"].start
      /\ ~(kind = "bitflyer" /\ c["primary"].start # None) => UNCHANGED <<history, indicators>>
      /\ attached' = IF c["h1"].start # None THEN indicators' ELSE attached
  BY <1>1, <1>7, <1>8
<1> QED BY <1>3, <1>6, <1>9

(* What a tick does to a timeframe with p as its period and b as the start *)
(* of the open candle.                                                     *)
TickDone(f, ts, p, b) ==
  /\ p \in Times /\ p # None /\ ts \in TicksOf(f, p)
  /\ builder'[f] = [start |-> p, ticks |-> IF b = p THEN builder[f].ticks \cup {ts} ELSE {ts}]
  /\ b # None /\ b # p => /\ last'[f] = b
                          /\ rows'[f] = rows[f] \/ rows'[f] = Upsert(rows[f], builder[f])
  /\ b = None \/ b = p => last'[f] = last[f] /\ rows'[f] = rows[f]
  /\ p < TopOf(f) \/ p <= last[f] => <<f, p>> \in mixed' /\ <<f, b>> \in mixed'
  /\ TopOf(f)' = IF TopOf(f) < p THEN p ELSE TopOf(f)

(* Every tick does that.                                                   *)
LEMMA TickIs ==
  ASSUME FeedTypes, FrameInv, kind # "oanda", NEW ts \in Times, NEW unsaved, TakeTick(ts, unsaved)
  PROVE  /\ got' = got \cup {ts} /\ mixed \subseteq mixed'
         /\ \A f \in Frames : TickDone(f, ts, PeriodStart(f, ts), builder[f].start)
         /\ builder' \in [Frames -> [start : Int, ticks : SUBSET Times]]
         /\ rows' \in [Frames -> RowSets] /\ last' \in [Frames -> Int]
         /\ LET b == builder["primary"].start
                fin == b # None /\ b # PeriodStart("primary", ts)
            IN  /\ kind = "bitflyer" /\ fin =>
                     history' = LastOf(Append(history, b), HistoryCap) /\ indicators' = b
                /\ ~(kind = "bitflyer" /\ fin) => UNCHANGED <<history, indicators>>
                /\ attached' = IF builder["h1"].start # None /\ builder["h1"].start # PeriodStart("h1", ts)
                               THEN indicators' ELSE attached
<1> DEFINE c == [f \in Frames |-> Finished(f, ts)]
           torn == {f \in Frames : PeriodStart(f, ts) < PeriodStart(f, Newest(got)) \/ PeriodStart(f, ts) <= last[f]}
<1>1. /\ got' = got \cup {ts} /\ builder' = [f \in Frames |-> OnTick(f, ts)] /\ Publish(c, unsaved)
      /\ mixed' = mixed \cup {<<f, PeriodStart(f, ts)>> : f \in torn} \cup {<<f, builder[f].start>> : f \in torn}
  BY DEF TakeTick
<1>2. Times \subseteq Int /\ None \in Int /\ got \in SUBSET Times
  BY FeedTypesAre DEF None
<1>3. ASSUME NEW f \in Frames
      PROVE  /\ PeriodStart(f, ts) \in Times /\ PeriodStart(f, ts) # None /\ ts \in TicksOf(f, PeriodStart(f, ts))
             /\ builder[f] \in [start : Int, ticks : SUBSET Times] /\ builder[f].start \in Times \cup {None}
  <2>1. builder[f] \in [start : Int, ticks : SUBSET Times] /\ builder[f].start \in Int
    BY FeedTypesAre
  <2>2. builder[f].start \in Times \cup {None}
    BY <2>1 DEF FrameInv, BuilderInv
  <2> QED BY <2>1, <2>2, PeriodOfTime DEF TicksOf
<1>4. ASSUME NEW f \in Frames
      PROVE  /\ builder[f].start # None /\ builder[f].start # PeriodStart(f, ts) => c[f] = builder[f]
             /\ builder[f].start = None \/ builder[f].start = PeriodStart(f, ts) => c[f] = NoCandle
  BY DEF Finished
<1>5. NoCandle \in [start : Int, ticks : SUBSET Times] /\ NoCandle.start = None
  BY <1>2 DEF NoCandle
<1>6. ASSUME NEW f \in Frames
      PROVE c[f] \in [start : Int, ticks : SUBSET Times] /\ c[f].start \in Times \cup {None}
  <2> HIDE DEF c
  <2> QED BY <1>3, <1>4, <1>5
<1>7. c \in [Frames -> [start : Int, ticks : SUBSET Times]]
  <2>1. c = [f \in Frames |-> c[f]]
    OBVIOUS
  <2> HIDE DEF c
  <2> QED BY <1>6, <2>1
<1> HIDE DEF c
<1>8. /\ \A f \in Frames :
           /\ c[f].start # None => /\ last'[f] = c[f].start
                                   /\ rows'[f] = rows[f] \/ rows'[f] = Upsert(rows[f], c[f])
           /\ c[f].start = None => last'[f] = last[f] /\ rows'[f] = rows[f]
      /\ rows' \in [Frames -> RowSets] /\ last' \in [Frames -> Int]
      /\ kind = "bitflyer" /\ c["primary"].start # None =>
           history' = LastOf(Append(history, c["primary"].start), HistoryCap) /\ indicators' = c["primary"].start
      /\ ~(kind = "bitflyer" /\ c["primary"].start # None) => UNCHANGED <<history, indicators>>
      /\ attached' = IF c["h1"].start # None THEN indicators' ELSE attached
  BY <1>1, <1>6, <1>7, PublishIs
<1>9. ASSUME NEW f \in Frames PROVE TickDone(f, ts, PeriodStart(f, ts), builder[f].start)
  <2> DEFINE p == PeriodStart(f, ts)
             b == builder[f].start
  <2>1. p \in Times /\ p # None /\ ts \in TicksOf(f, p)
    BY <1>3
  <2>2. builder'[f] = [start |-> p, ticks |-> IF b = p THEN builder[f].ticks \cup {ts} ELSE {ts}]
    <3>1. builder'[f] = OnTick(f, ts)
      BY <1>1
    <3>2. CASE b = p
      <4>1. OnTick(f, ts) = [builder[f] EXCEPT !.ticks = builder[f].ticks \cup {ts}]
        BY <3>2 DEF OnTick
      <4>2. builder[f] \in [start : Int, ticks : SUBSET Times]
        BY <1>3
      <4> QED BY <3>1, <3>2, <4>1, <4>2
    <3>3. CASE b # p
      BY <3>1, <3>3 DEF OnTick
    <3> QED BY <3>2, <3>3
  <2>3. ASSUME p < TopOf(f) \/ p <= last[f] PROVE <<f, p>> \in mixed' /\ <<f, b>> \in mixed'
    <3>1. f \in torn
      BY <2>3 DEF TopOf
    <3> HIDE DEF torn
    <3> QED BY <1>1, <3>1
  <2>4. TopOf(f)' = IF TopOf(f) < p THEN p ELSE TopOf(f)
    <3>1. Newest(got') = IF Newest(got) < ts THEN ts ELSE Newest(got)
      BY <1>1, <1>2, NewestAdd
    <3>2. Newest(got) \in Int /\ ts \in Int /\ TopOf(f) \in Int /\ p \in Int
      BY <1>2, <2>1, FeedTypesAre
    <3>3. CASE Newest(got) < ts
      <4>1. TopOf(f) <= p
        BY <3>2, <3>3, PeriodsAscend DEF TopOf
      <4>2. TopOf(f)' = p
        BY <3>1, <3>3 DEF TopOf
      <4> QED BY <3>2, <4>1, <4>2
    <3>4. CASE ~(Newest(got) < ts)
      <4>1. p <= TopOf(f)
        BY <3>2, <3>4, PeriodsAscend DEF TopOf
      <4>2. TopOf(f)' = TopOf(f)
        BY <3>1, <3>4 DEF TopOf
      <4> QED BY <3>2, <4>1, <4>2
    <3> QED BY <3>3, <3>4
  <2>5. b # None /\ b # p => last'[f] = b /\ (rows'[f] = rows[f] \/ rows'[f] = Upsert(rows[f], builder[f]))
    BY <1>4, <1>8
  <2>6. b = None \/ b = p => last'[f] = last[f] /\ rows'[f] = rows[f]
    BY <1>4, <1>5, <1>8
  <2> HIDE DEF p, b
  <2>7. TickDone(f, ts, p, b)
    BY <2>1, <2>2, <2>3, <2>4, <2>5, <2>6 DEF TickDone
  <2> QED BY <2>7 DEF p, b
<1>10. builder' \in [Frames -> [start : Int, ticks : SUBSET Times]]
  <2>1. \A f \in Frames : builder'[f] \in [start : Int, ticks : SUBSET Times]
    <3> SUFFICES ASSUME NEW f \in Frames PROVE builder'[f] \in [start : Int, ticks : SUBSET Times]
      OBVIOUS
    <3>1. builder'[f] = [start |-> PeriodStart(f, ts),
                         ticks |-> IF builder[f].start = PeriodStart(f, ts) THEN builder[f].ticks \cup {ts} ELSE {ts}]
      BY <1>9 DEF TickDone
    <3>2. PeriodStart(f, ts) \in Int /\ builder[f].ticks \in SUBSET Times
      BY <1>2, <1>3
    <3> QED BY <3>1, <3>2
  <2>2. builder' = [f \in Frames |-> builder'[f]]
    BY <1>1
  <2> QED BY <2>1, <2>2
<1>11. "primary" \in Frames /\ "h1" \in Frames
  BY DEF Frames
<1>12. \A f \in Frames : /\ c[f].start # None <=> builder[f].start # None /\ builder[f].start # PeriodStart(f, ts)
                         /\ c[f].start # None => c[f].start = builder[f].start
  BY <1>4, <1>5
<1>13. LET b == builder["primary"].start
           fin == b # None /\ b # PeriodStart("primary", ts)
       IN  /\ kind = "bitflyer" /\ fin =>
                history' = LastOf(Append(history, b), HistoryCap) /\ indicators' = b
           /\ ~(kind = "bitflyer" /\ fin) => UNCHANGED <<history, indicators>>
           /\ attached' = IF builder["h1"].start # None /\ builder["h1"].start # PeriodStart("h1", ts)
                          THEN indicators' ELSE attached
  BY <1>8, <1>11, <1>12
<1> QED BY <1>1, <1>8, <1>9, <1>10, <1>13

(* A tick keeps what the invariant says of a timeframe.                    *)
LEMMA TickFrame ==
  ASSUME FeedTypes, FrameInv, kind # "oanda", kind' = kind, NEW ts \in Times, NEW unsaved, TakeTick(ts, unsaved),
         kind = "gmo" => Newest(got) <= ts, NEW f \in Frames
  PROVE  BuilderInv(f)' /\ RowInv(f)' /\ TopInv(f)'
<1> DEFINE p == PeriodStart(f, ts)
           b == builder[f].start
           top == TopOf(f)
<1>1. TickDone(f, ts, p, b) /\ got' = got \cup {ts} /\ mixed \subseteq mixed'
  BY TickIs
<1>2. BuilderInv(f) /\ RowInv(f) /\ TopInv(f)
  BY DEF FrameInv
<1>3. /\ Times \subseteq Int /\ got \in SUBSET Times /\ top \in Int /\ last[f] \in Int /\ rows[f] \in RowSets
      /\ DOMAIN rows[f] \in SUBSET Times
      /\ builder[f] \in [start : Int, ticks : SUBSET Times] /\ b \in Int /\ builder[f].ticks \in SUBSET Times
  BY FeedTypesAre
<1>4. \A x \in got : PeriodStart(f, x) <= top
  <2> SUFFICES ASSUME NEW x \in got PROVE PeriodStart(f, x) <= top
    OBVIOUS
  <2>1. x \in Int /\ Newest(got) \in Int /\ x <= Newest(got)
    BY <1>3, FeedTypesAre
  <2> QED BY <2>1, PeriodsAscend DEF TopOf
<1>5. kind = "gmo" => top <= p
  <2>1. Newest(got) \in Int /\ ts \in Int
    BY <1>3, FeedTypesAre
  <2> QED BY <2>1, PeriodsAscend DEF TopOf
<1>6. \A s : s # p => ts \notin TicksOf(f, s)
  BY DEF TicksOf
<1>7. \A s, x : x \in TicksOf(f, s) <=> x \in Times /\ PeriodStart(f, x) = s
  BY DEF TicksOf
<1> HIDE DEF p, b, top
<1>8. /\ p \in Times /\ p # None /\ ts \in TicksOf(f, p) /\ p \in Int
      /\ builder'[f] = [start |-> p, ticks |-> IF b = p THEN builder[f].ticks \cup {ts} ELSE {ts}]
      /\ b # None /\ b # p => /\ last'[f] = b
                              /\ rows'[f] = rows[f] \/ rows'[f] = Upsert(rows[f], builder[f])
      /\ b = None \/ b = p => last'[f] = last[f] /\ rows'[f] = rows[f]
      /\ p < top \/ p <= last[f] => <<f, p>> \in mixed' /\ <<f, b>> \in mixed'
      /\ TopOf(f)' = IF top < p THEN p ELSE top
  BY <1>1, <1>3 DEF TickDone, top
<1>9. /\ b # None => /\ b \in Times /\ b <= top
                     /\ ~Torn(f, b) => builder[f].ticks = got \cap TicksOf(f, b)
      /\ \A s \in DOMAIN rows[f] : /\ s <= top
                                   /\ s = top => Torn(f, s) \/ s <= last[f]
                                   /\ ~Torn(f, s) => rows[f][s] = got \cap TicksOf(f, s)
      /\ top >= 0 => Torn(f, top) \/ b = top \/ (kind = "gmo" /\ b = None /\ top <= last[f])
  BY <1>2 DEF BuilderInv, RowInv, TopInv, b, top
<1>10. \A s : Torn(f, s) => <<f, s>> \in mixed'
  BY <1>1 DEF Torn
<1>11. 0 <= p
  BY <1>8 DEF Times
<1>12. BuilderInv(f)'
  <2>1. builder'[f].start = p /\ p <= TopOf(f)'
    BY <1>3, <1>8
  <2>2. ASSUME ~(<<f, p>> \in mixed') PROVE builder'[f].ticks = got' \cap TicksOf(f, p)
    <3>1. ~(p < top) /\ ~(p <= last[f]) /\ ~Torn(f, p)
      BY <1>8, <1>10, <2>2
    <3>2. CASE b = p
      <4>1. builder[f].ticks = got \cap TicksOf(f, p)
        BY <1>8, <1>9, <3>1, <3>2
      <4> QED BY <1>1, <1>8, <3>2, <4>1
    <3>3. CASE b # p
      <4>1. top # p
        BY <1>3, <1>8, <1>9, <1>11, <3>1, <3>3
      <4>2. top < p
        BY <1>3, <1>8, <3>1, <4>1
      <4>3. got \cap TicksOf(f, p) = {}
        <5>1. \A x \in got : PeriodStart(f, x) # p
          BY <1>3, <1>4, <1>8, <4>2
        <5> QED BY <1>7, <5>1
      <4> QED BY <1>1, <1>8, <3>3, <4>3
    <3> QED BY <3>2, <3>3
  <2> QED BY <1>8, <2>1, <2>2 DEF BuilderInv, Torn
<1>13. ASSUME p < top
       PROVE  <<f, top>> \in mixed' /\ TopOf(f)' = top
  <2>1. TopOf(f)' = top /\ top >= 0
    BY <1>3, <1>8, <1>11, <1>13
  <2>2. kind # "gmo"
    BY <1>3, <1>5, <1>8, <1>13
  <2>3. Torn(f, top) \/ b = top
    BY <1>9, <2>1, <2>2
  <2>4. <<f, b>> \in mixed'
    BY <1>8, <1>13
  <2> QED BY <1>10, <2>1, <2>3, <2>4
<1>14. TopInv(f)'
  <2>1. CASE p < top
    BY <1>13, <2>1 DEF TopInv, Torn
  <2>2. CASE ~(p < top)
    <3>1. TopOf(f)' = p
      BY <1>3, <1>8, <2>2
    <3> QED BY <1>8, <3>1 DEF TopInv
  <2> QED BY <2>1, <2>2
<1>15. RowInv(f)'
  <2> SUFFICES ASSUME NEW s \in DOMAIN rows'[f]
               PROVE  /\ s <= TopOf(f)'
                      /\ s = TopOf(f)' => <<f, s>> \in mixed' \/ s <= last'[f]
                      /\ ~(<<f, s>> \in mixed') => rows'[f][s] = got' \cap TicksOf(f, s)
    BY DEF RowInv, Torn
  <2>1. \/ s \in DOMAIN rows[f] /\ rows'[f][s] = rows[f][s]
        \/ s = b /\ b # None /\ b # p /\ rows'[f][s] = builder[f].ticks
    <3>1. CASE rows'[f] = rows[f]
      BY <3>1
    <3>2. CASE b # None /\ b # p /\ rows'[f] = Upsert(rows[f], builder[f])
      <4>1. builder[f].start = b /\ b \in Times
        BY <1>9, <3>2 DEF b
      <4> DEFINE c == builder[f]
      <4>2. c \in [start : Int, ticks : SUBSET Times] /\ c.start \in Times /\ rows'[f] = Upsert(rows[f], c)
        BY <1>3, <3>2, <4>1
      <4> HIDE DEF c
      <4>3. /\ DOMAIN rows'[f] = DOMAIN rows[f] \cup {c.start} /\ rows'[f][c.start] = c.ticks
            /\ \A z \in DOMAIN rows[f] : z # c.start => rows'[f][z] = rows[f][z]
        <5> DEFINE u == rows[f]
        <5>1. u \in RowSets
          BY <1>3
        <5> HIDE DEF u
        <5>2. /\ DOMAIN Upsert(u, c) = DOMAIN u \cup {c.start} /\ Upsert(u, c)[c.start] = c.ticks
              /\ \A z \in DOMAIN u : z # c.start => Upsert(u, c)[z] = u[z]
          BY <4>2, <5>1, UpsertIs
        <5>3. rows'[f] = Upsert(u, c)
          BY <4>2 DEF u
        <5>4. /\ DOMAIN rows'[f] = DOMAIN u \cup {c.start} /\ rows'[f][c.start] = c.ticks
              /\ \A z \in DOMAIN u : z # c.start => rows'[f][z] = u[z]
          BY <5>2, <5>3
        <5> QED BY <5>4 DEF u
      <4>4. c.start = b /\ c.ticks = builder[f].ticks
        BY DEF c, b
      <4> QED BY <3>2, <4>3, <4>4
    <3> QED BY <1>8, <3>1, <3>2
  <2>2. s \in Int /\ s <= top
    BY <1>3, <1>9, <2>1
  <2>3. s <= TopOf(f)'
    BY <1>3, <1>8, <2>2
  <2>4. ASSUME s = TopOf(f)' PROVE <<f, s>> \in mixed' \/ s <= last'[f]
    <3>1. CASE p < top
      BY <1>13, <2>4, <3>1
    <3>2. CASE ~(p < top)
      <4>1. s = top /\ s = p
        BY <1>3, <1>8, <2>2, <2>4, <3>2
      <4>2. Torn(f, s) \/ b = s \/ b = None
        BY <1>9, <1>11, <4>1
      <4>3. CASE Torn(f, s)
        BY <1>10, <4>3
      <4>4. CASE b = s \/ b = None
        <5>1. last'[f] = last[f] /\ rows'[f] = rows[f]
          BY <1>8, <4>1, <4>4
        <5> QED BY <1>9, <1>10, <4>1, <5>1
      <4> QED BY <4>2, <4>3, <4>4
    <3> QED BY <3>1, <3>2
  <2>5. ASSUME ~(<<f, s>> \in mixed') PROVE rows'[f][s] = got' \cap TicksOf(f, s)
    <3>1. ~Torn(f, s)
      BY <1>10, <2>5
    <3>2. rows'[f][s] = got \cap TicksOf(f, s)
      BY <1>9, <2>1, <3>1
    <3>3. s # p
      <4> SUFFICES ASSUME s = p PROVE FALSE
        OBVIOUS
      <4>1. ~(p < top) /\ ~(p <= last[f])
        BY <1>8, <2>5
      <4>2. s \in DOMAIN rows[f] /\ s = top
        BY <1>3, <1>8, <2>1, <2>2, <4>1
      <4> QED BY <1>9, <3>1, <4>1, <4>2
    <3> QED BY <1>1, <1>6, <3>2, <3>3
  <2> QED BY <2>3, <2>4, <2>5
<1> QED BY <1>12, <1>14, <1>15

(* The history after one more candle: neighbours were neighbours, or the   *)
(* second one is new.                                                      *)
LEMMA HistoryAppend ==
  ASSUME NEW s \in Seq(Int), NEW x \in Int, NEW z, z = LastOf(Append(s, x), HistoryCap)
  PROVE  /\ z \in Seq(Int) /\ z # <<>> /\ z[Len(z)] = x
         /\ \A i \in 1..(Len(z) - 1) :
              \/ \E j \in 1..(Len(s) - 1) : z[i] = s[j] /\ z[i + 1] = s[j + 1]
              \/ s # <<>> /\ z[i] = s[Len(s)] /\ z[i + 1] = x
<1> DEFINE r == Append(s, x)
<1>1. r \in Seq(Int) /\ r # <<>> /\ Len(r) = Len(s) + 1 /\ Len(s) \in Nat /\ r[Len(s) + 1] = x
  OBVIOUS
<1>2. \A i \in 1..Len(s) : r[i] = s[i]
  OBVIOUS
<1>3. z = LastOf(r, HistoryCap) /\ HistoryCap \in Nat \ {0}
  BY FeedSettings
<1> HIDE DEF r
<1>4. z \in Seq(Int) /\ EndOf(z, r) /\ z # <<>>
  BY <1>1, <1>3, LastOfIs
<1>5. PICK k \in Nat : Len(z) + k = Len(r) /\ \A i \in 1..Len(z) : z[i] = r[i + k]
  BY <1>4 DEF EndOf
<1>6. Len(z) \in Nat /\ Len(z) > 0
  BY <1>4
<1>7. z[Len(z)] = x
  BY <1>1, <1>5, <1>6
<1>8. ASSUME NEW i \in 1..(Len(z) - 1)
      PROVE  \/ \E j \in 1..(Len(s) - 1) : z[i] = s[j] /\ z[i + 1] = s[j + 1]
             \/ s # <<>> /\ z[i] = s[Len(s)] /\ z[i + 1] = x
  <2>1. z[i] = r[i + k] /\ z[i + 1] = r[(i + k) + 1] /\ i + k \in 1..Len(s) /\ i + k \in Nat
    <3>1. i \in Nat /\ i \in 1..Len(z) /\ i + 1 \in 1..Len(z) /\ i + 1 <= Len(z)
      BY <1>6
    <3>2. z[i] = r[i + k] /\ z[i + 1] = r[(i + 1) + k]
      BY <1>5, <3>1
    <3>3. (i + 1) + k = (i + k) + 1 /\ i + k \in 1..Len(s) /\ i + k \in Nat
      BY <1>1, <1>5, <1>6, <3>1
    <3> QED BY <3>2, <3>3
  <2>2. z[i] = s[i + k] /\ s # <<>>
    BY <1>1, <1>2, <2>1
  <2>3. CASE i + k = Len(s)
    BY <1>1, <2>1, <2>2, <2>3
  <2>4. CASE i + k # Len(s)
    <3>1. i + k \in 1..(Len(s) - 1) /\ (i + k) + 1 \in 1..Len(s)
      BY <1>1, <2>1, <2>4
    <3>2. z[i + 1] = s[(i + k) + 1]
      BY <1>2, <2>1, <3>1
    <3> QED BY <2>2, <3>1, <3>2
  <2> QED BY <2>3, <2>4
<1> QED BY <1>4, <1>7, <1>8

(* A tick keeps the history of the indicators in order.                    *)
LEMMA TickHistory ==
  ASSUME FeedTypes, FrameInv, HistoryInv, kind # "oanda", kind' = kind,
         NEW ts \in Times, NEW unsaved, TakeTick(ts, unsaved)
  PROVE  HistoryInv' /\ history' \in Seq(Int)
<1> DEFINE f == "primary"
           p == PeriodStart(f, ts)
           b == builder[f].start
           top == TopOf(f)
           h == history[Len(history)]
<1>0. f \in Frames
  BY DEF Frames
<1>1. /\ TickDone(f, ts, p, b) /\ mixed \subseteq mixed'
      /\ kind = "bitflyer" /\ b # None /\ b # p => history' = LastOf(Append(history, b), HistoryCap)
      /\ ~(kind = "bitflyer" /\ b # None /\ b # p) => UNCHANGED history
  BY <1>0, TickIs
<1>2. /\ history \in Seq(Int) /\ Times \subseteq Int /\ top \in Int /\ b \in Int /\ last[f] \in Int
  BY <1>0, FeedTypesAre DEF FeedTypes
<1>3. b # None => b \in Times /\ b <= top
  BY <1>0 DEF FrameInv, BuilderInv
<1>4. /\ \A i \in 1..(Len(history) - 1) : history[i] < history[i + 1] \/ <<f, history[i + 1]>> \in mixed
      /\ kind = "gmo" => history = <<>>
      /\ kind = "bitflyer" /\ history # <<>> =>
           /\ h <= top
           /\ h = top => <<f, h>> \in mixed \/ h <= last[f]
           /\ b # None => h < b \/ <<f, b>> \in mixed
  BY DEF HistoryInv, HistoryAscending, Torn
<1>5. /\ p \in Times /\ p # None /\ p \in Int
      /\ builder'[f].start = p
      /\ b # None /\ b # p => last'[f] = b
      /\ b = None \/ b = p => last'[f] = last[f]
      /\ p < top \/ p <= last[f] => <<f, p>> \in mixed' /\ <<f, b>> \in mixed'
      /\ TopOf(f)' = IF top < p THEN p ELSE top
  <2>1. TickDone(f, ts, p, b) /\ \A x : x \in Times => x \in Int
    BY <1>1, <1>2
  <2> HIDE DEF p, b, f
  <2>2. /\ p \in Times /\ p # None
        /\ builder'[f] = [start |-> p, ticks |-> IF b = p THEN builder[f].ticks \cup {ts} ELSE {ts}]
        /\ b # None /\ b # p => last'[f] = b
        /\ b = None \/ b = p => last'[f] = last[f]
        /\ p < top \/ p <= last[f] => <<f, p>> \in mixed' /\ <<f, b>> \in mixed'
        /\ TopOf(f)' = IF top < p THEN p ELSE top
    BY <2>1 DEF TickDone
  <2> QED BY <2>1, <2>2
<1>6. history # <<>> => h \in Int
  BY <1>2
<1>7. kind = "gmo" \/ kind = "bitflyer"
  BY DEF FeedTypes
<1> HIDE DEF f, p, b, top, h
<1>8. SUFFICES /\ history' \in Seq(Int)
               /\ \A i \in 1..(Len(history') - 1) :
                    history'[i] < history'[i + 1] \/ <<f, history'[i + 1]>> \in mixed'
               /\ kind = "gmo" => history' = <<>>
               /\ kind = "bitflyer" /\ history' # <<>> =>
                    /\ history'[Len(history')] <= TopOf(f)'
                    /\ history'[Len(history')] = TopOf(f)' =>
                         <<f, history'[Len(history')]>> \in mixed' \/ history'[Len(history')] <= last'[f]
                    /\ history'[Len(history')] < p \/ <<f, p>> \in mixed'
  BY <1>5 DEF HistoryInv, HistoryAscending, Torn, f
<1>9. CASE kind = "bitflyer" /\ b # None /\ b # p
  <2>1. /\ history' \in Seq(Int) /\ history' # <<>> /\ history'[Len(history')] = b
        /\ \A i \in 1..(Len(history') - 1) :
             \/ \E j \in 1..(Len(history) - 1) : history'[i] = history[j] /\ history'[i + 1] = history[j + 1]
             \/ history # <<>> /\ history'[i] = h /\ history'[i + 1] = b
    BY <1>1, <1>2, <1>9, HistoryAppend DEF h
  <2>2. \A i \in 1..(Len(history') - 1) :
          history'[i] < history'[i + 1] \/ <<f, history'[i + 1]>> \in mixed'
    BY <1>1, <1>4, <1>9, <2>1
  <2>3. b <= TopOf(f)' /\ b <= last'[f]
    BY <1>2, <1>3, <1>5, <1>9
  <2>4. b < p \/ <<f, p>> \in mixed'
    BY <1>2, <1>3, <1>5, <1>9
  <2> QED BY <1>9, <2>1, <2>2, <2>3, <2>4
<1>10. CASE ~(kind = "bitflyer" /\ b # None /\ b # p)
  <2>1. history' = history
    BY <1>1, <1>10
  <2>2. \A i \in 1..(Len(history') - 1) :
          history'[i] < history'[i + 1] \/ <<f, history'[i + 1]>> \in mixed'
    BY <1>1, <1>4, <2>1
  <2>3. ASSUME kind = "bitflyer", history # <<>>
        PROVE  /\ h <= TopOf(f)'
               /\ h = TopOf(f)' => <<f, h>> \in mixed' \/ h <= last'[f]
               /\ h < p \/ <<f, p>> \in mixed'
    <3>1. h \in Int /\ h <= top /\ (h = top => <<f, h>> \in mixed \/ h <= last[f])
      BY <1>4, <1>6, <2>3
    <3>2. last'[f] = last[f]
      BY <1>5, <1>10, <2>3
    <3>3. h <= TopOf(f)' /\ (h = TopOf(f)' => h = top)
      BY <1>2, <1>5, <3>1
    <3>4. h < p \/ <<f, p>> \in mixed'
      <4>1. CASE b = p
        BY <1>1, <1>4, <1>5, <2>3, <4>1
      <4>2. CASE ~(p < top) /\ ~(p <= last[f]) /\ ~(h < p)
        <5>1. h = top /\ h = p
          BY <1>2, <1>5, <3>1, <4>2
        <5> QED BY <1>1, <3>1, <4>2, <5>1
      <4> QED BY <1>5, <4>1, <4>2
    <3> QED BY <1>1, <3>1, <3>2, <3>3, <3>4
  <2> QED BY <1>2, <1>4, <2>1, <2>2, <2>3 DEF h
<1> QED BY <1>9, <1>10

(* The H1 candle that a tick completes gets the indicators of its own last *)
(* primary candle.                                                         *)
LEMMA TickHour ==
  ASSUME FeedTypes, FrameInv, HourInv, kind # "oanda", kind' = kind,
         NEW ts \in Times, NEW unsaved, TakeTick(ts, unsaved)
  PROVE  HourInv' /\ indicators' \in Int /\ attached' \in Int
<1> DEFINE m == PeriodStart("primary", ts)
           h == PeriodStart("h1", ts)
           b == builder["primary"].start
           c == builder["h1"].start
<1>0. "primary" \in Frames /\ "h1" \in Frames
  BY DEF Frames
<1>1. /\ TickDone("primary", ts, m, b) /\ TickDone("h1", ts, h, c)
      /\ kind = "bitflyer" /\ b # None /\ b # m => indicators' = b
      /\ ~(kind = "bitflyer" /\ b # None /\ b # m) => UNCHANGED indicators
      /\ attached' = IF c # None /\ c # h THEN indicators' ELSE attached
  BY <1>0, TickIs
<1>2. PeriodStart("h1", m) = h
  BY PeriodsNest
<1>3. /\ builder'["primary"].start = m /\ m # None /\ builder'["h1"].start = h /\ h # None
      /\ c # None /\ c # h => last'["h1"] = c
      /\ c = None \/ c = h => last'["h1"] = last["h1"]
  BY <1>1 DEF TickDone
<1>4. b \in Int /\ indicators \in Int /\ attached \in Int
  BY <1>0, FeedTypesAre DEF FeedTypes
<1>5. /\ kind = "bitflyer" /\ last["h1"] # None =>
           attached # None /\ PeriodStart("h1", attached) = last["h1"]
      /\ kind = "bitflyer" => /\ b = None <=> c = None
                              /\ b # None => PeriodStart("h1", b) = c
  BY DEF HourInv, H1CarriesFreshPrimary
<1>6. indicators' \in Int /\ attached' \in Int
  BY <1>1, <1>4
<1> HIDE DEF m, h, b, c
<1>7. ASSUME kind = "bitflyer", last'["h1"] # None
      PROVE  attached' # None /\ PeriodStart("h1", attached') = last'["h1"]
  <2>1. CASE c # None /\ c # h
    <3>1. b # None /\ PeriodStart("h1", b) = c
      BY <1>5, <1>7, <2>1
    <3>2. b # m
      BY <1>2, <2>1, <3>1
    <3>3. attached' = b /\ last'["h1"] = c
      BY <1>1, <1>3, <1>7, <2>1, <3>1, <3>2
    <3> QED BY <3>1, <3>3
  <2>2. CASE c = None \/ c = h
    BY <1>1, <1>3, <1>5, <1>7, <2>2
  <2> QED BY <2>1, <2>2
<1> QED BY <1>2, <1>3, <1>6, <1>7 DEF HourInv, H1CarriesFreshPrimary

(* A tick of bitFlyer or GMO keeps all but the price store.                *)
LEMMA TickKeeps ==
  ASSUME FeedInv, kind # "oanda", kind' = kind, now' = now, NEW ts \in Times, ts <= now,
         NEW unsaved, TakeTick(ts, unsaved), kind = "gmo" => Newest(got) <= ts
  PROVE  FeedTypes' /\ FrameInv' /\ OandaInv' /\ HistoryInv' /\ HourInv' /\ got' = got \cup {ts}
<1>1. FeedTypes /\ FrameInv /\ HistoryInv /\ HourInv
  BY DEF FeedInv
<1>2. HistoryInv' /\ history' \in Seq(Int)
  BY <1>1, TickHistory
<1>3. HourInv' /\ indicators' \in Int /\ attached' \in Int
  BY <1>1, TickHour
<1>4. /\ got' = got \cup {ts} /\ builder' \in [Frames -> [start : Int, ticks : SUBSET Times]]
      /\ rows' \in [Frames -> RowSets] /\ last' \in [Frames -> Int]
  BY <1>1, TickIs
<1>5. got' \in SUBSET (0..now')
  <2>1. now \in Int /\ got \in SUBSET (0..now)
    BY <1>1 DEF FeedTypes, Times
  <2>2. ts \in 0..now
    BY <2>1 DEF Times
  <2> QED BY <1>4, <2>1, <2>2
<1>6. FeedTypes'
  BY <1>1, <1>2, <1>3, <1>4, <1>5 DEF FeedTypes
<1>7. FrameInv'
  <2>1. \A f \in Frames : BuilderInv(f)' /\ RowInv(f)' /\ TopInv(f)'
    BY <1>1, TickFrame
  <2> QED BY <2>1 DEF FrameInv
<1>8. OandaInv'
  BY DEF OandaInv
<1> QED BY <1>2, <1>3, <1>4, <1>6, <1>7, <1>8

(* A ticker message of bitFlyer.                                           *)
LEMMA ReceiveKeeps ==
  ASSUME FeedInv, NEW ts \in Times, NEW unsaved, Receive(ts, unsaved)
  PROVE  FeedInv'
<1>1. /\ kind = "bitflyer" /\ kind' = kind /\ now' = now /\ ts \in 0..now /\ ts \notin got
      /\ ForwardTick(ts) /\ TakeTick(ts, unsaved)
  BY DEF Receive
<1>2. now \in Int /\ ts <= now
  BY <1>1 DEF FeedInv, FeedTypes, Times
<1>3. FeedTypes' /\ FrameInv' /\ OandaInv' /\ HistoryInv' /\ HourInv' /\ got' = got \cup {ts}
  BY <1>1, <1>2, TickKeeps
<1>4. DrainInv
  BY DEF FeedInv
<1>5. store' = store
  BY <1>1 DEF ForwardTick
<1>6. CASE queue' = Append(queue, ts) /\ dropped' = dropped
  <2>1. got' \ dropped' = (got \ dropped) \cup {ts}
    BY <1>1, <1>3, <1>4, <1>6 DEF DrainInv
  <2>2. queue' \in Seq(Times)
    BY <1>4, <1>6 DEF DrainInv
  <2>3. /\ Len(queue) \in Nat /\ DOMAIN queue = 1..Len(queue) /\ DOMAIN queue' = 1..(Len(queue) + 1)
        /\ queue'[Len(queue) + 1] = ts /\ \A i \in DOMAIN queue : queue'[i] = queue[i]
    BY <1>4, <1>6 DEF DrainInv
  <2>4. DOMAIN queue' = DOMAIN queue \cup {Len(queue) + 1}
    BY <2>3
  <2>5. \A i \in DOMAIN queue' : queue'[i] \in got' \ dropped'
    BY <1>4, <2>1, <2>3, <2>4 DEF DrainInv
  <2>6. \A x \in got' \ dropped' : x <= store' \/ \E i \in DOMAIN queue' : queue'[i] = x
    BY <1>1, <1>4, <1>5, <2>1, <2>3, <2>4 DEF DrainInv
  <2>7. dropped' \in SUBSET got' /\ store' \in Times \cup {None} /\ store' \in (got' \ dropped') \cup {None}
    BY <1>1, <1>3, <1>4, <1>5, <1>6, <2>1 DEF DrainInv
  <2>8. DrainInv'
    BY <2>2, <2>5, <2>6, <2>7 DEF DrainInv
  <2> QED BY <1>3, <2>8 DEF FeedInv
<1>7. CASE queue' = queue /\ dropped' = dropped \cup {ts}
  <2>1. got' \ dropped' = got \ dropped /\ dropped' \in SUBSET got'
    BY <1>1, <1>3, <1>4, <1>7 DEF DrainInv
  <2>2. DrainInv'
    BY <1>1, <1>4, <1>5, <1>7, <2>1 DEF DrainInv
  <2> QED BY <1>3, <2>2 DEF FeedInv
<1> QED BY <1>1, <1>6, <1>7 DEF ForwardTick

(* A poll of GMO FX in an open market.                                     *)
LEMMA PollOpenKeeps ==
  ASSUME FeedInv, NEW ts \in Times, NEW unsaved, PollOpen(ts, unsaved)
  PROVE  FeedInv'
<1>1. /\ kind = "gmo" /\ kind' = kind /\ now' = now /\ ts \in Newest(got)..now /\ queue' = queue
      /\ store' = Stored(ts) /\ dropped' = dropped \ {ts} /\ TakeTick(ts, unsaved)
  BY DEF PollOpen
<1>2. now \in Int /\ ts <= now /\ Newest(got) <= ts /\ ts \in Int /\ Times \subseteq Int
  <2>1. FeedTypes
    BY DEF FeedInv
  <2>2. now \in Int /\ Newest(got) \in Int /\ ts \in Int /\ Times \subseteq Int
    BY <2>1, FeedTypesAre
  <2> QED BY <1>1, <2>2
<1>3. FeedTypes' /\ FrameInv' /\ OandaInv' /\ HistoryInv' /\ HourInv' /\ got' = got \cup {ts}
  BY <1>1, <1>2, TickKeeps
<1>4. DrainInv
  BY DEF FeedInv
<1>5. got' \ dropped' = (got \ dropped) \cup {ts} /\ dropped' \in SUBSET got'
  BY <1>1, <1>3, <1>4 DEF DrainInv
<1>6. /\ store \in Int /\ store' \in {store, ts} /\ store <= store' /\ ts <= store'
      /\ \A x \in got \ dropped : x \in Int
  <2>1. store \in Times \cup {None} /\ None \in Int
    BY <1>4 DEF DrainInv, None
  <2>2. got \in SUBSET Times
    BY FeedTypesAre DEF FeedInv
  <2>3. store \in Int
    BY <1>2, <2>1
  <2> QED BY <1>1, <1>2, <2>2, <2>3 DEF Stored
<1>7. /\ \A i \in DOMAIN queue' : queue'[i] \in got' \ dropped'
      /\ store' \in Times \cup {None} /\ store' \in (got' \ dropped') \cup {None}
  BY <1>1, <1>4, <1>5, <1>6 DEF DrainInv
<1>8. \A x \in got' \ dropped' : x <= store' \/ \E i \in DOMAIN queue' : queue'[i] = x
  <2> SUFFICES ASSUME NEW x \in got \ dropped
               PROVE  x <= store' \/ \E i \in DOMAIN queue' : queue'[i] = x
    BY <1>5, <1>6
  <2>1. x <= store \/ \E i \in DOMAIN queue' : queue'[i] = x
    BY <1>1, <1>4 DEF DrainInv
  <2>2. x \in Int /\ store' \in Int
    BY <1>2, <1>6
  <2> QED BY <1>6, <2>1, <2>2
<1>9. DrainInv'
  BY <1>1, <1>4, <1>5, <1>7, <1>8 DEF DrainInv
<1> QED BY <1>3, <1>9 DEF FeedInv

(* The drain takes the oldest tick.                                        *)
LEMMA DrainKeeps == FeedInv /\ Drain => FeedInv'
<1> SUFFICES ASSUME FeedInv, Drain PROVE FeedInv'
  OBVIOUS
<1>1. /\ queue # <<>> /\ store' = Stored(Head(queue)) /\ queue' = Tail(queue)
      /\ UNCHANGED <<kind, now, got, builder, rows, history, last, indicators, attached, dropped, mixed>>
  BY DEF Drain, feedVars
<1>2. FeedTypes' /\ FrameInv' /\ OandaInv' /\ HistoryInv' /\ HourInv'
  BY <1>1 DEF FeedInv, FeedTypes, FrameInv, BuilderInv, RowInv, TopInv, TopOf, Torn, OandaInv,
              HistoryInv, HistoryAscending, HourInv, H1CarriesFreshPrimary
<1>3. DrainInv
  BY DEF FeedInv
<1>4. /\ Len(queue) \in Nat /\ Len(queue) > 0 /\ DOMAIN queue = 1..Len(queue)
      /\ queue' \in Seq(Times) /\ DOMAIN queue' = 1..(Len(queue) - 1)
      /\ \A i \in DOMAIN queue' : queue'[i] = queue[i + 1] /\ i + 1 \in DOMAIN queue
      /\ Head(queue) = queue[1] /\ 1 \in DOMAIN queue /\ Head(queue) \in Times
  BY <1>1, <1>3 DEF DrainInv
<1>5. \A i \in DOMAIN queue : i = 1 \/ (i - 1 \in DOMAIN queue' /\ queue'[i - 1] = queue[i])
  BY <1>4
<1> DEFINE h == Head(queue)
<1>6. h \in got \ dropped /\ h \in Int /\ store \in Int /\ store' = IF store < h THEN h ELSE store
  <2>1. h \in got \ dropped /\ h \in Times
    BY <1>3, <1>4 DEF DrainInv
  <2>2. Times \subseteq Int /\ store \in Times \cup {None} /\ None \in Int
    BY <1>3, FeedTypesAre DEF DrainInv, None, FeedInv
  <2> QED BY <1>1, <2>1, <2>2 DEF Stored
<1>7. h = queue[1] /\ h \in Times
  BY <1>4
<1> HIDE DEF h
<1>8. store' \in {store, h} /\ store <= store' /\ h <= store' /\ store' \in Int
  BY <1>6
<1>9. /\ \A i \in DOMAIN queue' : queue'[i] \in got \ dropped
      /\ store' \in Times \cup {None} /\ (kind # "oanda" => store' \in (got \ dropped) \cup {None})
  BY <1>3, <1>4, <1>6, <1>7, <1>8 DEF DrainInv
<1>10. ASSUME kind # "oanda", NEW x \in got \ dropped
       PROVE  x <= store' \/ \E i \in DOMAIN queue' : queue'[i] = x
  <2>1. x \in Int
    BY FeedTypesAre DEF FeedInv
  <2>2. CASE x <= store
    BY <1>6, <1>8, <2>1, <2>2
  <2>3. CASE \E i \in DOMAIN queue : queue[i] = x
    BY <1>5, <1>7, <1>8, <2>3
  <2> QED BY <1>3, <1>10, <2>2, <2>3 DEF DrainInv
<1>11. DrainInv'
  BY <1>1, <1>3, <1>4, <1>9, <1>10 DEF DrainInv
<1> QED BY <1>2, <1>11 DEF FeedInv

(* What a poll of a closed market does to a timeframe.                     *)
LEMMA ClosedFrame ==
  ASSUME FeedTypes, FrameInv, kind = "gmo", kind' = kind, got' = got, mixed' = mixed, NEW f \in Frames,
         \/ builder'[f] = builder[f] /\ last'[f] = last[f] /\ rows'[f] = rows[f]
         \/ /\ builder[f].start # None /\ builder'[f] = NoCandle /\ last'[f] = builder[f].start
            /\ rows'[f] = rows[f] \/ rows'[f] = Upsert(rows[f], builder[f])
  PROVE  BuilderInv(f)' /\ RowInv(f)' /\ TopInv(f)'
<1> DEFINE b == builder[f]
           r == rows[f]
           top == TopOf(f)
<1>1. BuilderInv(f) /\ RowInv(f) /\ TopInv(f) /\ top \in Int
  BY FeedTypesAre DEF FrameInv
<1>2. TopOf(f)' = TopOf(f) /\ (\A s : Torn(f, s)' <=> Torn(f, s))
  BY DEF TopOf, Torn
<1>3. CASE builder'[f] = builder[f] /\ last'[f] = last[f] /\ rows'[f] = rows[f]
  BY <1>1, <1>2, <1>3 DEF BuilderInv, RowInv, TopInv
<1>4. CASE /\ builder[f].start # None /\ builder'[f] = NoCandle /\ last'[f] = builder[f].start
           /\ rows'[f] = rows[f] \/ rows'[f] = Upsert(rows[f], builder[f])
  <2>1. /\ b.start \in Times /\ b.start <= top /\ (~Torn(f, b.start) => b.ticks = got \cap TicksOf(f, b.start))
    BY <1>1, <1>4 DEF BuilderInv
  <2>2. b \in [start : Int, ticks : SUBSET Times] /\ r \in RowSets /\ b.start \in Int /\ b.start >= 0
    BY <2>1, FeedTypesAre DEF Times
  <2>3. builder'[f].start = None
    BY <1>4 DEF NoCandle
  <2>4. Torn(f, top) \/ b.start = top
    <3>1. top >= 0
      BY <1>1, <2>1, <2>2
    <3> QED BY <1>1, <1>4, <3>1 DEF TopInv
  <2>5. TopInv(f)'
    <3>1. top <= last'[f] \/ Torn(f, top)
      BY <1>1, <1>4, <2>4
    <3> QED BY <1>2, <2>3, <3>1 DEF TopInv
  <2>6. BuilderInv(f)'
    BY <2>3 DEF BuilderInv
  <2>7. ASSUME NEW s \in DOMAIN rows'[f]
        PROVE  \/ s \in DOMAIN r /\ rows'[f][s] = r[s]
               \/ s = b.start /\ rows'[f][s] = b.ticks
    <3> HIDE DEF b, r
    <3>1. /\ DOMAIN Upsert(r, b) = DOMAIN r \cup {b.start} /\ Upsert(r, b)[b.start] = b.ticks
          /\ \A z \in DOMAIN r : z # b.start => Upsert(r, b)[z] = r[z]
      BY <2>1, <2>2, UpsertIs
    <3>2. rows'[f] = r \/ rows'[f] = Upsert(r, b)
      BY <1>4 DEF b, r
    <3>3. CASE rows'[f] = r
      BY <2>7, <3>3
    <3>4. CASE rows'[f] = Upsert(r, b)
      <4>1. s \in DOMAIN r \cup {b.start}
        BY <2>7, <3>1, <3>4
      <4>2. rows'[f][b.start] = b.ticks /\ (\A z \in DOMAIN r : z # b.start => rows'[f][z] = r[z])
        BY <3>1, <3>4
      <4> QED BY <4>1, <4>2
    <3> QED BY <3>2, <3>3, <3>4
  <2>8. RowInv(f)'
    <3> SUFFICES ASSUME NEW s \in DOMAIN rows'[f]
                 PROVE  /\ s <= top
                        /\ s = top => Torn(f, s) \/ s <= last'[f]
                        /\ ~Torn(f, s) => rows'[f][s] = got \cap TicksOf(f, s)
      BY <1>2 DEF RowInv, Torn
    <3>1. s <= top /\ (~Torn(f, s) => rows'[f][s] = got \cap TicksOf(f, s))
      BY <1>1, <2>1, <2>7 DEF RowInv
    <3>2. s = top => Torn(f, s) \/ s <= last'[f]
      BY <1>1, <1>4, <2>4
    <3> QED BY <3>1, <3>2
  <2> QED BY <2>5, <2>6, <2>8
<1> QED BY <1>3, <1>4

(* A poll in a closed market.                                              *)
LEMMA PollClosedKeeps ==
  ASSUME FeedInv, NEW unsaved, PollClosed(unsaved)
  PROVE  FeedInv'
<1> DEFINE c == [f \in Frames |-> Completed(f, now)]
<1>1. /\ kind = "gmo" /\ Publish(c, unsaved)
      /\ builder' = [f \in Frames |-> IF c[f] # NoCandle THEN NoCandle ELSE builder[f]]
      /\ UNCHANGED <<kind, now, got, queue, store, dropped, mixed>>
  BY DEF PollClosed, drainVars
<1>2. FeedTypes /\ FrameInv /\ HistoryInv /\ DrainInv /\ None \in Int
  BY DEF FeedInv, None
<1>3. NoCandle \in [start : Int, ticks : SUBSET Times] /\ NoCandle.start = None
  BY <1>2 DEF NoCandle
<1>4. ASSUME NEW f \in Frames
      PROVE  /\ c[f] = NoCandle \/ (c[f] = builder[f] /\ builder[f].start # None)
             /\ c[f] \in [start : Int, ticks : SUBSET Times] /\ c[f].start \in Times \cup {None}
  <2>1. c[f] = NoCandle \/ (c[f] = builder[f] /\ builder[f].start # None)
    BY DEF Completed
  <2>2. builder[f] \in [start : Int, ticks : SUBSET Times] /\ builder[f].start \in Times \cup {None}
    BY <1>1, <1>2, FeedTypesAre DEF FrameInv, BuilderInv
  <2> HIDE DEF c
  <2> QED BY <1>3, <2>1, <2>2
<1>5. c \in [Frames -> [start : Int, ticks : SUBSET Times]]
  <2>1. c = [f \in Frames |-> c[f]]
    OBVIOUS
  <2> HIDE DEF c
  <2> QED BY <1>4, <2>1
<1> HIDE DEF c
<1>6. /\ \A f \in Frames :
           /\ c[f].start # None => /\ last'[f] = c[f].start
                                   /\ rows'[f] = rows[f] \/ rows'[f] = Upsert(rows[f], c[f])
           /\ c[f].start = None => last'[f] = last[f] /\ rows'[f] = rows[f]
      /\ rows' \in [Frames -> RowSets] /\ last' \in [Frames -> Int]
      /\ UNCHANGED <<history, indicators>>
      /\ attached' = IF c["h1"].start # None THEN indicators' ELSE attached
  BY <1>1, <1>2, <1>4, <1>5, PublishIs
<1>7. \A f \in Frames : BuilderInv(f)' /\ RowInv(f)' /\ TopInv(f)'
  <2> SUFFICES ASSUME NEW f \in Frames PROVE BuilderInv(f)' /\ RowInv(f)' /\ TopInv(f)'
    OBVIOUS
  <2>1. CASE c[f] = NoCandle
    <3>1. builder'[f] = builder[f] /\ last'[f] = last[f] /\ rows'[f] = rows[f]
      BY <1>1, <1>3, <1>6, <2>1
    <3> QED BY <1>1, <1>2, <3>1, ClosedFrame
  <2>2. CASE c[f] # NoCandle
    <3>1. c[f] = builder[f] /\ builder[f].start # None
      BY <1>4, <2>2
    <3>2. /\ builder'[f] = NoCandle /\ last'[f] = builder[f].start
          /\ rows'[f] = rows[f] \/ rows'[f] = Upsert(rows[f], builder[f])
      BY <1>1, <1>6, <2>2, <3>1
    <3> QED BY <1>1, <1>2, <3>1, <3>2, ClosedFrame
  <2> QED BY <2>1, <2>2
<1>8. builder' \in [Frames -> [start : Int, ticks : SUBSET Times]]
  BY <1>1, <1>2, <1>3, FeedTypesAre
<1>9. FeedTypes'
  BY <1>1, <1>2, <1>6, <1>8 DEF FeedTypes
<1>10. FrameInv' /\ OandaInv' /\ HistoryInv' /\ HourInv'
  <2>1. history = <<>> /\ history' = <<>>
    BY <1>1, <1>2, <1>6 DEF HistoryInv
  <2>2. HistoryAscending'
    BY <2>1 DEF HistoryAscending
  <2> QED BY <1>1, <1>7, <2>1, <2>2 DEF FrameInv, OandaInv, HistoryInv, HourInv, H1CarriesFreshPrimary
<1>11. DrainInv'
  BY <1>1, <1>2 DEF DrainInv
<1> QED BY <1>9, <1>10, <1>11 DEF FeedInv

(* A fetch of OANDA's candles brings whole candles.                        *)
LEMMA FetchKeeps ==
  ASSUME FeedInv, NEW unsaved, FetchAndEmit(unsaved)
  PROVE  FeedInv'
<1> DEFINE complete == {s \in Times : s % Primary = 0 /\ s + Primary <= now}
           ticks == UNION {TicksOf("primary", s) : s \in complete}
           r == [s \in DOMAIN rows["primary"] \cup (complete \ unsaved) |-> TicksOf("primary", s)]
<1>1. /\ kind = "oanda" /\ complete # {} /\ got' = got \cup ticks
      /\ rows' = [rows EXCEPT !["primary"] = r]
      /\ last' = [last EXCEPT !["primary"] = Max(complete)] /\ history' = InOrder(complete)
      /\ UNCHANGED <<kind, now, builder, indicators, attached, queue, store, dropped, mixed>>
  BY DEF FetchAndEmit, drainVars
<1>2. FeedTypes /\ OandaInv /\ DrainInv
  BY DEF FeedInv
<1>3. "primary" \in Frames /\ "h1" \in Frames /\ "h1" # "primary" /\ Length["primary"] = Primary
  BY DEF Frames, Length
<1>4. now \in Int /\ Times \subseteq Int /\ complete \in SUBSET Times /\ DOMAIN rows["primary"] \in SUBSET Times
  BY <1>2, <1>3, FeedTypesAre
<1>5. ASSUME NEW s \in complete
      PROVE  TicksOf("primary", s) \subseteq 0..now
  <2> SUFFICES ASSUME NEW t \in Times, PeriodStart("primary", t) = s PROVE t <= now
    BY <1>4 DEF TicksOf, Times
  <2>1. t \in Int /\ t < PeriodStart("primary", t) + Primary
    BY <1>3, <1>4, PeriodIs
  <2>2. s \in Times /\ s + Primary <= now
    BY <1>5
  <2>3. Primary \in Int
    BY FeedSettings
  <2> QED BY <1>4, <2>1, <2>2, <2>3
<1>6. got' \in SUBSET (0..now) /\ \A s \in complete : TicksOf("primary", s) \subseteq got'
  <2>1. got \in SUBSET (0..now)
    BY <1>2 DEF FeedTypes
  <2> HIDE DEF complete
  <2> QED BY <1>1, <1>5, <2>1
<1>7. Max(complete) \in Int
  <2>1. IsFiniteSet(complete)
    BY <1>4, TimesFinite, FS_Subset
  <2> HIDE DEF complete
  <2>2. complete \subseteq Int
    BY <1>4
  <2> QED BY <1>1, <2>1, <2>2, MaxIn
<1>8. /\ InOrder(complete) \in Seq(Int)
      /\ \A i, j \in DOMAIN InOrder(complete) : i < j => InOrder(complete)[i] < InOrder(complete)[j]
  <2> HIDE DEF complete
  <2>1. InOrder(complete) \in Seq(complete)
    BY <1>4, InOrderIs
  <2>2. complete \subseteq Int
    BY <1>4
  <2>3. InOrder(complete) \in Seq(Int)
    BY <2>1, <2>2, SeqMonotonic
  <2> QED BY <1>4, <2>3, InOrderIs
<1>9. DOMAIN r \in SUBSET Times /\ DOMAIN r = DOMAIN rows["primary"] \cup (complete \ unsaved) /\ r \in RowSets
  <2>1. \A s : TicksOf("primary", s) \in SUBSET Times
    BY DEF TicksOf
  <2>2. DOMAIN rows["primary"] \cup (complete \ unsaved) \in SUBSET Times
    BY <1>4
  <2>3. r \in [DOMAIN rows["primary"] \cup (complete \ unsaved) -> SUBSET Times]
    BY <2>1
  <2> QED BY <2>2, <2>3 DEF RowSets
<1> HIDE DEF complete, ticks
<1>10. \A s \in DOMAIN r : r[s] = TicksOf("primary", s)
  OBVIOUS
<1> HIDE DEF r
<1>11. rows \in [Frames -> RowSets] /\ last \in [Frames -> Int]
  BY <1>2 DEF FeedTypes
<1>12. rows' \in [Frames -> RowSets] /\ last' \in [Frames -> Int] /\ rows'["primary"] = r /\ rows'["h1"] = rows["h1"]
  BY <1>1, <1>3, <1>7, <1>9, <1>11
<1>13. FeedTypes'
  BY <1>1, <1>2, <1>6, <1>8, <1>12 DEF FeedTypes
<1>14. OandaInv'
  <2>1. /\ \A f \in Frames : builder'[f].start = None
        /\ DOMAIN rows'["h1"] = {}
    BY <1>1, <1>2, <1>12 DEF OandaInv
  <2>2. ASSUME NEW s \in DOMAIN rows'["primary"]
        PROVE  TicksOf("primary", s) \subseteq got' /\ rows'["primary"][s] = TicksOf("primary", s)
    <3>1. s \in DOMAIN r /\ rows'["primary"][s] = r[s]
      BY <1>12, <2>2
    <3>2. s \in complete \/ TicksOf("primary", s) \subseteq got
      BY <1>1, <1>2, <1>9, <3>1 DEF OandaInv
    <3> QED BY <1>1, <1>6, <1>10, <3>1, <3>2
  <2> QED BY <2>1, <2>2 DEF OandaInv
<1>15. HistoryInv'
  <2>1. Len(history') \in Nat /\ DOMAIN history' = 1..Len(history')
    BY <1>1, <1>8
  <2>2. ASSUME NEW i \in 1..(Len(history') - 1) PROVE history'[i] < history'[i + 1]
    <3>1. i \in DOMAIN history' /\ i + 1 \in DOMAIN history' /\ i < i + 1
      BY <2>1
    <3> QED BY <1>1, <1>8, <3>1
  <2> QED BY <1>1, <2>2 DEF HistoryInv, HistoryAscending
<1>16. FrameInv' /\ HourInv'
  BY <1>1 DEF FrameInv, HourInv, H1CarriesFreshPrimary
<1>17. DrainInv'
  BY <1>1, <1>2 DEF DrainInv
<1> QED BY <1>13, <1>14, <1>15, <1>16, <1>17 DEF FeedInv

(* The warm-up reads candles that are stored, oldest first.                *)
LEMMA WarmupIs ==
  ASSUME FeedTypes
  PROVE  /\ Warmup \in Seq(Int) /\ \A i \in 1..(Len(Warmup) - 1) : Warmup[i] < Warmup[i + 1]
         /\ Warmup # <<>> => Warmup[Len(Warmup)] \in DOMAIN rows["primary"]
<1> DEFINE D == DOMAIN rows["primary"]
           s == InOrder(D)
           z == LastOf(s, HistoryCap)
<1>1. D \in SUBSET Times /\ D \subseteq Int
  <2>1. "primary" \in Frames
    BY DEF Frames
  <2> QED BY <2>1, FeedTypesAre
<1> HIDE DEF D
<1>2. s \in Seq(D) /\ \A i, j \in DOMAIN s : i < j => s[i] < s[j]
  BY <1>1, InOrderIs
<1>3. s \in Seq(Int) /\ HistoryCap \in Nat \ {0}
  BY <1>1, <1>2, FeedSettings, SeqMonotonic
<1> HIDE DEF s
<1>4. z \in Seq(Int) /\ EndOf(z, s)
  BY <1>3, LastOfIs
<1> HIDE DEF z
<1>5. PICK k \in Nat : Len(z) + k = Len(s) /\ \A i \in 1..Len(z) : z[i] = s[i + k]
  BY <1>4 DEF EndOf
<1>6. Len(z) \in Nat /\ Len(s) \in Nat /\ DOMAIN s = 1..Len(s)
  BY <1>3, <1>4
<1>7. ASSUME NEW i \in 1..(Len(z) - 1) PROVE z[i] < z[i + 1]
  <2>1. i \in 1..Len(z) /\ i + 1 \in 1..Len(z) /\ i + k \in DOMAIN s /\ (i + 1) + k \in DOMAIN s /\ i + k < (i + 1) + k
    BY <1>5, <1>6
  <2>2. z[i] = s[i + k] /\ z[i + 1] = s[(i + 1) + k]
    BY <1>5, <2>1
  <2> QED BY <1>2, <2>1, <2>2
<1>8. ASSUME z # <<>> PROVE z[Len(z)] \in D
  <2>1. Len(z) \in 1..Len(z)
    BY <1>4, <1>6, <1>8
  <2>2. z[Len(z)] = s[Len(z) + k] /\ Len(z) + k = Len(s)
    BY <1>5, <2>1
  <2>3. Len(s) \in DOMAIN s
    BY <1>5, <1>6, <2>1
  <2> QED BY <1>2, <2>2, <2>3
<1>9. Warmup = z
  BY DEF Warmup, D, s, z
<1> QED BY <1>4, <1>7, <1>8, <1>9 DEF D

(* A restart tears the open candles.                                       *)
LEMMA RestartKeeps ==
  ASSUME FeedInv, NEW read, Restart(read)
  PROVE  FeedInv'
<1>1. /\ mixed' = mixed \cup {<<f, builder[f].start>> : f \in Frames}
      /\ builder' = [f \in Frames |-> NoCandle]
      /\ history' = IF kind = "bitflyer" /\ read THEN Warmup ELSE <<>>
      /\ indicators' = None /\ queue' = <<>> /\ store' = None /\ dropped' = got
      /\ UNCHANGED <<kind, now, got, rows, last, attached>>
  BY DEF Restart
<1>2. FeedTypes /\ FrameInv /\ OandaInv /\ HourInv
  BY DEF FeedInv
<1>3. /\ \A f \in Frames : builder'[f] = NoCandle /\ builder'[f].start = None
      /\ None \in Int /\ NoCandle \in [start : Int, ticks : SUBSET Times]
  BY <1>1 DEF NoCandle, None
<1>4. /\ \A f, s : Torn(f, s) => <<f, s>> \in mixed'
      /\ \A f \in Frames : <<f, builder[f].start>> \in mixed'
  BY <1>1 DEF Torn
<1>5. /\ history' \in Seq(Int)
      /\ \A i \in 1..(Len(history') - 1) : history'[i] < history'[i + 1]
      /\ history' # <<>> => kind = "bitflyer" /\ history'[Len(history')] \in DOMAIN rows["primary"]
  BY <1>1, <1>2, WarmupIs
<1>6. FeedTypes'
  <2>1. builder' \in [Frames -> [start : Int, ticks : SUBSET Times]]
    BY <1>1, <1>3
  <2> QED BY <1>1, <1>2, <1>3, <1>5, <2>1 DEF FeedTypes
<1>7. FrameInv'
  <2> SUFFICES ASSUME kind # "oanda", NEW f \in Frames PROVE BuilderInv(f)' /\ RowInv(f)' /\ TopInv(f)'
    BY <1>1 DEF FrameInv
  <2>1. RowInv(f) /\ TopInv(f)
    BY <1>2 DEF FrameInv
  <2>2. TopOf(f)' = TopOf(f) /\ rows' = rows /\ last' = last /\ kind' = kind /\ got' = got
    BY <1>1 DEF TopOf
  <2>3. BuilderInv(f)'
    BY <1>3 DEF BuilderInv
  <2>4. RowInv(f)'
    BY <1>4, <2>1, <2>2 DEF RowInv, Torn
  <2>5. TopInv(f)'
    BY <1>3, <1>4, <2>1, <2>2 DEF TopInv, Torn
  <2> QED BY <2>3, <2>4, <2>5
<1>8. OandaInv'
  BY <1>1, <1>2, <1>3 DEF OandaInv
<1>9. "primary" \in Frames /\ "h1" \in Frames
  BY DEF Frames
<1>10. HistoryInv'
  <2>1. HistoryAscending'
    BY <1>5 DEF HistoryAscending
  <2>2. ASSUME history' # <<>>
        PROVE  LET h == history'[Len(history')]
               IN  /\ h <= TopOf("primary")
                   /\ h = TopOf("primary") => Torn("primary", h) \/ h <= last["primary"]
    <3>1. kind # "oanda"
      BY <1>5, <2>2
    <3> QED BY <1>2, <1>5, <1>9, <2>2, <3>1 DEF FrameInv, RowInv
  <2>3. TopOf("primary")' = TopOf("primary") /\ last' = last /\ kind' = kind
    BY <1>1 DEF TopOf
  <2>4. kind = "gmo" => history' = <<>>
    BY <1>1
  <2>5. builder'["primary"].start = None
    BY <1>3, <1>9
  <2> QED BY <1>4, <2>1, <2>2, <2>3, <2>4, <2>5 DEF HistoryInv, Torn
<1>11. HourInv'
  <2>1. builder'["primary"].start = None /\ builder'["h1"].start = None
    BY <1>3, <1>9
  <2> QED BY <1>1, <1>2, <2>1 DEF HourInv, H1CarriesFreshPrimary
<1>12. DrainInv'
  BY <1>1 DEF DrainInv
<1> QED BY <1>6, <1>7, <1>8, <1>10, <1>11, <1>12 DEF FeedInv

(* What the rest of the invariant reads, and a step of the connection, of  *)
(* time or of nothing leaves alone.                                        *)
LEMMA SameFeed ==
  ASSUME FeedInv, now' \in Times, now <= now',
         UNCHANGED <<kind, got, builder, rows, history, last, attached, queue, store, dropped, mixed>>,
         indicators' \in Int
  PROVE  FeedInv'
<1>1. got' \in SUBSET (0..now')
  <2>1. got \in SUBSET (0..now) /\ now \in Int /\ now' \in Int
    BY DEF FeedInv, FeedTypes, Times
  <2> QED BY <2>1
<1>2. FeedTypes'
  BY <1>1 DEF FeedInv, FeedTypes
<1>3. FrameInv' /\ OandaInv' /\ HistoryInv' /\ HourInv' /\ DrainInv'
  BY DEF FeedInv, FrameInv, BuilderInv, RowInv, TopInv, TopOf, Torn, OandaInv,
         HistoryInv, HistoryAscending, HourInv, H1CarriesFreshPrimary, DrainInv
<1> QED BY <1>2, <1>3 DEF FeedInv

(* Every step keeps the invariant.                                         *)
LEMMA FeedInvNext == FeedInv /\ [FeedNext]_allFeedVars => FeedInv'
<1> SUFFICES ASSUME FeedInv, [FeedNext]_allFeedVars PROVE FeedInv'
  OBVIOUS
<1>0. now \in Times /\ now \in Int /\ indicators \in Int /\ MaxTime \in Nat /\ None \in Int
  BY FeedSettings DEF FeedInv, FeedTypes, Times, None
<1>1. CASE Advance
  <2>1. now' \in Times /\ now <= now'
    BY <1>0, <1>1 DEF Advance, Times
  <2> QED BY <1>0, <1>1, <2>1, SameFeed DEF Advance, feedVars, drainVars
<1>2. CASE Drain
  BY <1>2, DrainKeeps
<1>3. CASE \E ts \in Times, unsaved \in SUBSET Frames : Receive(ts, unsaved) \/ PollOpen(ts, unsaved)
  BY <1>3, ReceiveKeeps, PollOpenKeeps
<1>4. CASE \E unsaved \in SUBSET Frames : PollClosed(unsaved)
  BY <1>4, PollClosedKeeps
<1>5. CASE \E unsaved \in SUBSET Times : FetchAndEmit(unsaved)
  BY <1>5, FetchKeeps
<1>6. CASE StreamCloses \/ StreamFails \/ FallsSilent \/ HeartbeatTimeout \/ ConnectFails
  <2>1. UNCHANGED <<kind, now, got, feedVars, drainVars, mixed>>
    BY <1>6 DEF StreamCloses, StreamFails, FallsSilent, HeartbeatTimeout, ConnectFails
  <2> QED BY <1>0, <2>1, SameFeed DEF feedVars, drainVars
<1>7. CASE Reconnect
  BY <1>0, <1>7, SameFeed DEF Reconnect, drainVars
<1>8. CASE \E read \in BOOLEAN : Restart(read)
  BY <1>8, RestartKeeps
<1>9. CASE UNCHANGED allFeedVars
  BY <1>0, <1>9, SameFeed DEF allFeedVars, feedVars, drainVars
<1> QED BY <1>1, <1>2, <1>3, <1>4, <1>5, <1>6, <1>7, <1>8, <1>9 DEF FeedNext

(* The rows of price_candles hold what the feed has received, the history  *)
(* of the indicators is in the order of time, an H1 event carries the      *)
(* indicators of its own hour, and the price store has the newest tick:    *)
(* for every length of the timeframes that divides H1, every channel and   *)
(* every number of late ticks, failed saves, reconnects and restarts       *)
(* (CandleBuilder::on_tick, upsert_candle, emit_candle_event,              *)
(* PriceStore::update).                                                    *)
THEOREM MarketDataCorrect == FeedSpec => []MarketDataIsTrue
<1>1. FeedInit => FeedInv
  BY FeedInvInit
<1>2. FeedInv /\ [FeedNext]_allFeedVars => FeedInv'
  BY FeedInvNext
<1>3. FeedInv => MarketDataIsTrue
  BY FeedInvImplies
<1> QED BY <1>1, <1>2, <1>3, PTL DEF FeedSpec
=============================================================================
