-------------------------- MODULE PriceFeederProofs --------------------------
(***************************************************************************)
(* Proofs about the price feeds: for any sets of feeds, markets, sources   *)
(* and tickers, while RPCs do not overlap and nothing fails, the started   *)
(* feeds are active and subscribed, the daemon can start them again, and   *)
(* one goroutine stores the prices in their order and loses none.          *)
(***************************************************************************)
EXTENDS PriceFeeder, TLAPS

RPCs == Callers \cup {Boot}

FeedRecord == [market : Markets, source : Sources, ticker : Tickers, started : BOOLEAN]
PriceRecord == [market : Markets, tick : Nat]
StreamRecord == [subs : UNION {[T -> Markets] : T \in SUBSET Tickers},
                 ext : Seq(PriceRecord), int : Seq(PriceRecord),
                 extClosed : BOOLEAN, intClosed : BOOLEAN]

\* Where an RPC holds a copy of its feed, and where a connection.
Copied == {"insert", "update", "startOpen", "subscribe", "startWrite", "activate",
           "stopWrite", "stopOpen", "unsubscribe", "stopCheck", "closeExt",
           "closeInt", "deactivate"}
Connected == {"subscribe", "startWrite", "activate", "unsubscribe", "stopCheck", "closeInt"}

CallOK(x) ==
  /\ x.pc \in {"idle", "start", "remove"} \cup Copied
  /\ x.pc = "idle" <=> x = NoCall
  /\ x.pc # "idle" => x.feed \in Feeds
  /\ x.pc \in Copied => x.copy \in FeedRecord
  /\ x.pc \in Connected => x.stream \in Streams

ConsumerOK(x) ==
  /\ x \in [stream : Streams \cup {NoStream}, price : PriceRecord \cup {NoPrice}]
  /\ x.stream = NoStream <=> x = NoConsumer

FeedsTyped == feeds \in [Feeds -> FeedRecord \cup {NoFeed}]
CallsTyped == DOMAIN calls = RPCs /\ calls = [c \in RPCs |-> calls[c]]
                /\ \A c \in RPCs : CallOK(calls[c])
SourcesTyped == sources \in [Sources -> Streams \cup {NoStream}]
StreamsTyped == streams \in [Streams -> StreamRecord]
ConsumersTyped ==
  /\ DOMAIN consumers = Consumers /\ consumers = [k \in Consumers |-> consumers[k]]
  /\ \A k \in Consumers : ConsumerOK(consumers[k])
PricesTyped == prices \in [Markets -> Nat] /\ sent \in [Markets -> Nat] /\ ticks \in Nat

TypeInv ==
  /\ FeedsTyped /\ CallsTyped /\ SourcesTyped /\ StreamsTyped /\ ConsumersTyped
  /\ PricesTyped /\ active \subseteq Feeds /\ booting \subseteq Feeds

\* The fields of the records the model makes.
LEMMA Fields ==
  /\ \A m, s, t, b : /\ Feed(m, s, t, b).market = m /\ Feed(m, s, t, b).source = s
                     /\ Feed(m, s, t, b).ticker = t /\ Feed(m, s, t, b).started = b
  /\ \A pc, f, copy, i : /\ Call(pc, f, copy, i).pc = pc /\ Call(pc, f, copy, i).feed = f
                         /\ Call(pc, f, copy, i).copy = copy
                         /\ Call(pc, f, copy, i).stream = i
  /\ \A i, p : Consumer(i, p).stream = i /\ Consumer(i, p).price = p
  /\ NoCall.pc = "idle" /\ NoCall.stream = NoStream /\ NoCall.feed = NoFeed
  /\ NoConsumer.stream = NoStream /\ NoConsumer.price = NoPrice
  BY Zenon DEF Feed, Call, Consumer, NoCall, NoConsumer

\* The same of whatever equals a feed.
LEMMA FeedFields ==
  ASSUME NEW x, NEW m, NEW s, NEW t, NEW b, x = Feed(m, s, t, b)
  PROVE  x.market = m /\ x.source = s /\ x.ticker = t /\ x.started = b
  BY Zenon DEF Feed

\* A feed that is built is one.
LEMMA FeedTyped ==
  ASSUME NEW m \in Markets, NEW s \in Sources, NEW t \in Tickers, NEW b \in BOOLEAN
  PROVE  Feed(m, s, t, b) \in FeedRecord /\ Feed(m, s, t, b) # NoFeed
  BY FeederAssumption DEF Feed, FeedRecord

\* A call that is built is one.
LEMMA CallTyped ==
  ASSUME NEW pc \in {"start", "remove"} \cup Copied, NEW f \in Feeds, NEW copy, NEW i,
         pc \in Copied => copy \in FeedRecord,
         pc \in Connected => i \in Streams
  PROVE  CallOK(Call(pc, f, copy, i))
  <1>1. pc # "idle"
    BY Zenon DEF Copied
  <1> QED BY <1>1, Fields DEF CallOK

\* No RPC is a call too.
LEMMA NoCallTyped == CallOK(NoCall)
  BY Zenon, Fields DEF CallOK, Copied, Connected

\* One RPC goes on or ends.
LEMMA CallsStayTyped ==
  ASSUME CallsTyped, NEW c \in RPCs, NEW x, CallOK(x), calls' = [calls EXCEPT ![c] = x]
  PROVE  CallsTyped'
  BY Zenon DEF CallsTyped

-----------------------------------------------------------------------------

\* A stream to begin with, and one that is closed.
LEMMA NewStreams ==
  /\ NewStream \in StreamRecord /\ ClosedStream \in StreamRecord
  /\ NewStream.subs = <<>> /\ NewStream.ext = <<>> /\ NewStream.int = <<>>
  /\ ~NewStream.extClosed /\ ~NewStream.intClosed
  /\ ClosedStream.subs = <<>> /\ ClosedStream.ext = <<>> /\ ClosedStream.int = <<>>
  /\ ClosedStream.extClosed /\ ClosedStream.intClosed
  <1>1. <<>> \in UNION {[T -> Markets] : T \in SUBSET Tickers}
    <2>1. <<>> \in [{} -> Markets]
      OBVIOUS
    <2> QED BY Zenon, <2>1
  <1>2. /\ NewStream \in StreamRecord
        /\ NewStream.subs = <<>> /\ NewStream.ext = <<>> /\ NewStream.int = <<>>
        /\ ~NewStream.extClosed /\ ~NewStream.intClosed
    BY <1>1 DEF NewStream, StreamRecord
  <1> QED BY Zenon, <1>2 DEF ClosedStream, StreamRecord

\* What the stream i has after a step, and that the other ones stay as they are.
StreamNow(i, u, e, q) ==
  /\ streams'[i].subs = u /\ streams'[i].ext = e /\ streams'[i].int = q
Closes(i, a, b) == streams'[i].extClosed = a /\ streams'[i].intClosed = b
OnlyStream(i) == StreamsTyped' /\ \A j \in Streams \ {i} : streams'[j] = streams[j]

\* One stream is replaced.
LEMMA OneStream ==
  ASSUME TypeInv, NEW i \in Streams, NEW y \in StreamRecord,
         streams' = [streams EXCEPT ![i] = y]
  PROVE  streams'[i] = y /\ OnlyStream(i)
  BY Zenon DEF TypeInv, StreamsTyped, OnlyStream

\* What a tick does (pkg/price-feeder, start).
LEMMA TickStep ==
  ASSUME TypeInv, NEW i \in Streams, Tick(i)
  PROVE  /\ \E m \in Markets :
              /\ StreamNow(i, streams[i].subs,
                           Append(streams[i].ext, [market |-> m, tick |-> ticks + 1]),
                           streams[i].int)
              /\ sent' = [sent EXCEPT ![m] = ticks + 1]
              /\ [market |-> m, tick |-> ticks + 1] \in PriceRecord
         /\ Closes(i, streams[i].extClosed, streams[i].intClosed)
         /\ OnlyStream(i)
  <1>1. streams[i] \in StreamRecord /\ DOMAIN streams = Streams /\ ticks + 1 \in Nat
    BY DEF TypeInv, StreamsTyped, PricesTyped
  <1>2. PICK t \in DOMAIN streams[i].subs :
          /\ streams' = [streams EXCEPT ![i].ext =
                 Append(@, [market |-> streams[i].subs[t], tick |-> ticks + 1])]
          /\ sent' = [sent EXCEPT ![streams[i].subs[t]] = ticks + 1]
    BY Zenon DEF Tick
  <1>3. streams[i].subs[t] \in Markets
    BY Zenon, <1>1 DEF StreamRecord
  <1> DEFINE m == streams[i].subs[t]
             e == Append(streams[i].ext, [market |-> m, tick |-> ticks + 1])
             y == [streams[i] EXCEPT !.ext = e]
  <1>4. [market |-> m, tick |-> ticks + 1] \in PriceRecord
    BY Zenon, <1>1, <1>3 DEF PriceRecord
  <1>5. e \in Seq(PriceRecord)
    BY <1>1, <1>4 DEF StreamRecord
  <1>6. streams' = [streams EXCEPT ![i] = y]
    BY Zenon, <1>1, <1>2
  <1>7. /\ y \in StreamRecord /\ y.subs = streams[i].subs /\ y.ext = e
        /\ y.int = streams[i].int /\ y.extClosed = streams[i].extClosed
        /\ y.intClosed = streams[i].intClosed
    BY Zenon, <1>1, <1>5 DEF StreamRecord
  <1> HIDE DEF e, y
  <1>8. streams'[i] = y /\ OnlyStream(i)
    BY Zenon, <1>6, <1>7, OneStream
  <1> QED BY Zenon, <1>2, <1>3, <1>4, <1>7, <1>8 DEF e, StreamNow, Closes

\* What the forwarding goroutine does (service.go, getPriceFeederBySource).
LEMMA ForwardStep ==
  ASSUME TypeInv, NEW i \in Streams, Forward(i)
  PROVE  /\ StreamNow(i, streams[i].subs, Tail(streams[i].ext),
                      Append(streams[i].int, Head(streams[i].ext)))
         /\ Closes(i, streams[i].extClosed, streams[i].intClosed)
         /\ OnlyStream(i)
  <1>1. streams[i] \in StreamRecord /\ DOMAIN streams = Streams /\ streams[i].ext # <<>>
    BY Zenon DEF TypeInv, StreamsTyped, Forward
  <1> DEFINE e == Tail(streams[i].ext)
             q == Append(streams[i].int, Head(streams[i].ext))
             y == [streams[i] EXCEPT !.ext = e, !.int = q]
  <1>2. e \in Seq(PriceRecord) /\ q \in Seq(PriceRecord)
    BY <1>1 DEF StreamRecord
  <1>3. streams' = [streams EXCEPT ![i] = y]
    BY Zenon, <1>1 DEF Forward
  <1>4. /\ y \in StreamRecord /\ y.subs = streams[i].subs /\ y.ext = e /\ y.int = q
        /\ y.extClosed = streams[i].extClosed /\ y.intClosed = streams[i].intClosed
    BY Zenon, <1>1, <1>2 DEF StreamRecord
  <1> HIDE DEF e, q, y
  <1>5. streams'[i] = y /\ OnlyStream(i)
    BY Zenon, <1>3, <1>4, OneStream
  <1> QED BY Zenon, <1>4, <1>5 DEF e, q, StreamNow, Closes

\* What a consumer takes from its channel (feeder/service.go, StartPriceFeed).
LEMMA TakeStep ==
  ASSUME TypeInv, NEW k \in Consumers, Take(k)
  PROVE  LET i == consumers[k].stream
         IN  /\ i \in Streams /\ consumers[k].price = NoPrice
             /\ \/ /\ streams[i].int # <<>>
                   /\ consumers' = [consumers EXCEPT ![k] = Consumer(i, Head(streams[i].int))]
                   /\ StreamNow(i, streams[i].subs, streams[i].ext, Tail(streams[i].int))
                   /\ Closes(i, streams[i].extClosed, streams[i].intClosed)
                   /\ OnlyStream(i)
                \/ /\ streams[i].int = <<>> /\ streams[i].intClosed
                   /\ consumers' = [consumers EXCEPT ![k] = NoConsumer]
                   /\ streams' = streams
  <1> DEFINE i == consumers[k].stream
  <1>1. i \in Streams /\ consumers[k].price = NoPrice
    BY Zenon DEF Take, TypeInv, ConsumersTyped, ConsumerOK
  <1>2. streams[i] \in StreamRecord /\ DOMAIN streams = Streams
    BY Zenon, <1>1 DEF TypeInv, StreamsTyped
  <1>3. CASE streams[i].int # <<>>
    <2> DEFINE q == Tail(streams[i].int)
               y == [streams[i] EXCEPT !.int = q]
    <2>1. q \in Seq(PriceRecord)
      BY <1>2, <1>3 DEF StreamRecord
    <2>2. /\ consumers' = [consumers EXCEPT ![k] = Consumer(i, Head(streams[i].int))]
          /\ streams' = [streams EXCEPT ![i] = y]
      BY Zenon, <1>2, <1>3 DEF Take
    <2>3. /\ y \in StreamRecord /\ y.subs = streams[i].subs /\ y.ext = streams[i].ext
          /\ y.int = q /\ y.extClosed = streams[i].extClosed
          /\ y.intClosed = streams[i].intClosed
      BY Zenon, <1>2, <2>1 DEF StreamRecord
    <2> HIDE DEF q, y
    <2>4. streams'[i] = y /\ OnlyStream(i)
      BY Zenon, <1>1, <2>2, <2>3, OneStream
    <2> QED BY Zenon, <1>1, <1>3, <2>2, <2>3, <2>4 DEF q, StreamNow, Closes
  <1>4. CASE streams[i].int = <<>>
    BY Zenon, <1>1, <1>4 DEF Take
  <1> QED BY Zenon, <1>3, <1>4

\* What an RPC at work has at hand.
LEMMA AtHand ==
  ASSUME TypeInv, NEW c \in RPCs
  PROVE  /\ calls[c].pc # "idle" => calls[c].feed \in Feeds
         /\ calls[c].pc \in Copied =>
              /\ calls[c].copy \in FeedRecord
              /\ calls[c].copy.source \in Sources /\ calls[c].copy.ticker \in Tickers
              /\ calls[c].copy.market \in Markets
              /\ sources[calls[c].copy.source] \in Streams \cup {NoStream}
         /\ calls[c].pc \in Connected => calls[c].stream \in Streams
  BY Zenon DEF TypeInv, CallsTyped, CallOK, SourcesTyped, FeedRecord

\* What getPriceFeederBySource does (service.go).
LEMMA OpenStep ==
  ASSUME TypeInv, NEW c \in RPCs, NEW pc, OpenSource(c, pc), calls[c].pc \in Copied
  PROVE  LET s == calls[c].copy.source
         IN  \/ /\ sources[s] \in Streams
                /\ calls' = [calls EXCEPT ![c] =
                               Call(pc, calls[c].feed, calls[c].copy, sources[s])]
                /\ UNCHANGED <<sources, streams, broken, disturbed>>
             \/ /\ sources[s] = NoStream
                /\ \E i \in Streams :
                     /\ FreeStream(i)
                     /\ sources' = [sources EXCEPT ![s] = i]
                     /\ streams'[i] = NewStream /\ OnlyStream(i)
                     /\ calls' = [calls EXCEPT ![c] =
                                    Call(pc, calls[c].feed, calls[c].copy, i)]
                /\ UNCHANGED <<broken, disturbed>>
             \/ disturbed' /\ Fail(c) /\ UNCHANGED <<sources, streams>>
  <1> DEFINE s == calls[c].copy.source
  <1>1. sources[s] \in Streams \cup {NoStream}
    BY Zenon, AtHand
  <1>2. ASSUME NEW i \in Streams, streams' = [streams EXCEPT ![i] = NewStream]
        PROVE  streams'[i] = NewStream /\ OnlyStream(i)
    BY Zenon, <1>2, NewStreams, OneStream
  <1> QED BY Zenon, <1>1, <1>2 DEF OpenSource, Fault

\* The subscriptions u, with the ticker t for the market m unless it is there.
Adding(u, t, m) ==
  [x \in DOMAIN u \cup {t} |-> IF x \in DOMAIN u THEN u[x] ELSE m]

\* What SubscribeMarkets does (pkg/price-feeder; service.go, StartPriceFeed).
LEMMA SubscribeStep ==
  ASSUME TypeInv, NEW c \in RPCs, StartSubscribes(c)
  PROVE  LET i == calls[c].stream
         IN  \/ /\ ~streams[i].extClosed
                /\ StreamNow(i, Adding(streams[i].subs, calls[c].copy.ticker,
                                       calls[c].copy.market),
                             streams[i].ext, streams[i].int)
                /\ Closes(i, streams[i].extClosed, streams[i].intClosed)
                /\ OnlyStream(i)
                /\ Goto(c, "startWrite") /\ UNCHANGED <<broken, disturbed>>
             \/ /\ streams[i].extClosed \/ disturbed'
                /\ Fail(c) /\ UNCHANGED streams
  <1> DEFINE i == calls[c].stream
             u == Adding(streams[i].subs, calls[c].copy.ticker, calls[c].copy.market)
             y == [streams[i] EXCEPT !.subs = u]
  <1>1. calls[c].pc = "subscribe"
    BY Zenon DEF StartSubscribes
  <1>2. i \in Streams /\ calls[c].copy.ticker \in Tickers /\ calls[c].copy.market \in Markets
    BY Zenon, <1>1, AtHand DEF Copied, Connected
  <1>3. streams[i] \in StreamRecord /\ DOMAIN streams = Streams
    BY Zenon, <1>2 DEF TypeInv, StreamsTyped
  <1>4. u \in UNION {[T -> Markets] : T \in SUBSET Tickers}
    <2>1. PICK T \in SUBSET Tickers : streams[i].subs \in [T -> Markets]
      BY Zenon, <1>3 DEF StreamRecord
    <2>2. u \in [T \cup {calls[c].copy.ticker} -> Markets]
      BY Zenon, <1>2, <2>1 DEF Adding
    <2>3. T \cup {calls[c].copy.ticker} \in SUBSET Tickers
      BY Zenon, <1>2
    <2> HIDE DEF u
    <2> QED BY Zenon, <2>2, <2>3
  <1>5. /\ y \in StreamRecord /\ y.subs = u /\ y.ext = streams[i].ext
        /\ y.int = streams[i].int /\ y.extClosed = streams[i].extClosed
        /\ y.intClosed = streams[i].intClosed
    <2> HIDE DEF u
    <2> QED BY Zenon, <1>3, <1>4 DEF StreamRecord
  <1>6. CASE (streams[i].extClosed \/ disturbed') /\ Fail(c) /\ UNCHANGED streams
    BY Zenon, <1>6
  <1>7. CASE ~((streams[i].extClosed \/ disturbed') /\ Fail(c) /\ UNCHANGED streams)
    <2>1. streams' = [streams EXCEPT ![i] = y] /\ Goto(c, "startWrite")
            /\ ~streams[i].extClosed /\ UNCHANGED <<broken, disturbed>>
      BY Zenon, <1>3, <1>7 DEF StartSubscribes, Adding, Fault
    <2> HIDE DEF y, u
    <2>2. streams'[i] = y /\ OnlyStream(i)
      BY Zenon, <1>2, <1>5, <2>1, OneStream
    <2> QED BY Zenon, <1>5, <2>1, <2>2 DEF u, StreamNow, Closes
  <1> QED BY Zenon, <1>6, <1>7

\* What UnsubscribeMarkets does (pkg/price-feeder; service.go, StopPriceFeed).
LEMMA UnsubscribeStep ==
  ASSUME TypeInv, NEW c \in RPCs, StopUnsubscribes(c)
  PROVE  LET i == calls[c].stream
             u == streams[i].subs
         IN  \/ /\ ~streams[i].extClosed
                /\ StreamNow(i, Restrict(u, DOMAIN u \ {calls[c].copy.ticker}),
                             streams[i].ext, streams[i].int)
                /\ Closes(i, streams[i].extClosed, streams[i].intClosed)
                /\ OnlyStream(i)
                /\ Goto(c, "stopCheck") /\ UNCHANGED <<broken, disturbed>>
             \/ /\ streams[i].extClosed \/ disturbed'
                /\ Fail(c) /\ UNCHANGED streams
  <1> DEFINE i == calls[c].stream
             u == Restrict(streams[i].subs, DOMAIN streams[i].subs \ {calls[c].copy.ticker})
             y == [streams[i] EXCEPT !.subs = u]
  <1>1. calls[c].pc = "unsubscribe"
    BY Zenon DEF StopUnsubscribes
  <1>2. i \in Streams
    BY Zenon, <1>1, AtHand DEF Connected
  <1>3. streams[i] \in StreamRecord /\ DOMAIN streams = Streams
    BY Zenon, <1>2 DEF TypeInv, StreamsTyped
  <1>4. u \in UNION {[T -> Markets] : T \in SUBSET Tickers}
    <2>1. PICK T \in SUBSET Tickers : streams[i].subs \in [T -> Markets]
      BY Zenon, <1>3 DEF StreamRecord
    <2>2. u \in [T \ {calls[c].copy.ticker} -> Markets]
      BY Zenon, <2>1 DEF Restrict
    <2>3. T \ {calls[c].copy.ticker} \in SUBSET Tickers
      BY Zenon
    <2> HIDE DEF u
    <2> QED BY Zenon, <2>2, <2>3
  <1>5. /\ y \in StreamRecord /\ y.subs = u /\ y.ext = streams[i].ext
        /\ y.int = streams[i].int /\ y.extClosed = streams[i].extClosed
        /\ y.intClosed = streams[i].intClosed
    <2> HIDE DEF u
    <2> QED BY Zenon, <1>3, <1>4 DEF StreamRecord
  <1>6. CASE (streams[i].extClosed \/ disturbed') /\ Fail(c) /\ UNCHANGED streams
    BY Zenon, <1>6
  <1>7. CASE ~((streams[i].extClosed \/ disturbed') /\ Fail(c) /\ UNCHANGED streams)
    <2>1. streams' = [streams EXCEPT ![i] = y] /\ Goto(c, "stopCheck")
            /\ ~streams[i].extClosed /\ UNCHANGED <<broken, disturbed>>
      BY Zenon, <1>3, <1>7 DEF StopUnsubscribes, Fault
    <2> HIDE DEF y, u
    <2>2. streams'[i] = y /\ OnlyStream(i)
      BY Zenon, <1>2, <1>5, <2>1, OneStream
    <2> QED BY Zenon, <1>5, <2>1, <2>2 DEF u, StreamNow, Closes
  <1> QED BY Zenon, <1>6, <1>7

\* What the two steps of removePriceFeederBySource do (service.go).
LEMMA CloseSteps ==
  ASSUME TypeInv, NEW c \in RPCs
  PROVE  /\ StopSource(c) =>
              LET i == sources[calls[c].copy.source]
              IN  \/ i = NoStream /\ Goto(c, "deactivate") /\ UNCHANGED streams
                  \/ /\ i \in Streams
                     /\ StreamNow(i, streams[i].subs, streams[i].ext, streams[i].int)
                     /\ Closes(i, TRUE, streams[i].intClosed) /\ OnlyStream(i)
                     /\ calls' = [calls EXCEPT ![c] =
                                    Call("closeInt", calls[c].feed, calls[c].copy, i)]
         /\ CloseChannel(c) =>
              LET i == calls[c].stream
              IN  /\ i \in Streams
                  /\ StreamNow(i, streams[i].subs, streams[i].ext, streams[i].int)
                  /\ Closes(i, streams[i].extClosed, TRUE) /\ OnlyStream(i)
  <1>1. ASSUME NEW i \in Streams
        PROVE  streams[i] \in StreamRecord /\ DOMAIN streams = Streams
    BY Zenon DEF TypeInv, StreamsTyped
  <1>2. ASSUME StopSource(c), sources[calls[c].copy.source] # NoStream
        PROVE  LET i == sources[calls[c].copy.source]
               IN  /\ i \in Streams
                   /\ StreamNow(i, streams[i].subs, streams[i].ext, streams[i].int)
                   /\ Closes(i, TRUE, streams[i].intClosed) /\ OnlyStream(i)
                   /\ calls' = [calls EXCEPT ![c] =
                                  Call("closeInt", calls[c].feed, calls[c].copy, i)]
    <2> DEFINE i == sources[calls[c].copy.source]
               y == [streams[i] EXCEPT !.extClosed = TRUE]
    <2>1. i \in Streams
      BY Zenon, <1>2, AtHand DEF StopSource, Copied
    <2>2. /\ y \in StreamRecord /\ y.subs = streams[i].subs /\ y.ext = streams[i].ext
          /\ y.int = streams[i].int /\ y.extClosed = TRUE
          /\ y.intClosed = streams[i].intClosed
      BY Zenon, <1>1, <2>1 DEF StreamRecord
    <2>3. /\ streams' = [streams EXCEPT ![i] = y]
          /\ calls' = [calls EXCEPT ![c] = Call("closeInt", calls[c].feed, calls[c].copy, i)]
      BY Zenon, <1>1, <1>2, <2>1 DEF StopSource
    <2> HIDE DEF y
    <2>4. streams'[i] = y /\ OnlyStream(i)
      BY Zenon, <2>1, <2>2, <2>3, OneStream
    <2> QED BY Zenon, <2>1, <2>2, <2>3, <2>4 DEF StreamNow, Closes
  <1>3. ASSUME CloseChannel(c)
        PROVE  LET i == calls[c].stream
               IN  /\ i \in Streams
                   /\ StreamNow(i, streams[i].subs, streams[i].ext, streams[i].int)
                   /\ Closes(i, streams[i].extClosed, TRUE) /\ OnlyStream(i)
    <2> DEFINE i == calls[c].stream
               y == [streams[i] EXCEPT !.intClosed = TRUE]
    <2>1. i \in Streams
      BY Zenon, <1>3, AtHand DEF CloseChannel, Connected
    <2>2. /\ y \in StreamRecord /\ y.subs = streams[i].subs /\ y.ext = streams[i].ext
          /\ y.int = streams[i].int /\ y.extClosed = streams[i].extClosed
          /\ y.intClosed = TRUE
      BY Zenon, <1>1, <2>1 DEF StreamRecord
    <2>3. streams' = [streams EXCEPT ![i] = y]
      BY Zenon, <1>1, <1>3, <2>1 DEF CloseChannel
    <2> HIDE DEF y
    <2>4. streams'[i] = y /\ OnlyStream(i)
      BY Zenon, <2>1, <2>2, <2>3, OneStream
    <2> QED BY Zenon, <2>1, <2>2, <2>4 DEF StreamNow, Closes
  <1>4. StopSource(c) /\ sources[calls[c].copy.source] = NoStream
          => Goto(c, "deactivate") /\ UNCHANGED streams
    BY Zenon DEF StopSource
  <1> QED BY Zenon, <1>2, <1>3, <1>4

\* Everything keeps its type.
LEMMA NextTypeInv ==
  ASSUME TypeInv, [Next]_vars
  PROVE  TypeInv'
  \* Who writes the store of the feeds.
  <1>FeedsWriters.
    ASSUME [Next]_vars, feeds' # feeds
    PROVE  \E c \in RPCs : \/ InsertFeed(c) \/ UpdateFeed(c) \/ RemoveFeed(c)
                           \/ StartWrites(c) \/ StopWrites(c)
    BY <1>FeedsWriters, ZenonT(30) DEF Next, vars, RPCBegins, AddPriceFeed, UpdatePriceFeed, RemovePriceFeed,
           StartPriceFeed, StopPriceFeed, CallStep, StartReads, StartOpens, StopOpens,
           OpenSource, StartSubscribes, StartActivates, StopUnsubscribes, StopChecks,
           StopSource, CloseChannel, StopDeactivates, UpdateMarketStrategy, Tick, Forward,
           ForwardPanics, Dies, Take, UpdateMarketPrice, Crash, Restart, StartPriceFeeds, RPCs
  \* Who connects to a source or drops the connection.
  <1>SourcesWriters.
    ASSUME [Next]_vars, sources' # sources
    PROVE  \/ \E c \in RPCs : StartOpens(c) \/ StopOpens(c) \/ CloseChannel(c)
           \/ Dies
    BY <1>SourcesWriters, ZenonT(30) DEF Next, vars, RPCBegins, AddPriceFeed, UpdatePriceFeed, RemovePriceFeed,
           StartPriceFeed, StopPriceFeed, CallStep, InsertFeed, UpdateFeed, RemoveFeed,
           StartReads, StartWrites, StopWrites, WriteFeed, StartSubscribes, StartActivates,
           StopUnsubscribes, StopChecks, StopSource, StopDeactivates, UpdateMarketStrategy,
           Tick, Forward, ForwardPanics, Take, UpdateMarketPrice, Crash, Restart,
           StartPriceFeeds, RPCs
  \* Who writes to the streams.
  <1>StreamsWriters.
    ASSUME [Next]_vars, streams' # streams
    PROVE  \/ \E c \in RPCs : \/ StartOpens(c) \/ StopOpens(c) \/ StartSubscribes(c)
                              \/ StopUnsubscribes(c) \/ StopSource(c) \/ CloseChannel(c)
           \/ \E i \in Streams : Tick(i) \/ Forward(i)
           \/ \E k \in Consumers : Take(k)
           \/ Dies
    BY <1>StreamsWriters, ZenonT(30) DEF Next, vars, RPCBegins, AddPriceFeed, UpdatePriceFeed, RemovePriceFeed,
           StartPriceFeed, StopPriceFeed, CallStep, InsertFeed, UpdateFeed, RemoveFeed,
           StartReads, StartWrites, StopWrites, WriteFeed, StartActivates, StopChecks,
           StopDeactivates, UpdateMarketStrategy, ForwardPanics, UpdateMarketPrice, Crash,
           Restart, StartPriceFeeds, RPCs
  \* Who changes the consumers.
  <1>ConsumersWriters.
    ASSUME [Next]_vars, consumers' # consumers
    PROVE  \/ \E c \in RPCs : StartActivates(c)
           \/ \E k \in Consumers : Take(k) \/ UpdateMarketPrice(k)
           \/ Dies
    BY <1>ConsumersWriters, ZenonT(30) DEF Next, vars, RPCBegins, AddPriceFeed, UpdatePriceFeed, RemovePriceFeed,
           StartPriceFeed, StopPriceFeed, CallStep, InsertFeed, UpdateFeed, RemoveFeed,
           StartReads, StartOpens, StopOpens, OpenSource, StartWrites, StopWrites, WriteFeed,
           StartSubscribes, StopUnsubscribes, StopChecks, StopSource, CloseChannel,
           StopDeactivates, UpdateMarketStrategy, Tick, Forward, ForwardPanics, Crash,
           Restart, StartPriceFeeds, RPCs
  \* Who changes the prices, and who counts the ticks.
  <1>PricesWriters.
    ASSUME [Next]_vars, <<prices, sent, ticks>>' # <<prices, sent, ticks>>
    PROVE  \/ \E i \in Streams : Tick(i)
           \/ \E k \in Consumers : UpdateMarketPrice(k)
           \/ Dies
    BY <1>PricesWriters, ZenonT(30) DEF Next, vars, RPCBegins, AddPriceFeed, UpdatePriceFeed, RemovePriceFeed,
           StartPriceFeed, StopPriceFeed, CallStep, InsertFeed, UpdateFeed, RemoveFeed,
           StartReads, StartOpens, StopOpens, OpenSource, StartWrites, StopWrites, WriteFeed,
           StartSubscribes, StartActivates, StopUnsubscribes, StopChecks, StopSource,
           CloseChannel, StopDeactivates, UpdateMarketStrategy, Forward, ForwardPanics, Take,
           Crash, Restart, StartPriceFeeds, RPCs, daemon
  \* The store holds feeds.
  <1>FeedsStayTyped.
    ASSUME TypeInv, [Next]_vars
    PROVE  FeedsTyped'
    <2> USE <1>FeedsStayTyped
    <2> USE DEF FeedsTyped
    <2>1. CASE feeds' = feeds
      BY Zenon, <2>1 DEF TypeInv
    <2>2. CASE feeds' # feeds
      <3>1. PICK c \in RPCs : \/ InsertFeed(c) \/ UpdateFeed(c) \/ RemoveFeed(c)
                              \/ StartWrites(c) \/ StopWrites(c)
        BY Zenon, <2>2, <1>FeedsWriters
      <3>2. CallOK(calls[c]) /\ feeds \in [Feeds -> FeedRecord \cup {NoFeed}]
        BY Zenon DEF TypeInv, CallsTyped
      <3> DEFINE f == calls[c].feed
                 copy == calls[c].copy
      <3>3. CASE InsertFeed(c)
        <4>1. f \in Feeds /\ copy \in FeedRecord
          BY Zenon, <3>2, <3>3 DEF InsertFeed, CallOK, Copied
        <4> QED BY Zenon, <3>2, <3>3, <4>1 DEF InsertFeed
      <3>4. CASE UpdateFeed(c)
        <4>1. f \in Feeds /\ copy \in FeedRecord
          BY Zenon, <3>2, <3>4 DEF UpdateFeed, CallOK, Copied
        <4>2. Stored(f) /\ feeds' = [feeds EXCEPT ![f] = Feed(feeds[f].market, copy.source,
                                                     copy.ticker, feeds[f].started)]
          BY Zenon, <2>2, <3>2, <3>4, <4>1 DEF UpdateFeed
        <4>3. feeds[f] \in FeedRecord
          BY Zenon, <3>2, <4>1, <4>2 DEF Stored
        <4>4. Feed(feeds[f].market, copy.source, copy.ticker, feeds[f].started) \in FeedRecord
          BY Zenon, <4>1, <4>3, FeedTyped DEF FeedRecord
        <4> QED BY Zenon, <3>2, <4>1, <4>2, <4>4
      <3>5. CASE RemoveFeed(c)
        BY Zenon, <3>2, <3>5 DEF RemoveFeed
      <3>6. ASSUME NEW b \in BOOLEAN, NEW pc, WriteFeed(c, b, pc),
                   calls[c].pc \in {"startWrite", "stopWrite"}
            PROVE  FeedsTyped'
        <4>1. f \in Feeds /\ copy \in FeedRecord
          BY Zenon, <3>2, <3>6 DEF CallOK, Copied
        <4>2. feeds' = [feeds EXCEPT ![f] = Feed(copy.market, copy.source, copy.ticker, b)]
          BY Zenon, <2>2, <3>6 DEF WriteFeed
        <4>3. Feed(copy.market, copy.source, copy.ticker, b) \in FeedRecord
          BY Zenon, <4>1, FeedTyped DEF FeedRecord
        <4> QED BY Zenon, <3>2, <4>1, <4>2, <4>3
      <3>7. CASE StartWrites(c) \/ StopWrites(c)
        BY Zenon, <3>6, <3>7 DEF StartWrites, StopWrites
      <3> QED BY Zenon, <3>1, <3>3, <3>4, <3>5, <3>7
    <2> QED BY Zenon, <2>1, <2>2
  \* A source has one of the streams, or none.
  <1>SourcesStayTyped.
    ASSUME TypeInv, [Next]_vars
    PROVE  SourcesTyped'
    <2> USE <1>SourcesStayTyped
    <2> USE DEF SourcesTyped
    <2>1. sources \in [Sources -> Streams \cup {NoStream}]
      BY Zenon DEF TypeInv
    <2>2. ASSUME NEW c \in RPCs, NEW pc, OpenSource(c, pc) PROVE SourcesTyped'
      BY Zenon, <2>1, <2>2 DEF OpenSource
    <2>3. ASSUME NEW c \in RPCs, CloseChannel(c) PROVE SourcesTyped'
      BY Zenon, <2>1, <2>3 DEF CloseChannel
    <2>4. ASSUME Dies PROVE SourcesTyped'
      BY Zenon, <2>4 DEF Dies
    <2> QED BY Zenon, <2>1, <2>2, <2>3, <2>4, <1>SourcesWriters DEF StartOpens, StopOpens
  \* A consumer has a stream, and takes prices from it.
  <1>ConsumersStayTyped.
    ASSUME TypeInv, [Next]_vars
    PROVE  ConsumersTyped'
    <2> USE <1>ConsumersStayTyped
    <2>1. /\ DOMAIN consumers = Consumers /\ consumers = [k \in Consumers |-> consumers[k]]
          /\ \A k \in Consumers : ConsumerOK(consumers[k])
      BY Zenon DEF TypeInv, ConsumersTyped
    <2>2. ASSUME NEW k \in Consumers, NEW x, ConsumerOK(x),
                 consumers' = [consumers EXCEPT ![k] = x]
          PROVE  ConsumersTyped'
      BY Zenon, <2>1, <2>2 DEF ConsumersTyped
    <2>3. ASSUME NEW i \in Streams, NEW p \in PriceRecord \cup {NoPrice}
          PROVE  ConsumerOK(Consumer(i, p))
      <3>1. Consumer(i, p).stream # NoConsumer.stream
        BY FeederAssumption, Fields
      <3>2. Consumer(i, p) # NoConsumer
        BY Zenon, <3>1
      <3>3. Consumer(i, p) \in [stream : Streams \cup {NoStream}, price : PriceRecord \cup {NoPrice}]
        BY Zenon DEF Consumer
      <3> QED BY <3>2, <3>3, FeederAssumption, Fields DEF ConsumerOK
    <2>4. ConsumerOK(NoConsumer)
      BY Zenon, Fields DEF ConsumerOK, NoConsumer
    <2>5. ASSUME NEW c \in RPCs, StartActivates(c) PROVE ConsumersTyped'
      <3>1. calls[c].stream \in Streams
        BY Zenon, <2>5 DEF StartActivates, TypeInv, CallsTyped, CallOK, Connected
      <3> QED BY Zenon, <2>2, <2>3, <2>5, <3>1 DEF StartActivates
    <2>6. ASSUME NEW k \in Consumers, Take(k) PROVE ConsumersTyped'
      <3>1. consumers[k].stream \in Streams
        BY Zenon, <2>1, <2>6 DEF Take, ConsumerOK
      <3>2. streams[consumers[k].stream].int \in Seq(PriceRecord)
        BY Zenon, <3>1 DEF TypeInv, StreamsTyped, StreamRecord
      <3>3. CASE consumers' = [consumers EXCEPT ![k] =
                                 Consumer(consumers[k].stream, Head(streams[consumers[k].stream].int))]
                   /\ streams[consumers[k].stream].int # <<>>
        <4>1. Head(streams[consumers[k].stream].int) \in PriceRecord
          BY <3>2, <3>3
        <4> QED BY Zenon, <2>2, <2>3, <3>1, <3>3, <4>1
      <3>4. CASE consumers' = [consumers EXCEPT ![k] = NoConsumer]
        BY Zenon, <2>2, <2>4, <3>4
      <3> QED BY Zenon, <2>6, <3>3, <3>4 DEF Take
    <2>7. ASSUME NEW k \in Consumers, UpdateMarketPrice(k) PROVE ConsumersTyped'
      <3>1. consumers[k].stream \in Streams
        BY Zenon, <2>1, <2>7, Fields DEF UpdateMarketPrice, ConsumerOK
      <3>2. consumers' = [consumers EXCEPT ![k] = Consumer(consumers[k].stream, NoPrice)]
        BY Zenon, <2>1, <2>7 DEF UpdateMarketPrice
      <3> QED BY Zenon, <2>2, <2>3, <3>1, <3>2
    <2>8. ASSUME Dies PROVE ConsumersTyped'
      BY Zenon, <2>4, <2>8 DEF Dies, ConsumersTyped
    <2>9. CASE consumers' = consumers
      BY Zenon, <2>1, <2>9 DEF ConsumersTyped
    <2> QED BY Zenon, <2>5, <2>6, <2>7, <2>8, <2>9, <1>ConsumersWriters
  \* Streams stay streams.
  <1>StreamsStayTyped.
    ASSUME TypeInv, [Next]_vars
    PROVE  StreamsTyped'
    <2> USE <1>StreamsStayTyped
    <2>1. StreamsTyped
      BY Zenon DEF TypeInv
    <2>2. ASSUME NEW c \in RPCs, StartOpens(c) \/ StopOpens(c)
          PROVE  StreamsTyped'
      <3>1. PICK pc : OpenSource(c, pc) /\ calls[c].pc \in Copied
        BY Zenon, <2>2 DEF StartOpens, StopOpens, Copied
      <3> QED BY Zenon, <2>1, <3>1, OpenStep DEF StreamsTyped, OnlyStream
    <2>3. ASSUME NEW c \in RPCs, StartSubscribes(c) \/ StopUnsubscribes(c)
          PROVE  StreamsTyped'
      BY Zenon, <2>1, <2>3, SubscribeStep, UnsubscribeStep DEF StreamsTyped, OnlyStream
    <2>4. ASSUME NEW c \in RPCs, StopSource(c) \/ CloseChannel(c)
          PROVE  StreamsTyped'
      BY Zenon, <2>1, <2>4, CloseSteps DEF StreamsTyped, OnlyStream
    <2>5. ASSUME NEW i \in Streams, Tick(i) \/ Forward(i)
          PROVE  StreamsTyped'
      BY Zenon, <2>5, TickStep, ForwardStep DEF OnlyStream
    <2>6. ASSUME NEW k \in Consumers, Take(k)
          PROVE  StreamsTyped'
      BY Zenon, <2>1, <2>6, TakeStep DEF StreamsTyped, OnlyStream
    <2>7. ASSUME Dies
          PROVE  StreamsTyped'
      BY Zenon, <2>7, NewStreams DEF Dies, StreamsTyped
    <2>8. CASE streams' = streams
      BY Zenon, <2>1, <2>8 DEF StreamsTyped
    <2> QED BY Zenon, <2>2, <2>3, <2>4, <2>5, <2>6, <2>7, <2>8, <1>StreamsWriters
  \* RPCs begin as calls.
  <1>BeginsTyped.
    ASSUME TypeInv, RPCBegins
    PROVE  CallsTyped'
    <2> USE <1>BeginsTyped
    <2>1. PICK c \in Callers : \/ AddPriceFeed(c) \/ UpdatePriceFeed(c) \/ RemovePriceFeed(c)
                               \/ StartPriceFeed(c) \/ StopPriceFeed(c)
      BY Zenon DEF RPCBegins
    <2>2. c \in RPCs /\ CallsTyped /\ feeds \in [Feeds -> FeedRecord \cup {NoFeed}]
      BY Zenon DEF RPCs, TypeInv, FeedsTyped
    <2>3. ASSUME NEW f \in Feeds, NEW copy \in FeedRecord, NEW pc \in Copied \ Connected,
                 calls' = [calls EXCEPT ![c] = Call(pc, f, copy, NoStream)]
          PROVE  CallsTyped'
      <3>1. CallOK(Call(pc, f, copy, NoStream))
        BY Zenon, CallTyped
      <3> QED BY Zenon, <2>2, <2>3, <3>1, CallsStayTyped
    <2>4. ASSUME NEW f \in Feeds, NEW pc \in {"remove", "start"},
                 calls' = [calls EXCEPT ![c] = Call(pc, f, NoFeed, NoStream)]
          PROVE  CallsTyped'
      <3>1. CallOK(Call(pc, f, NoFeed, NoStream))
        BY Zenon, CallTyped DEF Copied, Connected
      <3> QED BY Zenon, <2>2, <2>4, <3>1, CallsStayTyped
    <2>5. CASE AddPriceFeed(c)
      <3>1. PICK f \in Feeds, m \in Markets, s \in Sources, t \in Tickers :
              calls' = [calls EXCEPT ![c] = Call("insert", f, Feed(m, s, t, FALSE), NoStream)]
        BY Zenon, <2>5 DEF AddPriceFeed
      <3>2. Feed(m, s, t, FALSE) \in FeedRecord /\ "insert" \in Copied \ Connected
        BY Zenon, FeedTyped DEF Copied, Connected
      <3> QED BY Zenon, <2>3, <3>1, <3>2
    <2>6. CASE UpdatePriceFeed(c)
      <3>1. PICK f \in Feeds, s \in Sources, t \in Tickers :
              Stored(f) /\ calls' = [calls EXCEPT ![c] =
                             Call("update", f, Feed(feeds[f].market, s, t, FALSE), NoStream)]
        BY Zenon, <2>6 DEF UpdatePriceFeed
      <3>2. feeds[f].market \in Markets
        BY Zenon, <2>2, <3>1 DEF Stored, FeedRecord
      <3>3. Feed(feeds[f].market, s, t, FALSE) \in FeedRecord /\ "update" \in Copied \ Connected
        BY Zenon, <3>2, FeedTyped DEF Copied, Connected
      <3> QED BY Zenon, <2>3, <3>1, <3>3
    <2>7. CASE RemovePriceFeed(c) \/ StartPriceFeed(c)
      BY Zenon, <2>4, <2>7 DEF RemovePriceFeed, StartPriceFeed
    <2>8. CASE StopPriceFeed(c)
      <3>1. PICK f \in Feeds :
              Started(f) /\ calls' = [calls EXCEPT ![c] =
                                        Call("stopWrite", f, feeds[f], NoStream)]
        BY Zenon, <2>8 DEF StopPriceFeed
      <3>2. feeds[f] \in FeedRecord /\ "stopWrite" \in Copied \ Connected
        BY Zenon, <2>2, <3>1 DEF Started, Stored, Copied, Connected
      <3> QED BY Zenon, <2>3, <3>1, <3>2
    <2> QED BY Zenon, <2>1, <2>5, <2>6, <2>7, <2>8
  \* RPCs go on as calls.
  <1>StepsTyped.
    ASSUME TypeInv, NEW c \in RPCs, CallStep(c)
    PROVE  CallsTyped'
    <2> USE <1>StepsTyped
    <2>1. CallsTyped /\ feeds \in [Feeds -> FeedRecord \cup {NoFeed}]
      BY Zenon DEF TypeInv, FeedsTyped
    <2>2. ASSUME Finish(c) \/ Fail(c) PROVE CallsTyped'
      BY Zenon, <2>1, <2>2, NoCallTyped, CallsStayTyped DEF Finish, Fail
    <2>3. ASSUME NEW pc \in Copied, calls[c].pc \in Copied,
                 NEW i, pc \in Connected => i \in Streams,
                 calls' = [calls EXCEPT ![c] = Call(pc, calls[c].feed, calls[c].copy, i)]
          PROVE  CallsTyped'
      <3>1. calls[c].feed \in Feeds /\ calls[c].copy \in FeedRecord
        BY Zenon, <2>3, AtHand DEF Copied
      <3>2. CallOK(Call(pc, calls[c].feed, calls[c].copy, i))
        BY Zenon, <2>3, <3>1, CallTyped
      <3> QED BY Zenon, <2>1, <2>3, <3>2, CallsStayTyped
    <2>4. ASSUME NEW pc \in Copied, calls[c].pc \in Copied,
                 pc \in Connected => calls[c].pc \in Connected, Goto(c, pc)
          PROVE  CallsTyped'
      <3>1. pc \in Connected => calls[c].stream \in Streams
        BY Zenon, <2>4, AtHand
      <3> QED BY Zenon, <2>3, <2>4, <3>1 DEF Goto
    <2>5. CASE InsertFeed(c) \/ UpdateFeed(c) \/ RemoveFeed(c) \/ StartActivates(c)
                 \/ StopDeactivates(c)
      BY Zenon, <2>2, <2>5 DEF InsertFeed, UpdateFeed, RemoveFeed, StartActivates, StopDeactivates
    <2>6. CASE StartReads(c)
      <3>1. CASE Fail(c)
        BY Zenon, <2>2, <3>1
      <3>2. CASE ~Fail(c)
        <4> DEFINE f == calls[c].feed
        <4>1. f \in Feeds /\ Stored(f)
                /\ calls' = [calls EXCEPT ![c] = Call("startOpen", f, feeds[f], NoStream)]
          BY Zenon, <2>6, <3>2, AtHand DEF StartReads
        <4>2. feeds[f] \in FeedRecord
          BY Zenon, <2>1, <4>1 DEF Stored
        <4>3. CallOK(Call("startOpen", f, feeds[f], NoStream))
          BY Zenon, <4>1, <4>2, CallTyped DEF Copied, Connected
        <4> QED BY Zenon, <2>1, <4>1, <4>3, CallsStayTyped
      <3> QED BY Zenon, <3>1, <3>2
    <2>7. CASE StartOpens(c) \/ StopOpens(c)
      <3>1. PICK pc \in {"subscribe", "unsubscribe"} :
              OpenSource(c, pc) /\ calls[c].pc \in Copied
        BY Zenon, <2>7 DEF StartOpens, StopOpens, Copied
      <3>2. pc \in Copied
        BY Zenon DEF Copied
      <3> QED BY Zenon, <2>2, <2>3, <3>1, <3>2, OpenStep
    <2>8. CASE StartSubscribes(c) \/ StopUnsubscribes(c)
      BY Zenon, <2>2, <2>4, <2>8 DEF StartSubscribes, StopUnsubscribes, Copied, Connected
    <2>9. CASE StartWrites(c) \/ StopWrites(c)
      BY Zenon, <2>2, <2>4, <2>9 DEF StartWrites, StopWrites, WriteFeed, Copied, Connected
    <2>10. CASE StopChecks(c)
      BY Zenon, <2>4, <2>10 DEF StopChecks, Copied, Connected
    <2>11. CASE StopSource(c)
      <3>1. calls[c].pc \in Copied
        BY Zenon, <2>11 DEF StopSource, Copied
      <3>2. {"closeInt", "deactivate"} \subseteq Copied /\ "deactivate" \notin Connected
        BY Zenon DEF Copied, Connected
      <3> QED BY Zenon, <2>3, <2>4, <2>11, <3>1, <3>2, CloseSteps
    <2>12. CASE CloseChannel(c)
      BY Zenon, <2>4, <2>12 DEF CloseChannel, Copied, Connected
    <2> QED BY Zenon, <2>5, <2>6, <2>7, <2>8, <2>9, <2>10, <2>11, <2>12 DEF CallStep
  \* Who changes the RPCs, and who changes which feeds are active or to be started.
  <1>CallsWriters.
    ASSUME [Next]_vars
    PROVE  /\ calls' # calls => \/ RPCBegins \/ \E c \in RPCs : CallStep(c)
                                \/ Dies \/ StartPriceFeeds
           /\ active' # active => \/ \E c \in RPCs : StartActivates(c) \/ StopDeactivates(c)
                                  \/ Dies
           /\ booting' # booting => Dies \/ Restart \/ StartPriceFeeds
    <2> USE <1>CallsWriters
    <2>1. calls' # calls => \/ RPCBegins \/ \E c \in RPCs : CallStep(c)
                            \/ Dies \/ StartPriceFeeds
      BY Zenon DEF Next, vars, UpdateMarketStrategy, Tick, Forward, ForwardPanics, Take,
             UpdateMarketPrice, Crash, Restart, RPCs
    <2>2. active' # active => \/ \E c \in RPCs : StartActivates(c) \/ StopDeactivates(c)
                              \/ Dies
      BY Zenon DEF Next, vars, RPCBegins, AddPriceFeed, UpdatePriceFeed, RemovePriceFeed,
             StartPriceFeed, StopPriceFeed, CallStep, InsertFeed, UpdateFeed, RemoveFeed,
             StartReads, StartOpens, StopOpens, OpenSource, StartWrites, StopWrites,
             WriteFeed, StartSubscribes, StopUnsubscribes, StopChecks, StopSource,
             CloseChannel, UpdateMarketStrategy, Tick, Forward, ForwardPanics, Take,
             UpdateMarketPrice, Crash, Restart, StartPriceFeeds, RPCs
    <2>3. booting' # booting => Dies \/ Restart \/ StartPriceFeeds
      BY Zenon DEF Next, vars, RPCBegins, AddPriceFeed, UpdatePriceFeed, RemovePriceFeed,
             StartPriceFeed, StopPriceFeed, CallStep, InsertFeed, UpdateFeed, RemoveFeed,
             StartReads, StartOpens, StopOpens, OpenSource, StartWrites, StopWrites,
             WriteFeed, StartSubscribes, StopUnsubscribes, StartActivates, StopDeactivates,
             StopChecks, StopSource, CloseChannel, UpdateMarketStrategy, Tick, Forward,
             ForwardPanics, Take, UpdateMarketPrice, Crash, daemon
    <2> QED BY Zenon, <2>1, <2>2, <2>3
  <1>1. CallsTyped'
    <2>1. ASSUME StartPriceFeeds PROVE CallsTyped'
      <3>1. CallsTyped /\ Boot \in RPCs /\ booting \subseteq Feeds
        BY Zenon DEF TypeInv, RPCs
      <3>2. PICK f \in Feeds :
              \/ calls' = [calls EXCEPT ![Boot] = Call("start", f, NoFeed, NoStream)]
              \/ calls' = [calls EXCEPT ![Boot] = NoCall]
        BY Zenon, <2>1, <3>1 DEF StartPriceFeeds, Fail
      <3>3. CallOK(Call("start", f, NoFeed, NoStream))
        BY Zenon, CallTyped DEF Copied, Connected
      <3> QED BY Zenon, <3>1, <3>2, <3>3, NoCallTyped, CallsStayTyped
    <2>2. ASSUME Dies PROVE CallsTyped'
      BY Zenon, <2>2, NoCallTyped DEF TypeInv, CallsTyped, Dies
    <2>3. CASE calls' = calls
      BY Zenon, <2>3 DEF TypeInv, CallsTyped
    <2> QED BY Zenon, <2>1, <2>2, <2>3, <1>CallsWriters, <1>BeginsTyped, <1>StepsTyped
  <1>2. PricesTyped'
    <2>1. PricesTyped
      BY Zenon DEF TypeInv
    <2>2. ASSUME NEW i \in Streams, Tick(i) PROVE PricesTyped'
      <3>1. PICK m \in Markets : sent' = [sent EXCEPT ![m] = ticks + 1]
        BY Zenon, <2>2, TickStep
      <3>2. ticks' = ticks + 1 /\ prices' = prices
        BY Zenon, <2>2 DEF Tick
      <3> QED BY <2>1, <3>1, <3>2 DEF PricesTyped
    <2>3. ASSUME NEW k \in Consumers, UpdateMarketPrice(k) PROVE PricesTyped'
      <3>1. consumers[k].price \in PriceRecord
        BY Zenon, <2>3 DEF UpdateMarketPrice, TypeInv, ConsumersTyped, ConsumerOK
      <3>2. consumers[k].price.tick \in Nat
        BY Zenon, <3>1 DEF PriceRecord
      <3>3. prices' = [prices EXCEPT ![consumers[k].price.market] = consumers[k].price.tick]
              /\ UNCHANGED <<sent, ticks>>
        BY Zenon, <2>3 DEF UpdateMarketPrice
      <3> QED BY Zenon, <2>1, <3>2, <3>3 DEF PricesTyped
    <2>4. ASSUME Dies PROVE PricesTyped'
      BY Zenon, <2>1, <2>4 DEF PricesTyped, Dies
    <2>5. CASE UNCHANGED <<prices, sent, ticks>>
      BY Zenon, <2>1, <2>5 DEF PricesTyped
    <2> QED BY Zenon, <2>2, <2>3, <2>4, <2>5, <1>PricesWriters
  <1>3. active' \subseteq Feeds
    <2>1. active \subseteq Feeds
      BY Zenon DEF TypeInv
    <2>2. ASSUME NEW c \in RPCs, StartActivates(c) PROVE active' \subseteq Feeds
      BY Zenon, <2>1, <2>2, AtHand DEF StartActivates
    <2> QED BY Zenon, <2>1, <2>2, <1>CallsWriters DEF StopDeactivates, Dies
  <1>4. booting' \subseteq Feeds
    BY Zenon, <1>CallsWriters DEF TypeInv, Dies, Restart, StartPriceFeeds
  <1> QED BY Zenon, <1>1, <1>2, <1>3, <1>4, <1>FeedsStayTyped, <1>SourcesStayTyped, <1>StreamsStayTyped,
             <1>ConsumersStayTyped DEF TypeInv

\* The daemon begins with no feeds.
LEMMA InitTypeInv ==
  ASSUME Init
  PROVE  TypeInv
  <1>1. FeedsTyped /\ SourcesTyped /\ PricesTyped /\ active \subseteq Feeds /\ booting \subseteq Feeds
    BY Zenon DEF Init, FeedsTyped, SourcesTyped, PricesTyped
  <1>2. StreamsTyped
    BY Zenon, NewStreams DEF Init, StreamsTyped
  <1>3. CallsTyped
    BY Zenon, NoCallTyped DEF Init, CallsTyped, RPCs
  <1>4. ConsumerOK(NoConsumer)
    BY Zenon, Fields DEF ConsumerOK, NoConsumer
  <1>5. ConsumersTyped
    BY Zenon, <1>4 DEF Init, ConsumersTyped
  <1> QED BY Zenon, <1>1, <1>2, <1>3, <1>5 DEF TypeInv

-----------------------------------------------------------------------------
(***************************************************************************)
(* Who is at work.  The RPCs of operators run once every feed is started   *)
(* again, and nothing runs in a process that is down.                      *)
(***************************************************************************)
AtWork(c) == calls[c].pc # "idle"

BootInv ==
  /\ \A c \in Callers : AtWork(c) => booting = {} /\ ~AtWork(Boot)
  /\ \A c \in RPCs : AtWork(c) => up /\ ~broken
  /\ booting # {} => up
  /\ ~up => /\ active = {}
            /\ sources = [s \in Sources |-> NoStream]
            /\ streams = [i \in Streams |-> ClosedStream]
            /\ consumers = [k \in Consumers |-> NoConsumer]

\* A step of an RPC is taken by one that is at work, and moves no other one.
LEMMA OneRPCMoves ==
  ASSUME TypeInv, NEW c \in RPCs, CallStep(c)
  PROVE  /\ AtWork(c)
         /\ \A d \in RPCs \ {c} : calls'[d] = calls[d]
         /\ UNCHANGED <<booting, up>>
         /\ broken' => broken \/ (c = Boot /\ calls'[c] = NoCall)
  <1>1. AtWork(c)
    BY Zenon DEF CallStep, AtWork, InsertFeed, UpdateFeed, RemoveFeed, StartReads, StartOpens,
           StartSubscribes, StartWrites, StartActivates, StopWrites, StopOpens,
           StopUnsubscribes, StopChecks, StopSource, CloseChannel, StopDeactivates
  <1>2. UNCHANGED <<booting, up>>
    BY Zenon DEF CallStep, InsertFeed, UpdateFeed, RemoveFeed, StartReads, StartOpens,
           OpenSource, StartSubscribes, StartWrites, WriteFeed, StartActivates, StopWrites,
           StopOpens, StopUnsubscribes, StopChecks, StopSource, CloseChannel,
           StopDeactivates, daemon
  <1>3. \/ Fail(c)
        \/ broken' = broken /\ \E x : calls' = [calls EXCEPT ![c] = x]
    BY Zenon DEF CallStep, InsertFeed, UpdateFeed, RemoveFeed, StartReads, StartOpens,
           OpenSource, StartSubscribes, StartWrites, WriteFeed, StartActivates, StopWrites,
           StopOpens, StopUnsubscribes, StopChecks, StopSource, CloseChannel,
           StopDeactivates, Finish, Goto
  <1>4. DOMAIN calls = RPCs
    BY Zenon DEF TypeInv, CallsTyped
  <1>5. CASE Fail(c)
    BY Zenon, <1>1, <1>2, <1>4, <1>5 DEF Fail
  <1>6. ASSUME NEW x, broken' = broken, calls' = [calls EXCEPT ![c] = x]
        PROVE  /\ \A d \in RPCs \ {c} : calls'[d] = calls[d]
               /\ broken' => broken
    BY Zenon, <1>4, <1>6
  <1> QED BY Zenon, <1>1, <1>2, <1>3, <1>5, <1>6

\* So does an RPC that begins.
LEMMA OneRPCBegins ==
  ASSUME TypeInv, RPCBegins
  PROVE  /\ \E c \in Callers : /\ Begins(c)
                               /\ \A d \in RPCs \ {c} : calls'[d] = calls[d]
         /\ UNCHANGED <<feeds, strategy, active, sources, streams, consumers, booting, up,
                        broken, prices, sent, ticks, faults, crowded, shared>>
  <1>1. PICK c \in Callers : \/ AddPriceFeed(c) \/ UpdatePriceFeed(c) \/ RemovePriceFeed(c)
                             \/ StartPriceFeed(c) \/ StopPriceFeed(c)
    BY Zenon DEF RPCBegins
  <1>2. Begins(c) /\ \E x : calls' = [calls EXCEPT ![c] = x]
    BY Zenon, <1>1 DEF AddPriceFeed, UpdatePriceFeed, RemovePriceFeed, StartPriceFeed, StopPriceFeed
  <1>3. DOMAIN calls = RPCs
    BY Zenon DEF TypeInv, CallsTyped
  <1>4. UNCHANGED <<feeds, strategy, active, sources, streams, consumers, booting, up,
                    broken, prices, sent, ticks, faults, crowded, shared>>
    BY Zenon, <1>1 DEF AddPriceFeed, UpdatePriceFeed, RemovePriceFeed, StartPriceFeed,
                StopPriceFeed, daemon
  <1> QED BY Zenon, <1>2, <1>3, <1>4

\* The steps of the prices and of the strategy leave the RPCs alone, and the
\* feeds with what they subscribed.
DataStep ==
  \/ UpdateMarketStrategy
  \/ \E i \in Streams : Tick(i) \/ Forward(i)
  \/ \E k \in Consumers : Take(k) \/ UpdateMarketPrice(k)
  \/ UNCHANGED vars

\* What a step of the prices leaves alone.
LEMMA DataSteps ==
  ASSUME TypeInv, DataStep
  PROVE  /\ UNCHANGED <<feeds, active, sources, calls, booting, up, broken, faults,
                        disturbed, crowded, shared>>
         /\ \A i \in Streams : /\ streams'[i].subs = streams[i].subs
                               /\ Closes(i, streams[i].extClosed, streams[i].intClosed)
  <1>1. UNCHANGED <<feeds, active, sources, calls, booting, up, broken, faults,
                    disturbed, crowded, shared>>
    BY Zenon DEF DataStep, UpdateMarketStrategy, Tick, Forward, Take, UpdateMarketPrice, vars, daemon
  <1>2. ASSUME NEW i \in Streams, Tick(i) \/ Forward(i), NEW j \in Streams
        PROVE  /\ streams'[j].subs = streams[j].subs
               /\ Closes(j, streams[j].extClosed, streams[j].intClosed)
    BY Zenon, <1>2, TickStep, ForwardStep DEF StreamNow, Closes, OnlyStream
  <1>3. ASSUME NEW k \in Consumers, Take(k), NEW j \in Streams
        PROVE  /\ streams'[j].subs = streams[j].subs
               /\ Closes(j, streams[j].extClosed, streams[j].intClosed)
    BY Zenon, <1>3, TakeStep DEF StreamNow, Closes, OnlyStream
  <1>4. CASE streams' = streams
    BY Zenon, <1>1, <1>4 DEF Closes
  <1>5. streams' # streams => \/ \E i \in Streams : Tick(i) \/ Forward(i)
                              \/ \E k \in Consumers : Take(k)
    BY Zenon DEF DataStep, UpdateMarketStrategy, UpdateMarketPrice, vars
  <1> QED BY Zenon, <1>1, <1>2, <1>3, <1>4, <1>5

\* The kinds of steps.
LEMMA Steps ==
  ASSUME [Next]_vars
  PROVE  \/ RPCBegins \/ \E c \in RPCs : CallStep(c)
         \/ DataStep \/ (up /\ Dies) \/ Restart \/ StartPriceFeeds
  <1>1. CASE Next
    <2>1. ASSUME NEW i \in Streams, Tick(i) \/ Forward(i) PROVE DataStep
      BY Zenon, <2>1 DEF DataStep
    <2>2. ASSUME NEW k \in Consumers, Take(k) \/ UpdateMarketPrice(k) PROVE DataStep
      BY Zenon, <2>2 DEF DataStep
    <2>3. UpdateMarketStrategy => DataStep
      BY Zenon DEF DataStep
    <2>4. \A i \in Streams : ForwardPanics(i) => up /\ Dies
      BY Zenon DEF ForwardPanics
    <2>5. Crash => up /\ Dies
      BY Zenon DEF Crash
    <2> QED BY Zenon, <1>1, <2>1, <2>2, <2>3, <2>4, <2>5 DEF Next, RPCs
  <1>2. CASE UNCHANGED vars
    BY Zenon, <1>2 DEF DataStep
  <1> QED BY Zenon, <1>1, <1>2

\* The order of the boot holds.
LEMMA NextBootInv ==
  ASSUME TypeInv, BootInv, [Next]_vars
  PROVE  BootInv'
  \* Nothing happens in a process that is down.
  <1>DownStays.
    ASSUME TypeInv, BootInv, ~up, [Next]_vars
    PROVE  Restart \/ UNCHANGED vars
    <2> USE <1>DownStays
    <2>1. /\ \A c \in RPCs : ~AtWork(c)
          /\ streams = [i \in Streams |-> ClosedStream]
          /\ consumers = [k \in Consumers |-> NoConsumer]
      BY Zenon DEF BootInv
    <2>2. ~RPCBegins /\ \A c \in RPCs : ~CallStep(c)
      BY Zenon, <2>1, OneRPCBegins, OneRPCMoves DEF Begins, Serving
    <2>3. ~UpdateMarketStrategy /\ ~StartPriceFeeds
      BY Zenon DEF UpdateMarketStrategy, Serving, StartPriceFeeds
    <2>4. \A i \in Streams : ~Tick(i) /\ ~Forward(i)
      BY Zenon, <2>1, NewStreams DEF Tick, Forward
    <2>5. \A k \in Consumers : ~Take(k) /\ ~UpdateMarketPrice(k)
      BY Zenon, <2>1, Fields DEF Take, UpdateMarketPrice
    <2> QED BY Zenon, <2>2, <2>3, <2>4, <2>5, Steps DEF DataStep
  <1> USE DEF BootInv
  <1>1. RPCs = Callers \cup {Boot} /\ Boot \notin Callers /\ NoCall.pc = "idle"
          /\ DOMAIN calls = RPCs
    BY Zenon, FeederAssumption, Fields DEF RPCs, TypeInv, CallsTyped
  <1>2. CASE RPCBegins
    <2>1. PICK c \in Callers : Begins(c) /\ \A d \in RPCs \ {c} : calls'[d] = calls[d]
      BY Zenon, <1>2, OneRPCBegins
    <2>2. UNCHANGED <<active, sources, streams, consumers, booting, up, broken>>
      BY Zenon, <1>2, OneRPCBegins
    <2>3. up /\ ~broken /\ booting = {} /\ ~AtWork(Boot)
      BY Zenon, <1>1, <2>1 DEF Begins, Serving, AtWork
    <2> QED BY Zenon, <1>1, <2>1, <2>2, <2>3 DEF AtWork
  <1>3. ASSUME NEW c \in RPCs, CallStep(c) PROVE BootInv'
    <2>1. /\ AtWork(c) /\ \A d \in RPCs \ {c} : calls'[d] = calls[d]
          /\ UNCHANGED <<booting, up>>
          /\ broken' => broken \/ (c = Boot /\ calls'[c] = NoCall)
      BY Zenon, <1>3, OneRPCMoves
    <2>2. up /\ ~broken
      BY Zenon, <2>1
    <2>3. \A d \in Callers : AtWork(d)' => booting' = {} /\ ~AtWork(Boot)'
      BY Zenon, <1>1, <2>1 DEF AtWork
    <2>4. \A d \in RPCs : AtWork(d)' => up' /\ ~broken'
      <3>1. CASE ~broken'
        BY Zenon, <2>1, <2>2, <3>1
      <3>2. CASE broken'
        <4>1. c = Boot /\ calls'[c] = NoCall
          BY Zenon, <2>1, <2>2, <3>2
        <4> QED BY Zenon, <1>1, <2>1, <4>1 DEF AtWork
      <3> QED BY Zenon, <3>1, <3>2
    <2> QED BY Zenon, <2>1, <2>2, <2>3, <2>4
  <1>4. CASE DataStep
    <2>1. CASE up
      BY <1>4, <2>1, DataSteps DEF AtWork
    <2>2. CASE ~up
      <3>1. CASE UNCHANGED vars
        BY Zenon, <3>1 DEF vars, AtWork
      <3>2. CASE Restart
        BY Zenon, <2>2, <3>2, <1>4, DataSteps DEF Restart
      <3> QED BY Zenon, <2>2, <3>1, <3>2, <1>DownStays
    <2> QED BY Zenon, <2>1, <2>2
  <1>5. CASE Dies
    BY Zenon, <1>1, <1>5 DEF Dies, AtWork
  <1>6. CASE Restart
    BY Zenon, <1>1, <1>6 DEF Restart, AtWork
  <1>7. CASE StartPriceFeeds
    <2>1. PICK f \in booting :
            /\ booting' = booting \ {f}
            /\ \/ \E x : calls' = [calls EXCEPT ![Boot] = x] /\ broken' = broken
               \/ calls' = [calls EXCEPT ![Boot] = NoCall]
      BY Zenon, <1>7 DEF StartPriceFeeds, Fail
    <2>2. up' /\ up /\ ~broken
      BY Zenon, <1>7 DEF StartPriceFeeds
    <2>3. \A d \in Callers : calls'[d] = calls[d] /\ ~AtWork(d)
      BY Zenon, <1>1, <2>1
    <2> QED BY <1>1, <2>1, <2>2, <2>3 DEF AtWork
  <1> QED BY Zenon, <1>2, <1>3, <1>4, <1>5, <1>6, <1>7, Steps

\* At first nothing runs.
LEMMA InitBootInv ==
  ASSUME Init
  PROVE  BootInv
  BY Zenon, Fields DEF Init, BootInv, AtWork, RPCs

-----------------------------------------------------------------------------
(***************************************************************************)
(* What the feeds, the connections and the subscriptions are at each stage *)
(* of an RPC, while RPCs do not overlap and nothing fails.                 *)
(***************************************************************************)
StartedFeeds == {f \in Feeds : Started(f)}

\* The store has the feed as the RPC read it, started or not.
Same(f, copy) ==
  /\ Stored(f) /\ feeds[f].market = copy.market /\ feeds[f].source = copy.source
  /\ feeds[f].ticker = copy.ticker

\* The connections are open, those of the sources of X about to close, and no two
\* sources share one.
SourcesOK(X) ==
  /\ \A s \in Sources : sources[s] # NoStream =>
       /\ ~streams[sources[s]].intClosed
       /\ s \notin X => ~streams[sources[s]].extClosed
  /\ \A s, r \in Sources : sources[s] = sources[r] /\ sources[s] # NoStream => s = r

\* The subscriptions are those of the feeds of S, and the connections those of
\* their sources and of the ones of X.
SubsAre(S, X) ==
  ~shared =>
    /\ \A g \in S : Subscription(g)
    /\ \A s \in Sources : sources[s] # NoStream =>
         /\ \A t \in DOMAIN streams[sources[s]].subs :
              \E g \in S : feeds[g].source = s /\ feeds[g].ticker = t
         /\ s \notin X => \E g \in S : feeds[g].source = s

Rest == active = StartedFeeds \ booting /\ SourcesOK({}) /\ SubsAre(active, {})

Starting == {"startOpen", "subscribe", "startWrite", "activate"}
Stopping == {"stopOpen", "unsubscribe", "stopCheck", "closeExt", "closeInt", "deactivate"}

Stage(c) ==
  LET pc == calls[c].pc
      f == calls[c].feed
      copy == calls[c].copy
      s == copy.source
  IN  /\ pc \in {"insert", "update", "remove", "stopWrite"} => c # Boot /\ Rest
      /\ pc = "insert" => ~Stored(f) /\ ~copy.started
      /\ pc \in {"update", "remove"} => Stored(f) /\ ~Started(f)
      /\ pc = "stopWrite" => Started(f) /\ feeds[f] = copy
      /\ pc = "start" =>
           /\ Stored(f) /\ SourcesOK({}) /\ SubsAre(active, {})
           /\ c # Boot => active = StartedFeeds \ booting
           /\ c = Boot => /\ Started(f) /\ f \notin booting
                          /\ active = StartedFeeds \ (booting \cup {f})
      /\ pc \in Starting =>
           /\ Same(f, copy) /\ f \notin booting /\ SourcesOK({})
           /\ active = StartedFeeds \ (booting \cup {f})
      /\ pc = "activate" => Started(f)
      /\ pc \in {"startOpen", "stopOpen", "unsubscribe"} => SubsAre(active, {})
      /\ pc = "subscribe" => SubsAre(active, {s})
      /\ pc \in {"startWrite", "activate"} => SubsAre(active \cup {f}, {})
      /\ pc \in Stopping =>
           /\ c # Boot /\ Same(f, copy) /\ ~Started(f)
           /\ active = StartedFeeds \cup {f}
           /\ SourcesOK(IF pc = "closeInt" THEN {s} ELSE {})
      /\ pc \in {"stopCheck", "closeExt", "closeInt"} => SubsAre(active \ {f}, {s})
      /\ pc \in {"closeExt", "closeInt"} /\ ~shared =>
           \A g \in active \ {f} : feeds[g].source # s
      /\ pc = "deactivate" => SubsAre(active \ {f}, {})
      /\ pc \in Connected => calls[c].stream = sources[s]
      /\ pc \in Connected \cup {"closeExt"} => sources[s] # NoStream

OneCall == \A c, d \in RPCs : AtWork(c) /\ AtWork(d) => c = d

FeedInv ==
  ~disturbed =>
    /\ OneCall
    /\ booting \subseteq StartedFeeds
    /\ ~shared => ~SharedTicker(feeds)
    /\ \A c \in RPCs : AtWork(c) => Stage(c)
    /\ up /\ ~broken /\ (\A c \in RPCs : ~AtWork(c)) => Rest
    /\ RestartSucceeds

FeederInv == TypeInv /\ BootInv /\ FeedInv

\* What the steps of a call leave at hand.
LEMMA GoesTo ==
  ASSUME TypeInv, NEW c \in RPCs, NEW pc, Goto(c, pc)
  PROVE  /\ calls'[c].pc = pc /\ calls'[c].feed = calls[c].feed
         /\ calls'[c].copy = calls[c].copy /\ calls'[c].stream = calls[c].stream
  <1>1. calls'[c] = Call(pc, calls[c].feed, calls[c].copy, calls[c].stream)
    BY Zenon DEF TypeInv, CallsTyped, Goto
  <1> QED BY <1>1 DEF Call

\* A call that ends is idle and has no connection.
LEMMA Ends ==
  ASSUME TypeInv, NEW c \in RPCs, calls' = [calls EXCEPT ![c] = NoCall]
  PROVE  calls'[c].pc = "idle" /\ calls'[c].stream = NoStream
  <1>1. calls'[c] = NoCall
    BY Zenon DEF TypeInv, CallsTyped
  <1> QED BY Zenon, <1>1, Fields

\* What SubsAre says of the feeds a call leaves active, when they are the feeds of a set S that
\* was fixed before the step.
LEMMA SubsOfActive ==
  ASSUME NEW S, NEW X, active' = S, SubsAre(S, X)'
  PROVE  SubsAre(active, X)'
  BY Zenon DEF SubsAre

\* Subscriptions stay what they are while feeds, sources and connections do.
LEMMA SubsUnchanged ==
  ASSUME NEW S, NEW X, UNCHANGED <<feeds, sources, streams, shared>>, SubsAre(S, X)
  PROVE  SubsAre(S, X)'
  BY DEF SubsAre, Subscription

\* So do those of the active feeds while these stay too.
LEMMA ActiveUnchanged ==
  ASSUME UNCHANGED <<feeds, active, sources, streams, shared>>, SubsAre(active, {})
  PROVE  SubsAre(active, {})'
  BY DEF SubsAre, Subscription

\* The same once a start has connected its source.
LEMMA SubsOfSubscribing ==
  ASSUME NEW c, NEW S, NEW s, active' = S, calls'[c].copy.source = s, SubsAre(S, {s})'
  PROVE  SubsAre(active, {calls[c].copy.source})'
  BY Zenon DEF SubsAre

\* The same once a start has subscribed.
LEMMA SubsOfStarting ==
  ASSUME NEW c, NEW S, active' \cup {calls'[c].feed} = S, SubsAre(S, {})'
  PROVE  SubsAre(active \cup {calls[c].feed}, {})'
  BY DEF SubsAre

\* The same once a stop has unsubscribed.
LEMMA SubsOfStopping ==
  ASSUME NEW c, NEW S, NEW s, active' \ {calls'[c].feed} = S, calls'[c].copy.source = s,
         SubsAre(S, {s})'
  PROVE  SubsAre(active \ {calls[c].feed}, {calls[c].copy.source})'
  BY DEF SubsAre

\* The same once a stop has left its source.
LEMMA SubsOfStopped ==
  ASSUME NEW c, NEW S, active' \ {calls'[c].feed} = S, SubsAre(S, {})'
  PROVE  SubsAre(active \ {calls[c].feed}, {})'
  BY DEF SubsAre

\* What holds while an RPC is at work without a disturbance.
LEMMA Working ==
  ASSUME FeederInv, ~disturbed, NEW c \in RPCs, AtWork(c)
  PROVE  /\ Stage(c) /\ up /\ ~broken
         /\ \A d \in RPCs : AtWork(d) => d = c
         /\ booting \subseteq StartedFeeds
         /\ ~shared => ~SharedTicker(feeds)
         /\ c # Boot => booting = {}
  BY Zenon DEF FeederInv, BootInv, FeedInv, OneCall, RPCs

\* A disturbance is not forgotten.
LEMMA DisturbedStays ==
  ASSUME [Next]_vars, disturbed
  PROVE  disturbed'
  <1>1. CASE RPCBegins
    BY Zenon, <1>1 DEF RPCBegins, AddPriceFeed, UpdatePriceFeed, RemovePriceFeed, Begins,
       StartPriceFeed, StopPriceFeed
  <1>2. ASSUME NEW c \in Callers \cup {Boot}, CallStep(c) PROVE disturbed'
    <2>1. CASE InsertFeed(c) \/ UpdateFeed(c) \/ RemoveFeed(c) \/ StartReads(c)
      BY Zenon, <2>1 DEF InsertFeed, UpdateFeed, RemoveFeed, StartReads, daemon
    <2>2. CASE StartOpens(c) \/ StopOpens(c)
      BY Zenon, <2>2 DEF StartOpens, StopOpens, OpenSource, Fault
    <2>3. CASE StartSubscribes(c) \/ StopUnsubscribes(c)
      BY Zenon, <2>3 DEF StartSubscribes, StopUnsubscribes, Fault
    <2>4. CASE StartWrites(c) \/ StopWrites(c)
      BY Zenon, <2>4 DEF StartWrites, StopWrites, WriteFeed, Fault
    <2>5. CASE StartActivates(c) \/ StopDeactivates(c) \/ StopChecks(c) \/ StopSource(c)
                 \/ CloseChannel(c)
      BY Zenon, <2>5 DEF StartActivates, StopDeactivates, StopChecks, StopSource, CloseChannel,
         daemon
    <2> QED BY Zenon, <1>2, <2>1, <2>2, <2>3, <2>4, <2>5 DEF CallStep
  <1>3. CASE \/ UpdateMarketStrategy \/ Crash \/ Restart \/ StartPriceFeeds
             \/ \E i \in Streams : Tick(i) \/ Forward(i) \/ ForwardPanics(i)
    BY Zenon, <1>3 DEF UpdateMarketStrategy, Tick, Forward, ForwardPanics, Dies, Crash, Restart,
       StartPriceFeeds, Fault, daemon
  <1>4. CASE \E k \in Consumers : Take(k) \/ UpdateMarketPrice(k)
    BY Zenon, <1>4 DEF Take, UpdateMarketPrice, daemon
  <1>5. CASE UNCHANGED vars
    BY Zenon, <1>5 DEF vars
  <1> QED BY Zenon, <1>1, <1>2, <1>3, <1>4, <1>5 DEF Next

\* FeederInv is inductive.
LEMMA NextFeederInv ==
  ASSUME FeederInv, [Next]_vars
  PROVE  FeederInv'
  \* An RPC goes on, and its next stage holds.
  <1>CallMoves.
    ASSUME FeederInv, ~disturbed, NEW c \in RPCs, AtWork(c), CallStep(c),
           AtWork(c)', Stage(c)', booting \subseteq StartedFeeds',
           ~shared' => ~SharedTicker(feeds')
    PROVE  FeedInv'
    <2> USE <1>CallMoves
    <2>1. TypeInv
      BY Zenon DEF FeederInv
    <2>2. /\ \A d \in RPCs \ {c} : calls'[d] = calls[d]
          /\ UNCHANGED <<booting, up>>
          /\ broken' => broken \/ (c = Boot /\ calls'[c] = NoCall)
      BY Zenon, <2>1, OneRPCMoves
    <2>3. \A d \in RPCs : AtWork(d)' => d = c
      BY Zenon, <2>2, Working DEF AtWork
    <2>4. up' /\ ~broken'
      BY Zenon, <2>2, Working, Fields DEF AtWork
    <2> QED BY Zenon, <2>2, <2>3, <2>4 DEF FeedInv, OneCall, RestartSucceeds
  \* An RPC ends, and all is at rest.
  <1>CallEnds.
    ASSUME FeederInv, ~disturbed, NEW c \in RPCs, AtWork(c), CallStep(c),
           Finish(c) \/ (c # Boot /\ Fail(c)), Rest', booting \subseteq StartedFeeds',
           ~shared' => ~SharedTicker(feeds')
    PROVE  FeedInv'
    <2> USE <1>CallEnds
    <2>1. TypeInv /\ DOMAIN calls = RPCs
      BY Zenon DEF FeederInv, TypeInv, CallsTyped
    <2>2. /\ \A d \in RPCs \ {c} : calls'[d] = calls[d]
          /\ UNCHANGED <<booting, up>>
      BY Zenon, <2>1, OneRPCMoves
    <2>3. \A d \in RPCs : ~AtWork(d)'
      BY <2>1, <2>2, Working, Fields DEF AtWork, Finish, Fail
    <2>4. ~broken'
      BY Zenon, Working DEF Finish, Fail
    <2> QED BY Zenon, <2>2, <2>3, <2>4 DEF FeedInv, OneCall, RestartSucceeds
  \* The subscriptions stand while the connections, what they subscribed, and the
  \* feeds that have subscribed stay.
  <1>SubsFrame.
    ASSUME TypeInv, NEW S \in SUBSET Feeds, NEW X, SubsAre(S, X), ~shared' => ~shared,
           sources' = sources, \A i \in Streams : streams'[i].subs = streams[i].subs,
           \A g \in S : /\ Stored(g) /\ feeds'[g].source = feeds[g].source
                        /\ feeds'[g].ticker = feeds[g].ticker
                        /\ feeds'[g].market = feeds[g].market
    PROVE  SubsAre(S, X)'
    <2> USE <1>SubsFrame
    <2> SUFFICES ASSUME ~shared'
                 PROVE  /\ \A g \in S : Subscription(g)'
                        /\ \A s \in Sources : sources[s] # NoStream =>
                             /\ \A t \in DOMAIN streams'[sources[s]].subs :
                                  \E g \in S : feeds[g].source = s /\ feeds[g].ticker = t
                             /\ s \notin X => \E g \in S : feeds[g].source = s
      BY DEF SubsAre
    <2>1. /\ \A g \in S : Subscription(g)
          /\ \A s \in Sources : sources[s] # NoStream =>
               /\ \A t \in DOMAIN streams[sources[s]].subs :
                    \E g \in S : feeds[g].source = s /\ feeds[g].ticker = t
               /\ s \notin X => \E g \in S : feeds[g].source = s
      BY Zenon DEF SubsAre
    <2>2. \A s \in Sources : sources[s] # NoStream => sources[s] \in Streams
      BY Zenon DEF TypeInv, SourcesTyped
    <2>3. \A g \in S : feeds[g].source \in Sources
      BY Zenon DEF TypeInv, FeedsTyped, Stored, FeedRecord
    <2>4. \A g \in S : sources[feeds[g].source] \in Streams
      BY Zenon, <2>1, <2>2, <2>3 DEF Subscription
    <2> QED BY <2>1, <2>2, <2>4 DEF Subscription
  \* A feed that is not started is inserted, changed or removed
  \* (price_feed_repository_impl.go; service.go, UpdatePriceFeed, RemovePriceFeed).
  <1>StoreStep.
    ASSUME FeederInv, ~disturbed, ~disturbed', NEW c \in RPCs,
           InsertFeed(c) \/ UpdateFeed(c) \/ RemoveFeed(c)
    PROVE  FeedInv'
    <2> USE <1>StoreStep
    <2>f. PICK f : f = calls[c].feed
      BY Zenon
    <2>1. /\ CallStep(c) /\ Finish(c) /\ AtWork(c) /\ calls[c].pc \in {"insert", "update", "remove"}
          /\ UNCHANGED <<active, sources, streams, booting>>
      BY Zenon DEF InsertFeed, UpdateFeed, RemoveFeed, CallStep, AtWork, daemon
    <2>2. /\ c # Boot /\ Rest /\ booting = {} /\ f \in Feeds /\ ~Started(f)
          /\ calls[c].pc = "insert" => ~calls[c].copy.started
          /\ calls[c].pc \in {"update", "remove"} => Stored(f)
          /\ ~shared => ~SharedTicker(feeds)
      BY Zenon, <2>f, <2>1, Working, AtHand DEF Stage, FeederInv, Started
    <2>3. feeds \in [Feeds -> FeedRecord \cup {NoFeed}]
      BY Zenon DEF FeederInv, TypeInv, FeedsTyped
    <2>4. PICK x : /\ feeds' = [feeds EXCEPT ![f] = x]
                   /\ x # NoFeed => ~x.started
                   /\ ~shared' => ~shared /\ ~SharedTicker(feeds')
      <3>1. CASE InsertFeed(c)
        BY Zenon, <2>f, <2>2, <3>1 DEF InsertFeed
      <3>2. CASE UpdateFeed(c)
        <4>1. Stored(f) /\ ~feeds[f].started
          BY Zenon, <2>f, <2>2, <3>2 DEF UpdateFeed, Started
        <4>2. ~Feed(feeds[f].market, calls[c].copy.source, calls[c].copy.ticker,
                    feeds[f].started).started
          BY <4>1, Fields
        <4> QED BY Zenon, <2>f, <2>2, <2>3, <3>2, <4>1, <4>2 DEF UpdateFeed
      <3>3. CASE RemoveFeed(c)
        <4>1. feeds' = [feeds EXCEPT ![f] = NoFeed] /\ shared' = shared
          BY Zenon, <2>f, <3>3 DEF RemoveFeed
        <4>2. SharedTicker(feeds') => SharedTicker(feeds)
          BY Zenon, <2>2, <2>3, <4>1 DEF SharedTicker
        <4> QED BY Zenon, <2>2, <4>1, <4>2
      <3> QED BY Zenon, <3>1, <3>2, <3>3
    <2>5. \A g \in Feeds : g # f => feeds'[g] = feeds[g]
      BY Zenon, <2>3, <2>4
    <2>6. ~Started(f)' /\ \A g \in Feeds : Started(g)' <=> Started(g)
      BY Zenon, <2>2, <2>3, <2>4, <2>5 DEF Started, Stored
    <2>7. active' = StartedFeeds' \ booting'
      BY Zenon, <2>1, <2>2, <2>6 DEF Rest, StartedFeeds
    <2>8. SourcesOK({})'
      BY Zenon, <2>1, <2>2 DEF Rest, SourcesOK
    <2>9. \A g \in active : g \in Feeds /\ g # f
      BY Zenon, <2>2 DEF Rest, StartedFeeds
    <2>10. SubsAre(active, {})'
      <3>1. PICK A : A = active
        BY Zenon
      <3>2. A \in SUBSET Feeds /\ SubsAre(A, {}) /\ \A g \in A : Stored(g)
        BY Zenon, <2>2, <2>9, <3>1 DEF Rest, StartedFeeds, Started
      <3>3. SubsAre(A, {})'
        BY Zenon, <2>1, <2>4, <2>5, <2>9, <3>1, <3>2, <1>SubsFrame DEF FeederInv
      <3>4. active' = A
        BY Zenon, <2>1, <3>1
      <3> QED BY Zenon, <3>3, <3>4, SubsOfActive
    <2> QED BY Zenon, <2>1, <2>2, <2>4, <2>7, <2>8, <2>10, <1>CallEnds DEF Rest
  \* A start reads its feed and finds it inactive, or ends (service.go, StartPriceFeed).
  <1>StartReadsStep.
    ASSUME FeederInv, ~disturbed, ~disturbed', NEW c \in RPCs, StartReads(c)
    PROVE  FeedInv'
    <2> USE <1>StartReadsStep
    <2>f. PICK f : f = calls[c].feed
      BY Zenon
    <2>1. /\ CallStep(c) /\ AtWork(c) /\ calls[c].pc = "start"
          /\ UNCHANGED <<feeds, active, sources, streams, booting, shared>>
      BY Zenon DEF StartReads, CallStep, AtWork, daemon
    <2>2. /\ Stage(c) /\ f \in Feeds /\ (c # Boot => booting = {})
          /\ booting \subseteq StartedFeeds /\ (~shared => ~SharedTicker(feeds))
      BY Zenon, <2>f, <2>1, Working, AtHand DEF FeederInv
    <2>3. /\ Stored(f) /\ SourcesOK({}) /\ SubsAre(active, {})
          /\ c # Boot => active = StartedFeeds \ booting
          /\ c = Boot => /\ Started(f) /\ f \notin booting
                         /\ active = StartedFeeds \ (booting \cup {f})
      BY Zenon, <2>f, <2>1, <2>2 DEF Stage
    <2>4. SourcesOK({})' /\ SubsAre(active, {})' /\ StartedFeeds' = StartedFeeds
            /\ SharedTicker(feeds') = SharedTicker(feeds)
      <3>1. SubsAre(active, {})'
        BY Zenon, <2>1, <2>3, ActiveUnchanged
      <3> QED BY Zenon, <2>1, <2>3, <3>1 DEF SourcesOK, StartedFeeds, Started, Stored, SharedTicker
    <2>5. CASE f \in active
      <3>1. c # Boot /\ Fail(c)
        BY Zenon, <2>f, <2>3, <2>5 DEF StartReads
      <3>2. Rest'
        BY Zenon, <2>1, <2>3, <2>4, <3>1 DEF Rest
      <3> QED BY Zenon, <2>1, <2>2, <2>4, <3>1, <3>2, <1>CallEnds
    <2>6. CASE f \notin active
      <3>1. calls' = [calls EXCEPT ![c] = Call("startOpen", f, feeds[f], NoStream)]
        BY Zenon, <2>f, <2>3, <2>6 DEF StartReads
      <3>2. calls'[c].pc = "startOpen" /\ calls'[c].feed = f /\ calls'[c].copy = feeds[f]
        <4>1. calls'[c] = Call("startOpen", f, feeds[f], NoStream)
          BY Zenon, <3>1 DEF FeederInv, TypeInv, CallsTyped
        <4> QED BY <4>1 DEF Call
      <3>4. f \notin booting /\ active = StartedFeeds \ (booting \cup {f})
        BY Zenon, <2>2, <2>3, <2>6
      <3>5. Same(calls[c].feed, calls[c].copy)'
        BY Zenon, <2>1, <2>3, <3>2 DEF Same, Stored
      <3>6. Stage(c)' /\ AtWork(c)'
        BY Zenon, <2>1, <2>4, <3>2, <3>4, <3>5 DEF Stage, AtWork, Starting, Stopping, Connected
      <3> QED BY Zenon, <2>1, <2>2, <2>4, <3>6, <1>CallMoves
    <2> QED BY Zenon, <2>5, <2>6
  \* The connection of a source that has none is new, and takes the place of no other
  \* one (service.go, getPriceFeederBySource).
  <1>OpenKeeps.
    ASSUME TypeInv, ~disturbed', NEW c \in RPCs, NEW pc, NEW f, NEW copy, NEW s, NEW A \in SUBSET Feeds,
           f = calls[c].feed, copy = calls[c].copy, s = copy.source,
           OpenSource(c, pc), calls[c].pc \in Copied,
           SourcesOK({}), SubsAre(A, {}), \A g \in A : Stored(g)
    PROVE  /\ SourcesOK({})' /\ SubsAre(A, {s})'
           /\ sources[s] # NoStream => SubsAre(A, {})'
           /\ sources'[s] # NoStream
           /\ calls'[c] = Call(pc, f, copy, sources'[s])
    <2> USE <1>OpenKeeps
    <2>1. UNCHANGED <<feeds, shared>>
      BY Zenon DEF OpenSource
    <2>2. DOMAIN calls = RPCs /\ DOMAIN sources = Sources /\ s \in Sources /\ NoStream \notin Streams
      BY Zenon, AtHand, FeederAssumption DEF TypeInv, CallsTyped, SourcesTyped
    <2>3. CASE sources[s] \in Streams
      <3>1. /\ calls' = [calls EXCEPT ![c] = Call(pc, f, copy, sources[s])]
            /\ UNCHANGED <<sources, streams>>
        BY Zenon, <2>2, <2>3, OpenStep
      <3>2. SourcesOK({})'
        BY Zenon, <3>1 DEF SourcesOK
      <3>3. SubsAre(A, {})'
        BY Zenon, <2>1, <3>1, <1>SubsFrame
      <3>4. SubsAre(A, {s})'
        BY Zenon, <3>3 DEF SubsAre
      <3> QED BY Zenon, <2>2, <2>3, <3>1, <3>2, <3>3, <3>4
    <2>4. CASE sources[s] = NoStream
      <3>1. PICK i \in Streams :
              /\ FreeStream(i)
              /\ sources' = [sources EXCEPT ![s] = i]
              /\ streams'[i] = NewStream /\ OnlyStream(i)
              /\ calls' = [calls EXCEPT ![c] = Call(pc, f, copy, i)]
        BY Zenon, <2>2, <2>4, OpenStep
      <3>2. streams[i].extClosed
        BY Zenon, <3>1, NewStreams DEF FreeStream, StreamRecord
      <3>3. \A r \in Sources : sources[r] # i
        BY Zenon, <2>2, <3>2 DEF SourcesOK
      <3>4. /\ sources'[s] = i /\ \A r \in Sources \ {s} : sources'[r] = sources[r]
            /\ \A j \in Streams \ {i} : streams'[j] = streams[j]
            /\ \A r \in Sources : sources[r] \in Streams \cup {NoStream}
        BY Zenon, <2>2, <3>1 DEF OnlyStream, TypeInv, SourcesTyped
      <3>5. SourcesOK({})'
        <4>1. \A r \in Sources : sources'[r] # NoStream =>
                ~streams'[sources'[r]].intClosed /\ ~streams'[sources'[r]].extClosed
          BY <3>1, <3>3, <3>4, NewStreams DEF SourcesOK
        <4>2. \A q, r \in Sources : sources'[q] = sources'[r] /\ sources'[q] # NoStream => q = r
          BY <3>3, <3>4 DEF SourcesOK
        <4> QED BY Zenon, <4>1, <4>2 DEF SourcesOK
      <3>6. SubsAre(A, {s})'
        <4> SUFFICES ASSUME ~shared'
                     PROVE  /\ \A g \in A : Subscription(g)'
                            /\ \A r \in Sources : sources'[r] # NoStream =>
                                 /\ \A t \in DOMAIN streams'[sources'[r]].subs :
                                      \E g \in A : feeds'[g].source = r /\ feeds'[g].ticker = t
                                 /\ r \notin {s} => \E g \in A : feeds'[g].source = r
          BY Zenon DEF SubsAre
        <4>1. /\ \A g \in A : Subscription(g)
              /\ \A r \in Sources : sources[r] # NoStream =>
                   /\ \A t \in DOMAIN streams[sources[r]].subs :
                        \E g \in A : feeds[g].source = r /\ feeds[g].ticker = t
                   /\ \E g \in A : feeds[g].source = r
          BY Zenon, <2>1 DEF SubsAre
        <4>2. \A g \in A : feeds[g].source \in Sources \ {s}
          BY <2>4, <4>1 DEF TypeInv, FeedsTyped, Stored, FeedRecord, Subscription
        <4>3. ASSUME NEW g \in A
              PROVE  Subscription(g)'
          <5>1. feeds[g].source \in Sources \ {s} /\ Subscription(g) /\ feeds' = feeds
            BY Zenon, <2>1, <4>1, <4>2
          <5>2. /\ sources'[feeds[g].source] = sources[feeds[g].source]
                /\ sources[feeds[g].source] \in Streams \ {i}
            BY Zenon, <3>3, <3>4, <5>1 DEF Subscription
          <5>3. streams'[sources[feeds[g].source]] = streams[sources[feeds[g].source]]
            BY Zenon, <3>4, <5>2
          <5> QED BY Zenon, <5>1, <5>2, <5>3 DEF Subscription
        <4>4. DOMAIN streams'[i].subs = {}
          BY <3>1, NewStreams
        <4> QED BY <2>1, <3>3, <3>4, <4>1, <4>3, <4>4
      <3> QED BY Zenon, <2>2, <2>4, <3>1, <3>4, <3>5, <3>6
    <2> QED BY Zenon, <2>2, <2>3, <2>4, AtHand
  \* A start gets the connection of its source.
  <1>StartOpensStep.
    ASSUME FeederInv, ~disturbed, ~disturbed', NEW c \in RPCs, StartOpens(c)
    PROVE  FeedInv'
    <2> USE <1>StartOpensStep
    <2>1. PICK f, copy, s, A : f = calls[c].feed /\ copy = calls[c].copy /\ s = copy.source
                                 /\ A = active
      BY Zenon
    <2>2. /\ CallStep(c) /\ AtWork(c) /\ calls[c].pc = "startOpen" /\ OpenSource(c, "subscribe")
          /\ UNCHANGED <<feeds, active, booting, shared>> /\ calls[c].pc \in Copied /\ TypeInv
      BY Zenon DEF StartOpens, OpenSource, CallStep, AtWork, daemon, Copied, FeederInv
    <2>3. /\ Stage(c) /\ booting \subseteq StartedFeeds /\ (~shared => ~SharedTicker(feeds))
      BY Zenon, <2>2, Working
    <2>4. /\ Same(f, copy) /\ f \notin booting /\ SourcesOK({}) /\ SubsAre(active, {})
          /\ active = StartedFeeds \ (booting \cup {f})
      BY Zenon, <2>1, <2>2, <2>3 DEF Stage, Starting
    <2>5. A \in SUBSET Feeds /\ SubsAre(A, {}) /\ \A g \in A : Stored(g)
      BY Zenon, <2>1, <2>4 DEF StartedFeeds, Started
    <2>6. /\ SourcesOK({})' /\ SubsAre(A, {s})' /\ sources'[s] # NoStream
          /\ calls'[c] = Call("subscribe", f, copy, sources'[s])
      BY <2>1, <2>2, <2>4, <2>5, <1>OpenKeeps
    <2>7. /\ calls'[c].pc = "subscribe" /\ calls'[c].feed = f /\ calls'[c].copy = copy
          /\ calls'[c].stream = sources'[s]
      BY <2>6 DEF Call
    <2>8. SubsAre(active, {calls[c].copy.source})'
      <3>1. active' = A /\ calls'[c].copy.source = s
        BY Zenon, <2>1, <2>2, <2>7
      <3> QED BY Zenon, <2>6, <3>1, SubsOfSubscribing
    <2>9. Same(calls[c].feed, calls[c].copy)' /\ StartedFeeds' = StartedFeeds
            /\ SharedTicker(feeds') = SharedTicker(feeds)
      BY Zenon, <2>2, <2>4, <2>7 DEF Same, Stored, StartedFeeds, Started, SharedTicker
    <2>10. Stage(c)' /\ AtWork(c)'
      BY Zenon, <2>1, <2>2, <2>4, <2>6, <2>7, <2>8, <2>9
         DEF Stage, AtWork, Starting, Stopping, Connected
    <2> QED BY Zenon, <2>2, <2>3, <2>9, <2>10, <1>CallMoves
  \* A stop gets the connection of its source.
  <1>StopOpensStep.
    ASSUME FeederInv, ~disturbed, ~disturbed', NEW c \in RPCs, StopOpens(c)
    PROVE  FeedInv'
    <2> USE <1>StopOpensStep
    <2>1. PICK f, copy, s, A : f = calls[c].feed /\ copy = calls[c].copy /\ s = copy.source
                                 /\ A = active
      BY Zenon
    <2>2. /\ CallStep(c) /\ AtWork(c) /\ calls[c].pc = "stopOpen" /\ OpenSource(c, "unsubscribe")
          /\ UNCHANGED <<feeds, active, booting, shared>> /\ calls[c].pc \in Copied /\ TypeInv
      BY Zenon DEF StopOpens, OpenSource, CallStep, AtWork, daemon, Copied, FeederInv
    <2>3. /\ Stage(c) /\ booting \subseteq StartedFeeds /\ (~shared => ~SharedTicker(feeds))
          /\ f \in Feeds
      BY Zenon, <2>1, <2>2, Working, AtHand
    <2>4. /\ c # Boot /\ Same(f, copy) /\ ~Started(f) /\ SourcesOK({}) /\ SubsAre(active, {})
          /\ active = StartedFeeds \cup {f}
      BY Zenon, <2>1, <2>2, <2>3 DEF Stage, Stopping
    <2>5. A \in SUBSET Feeds /\ SubsAre(A, {}) /\ \A g \in A : Stored(g)
      <3>1. A = StartedFeeds \cup {f} /\ Stored(f)
        BY Zenon, <2>1, <2>4 DEF Same
      <3>2. A \in SUBSET Feeds /\ \A g \in A : Stored(g)
        BY Zenon, <2>3, <3>1 DEF StartedFeeds, Started
      <3> QED BY Zenon, <2>1, <2>4, <3>2
    <2>6. /\ SourcesOK({})' /\ SubsAre(A, {s})' /\ (sources[s] # NoStream => SubsAre(A, {})')
          /\ sources'[s] # NoStream /\ calls'[c] = Call("unsubscribe", f, copy, sources'[s])
      BY <2>1, <2>2, <2>4, <2>5, <1>OpenKeeps
    <2>7. /\ calls'[c].pc = "unsubscribe" /\ calls'[c].feed = f /\ calls'[c].copy = copy
          /\ calls'[c].stream = sources'[s]
      BY <2>6 DEF Call
    <2>8. SubsAre(active, {})'
      <3>1. CASE shared'
        BY Zenon, <3>1 DEF SubsAre
      <3>2. CASE ~shared'
        <4>1. Subscription(f)
          BY Zenon, <2>2, <2>4, <3>2 DEF SubsAre
        <4>2. sources[s] # NoStream
          BY Zenon, <2>1, <2>4, <4>1 DEF Subscription, Same
        <4>3. active' = A /\ SubsAre(A, {})'
          BY Zenon, <2>1, <2>2, <2>6, <4>2
        <4> QED BY Zenon, <4>3, SubsOfActive
      <3> QED BY Zenon, <3>1, <3>2
    <2>9. Same(calls[c].feed, calls[c].copy)' /\ StartedFeeds' = StartedFeeds
            /\ SharedTicker(feeds') = SharedTicker(feeds) /\ ~Started(calls[c].feed)'
      BY Zenon, <2>2, <2>4, <2>7 DEF Same, Stored, StartedFeeds, Started, SharedTicker
    <2>10. Stage(c)' /\ AtWork(c)'
      BY Zenon, <2>1, <2>2, <2>4, <2>6, <2>7, <2>8, <2>9
         DEF Stage, AtWork, Starting, Stopping, Connected
    <2> QED BY Zenon, <2>2, <2>3, <2>9, <2>10, <1>CallMoves
  \* A step on the stream of a source leaves the connections open.
  <1>SourcesFrame.
    ASSUME NEW X, SourcesOK(X), TypeInv, sources' = sources,
           \A i \in Streams : Closes(i, streams[i].extClosed, streams[i].intClosed)
    PROVE  SourcesOK(X)'
    <2> USE <1>SourcesFrame
    <2>1. \A s \in Sources : sources[s] # NoStream => sources[s] \in Streams
      BY Zenon DEF TypeInv, SourcesTyped
    <2> QED BY Zenon, <2>1 DEF SourcesOK, Closes
  \* A start subscribes its ticker; without shared tickers it was not subscribed for
  \* another market (service.go, StartPriceFeed; pkg/price-feeder, SubscribeMarkets).
  <1>StartSubscribesStep.
    ASSUME FeederInv, ~disturbed, ~disturbed', NEW c \in RPCs, StartSubscribes(c)
    PROVE  FeedInv'
    <2> USE <1>StartSubscribesStep
    <2>1. PICK f, copy, s, i, A : f = calls[c].feed /\ copy = calls[c].copy /\ s = copy.source
                                    /\ i = calls[c].stream /\ A = active
      BY Zenon
    <2>2. /\ CallStep(c) /\ AtWork(c) /\ calls[c].pc = "subscribe" /\ TypeInv
          /\ UNCHANGED <<feeds, active, sources, booting, shared>>
          /\ calls[c].pc \in Copied /\ calls[c].pc \in Connected
      BY Zenon DEF StartSubscribes, CallStep, AtWork, daemon, Copied, Connected, FeederInv
    <2>3. /\ Stage(c) /\ booting \subseteq StartedFeeds /\ (~shared => ~SharedTicker(feeds))
          /\ f \in Feeds /\ s \in Sources /\ i \in Streams
      BY Zenon, <2>1, <2>2, Working, AtHand
    <2>4. /\ Same(f, copy) /\ f \notin booting /\ SourcesOK({}) /\ SubsAre(A, {s})
          /\ active = StartedFeeds \ (booting \cup {f}) /\ i = sources[s] /\ sources[s] # NoStream
      <3>1. SubsAre(active, {calls[c].copy.source})
        BY Zenon, <2>2, <2>3 DEF Stage
      <3>2. SubsAre(A, {s})
        BY Zenon, <2>1, <3>1
      <3> QED BY Zenon, <2>1, <2>2, <2>3, <3>2 DEF Stage, Starting
    <2>5. ~streams[i].extClosed
      BY Zenon, <2>3, <2>4 DEF SourcesOK
    <2>6. /\ streams'[i].subs = Adding(streams[i].subs, copy.ticker, copy.market)
          /\ Closes(i, streams[i].extClosed, streams[i].intClosed) /\ OnlyStream(i)
          /\ Goto(c, "startWrite")
      BY Zenon, <2>1, <2>2, <2>5, SubscribeStep DEF StreamNow
    <2>7. /\ calls'[c].pc = "startWrite" /\ calls'[c].feed = f /\ calls'[c].copy = copy
          /\ calls'[c].stream = i
      BY Zenon, <2>1, <2>2, <2>6, GoesTo
    <2>8. SourcesOK({})'
      <3>1. \A j \in Streams : Closes(j, streams[j].extClosed, streams[j].intClosed)
        BY Zenon, <2>6 DEF OnlyStream, Closes
      <3> QED BY Zenon, <2>2, <2>4, <3>1, <1>SourcesFrame
    <2>9. ASSUME ~shared'
          PROVE  /\ \A g \in A \cup {f} : Subscription(g)'
                 /\ \A r \in Sources : sources'[r] # NoStream =>
                      /\ \A t \in DOMAIN streams'[sources'[r]].subs :
                           \E g \in A \cup {f} : feeds'[g].source = r /\ feeds'[g].ticker = t
                      /\ \E g \in A \cup {f} : feeds'[g].source = r
      <3>1. /\ \A g \in A : Subscription(g)
            /\ \A r \in Sources : sources[r] # NoStream =>
                 /\ \A t \in DOMAIN streams[sources[r]].subs :
                      \E g \in A : feeds[g].source = r /\ feeds[g].ticker = t
                 /\ r # s => \E g \in A : feeds[g].source = r
        BY Zenon, <2>2, <2>4, <2>9 DEF SubsAre
      <3>2. \A g \in A : /\ g \in Feeds /\ g # f /\ feeds[g] # NoFeed
                         /\ feeds[g].source \in Sources
        BY Zenon, <2>1, <2>2, <2>4 DEF StartedFeeds, Started, Stored, TypeInv, FeedsTyped, FeedRecord
      <3>3. copy.ticker \notin DOMAIN streams[i].subs
        <4>1. \A g \in A : feeds[g].ticker # copy.ticker
          BY Zenon, <2>2, <2>3, <2>4, <2>9, <3>2 DEF SharedTicker, Same, Stored
        <4> QED BY <2>3, <2>4, <3>1, <4>1
      <3>4. /\ DOMAIN streams'[i].subs = DOMAIN streams[i].subs \cup {copy.ticker}
            /\ \A t \in DOMAIN streams[i].subs : streams'[i].subs[t] = streams[i].subs[t]
            /\ streams'[i].subs[copy.ticker] = copy.market
        BY Zenon, <2>6, <3>3 DEF Adding
      <3>5. /\ \A j \in Streams \ {i} : streams'[j] = streams[j]
            /\ \A r \in Sources : sources[r] \in Streams \cup {NoStream}
            /\ \A r \in Sources : r # s => sources[r] # i
        BY Zenon, <2>2, <2>3, <2>4, <2>6 DEF OnlyStream, TypeInv, SourcesTyped, SourcesOK
      <3>6. ASSUME NEW g \in A
            PROVE  Subscription(g)'
        <4>1. /\ sources[feeds[g].source] \in Streams
              /\ feeds[g].ticker \in DOMAIN streams[sources[feeds[g].source]].subs
              /\ streams[sources[feeds[g].source]].subs[feeds[g].ticker] = feeds[g].market
          BY ZenonT(30), <3>1, <3>2, <3>5 DEF Subscription
        <4>2. CASE sources[feeds[g].source] = i
          BY Zenon, <2>2, <2>4, <3>4, <4>1, <4>2 DEF Subscription
        <4>3. CASE sources[feeds[g].source] # i
          BY Zenon, <2>2, <3>1, <3>5, <4>1, <4>3 DEF Subscription
        <4> QED BY Zenon, <4>2, <4>3
      <3>7. Subscription(f)'
        BY Zenon, <2>1, <2>2, <2>4, <3>4 DEF Subscription, Same
      <3>8. ASSUME NEW r \in Sources, sources[r] # NoStream
            PROVE  /\ \A t \in DOMAIN streams'[sources[r]].subs :
                        \E g \in A \cup {f} : feeds[g].source = r /\ feeds[g].ticker = t
                   /\ \E g \in A \cup {f} : feeds[g].source = r
        <4>1. CASE r = s
          <5>1. feeds[f].source = s /\ feeds[f].ticker = copy.ticker
            BY Zenon, <2>1, <2>4 DEF Same
          <5>2. ASSUME NEW t \in DOMAIN streams'[i].subs
                PROVE  \E g \in A \cup {f} : feeds[g].source = s /\ feeds[g].ticker = t
            <6>1. CASE t = copy.ticker
              BY Zenon, <5>1, <6>1
            <6>2. CASE t \in DOMAIN streams[i].subs
              BY <2>3, <2>4, <3>1, <6>2
            <6> QED BY Zenon, <3>4, <5>2, <6>1, <6>2
          <5> QED BY Zenon, <2>4, <4>1, <5>1, <5>2
        <4>2. CASE r # s
          <5>1. streams'[sources[r]] = streams[sources[r]]
            BY Zenon, <3>5, <3>8, <4>2
          <5> QED BY <3>1, <3>8, <4>2, <5>1
        <4> QED BY Zenon, <4>1, <4>2
      <3> QED BY <2>2, <3>6, <3>7, <3>8
    <2>10. SubsAre(active \cup {calls[c].feed}, {})'
      <3>1. PICK S : S = A \cup {f}
        BY Zenon
      <3>2. active' \cup {calls'[c].feed} = S
        BY Zenon, <2>1, <2>2, <2>7, <3>1
      <3>3. SubsAre(S, {})'
        BY Zenon, <2>9, <3>1 DEF SubsAre
      <3> QED BY Zenon, <3>2, <3>3, SubsOfStarting
    <2>11. Same(calls[c].feed, calls[c].copy)' /\ StartedFeeds' = StartedFeeds
            /\ SharedTicker(feeds') = SharedTicker(feeds)
      BY Zenon, <2>2, <2>4, <2>7 DEF Same, Stored, StartedFeeds, Started, SharedTicker
    <2>12. Stage(c)' /\ AtWork(c)'
      BY Zenon, <2>1, <2>2, <2>4, <2>7, <2>8, <2>10, <2>11
         DEF Stage, AtWork, Starting, Stopping, Connected
    <2> QED BY Zenon, <2>2, <2>3, <2>11, <2>12, <1>CallMoves
  \* The store gets the copy of an RPC, started or stopped: the feed keeps its market,
  \* source and ticker (service.go, StartPriceFeed, StopPriceFeed).
  <1>WriteKeeps.
    ASSUME TypeInv, ~disturbed', NEW c \in RPCs, NEW b \in BOOLEAN, NEW pc, NEW f, NEW copy,
           f = calls[c].feed, copy = calls[c].copy, f \in Feeds, WriteFeed(c, b, pc),
           Same(f, copy)
    PROVE  /\ Same(f, copy)' /\ Goto(c, pc)
           /\ \A g \in Feeds \ {f} : feeds'[g] = feeds[g]
           /\ StartedFeeds' = (StartedFeeds \ {f}) \cup (IF b THEN {f} ELSE {})
           /\ SharedTicker(feeds') => SharedTicker(feeds)
    <2> USE <1>WriteKeeps
    <2>1. feeds \in [Feeds -> FeedRecord \cup {NoFeed}] /\ feeds[f] \in FeedRecord
      BY Zenon DEF TypeInv, FeedsTyped, Same, Stored
    <2>2. feeds' = [feeds EXCEPT ![f] = Feed(copy.market, copy.source, copy.ticker, b)]
            /\ Goto(c, pc)
      BY Zenon DEF WriteFeed, Fault, Same, Stored
    <2>3. /\ copy.market \in Markets /\ copy.source \in Sources /\ copy.ticker \in Tickers
      BY Zenon, <2>1 DEF Same, FeedRecord
    <2>4. /\ feeds'[f] # NoFeed /\ feeds'[f].market = copy.market
          /\ feeds'[f].source = copy.source /\ feeds'[f].ticker = copy.ticker
          /\ feeds'[f].started = b
      <3>1. feeds'[f] = Feed(copy.market, copy.source, copy.ticker, b)
        BY Zenon, <2>1, <2>2
      <3>2. feeds'[f] # NoFeed
        BY Zenon, <2>3, <3>1, FeedTyped
      <3>3. /\ feeds'[f].market = copy.market /\ feeds'[f].source = copy.source
            /\ feeds'[f].ticker = copy.ticker /\ feeds'[f].started = b
        BY <3>1, FeedFields
      <3> QED BY Zenon, <3>2, <3>3
    <2>5. \A g \in Feeds \ {f} : feeds'[g] = feeds[g]
      BY Zenon, <2>1, <2>2
    <2>6. Same(f, copy)'
      BY Zenon, <2>4 DEF Same, Stored
    <2>7. StartedFeeds' = (StartedFeeds \ {f}) \cup (IF b THEN {f} ELSE {})
      BY Zenon, <2>4, <2>5 DEF StartedFeeds, Started, Stored
    <2>8. feeds[f] # NoFeed /\ feeds'[f].ticker = feeds[f].ticker
      BY Zenon, <2>4 DEF Same, Stored
    <2>9. SharedTicker(feeds') => SharedTicker(feeds)
      <3>1. \A g \in Feeds : feeds'[g] # NoFeed => feeds[g] # NoFeed /\ feeds'[g].ticker = feeds[g].ticker
        BY Zenon, <2>5, <2>8
      <3> QED BY Zenon, <3>1 DEF SharedTicker
    <2> QED BY Zenon, <2>2, <2>5, <2>6, <2>7, <2>9
  \* A start stores its feed as started.
  <1>StartWritesStep.
    ASSUME FeederInv, ~disturbed, ~disturbed', NEW c \in RPCs, StartWrites(c)
    PROVE  FeedInv'
    <2> USE <1>StartWritesStep
    <2>1. PICK f, copy, s, S : f = calls[c].feed /\ copy = calls[c].copy /\ s = copy.source
                                 /\ S = active \cup {f}
      BY Zenon
    <2>2. /\ CallStep(c) /\ AtWork(c) /\ calls[c].pc = "startWrite" /\ TypeInv
          /\ UNCHANGED <<active, sources, streams, booting, shared>>
          /\ WriteFeed(c, TRUE, "activate")
      BY Zenon DEF StartWrites, WriteFeed, CallStep, AtWork, daemon, FeederInv
    <2>3. /\ Stage(c) /\ booting \subseteq StartedFeeds /\ (~shared => ~SharedTicker(feeds))
          /\ f \in Feeds
      BY Zenon, <2>1, <2>2, Working, AtHand
    <2>4. /\ Same(f, copy) /\ f \notin booting /\ SourcesOK({}) /\ SubsAre(S, {})
          /\ active = StartedFeeds \ (booting \cup {f})
          /\ calls[c].stream = sources[s] /\ sources[s] # NoStream
      <3>1. SubsAre(active \cup {calls[c].feed}, {})
        BY Zenon, <2>2, <2>3 DEF Stage
      <3>2. SubsAre(S, {})
        BY Zenon, <2>1, <3>1
      <3> QED BY Zenon, <2>1, <2>2, <2>3, <3>2 DEF Stage, Starting, Connected
    <2>5. /\ Same(f, copy)' /\ Goto(c, "activate")
          /\ \A g \in Feeds \ {f} : feeds'[g] = feeds[g]
          /\ StartedFeeds' = StartedFeeds \cup {f}
          /\ SharedTicker(feeds') => SharedTicker(feeds)
      BY Zenon, <2>1, <2>2, <2>3, <2>4, <1>WriteKeeps
    <2>6. /\ calls'[c].pc = "activate" /\ calls'[c].feed = f /\ calls'[c].copy = copy
          /\ calls'[c].stream = calls[c].stream
      BY Zenon, <2>1, <2>2, <2>5, GoesTo
    <2>7. SourcesOK({})'
      BY Zenon, <2>2, <2>4 DEF SourcesOK
    <2>8. S \in SUBSET Feeds /\ \A g \in S : Stored(g)
      BY Zenon, <2>1, <2>3, <2>4 DEF StartedFeeds, Started, Same
    <2>9. SubsAre(S, {})'
      <3>1. \A g \in S : /\ feeds'[g].source = feeds[g].source
                         /\ feeds'[g].ticker = feeds[g].ticker
                         /\ feeds'[g].market = feeds[g].market
        BY Zenon, <2>4, <2>5, <2>8 DEF Same
      <3> QED BY Zenon, <2>2, <2>4, <2>8, <3>1, <1>SubsFrame
    <2>10. SubsAre(active \cup {calls[c].feed}, {})'
      <3>1. active' \cup {calls'[c].feed} = S
        BY Zenon, <2>1, <2>2, <2>6
      <3> QED BY Zenon, <2>9, <3>1, SubsOfStarting
    <2>11. Same(calls[c].feed, calls[c].copy)' /\ Started(calls[c].feed)'
      BY Zenon, <2>3, <2>5, <2>6 DEF Same, Stored, StartedFeeds, Started
    <2>12. active' = StartedFeeds' \ (booting' \cup {f}) /\ booting \subseteq StartedFeeds'
      BY Zenon, <2>2, <2>3, <2>4, <2>5
    <2>13. Stage(c)' /\ AtWork(c)'
      BY Zenon, <2>1, <2>2, <2>4, <2>6, <2>7, <2>10, <2>11, <2>12
         DEF Stage, AtWork, Starting, Stopping, Connected
    <2> QED BY Zenon, <2>2, <2>3, <2>5, <2>12, <2>13, <1>CallMoves
  \* A start makes its feed active, and ends.
  <1>StartActivatesStep.
    ASSUME FeederInv, ~disturbed, ~disturbed', NEW c \in RPCs, StartActivates(c)
    PROVE  FeedInv'
    <2> USE <1>StartActivatesStep
    <2>1. PICK f, S : f = calls[c].feed /\ S = active \cup {f}
      BY Zenon
    <2>2. /\ CallStep(c) /\ AtWork(c) /\ calls[c].pc = "activate" /\ TypeInv /\ Finish(c)
          /\ UNCHANGED <<feeds, sources, streams, booting, shared>> /\ active' = S
      BY Zenon, <2>1 DEF StartActivates, CallStep, AtWork, daemon, FeederInv
    <2>3. /\ Stage(c) /\ booting \subseteq StartedFeeds /\ (~shared => ~SharedTicker(feeds))
          /\ f \in Feeds
      BY Zenon, <2>1, <2>2, Working, AtHand
    <2>4. /\ Started(f) /\ f \notin booting /\ SourcesOK({})
          /\ active = StartedFeeds \ (booting \cup {f})
          /\ SubsAre(active \cup {calls[c].feed}, {})
      BY Zenon, <2>1, <2>2, <2>3 DEF Stage, Starting
    <2>5. StartedFeeds' = StartedFeeds /\ SharedTicker(feeds') = SharedTicker(feeds)
            /\ SourcesOK({})'
      BY Zenon, <2>2, <2>4 DEF StartedFeeds, Started, Stored, SharedTicker, SourcesOK
    <2>6. SubsAre(active, {})'
      <3>1. active \cup {calls[c].feed} = S
        BY Zenon, <2>1
      <3>2. SubsAre(S, {})
        BY Zenon, <2>4, <3>1
      <3>3. SubsAre(S, {})'
        BY Zenon, <2>2, <3>2, SubsUnchanged
      <3> QED BY Zenon, <2>2, <3>3, SubsOfActive
    <2>7. Rest'
      BY Zenon, <2>1, <2>2, <2>3, <2>4, <2>5, <2>6 DEF Rest, StartedFeeds
    <2> QED BY Zenon, <2>2, <2>3, <2>5, <2>7, <1>CallEnds
  \* A stop stores its feed as stopped.
  <1>StopWritesStep.
    ASSUME FeederInv, ~disturbed, ~disturbed', NEW c \in RPCs, StopWrites(c)
    PROVE  FeedInv'
    <2> USE <1>StopWritesStep
    <2>1. PICK f, copy, A : f = calls[c].feed /\ copy = calls[c].copy /\ A = active
      BY Zenon
    <2>2. /\ CallStep(c) /\ AtWork(c) /\ calls[c].pc = "stopWrite" /\ TypeInv
          /\ UNCHANGED <<active, sources, streams, booting, shared>>
          /\ WriteFeed(c, FALSE, "stopOpen")
      BY Zenon DEF StopWrites, WriteFeed, CallStep, AtWork, daemon, FeederInv
    <2>3. /\ Stage(c) /\ booting = {} /\ (~shared => ~SharedTicker(feeds)) /\ f \in Feeds
          /\ c # Boot
      BY Zenon, <2>1, <2>2, Working, AtHand DEF Stage
    <2>4. Started(f) /\ feeds[f] = copy /\ Rest
      BY Zenon, <2>1, <2>2, <2>3 DEF Stage
    <2>5. Same(f, copy) /\ f \in active /\ active = StartedFeeds /\ SourcesOK({})
      BY Zenon, <2>3, <2>4 DEF Same, Started, Rest, StartedFeeds
    <2>6. /\ Same(f, copy)' /\ Goto(c, "stopOpen")
          /\ \A g \in Feeds \ {f} : feeds'[g] = feeds[g]
          /\ StartedFeeds' = StartedFeeds \ {f}
          /\ SharedTicker(feeds') => SharedTicker(feeds)
      BY Zenon, <2>1, <2>2, <2>3, <2>5, <1>WriteKeeps
    <2>7. calls'[c].pc = "stopOpen" /\ calls'[c].feed = f /\ calls'[c].copy = copy
      BY Zenon, <2>1, <2>2, <2>6, GoesTo
    <2>8. SourcesOK({})'
      BY Zenon, <2>2, <2>5 DEF SourcesOK
    <2>9. A \in SUBSET Feeds /\ SubsAre(A, {}) /\ \A g \in A : Stored(g)
      BY Zenon, <2>1, <2>4, <2>5 DEF StartedFeeds, Started, Rest
    <2>10. SubsAre(A, {})'
      <3>1. \A g \in A : /\ feeds'[g].source = feeds[g].source
                         /\ feeds'[g].ticker = feeds[g].ticker
                         /\ feeds'[g].market = feeds[g].market
        BY Zenon, <2>5, <2>6, <2>9 DEF Same
      <3> QED BY Zenon, <2>2, <2>9, <3>1, <1>SubsFrame
    <2>11. SubsAre(active, {})'
      <3>1. active' = A
        BY Zenon, <2>1, <2>2
      <3> QED BY Zenon, <2>10, <3>1, SubsOfActive
    <2>12. Same(calls[c].feed, calls[c].copy)' /\ ~Started(calls[c].feed)'
      BY Zenon, <2>3, <2>6, <2>7 DEF Same, Stored, StartedFeeds, Started
    <2>13. active' = StartedFeeds' \cup {f} /\ booting \subseteq StartedFeeds'
      BY Zenon, <2>2, <2>3, <2>5, <2>6
    <2>14. Stage(c)' /\ AtWork(c)'
      BY Zenon, <2>2, <2>3, <2>7, <2>8, <2>11, <2>12, <2>13
         DEF Stage, AtWork, Starting, Stopping, Connected
    <2> QED BY Zenon, <2>2, <2>3, <2>6, <2>13, <2>14, <1>CallMoves
  \* A stop takes its ticker off; without shared tickers the other feeds keep theirs
  \* (service.go, StopPriceFeed; pkg/price-feeder, UnsubscribeMarkets).
  <1>StopUnsubscribesStep.
    ASSUME FeederInv, ~disturbed, ~disturbed', NEW c \in RPCs, StopUnsubscribes(c)
    PROVE  FeedInv'
    <2> USE <1>StopUnsubscribesStep
    <2>1. PICK f, copy, s, i, S : f = calls[c].feed /\ copy = calls[c].copy /\ s = copy.source
                                    /\ i = calls[c].stream /\ S = active \ {f}
      BY Zenon
    <2>2. /\ CallStep(c) /\ AtWork(c) /\ calls[c].pc = "unsubscribe" /\ TypeInv
          /\ UNCHANGED <<feeds, active, sources, booting, shared>>
          /\ calls[c].pc \in Copied /\ calls[c].pc \in Connected
      BY Zenon DEF StopUnsubscribes, CallStep, AtWork, daemon, Copied, Connected, FeederInv
    <2>3. /\ Stage(c) /\ booting \subseteq StartedFeeds /\ (~shared => ~SharedTicker(feeds))
          /\ f \in Feeds /\ s \in Sources /\ i \in Streams
      BY Zenon, <2>1, <2>2, Working, AtHand
    <2>4. /\ c # Boot /\ Same(f, copy) /\ ~Started(f) /\ SourcesOK({}) /\ SubsAre(active, {})
          /\ active = StartedFeeds \cup {f} /\ i = sources[s] /\ sources[s] # NoStream
      BY Zenon, <2>1, <2>2, <2>3 DEF Stage, Stopping
    <2>5. ~streams[i].extClosed
      BY Zenon, <2>3, <2>4 DEF SourcesOK
    <2>6. /\ streams'[i].subs = Restrict(streams[i].subs, DOMAIN streams[i].subs \ {copy.ticker})
          /\ Closes(i, streams[i].extClosed, streams[i].intClosed) /\ OnlyStream(i)
          /\ Goto(c, "stopCheck")
      BY Zenon, <2>1, <2>2, <2>5, UnsubscribeStep DEF StreamNow
    <2>7. /\ calls'[c].pc = "stopCheck" /\ calls'[c].feed = f /\ calls'[c].copy = copy
          /\ calls'[c].stream = i
      BY Zenon, <2>1, <2>2, <2>6, GoesTo
    <2>8. SourcesOK({})'
      <3>1. \A j \in Streams : Closes(j, streams[j].extClosed, streams[j].intClosed)
        BY Zenon, <2>6 DEF OnlyStream, Closes
      <3> QED BY Zenon, <2>2, <2>4, <3>1, <1>SourcesFrame
    <2>9. ASSUME ~shared'
          PROVE  /\ \A g \in S : Subscription(g)'
                 /\ \A r \in Sources : sources'[r] # NoStream =>
                      /\ \A t \in DOMAIN streams'[sources'[r]].subs :
                           \E g \in S : feeds'[g].source = r /\ feeds'[g].ticker = t
                      /\ r # s => \E g \in S : feeds'[g].source = r
      <3>1. /\ \A g \in active : Subscription(g)
            /\ \A r \in Sources : sources[r] # NoStream =>
                 /\ \A t \in DOMAIN streams[sources[r]].subs :
                      \E g \in active : feeds[g].source = r /\ feeds[g].ticker = t
                 /\ \E g \in active : feeds[g].source = r
        BY Zenon, <2>2, <2>4, <2>9 DEF SubsAre
      <3>2. \A g \in S : /\ g \in Feeds /\ g # f /\ g \in active /\ feeds[g] # NoFeed
                         /\ feeds[g].source \in Sources
        BY Zenon, <2>1, <2>2, <2>4 DEF StartedFeeds, Started, Stored, TypeInv, FeedsTyped, FeedRecord
      <3>3. \A g \in S : feeds[g].ticker # copy.ticker
        BY Zenon, <2>2, <2>3, <2>4, <2>9, <3>2 DEF SharedTicker, Same, Stored
      <3>4. /\ DOMAIN streams'[i].subs = DOMAIN streams[i].subs \ {copy.ticker}
            /\ \A t \in DOMAIN streams'[i].subs : streams'[i].subs[t] = streams[i].subs[t]
        BY Zenon, <2>6 DEF Restrict
      <3>5. /\ \A j \in Streams \ {i} : streams'[j] = streams[j]
            /\ \A r \in Sources : sources[r] \in Streams \cup {NoStream}
            /\ \A r \in Sources : r # s => sources[r] # i
        BY Zenon, <2>2, <2>3, <2>4, <2>6 DEF OnlyStream, TypeInv, SourcesTyped, SourcesOK
      <3>6. ASSUME NEW g \in S
            PROVE  Subscription(g)'
        <4>1. /\ sources[feeds[g].source] \in Streams
              /\ feeds[g].ticker \in DOMAIN streams[sources[feeds[g].source]].subs
              /\ streams[sources[feeds[g].source]].subs[feeds[g].ticker] = feeds[g].market
              /\ sources[feeds[g].source] # NoStream
          BY ZenonT(30), <3>1, <3>2, <3>5 DEF Subscription
        <4>2. CASE sources[feeds[g].source] = i
          BY Zenon, <2>2, <3>3, <3>4, <4>1, <4>2 DEF Subscription
        <4>3. CASE sources[feeds[g].source] # i
          BY Zenon, <2>2, <3>5, <4>1, <4>3 DEF Subscription
        <4> QED BY Zenon, <4>2, <4>3
      <3>7. feeds[f].source = s /\ feeds[f].ticker = copy.ticker
        BY Zenon, <2>1, <2>4 DEF Same
      <3>8. ASSUME NEW r \in Sources, sources[r] # NoStream
            PROVE  /\ \A t \in DOMAIN streams'[sources[r]].subs :
                        \E g \in S : feeds[g].source = r /\ feeds[g].ticker = t
                   /\ r # s => \E g \in S : feeds[g].source = r
        <4>1. CASE r = s
          <5>1. ASSUME NEW t \in DOMAIN streams'[i].subs
                PROVE  \E g \in S : feeds[g].source = s /\ feeds[g].ticker = t
            <6>1. PICK g \in active : feeds[g].source = s /\ feeds[g].ticker = t
              BY Zenon, <2>3, <2>4, <3>1, <3>4, <5>1
            <6> QED BY Zenon, <2>1, <3>4, <3>7, <5>1, <6>1
          <5> QED BY Zenon, <2>4, <4>1, <5>1
        <4>2. CASE r # s
          <5>1. streams'[sources[r]] = streams[sources[r]]
            BY Zenon, <3>5, <3>8, <4>2
          <5> QED BY <2>1, <3>1, <3>7, <3>8, <4>2, <5>1
        <4> QED BY Zenon, <4>1, <4>2
      <3> QED BY <2>2, <3>6, <3>8
    <2>10. SubsAre(active \ {calls[c].feed}, {calls[c].copy.source})'
      <3>1. active' \ {calls'[c].feed} = S /\ calls'[c].copy.source = s
        BY Zenon, <2>1, <2>2, <2>7
      <3>2. SubsAre(S, {s})'
        BY Zenon, <2>9 DEF SubsAre
      <3> QED BY Zenon, <3>1, <3>2, SubsOfStopping
    <2>11. Same(calls[c].feed, calls[c].copy)' /\ StartedFeeds' = StartedFeeds
            /\ SharedTicker(feeds') = SharedTicker(feeds) /\ ~Started(calls[c].feed)'
      BY Zenon, <2>2, <2>4, <2>7 DEF Same, Stored, StartedFeeds, Started, SharedTicker
    <2>12. Stage(c)' /\ AtWork(c)'
      BY Zenon, <2>1, <2>2, <2>4, <2>7, <2>8, <2>10, <2>11
         DEF Stage, AtWork, Starting, Stopping, Connected
    <2> QED BY Zenon, <2>2, <2>3, <2>11, <2>12, <1>CallMoves
  \* A stop looks for other subscriptions of its source: if there are none, no other
  \* active feed has it (service.go, StopPriceFeed).
  <1>StopChecksStep.
    ASSUME FeederInv, ~disturbed, ~disturbed', NEW c \in RPCs, StopChecks(c)
    PROVE  FeedInv'
    <2> USE <1>StopChecksStep
    <2>1. PICK f, copy, s, S, pc :
            /\ f = calls[c].feed /\ copy = calls[c].copy /\ s = copy.source /\ S = active \ {f}
            /\ pc = IF DOMAIN streams[sources[s]].subs = {} THEN "closeExt" ELSE "deactivate"
      BY Zenon
    <2>2. /\ CallStep(c) /\ AtWork(c) /\ calls[c].pc = "stopCheck" /\ TypeInv
          /\ UNCHANGED <<feeds, active, sources, streams, booting, shared>>
          /\ calls[c].pc \in Copied
      BY Zenon DEF StopChecks, CallStep, AtWork, daemon, Copied, FeederInv
    <2>3. /\ Stage(c) /\ booting \subseteq StartedFeeds /\ (~shared => ~SharedTicker(feeds))
          /\ f \in Feeds /\ s \in Sources
      BY Zenon, <2>1, <2>2, Working, AtHand
    <2>4. /\ c # Boot /\ Same(f, copy) /\ ~Started(f) /\ SourcesOK({}) /\ SubsAre(S, {s})
          /\ active = StartedFeeds \cup {f} /\ calls[c].stream = sources[s]
          /\ sources[s] # NoStream
      <3>1. SubsAre(active \ {calls[c].feed}, {calls[c].copy.source})
        BY Zenon, <2>2, <2>3 DEF Stage
      <3>2. SubsAre(S, {s})
        BY Zenon, <2>1, <3>1
      <3> QED BY Zenon, <2>1, <2>2, <2>3, <3>2 DEF Stage, Stopping, Connected
    <2>5. calls'[c].pc = pc /\ calls'[c].feed = f /\ calls'[c].copy = copy
      <3>1. calls' = [calls EXCEPT ![c] = Call(pc, f, copy, calls[c].stream)]
        BY Zenon, <2>1, <2>4 DEF StopChecks, Goto
      <3>2. calls'[c] = Call(pc, f, copy, calls[c].stream)
        BY Zenon, <2>2, <3>1 DEF TypeInv, CallsTyped
      <3> QED BY <3>2 DEF Call
    <2>6. SourcesOK({})'
      BY Zenon, <2>2, <2>4 DEF SourcesOK
    <2>7. SubsAre(S, {s})'
      BY Zenon, <2>2, <2>4, SubsUnchanged
    <2>8. pc = "closeExt" /\ ~shared => \A g \in S : feeds[g].source # s
      BY Zenon, <2>1, <2>4 DEF SubsAre, Subscription
    <2>9. pc = "deactivate" => SubsAre(S, {})'
      <3> SUFFICES ASSUME pc = "deactivate", ~shared'
                   PROVE  \E g \in S : feeds'[g].source = s
        BY Zenon, <2>7 DEF SubsAre
      <3>1. PICK t : t \in DOMAIN streams[sources[s]].subs
        BY Zenon, <2>1
      <3> QED BY Zenon, <2>2, <2>3, <2>4, <3>1 DEF SubsAre
    <2>10. /\ SubsAre(active \ {calls[c].feed}, {calls[c].copy.source})'
           /\ pc = "deactivate" => SubsAre(active \ {calls[c].feed}, {})'
           /\ pc = "closeExt" /\ ~shared' =>
                \A g \in active' \ {calls'[c].feed} : feeds'[g].source # calls'[c].copy.source
      <3>1. active' \ {calls'[c].feed} = S /\ calls'[c].copy.source = s
        BY Zenon, <2>1, <2>2, <2>5
      <3>2. SubsAre(active \ {calls[c].feed}, {calls[c].copy.source})'
        BY Zenon, <2>7, <3>1, SubsOfStopping
      <3>3. pc = "deactivate" => SubsAre(active \ {calls[c].feed}, {})'
        BY Zenon, <2>9, <3>1, SubsOfStopped
      <3> QED BY Zenon, <2>2, <2>8, <3>1, <3>2, <3>3
    <2>11. Same(calls[c].feed, calls[c].copy)' /\ StartedFeeds' = StartedFeeds
            /\ SharedTicker(feeds') = SharedTicker(feeds) /\ ~Started(calls[c].feed)'
      BY Zenon, <2>2, <2>4, <2>5 DEF Same, Stored, StartedFeeds, Started, SharedTicker
    <2>12. CASE pc = "closeExt"
      <3>1. Stage(c)' /\ AtWork(c)'
        BY Zenon, <2>1, <2>2, <2>4, <2>5, <2>6, <2>10, <2>11, <2>12
           DEF Stage, AtWork, Starting, Stopping, Connected
      <3> QED BY Zenon, <2>2, <2>3, <2>11, <3>1, <1>CallMoves
    <2>13. CASE pc = "deactivate"
      <3>1. Stage(c)' /\ AtWork(c)'
        BY Zenon, <2>1, <2>2, <2>4, <2>5, <2>6, <2>10, <2>11, <2>13
           DEF Stage, AtWork, Starting, Stopping, Connected
      <3> QED BY Zenon, <2>2, <2>3, <2>11, <3>1, <1>CallMoves
    <2> QED BY Zenon, <2>1, <2>12, <2>13
  \* The source of a stop is closed (service.go, removePriceFeederBySource).
  <1>StopSourceStep.
    ASSUME FeederInv, ~disturbed, ~disturbed', NEW c \in RPCs, StopSource(c)
    PROVE  FeedInv'
    <2> USE <1>StopSourceStep
    <2>1. PICK f, copy, s, i, S :
            /\ f = calls[c].feed /\ copy = calls[c].copy /\ s = copy.source
            /\ i = sources[s] /\ S = active \ {f}
      BY Zenon
    <2>2. /\ CallStep(c) /\ AtWork(c) /\ calls[c].pc = "closeExt" /\ TypeInv
          /\ UNCHANGED <<feeds, active, sources, booting, shared>>
          /\ calls[c].pc \in Copied
      BY Zenon DEF StopSource, CallStep, AtWork, daemon, Copied, FeederInv
    <2>3. /\ Stage(c) /\ booting \subseteq StartedFeeds /\ (~shared => ~SharedTicker(feeds))
          /\ f \in Feeds /\ s \in Sources
      BY Zenon, <2>1, <2>2, Working, AtHand
    <2>4. /\ c # Boot /\ Same(f, copy) /\ ~Started(f) /\ SourcesOK({}) /\ SubsAre(S, {s})
          /\ active = StartedFeeds \cup {f} /\ i # NoStream
          /\ ~shared => \A g \in S : feeds[g].source # s
      <3>1. SubsAre(active \ {calls[c].feed}, {calls[c].copy.source})
        BY Zenon, <2>2, <2>3 DEF Stage
      <3>2. SubsAre(S, {s})
        BY Zenon, <2>1, <3>1
      <3> QED BY Zenon, <2>1, <2>2, <2>3, <3>2 DEF Stage, Stopping
    <2>5. /\ i \in Streams /\ streams'[i].subs = streams[i].subs
          /\ Closes(i, TRUE, streams[i].intClosed) /\ OnlyStream(i)
          /\ calls' = [calls EXCEPT ![c] = Call("closeInt", f, copy, i)]
      BY Zenon, <2>1, <2>2, <2>4, CloseSteps DEF StreamNow
    <2>6. /\ calls'[c].pc = "closeInt" /\ calls'[c].feed = f /\ calls'[c].copy = copy
          /\ calls'[c].stream = i
      <3>1. calls'[c] = Call("closeInt", f, copy, i)
        BY Zenon, <2>2, <2>5 DEF TypeInv, CallsTyped
      <3> QED BY <3>1 DEF Call
    <2>7. /\ \A j \in Streams \ {i} : streams'[j] = streams[j]
          /\ \A r \in Sources : sources[r] \in Streams \cup {NoStream}
          /\ \A r \in Sources : r # s => sources[r] # i
      BY Zenon, <2>1, <2>2, <2>3, <2>4, <2>5 DEF OnlyStream, TypeInv, SourcesTyped, SourcesOK
    <2>8. SourcesOK({s})'
      <3>1. \A r \in Sources : sources'[r] # NoStream =>
              ~streams'[sources'[r]].intClosed /\ (r # s => ~streams'[sources'[r]].extClosed)
        BY Zenon, <2>1, <2>2, <2>3, <2>4, <2>5, <2>7 DEF SourcesOK, Closes
      <3> QED BY Zenon, <2>2, <2>4, <3>1 DEF SourcesOK
    <2>9. SubsAre(S, {s})'
      <3>1. S \in SUBSET Feeds /\ \A g \in S : Stored(g)
        BY Zenon, <2>1, <2>4 DEF StartedFeeds, Started
      <3>2. \A j \in Streams : streams'[j].subs = streams[j].subs
        BY Zenon, <2>5, <2>7
      <3> QED BY Zenon, <2>2, <2>4, <3>1, <3>2, <1>SubsFrame
    <2>10. /\ SubsAre(active \ {calls[c].feed}, {calls[c].copy.source})'
           /\ SourcesOK({calls[c].copy.source})'
           /\ ~shared' =>
                \A g \in active' \ {calls'[c].feed} : feeds'[g].source # calls'[c].copy.source
      <3>1. active' \ {calls'[c].feed} = S /\ calls'[c].copy.source = s
        BY Zenon, <2>1, <2>2, <2>6
      <3>2. SubsAre(active \ {calls[c].feed}, {calls[c].copy.source})'
        BY Zenon, <2>9, <3>1, SubsOfStopping
      <3>3. SourcesOK({calls[c].copy.source})'
        BY Zenon, <2>8, <3>1 DEF SourcesOK
      <3> QED BY Zenon, <2>2, <2>4, <3>1, <3>2, <3>3
    <2>11. Same(calls[c].feed, calls[c].copy)' /\ StartedFeeds' = StartedFeeds
            /\ SharedTicker(feeds') = SharedTicker(feeds) /\ ~Started(calls[c].feed)'
      BY Zenon, <2>2, <2>4, <2>6 DEF Same, Stored, StartedFeeds, Started, SharedTicker
    <2>12. Stage(c)' /\ AtWork(c)'
      BY Zenon, <2>1, <2>2, <2>4, <2>6, <2>10, <2>11
         DEF Stage, AtWork, Starting, Stopping, Connected
    <2> QED BY Zenon, <2>2, <2>3, <2>11, <2>12, <1>CallMoves
  \* The source is forgotten: no feed that is still active has it.
  <1>CloseChannelStep.
    ASSUME FeederInv, ~disturbed, ~disturbed', NEW c \in RPCs, CloseChannel(c)
    PROVE  FeedInv'
    <2> USE <1>CloseChannelStep
    <2>1. PICK f, copy, s, i, S :
            /\ f = calls[c].feed /\ copy = calls[c].copy /\ s = copy.source
            /\ i = calls[c].stream /\ S = active \ {f}
      BY Zenon
    <2>2. /\ CallStep(c) /\ AtWork(c) /\ calls[c].pc = "closeInt" /\ TypeInv
          /\ UNCHANGED <<feeds, active, booting, shared>> /\ Goto(c, "deactivate")
          /\ sources' = [sources EXCEPT ![s] = NoStream]
          /\ calls[c].pc \in Copied /\ calls[c].pc \in Connected
      BY Zenon, <2>1 DEF CloseChannel, CallStep, AtWork, daemon, Copied, Connected, FeederInv
    <2>3. /\ Stage(c) /\ booting \subseteq StartedFeeds /\ (~shared => ~SharedTicker(feeds))
          /\ f \in Feeds /\ s \in Sources /\ i \in Streams
      BY Zenon, <2>1, <2>2, Working, AtHand
    <2>4. /\ c # Boot /\ Same(f, copy) /\ ~Started(f) /\ SourcesOK({s}) /\ SubsAre(S, {s})
          /\ active = StartedFeeds \cup {f} /\ i = sources[s] /\ i # NoStream
          /\ ~shared => \A g \in S : feeds[g].source # s
      <3>1. SubsAre(active \ {calls[c].feed}, {calls[c].copy.source})
        BY Zenon, <2>2, <2>3 DEF Stage
      <3>2. SubsAre(S, {s})
        BY Zenon, <2>1, <3>1
      <3> QED BY Zenon, <2>1, <2>2, <2>3, <3>2 DEF Stage, Stopping
    <2>5. OnlyStream(i)
      BY Zenon, <2>1, <2>2, CloseSteps
    <2>6. calls'[c].pc = "deactivate" /\ calls'[c].feed = f /\ calls'[c].copy = copy
      BY Zenon, <2>1, <2>2, GoesTo
    <2>7. /\ \A j \in Streams \ {i} : streams'[j] = streams[j]
          /\ \A r \in Sources : sources[r] \in Streams \cup {NoStream}
          /\ \A r \in Sources : r # s => sources[r] # i /\ sources'[r] = sources[r]
          /\ sources'[s] = NoStream
      BY Zenon, <2>2, <2>3, <2>4, <2>5 DEF OnlyStream, TypeInv, SourcesTyped, SourcesOK
    <2>8. SourcesOK({})'
      <3>1. \A r \in Sources : sources'[r] # NoStream =>
              ~streams'[sources'[r]].intClosed /\ ~streams'[sources'[r]].extClosed
        BY <2>4, <2>7 DEF SourcesOK
      <3>2. \A q, r \in Sources : sources'[q] = sources'[r] /\ sources'[q] # NoStream => q = r
        BY <2>4, <2>7 DEF SourcesOK
      <3> QED BY Zenon, <3>1, <3>2 DEF SourcesOK
    <2>9. ASSUME ~shared'
          PROVE  /\ \A g \in S : Subscription(g)'
                 /\ \A r \in Sources : sources'[r] # NoStream =>
                      /\ \A t \in DOMAIN streams'[sources'[r]].subs :
                           \E g \in S : feeds'[g].source = r /\ feeds'[g].ticker = t
                      /\ \E g \in S : feeds'[g].source = r
      <3>1. /\ \A g \in S : Subscription(g) /\ feeds[g].source # s
            /\ \A r \in Sources : sources[r] # NoStream =>
                 /\ \A t \in DOMAIN streams[sources[r]].subs :
                      \E g \in S : feeds[g].source = r /\ feeds[g].ticker = t
                 /\ r # s => \E g \in S : feeds[g].source = r
        BY Zenon, <2>2, <2>4, <2>9 DEF SubsAre
      <3>2. \A g \in S : feeds[g].source \in Sources
        BY Zenon, <2>1, <2>2, <2>4 DEF StartedFeeds, Started, Stored, TypeInv, FeedsTyped, FeedRecord
      <3>3. ASSUME NEW g \in S
            PROVE  Subscription(g)'
        <4>1. /\ sources[feeds[g].source] \in Streams \ {i}
              /\ feeds[g].ticker \in DOMAIN streams[sources[feeds[g].source]].subs
              /\ streams[sources[feeds[g].source]].subs[feeds[g].ticker] = feeds[g].market
              /\ sources[feeds[g].source] # NoStream
          BY Zenon, <2>7, <3>1, <3>2 DEF Subscription
        <4>2. /\ sources'[feeds[g].source] = sources[feeds[g].source]
              /\ streams'[sources[feeds[g].source]] = streams[sources[feeds[g].source]]
          BY Zenon, <2>7, <3>1, <3>2, <4>1
        <4> QED BY Zenon, <2>2, <4>1, <4>2 DEF Subscription
      <3>4. ASSUME NEW r \in Sources, sources'[r] # NoStream
            PROVE  r # s /\ sources'[r] = sources[r] /\ streams'[sources[r]] = streams[sources[r]]
        BY Zenon, <2>7, <3>4
      <3> QED BY <2>2, <3>1, <3>3, <3>4
    <2>10. SubsAre(active \ {calls[c].feed}, {})'
      <3>1. active' \ {calls'[c].feed} = S
        BY Zenon, <2>1, <2>2, <2>6
      <3>2. SubsAre(S, {})'
        BY Zenon, <2>9 DEF SubsAre
      <3> QED BY Zenon, <3>1, <3>2, SubsOfStopped
    <2>11. Same(calls[c].feed, calls[c].copy)' /\ StartedFeeds' = StartedFeeds
            /\ SharedTicker(feeds') = SharedTicker(feeds) /\ ~Started(calls[c].feed)'
      BY Zenon, <2>2, <2>4, <2>6 DEF Same, Stored, StartedFeeds, Started, SharedTicker
    <2>12. Stage(c)' /\ AtWork(c)'
      BY Zenon, <2>1, <2>2, <2>4, <2>6, <2>8, <2>10, <2>11
         DEF Stage, AtWork, Starting, Stopping, Connected
    <2> QED BY Zenon, <2>2, <2>3, <2>11, <2>12, <1>CallMoves
  \* A stop makes its feed inactive, and ends.
  <1>StopDeactivatesStep.
    ASSUME FeederInv, ~disturbed, ~disturbed', NEW c \in RPCs, StopDeactivates(c)
    PROVE  FeedInv'
    <2> USE <1>StopDeactivatesStep
    <2>1. PICK f, S : f = calls[c].feed /\ S = active \ {f}
      BY Zenon
    <2>2. /\ CallStep(c) /\ AtWork(c) /\ calls[c].pc = "deactivate" /\ TypeInv /\ Finish(c)
          /\ UNCHANGED <<feeds, sources, streams, booting, shared>> /\ active' = S
      BY Zenon, <2>1 DEF StopDeactivates, CallStep, AtWork, daemon, FeederInv
    <2>3. /\ Stage(c) /\ (~shared => ~SharedTicker(feeds)) /\ c # Boot
      BY Zenon, <2>2, Working DEF Stage, Stopping
    <2>4. /\ ~Started(f) /\ SourcesOK({}) /\ active = StartedFeeds \cup {f} /\ booting = {}
          /\ SubsAre(active \ {calls[c].feed}, {})
      BY Zenon, <2>1, <2>2, <2>3, Working DEF Stage, Stopping
    <2>5. StartedFeeds' = StartedFeeds /\ SharedTicker(feeds') = SharedTicker(feeds)
            /\ SourcesOK({})'
      BY Zenon, <2>2, <2>4 DEF StartedFeeds, Started, Stored, SharedTicker, SourcesOK
    <2>6. SubsAre(active, {})'
      <3>1. active \ {calls[c].feed} = S
        BY Zenon, <2>1
      <3>2. SubsAre(S, {})
        BY Zenon, <2>4, <3>1
      <3>3. SubsAre(S, {})'
        BY Zenon, <2>2, <3>2, SubsUnchanged
      <3> QED BY Zenon, <2>2, <3>3, SubsOfActive
    <2>7. Rest'
      BY Zenon, <2>1, <2>2, <2>4, <2>5, <2>6 DEF Rest, StartedFeeds
    <2> QED BY Zenon, <2>2, <2>3, <2>4, <2>5, <2>7, <1>CallEnds
  \* The steps of the prices keep the stage of an RPC.
  <1>DataKeepsStage.
    ASSUME FeederInv, ~disturbed, DataStep, NEW c \in RPCs, Stage(c)
    PROVE  Stage(c)'
    <2> USE <1>DataKeepsStage
    <2>1. PICK f, s, A, pc : /\ f = calls[c].feed /\ s = calls[c].copy.source /\ A = active
                             /\ pc = calls[c].pc
      BY Zenon
    <2>2. /\ UNCHANGED <<feeds, active, sources, calls, booting, shared>>
          /\ \A i \in Streams : /\ streams'[i].subs = streams[i].subs
                                /\ Closes(i, streams[i].extClosed, streams[i].intClosed)
          /\ TypeInv
      BY Zenon, DataSteps DEF FeederInv
    <2>3. ASSUME NEW S \in SUBSET Feeds, NEW X, \A g \in S : Stored(g), SubsAre(S, X)
          PROVE  SubsAre(S, X)'
      BY Zenon, <2>2, <2>3, <1>SubsFrame
    <2>4. ASSUME NEW X, SourcesOK(X)
          PROVE  SourcesOK(X)'
      BY Zenon, <2>2, <2>4, <1>SourcesFrame
    <2>5. /\ pc \in {"insert", "update", "remove", "stopWrite", "start"} =>
               A \in SUBSET Feeds /\ \A g \in A : Stored(g)
          /\ pc \in Starting \cup Stopping =>
               A \cup {f} \in SUBSET Feeds /\ \A g \in A \cup {f} : Stored(g)
      <3>1. /\ pc \in {"insert", "update", "remove", "stopWrite"} => active = StartedFeeds \ booting
            /\ pc = "start" => active \subseteq StartedFeeds
        BY Zenon, <2>1 DEF Stage, Rest
      <3>2. pc \in Starting \cup Stopping => Stored(f) /\ active \subseteq StartedFeeds \cup {f}
        BY Zenon, <2>1 DEF Stage, Same
      <3>3. pc \in Starting \cup Stopping => f \in Feeds
        BY Zenon, <2>1, <2>2, AtHand DEF Starting, Stopping
      <3> QED BY Zenon, <2>1, <3>1, <3>2, <3>3 DEF StartedFeeds, Started
    <2>6. /\ pc \in {"insert", "update", "remove", "stopWrite", "start", "startOpen", "stopOpen",
                     "unsubscribe"} => SubsAre(active, {}) /\ SubsAre(A, {}) /\ SubsAre(A, {})'
          /\ pc = "subscribe" => SubsAre(A, {s})'
          /\ pc \in {"startWrite", "activate"} => SubsAre(A \cup {f}, {})'
          /\ pc \in {"stopCheck", "closeExt", "closeInt"} => SubsAre(A \ {f}, {s})'
          /\ pc = "deactivate" => SubsAre(A \ {f}, {})'
      <3>1. pc \in {"insert", "update", "remove", "stopWrite", "start", "startOpen", "stopOpen",
                    "unsubscribe"} => SubsAre(A, {})
        BY Zenon, <2>1 DEF Stage, Rest
      <3>2. pc = "subscribe" => SubsAre(A, {s})
        BY Zenon, <2>1 DEF Stage
      <3>3. pc \in {"startWrite", "activate"} => SubsAre(A \cup {f}, {})
        BY Zenon, <2>1 DEF Stage
      <3>4. pc \in {"stopCheck", "closeExt", "closeInt"} => SubsAre(A \ {f}, {s})
        BY Zenon, <2>1 DEF Stage
      <3>5. pc = "deactivate" => SubsAre(A \ {f}, {})
        BY Zenon, <2>1 DEF Stage
      <3> QED BY Zenon, <2>1, <2>3, <2>5, <3>1, <3>2, <3>3, <3>4, <3>5 DEF Starting, Stopping
    <2>7. /\ pc \in {"insert", "update", "remove", "stopWrite", "start", "startOpen", "stopOpen",
                     "unsubscribe"} => SubsAre(active, {})'
          /\ pc = "subscribe" => SubsAre(active, {calls[c].copy.source})'
          /\ pc \in {"startWrite", "activate"} => SubsAre(active \cup {calls[c].feed}, {})'
          /\ pc \in {"stopCheck", "closeExt", "closeInt"} =>
               SubsAre(active \ {calls[c].feed}, {calls[c].copy.source})'
          /\ pc = "deactivate" => SubsAre(active \ {calls[c].feed}, {})'
      <3>1. /\ active' = A /\ calls'[c].copy.source = s
            /\ active' \cup {calls'[c].feed} = A \cup {f}
            /\ active' \ {calls'[c].feed} = A \ {f}
        BY Zenon, <2>1, <2>2
      <3>2. PICK B, D : B = A \cup {f} /\ D = A \ {f}
        BY Zenon
      <3>3. /\ pc \in {"startWrite", "activate"} => SubsAre(B, {})'
            /\ pc \in {"stopCheck", "closeExt", "closeInt"} => SubsAre(D, {s})'
            /\ pc = "deactivate" => SubsAre(D, {})'
        BY Zenon, <2>6, <3>2
      <3>4. /\ pc \in {"insert", "update", "remove", "stopWrite", "start", "startOpen", "stopOpen",
                       "unsubscribe"} => SubsAre(active, {})'
            /\ pc = "subscribe" => SubsAre(active, {calls[c].copy.source})'
        BY Zenon, <2>6, <3>1, SubsOfActive, SubsOfSubscribing
      <3>5. pc \in {"startWrite", "activate"} => SubsAre(active \cup {calls[c].feed}, {})'
        BY Zenon, <3>1, <3>2, <3>3, SubsOfStarting
      <3>6. /\ pc \in {"stopCheck", "closeExt", "closeInt"} =>
                 SubsAre(active \ {calls[c].feed}, {calls[c].copy.source})'
            /\ pc = "deactivate" => SubsAre(active \ {calls[c].feed}, {})'
        BY Zenon, <3>1, <3>2, <3>3, SubsOfStopping, SubsOfStopped
      <3> QED BY Zenon, <3>4, <3>5, <3>6
    <2>8. SourcesOK({}) => SourcesOK({})'
      BY Zenon, <2>4
    <2>9. pc \in Stopping => SourcesOK(IF calls[c].pc = "closeInt" THEN {calls[c].copy.source} ELSE {})'
      <3>1. pc \in Stopping => SourcesOK(IF pc = "closeInt" THEN {s} ELSE {})
        BY Zenon, <2>1 DEF Stage, SourcesOK
      <3>2. pc \in Stopping => SourcesOK(IF pc = "closeInt" THEN {s} ELSE {})'
        BY Zenon, <2>4, <3>1
      <3> QED BY Zenon, <2>1, <2>2, <3>2 DEF SourcesOK
    <2>10. StartedFeeds' = StartedFeeds
      BY Zenon, <2>2 DEF StartedFeeds, Started, Stored
    <2>11. pc \in {"insert", "update", "remove", "stopWrite"} => Rest'
      BY Zenon, <2>1, <2>2, <2>7, <2>8, <2>10 DEF Stage, Rest
    <2>12. CASE pc \in {"insert", "update", "remove", "stopWrite"}
      BY Zenon, <2>1, <2>2, <2>11, <2>12 DEF Stage, Stored, Started, Starting, Stopping, Connected
    <2>13. CASE pc = "start"
      BY Zenon, <2>1, <2>2, <2>7, <2>8, <2>10, <2>13
         DEF Stage, Stored, Started, Starting, Stopping, Connected
    <2>14. CASE pc \in Starting
      BY Zenon, <2>1, <2>2, <2>7, <2>8, <2>10, <2>14
         DEF Stage, Same, Stored, Started, Starting, Stopping, Connected
    <2>15. CASE pc \in Stopping
      BY Zenon, <2>1, <2>2, <2>7, <2>9, <2>10, <2>15
         DEF Stage, Same, Stored, Started, Starting, Stopping, Connected
    <2>16. CASE pc \notin {"insert", "update", "remove", "stopWrite", "start"} \cup Starting \cup Stopping
      BY Zenon, <2>1, <2>2, <2>16 DEF Stage, Starting, Stopping, Connected
    <2> QED BY Zenon, <2>12, <2>13, <2>14, <2>15, <2>16
  \* The steps of the prices and of the strategy.
  <1>DataKeepsFeeds.
    ASSUME FeederInv, ~disturbed, DataStep
    PROVE  FeedInv'
    <2> USE <1>DataKeepsFeeds
    <2>1. UNCHANGED <<feeds, active, sources, calls, booting, up, broken, shared>> /\ TypeInv
            /\ \A i \in Streams : /\ streams'[i].subs = streams[i].subs
                                  /\ Closes(i, streams[i].extClosed, streams[i].intClosed)
      BY Zenon, DataSteps DEF FeederInv
    <2>2. /\ OneCall /\ booting \subseteq StartedFeeds /\ (~shared => ~SharedTicker(feeds))
          /\ \A c \in RPCs : AtWork(c) => Stage(c)
          /\ up /\ ~broken /\ (\A c \in RPCs : ~AtWork(c)) => Rest
          /\ RestartSucceeds
      BY Zenon DEF FeederInv, FeedInv
    <2>3. StartedFeeds' = StartedFeeds /\ SharedTicker(feeds') = SharedTicker(feeds) /\ OneCall'
            /\ \A c : AtWork(c)' = AtWork(c)
      BY Zenon, <2>1, <2>2 DEF StartedFeeds, Started, Stored, SharedTicker, OneCall, AtWork
    <2>4. \A c \in RPCs : AtWork(c)' => Stage(c)'
      BY Zenon, <2>2, <2>3, <1>DataKeepsStage
    <2>5. Rest => Rest'
      <3> SUFFICES ASSUME Rest PROVE Rest'
        BY Zenon
      <3>1. PICK A : A = active
        BY Zenon
      <3>2. A \in SUBSET Feeds /\ SubsAre(A, {}) /\ \A g \in A : Stored(g)
        BY Zenon, <3>1 DEF Rest, StartedFeeds, Started
      <3>3. SubsAre(A, {})' /\ SourcesOK({})'
        BY Zenon, <2>1, <3>2, <1>SubsFrame, <1>SourcesFrame DEF Rest
      <3>4. SubsAre(active, {})'
        BY Zenon, <2>1, <3>1, <3>3, SubsOfActive
      <3> QED BY Zenon, <2>1, <2>3, <3>3, <3>4 DEF Rest
    <2>6. RestartSucceeds'
      <3>1. CASE UpdateMarketStrategy
        BY <2>1, <3>1 DEF UpdateMarketStrategy, Serving, RestartSucceeds
      <3>2. CASE ~UpdateMarketStrategy
        <4>1. strategy' = strategy /\ disturbed' = disturbed
          BY Zenon, <3>2 DEF DataStep, Tick, Forward, Take, UpdateMarketPrice, vars, daemon
        <4> QED BY Zenon, <2>1, <2>2, <4>1 DEF RestartSucceeds, Started, Stored
      <3> QED BY Zenon, <3>1, <3>2
    <2> QED BY Zenon, <2>1, <2>2, <2>3, <2>4, <2>5, <2>6 DEF FeedInv
  \* An RPC that begins while no other one runs finds all at rest.
  <1>BeginsStep.
    ASSUME FeederInv, ~disturbed, ~disturbed', RPCBegins
    PROVE  FeedInv'
    <2> USE <1>BeginsStep
    <2>1. PICK c \in Callers : \/ AddPriceFeed(c) \/ UpdatePriceFeed(c) \/ RemovePriceFeed(c)
                               \/ StartPriceFeed(c) \/ StopPriceFeed(c)
      BY Zenon DEF RPCBegins
    <2>2. Begins(c) /\ c \in RPCs /\ c # Boot /\ TypeInv /\ DOMAIN calls = RPCs
      BY Zenon, <2>1, FeederAssumption DEF AddPriceFeed, UpdatePriceFeed, RemovePriceFeed,
         StartPriceFeed, StopPriceFeed, RPCs, FeederInv, TypeInv, CallsTyped
    <2>3. /\ UNCHANGED <<feeds, active, sources, streams, booting, up, broken, shared>>
          /\ up /\ ~broken /\ booting = {}
      BY Zenon, <2>2, OneRPCBegins DEF Begins, Serving
    <2>4. \A d \in RPCs : calls[d] = NoCall /\ ~AtWork(d)
      BY Zenon, <2>2, Fields DEF Begins, Busy, RPCs, AtWork
    <2>5. Rest /\ (~shared => ~SharedTicker(feeds))
      BY Zenon, <2>3, <2>4 DEF FeederInv, FeedInv
    <2>6. /\ Rest' /\ StartedFeeds' = StartedFeeds
          /\ SharedTicker(feeds') = SharedTicker(feeds)
      <3>1. StartedFeeds' = StartedFeeds /\ SharedTicker(feeds') = SharedTicker(feeds)
              /\ SourcesOK({})'
        BY Zenon, <2>3, <2>5 DEF Rest, StartedFeeds, Started, Stored, SharedTicker, SourcesOK
      <3>2. SubsAre(active, {})'
        BY Zenon, <2>3, <2>5, ActiveUnchanged DEF Rest
      <3> QED BY Zenon, <2>3, <2>5, <3>1, <3>2 DEF Rest
    <2>7. ASSUME NEW pc \in {"insert", "update", "remove", "start", "stopWrite"},
                 NEW f \in Feeds, NEW copy,
                 calls' = [calls EXCEPT ![c] = Call(pc, f, copy, NoStream)],
                 pc = "insert" => ~Stored(f) /\ ~copy.started,
                 pc \in {"update", "remove"} => Stored(f) /\ ~Started(f),
                 pc = "start" => Stored(f),
                 pc = "stopWrite" => Started(f) /\ feeds[f] = copy
          PROVE  FeedInv'
      <3>1. calls'[c].pc = pc /\ calls'[c].feed = f /\ calls'[c].copy = copy
        <4>1. calls'[c] = Call(pc, f, copy, NoStream)
          BY Zenon, <2>2, <2>7
        <4> QED BY <4>1 DEF Call
      <3>2. Stage(c)'
        BY Zenon, <2>2, <2>3, <2>6, <2>7, <3>1
           DEF Stage, Rest, Stored, Started, Starting, Stopping, Connected
      <3>3. (\A d \in RPCs : AtWork(d)' => d = c) /\ AtWork(c)'
        BY Zenon, <2>2, <2>4, <2>7, <3>1 DEF AtWork
      <3> QED BY Zenon, <2>2, <2>3, <2>5, <2>6, <3>2, <3>3 DEF FeedInv, OneCall, RestartSucceeds
    <2>8. CASE AddPriceFeed(c)
      <3>1. PICK f \in Feeds, m \in Markets, s \in Sources, t \in Tickers :
              /\ feeds[f] = NoFeed
              /\ calls' = [calls EXCEPT ![c] = Call("insert", f, Feed(m, s, t, FALSE), NoStream)]
        BY Zenon, <2>8 DEF AddPriceFeed
      <3>2. ~Feed(m, s, t, FALSE).started
        BY Zenon DEF Feed
      <3> QED BY Zenon, <2>7, <3>1, <3>2 DEF Stored
    <2>9. CASE UpdatePriceFeed(c)
      <3>1. PICK f \in Feeds, s \in Sources, t \in Tickers :
              /\ Stored(f) /\ ~Started(f)
              /\ calls' = [calls EXCEPT ![c] =
                             Call("update", f, Feed(feeds[f].market, s, t, FALSE), NoStream)]
        BY Zenon, <2>9 DEF UpdatePriceFeed
      <3> QED BY Zenon, <2>7, <3>1
    <2>10. CASE RemovePriceFeed(c) \/ StartPriceFeed(c) \/ StopPriceFeed(c)
      BY Zenon, <2>7, <2>10 DEF RemovePriceFeed, StartPriceFeed, StopPriceFeed
    <2> QED BY Zenon, <2>1, <2>8, <2>9, <2>10
  \* The daemon dies while no RPC runs, and starts again.
  <1>ProcessStep.
    ASSUME FeederInv, ~disturbed, ~disturbed', Dies \/ Restart
    PROVE  FeedInv'
    <2> USE <1>ProcessStep
    <2>1. DOMAIN calls = RPCs /\ feeds' = feeds /\ shared' = shared
      BY Zenon DEF FeederInv, TypeInv, CallsTyped, Dies, Restart
    <2>2. /\ StartedFeeds' = StartedFeeds /\ SharedTicker(feeds') = SharedTicker(feeds)
          /\ ~shared => ~SharedTicker(feeds)
      BY Zenon, <2>1 DEF StartedFeeds, Started, Stored, SharedTicker, FeederInv, FeedInv
    <2>3. CASE Dies
      <3>1. ~up' /\ booting' = {} /\ \A c \in RPCs : ~AtWork(c)'
        BY Zenon, <2>1, <2>3, Fields DEF Dies, AtWork
      <3> QED BY Zenon, <2>1, <2>2, <3>1 DEF FeedInv, OneCall, RestartSucceeds
    <2>4. CASE Restart
      <3>1. /\ active = {} /\ sources = [s \in Sources |-> NoStream]
            /\ \A c \in RPCs : ~AtWork(c)
        BY Zenon, <2>4 DEF Restart, FeederInv, BootInv
      <3>2. /\ active' = {} /\ sources' = sources /\ booting' = StartedFeeds /\ ~broken'
            /\ \A c \in RPCs : ~AtWork(c)'
        BY Zenon, <2>4, <3>1 DEF Restart, StartedFeeds, AtWork
      <3>3. SourcesOK({})' /\ SubsAre(active, {})'
        BY Zenon, <3>1, <3>2 DEF SourcesOK, SubsAre
      <3>4. Rest'
        BY Zenon, <2>2, <3>2, <3>3 DEF Rest
      <3> QED BY Zenon, <2>1, <2>2, <3>2, <3>4 DEF FeedInv, OneCall, RestartSucceeds
    <2> QED BY Zenon, <2>3, <2>4
  \* The daemon begins to start a feed that is stored as started, or gives up for its
  \* strategy (feeder/service.go, startPriceFeeds).
  <1>StartPriceFeedsStep.
    ASSUME FeederInv, ~disturbed, ~disturbed', StartPriceFeeds
    PROVE  FeedInv'
    <2> USE <1>StartPriceFeedsStep
    <2>1. PICK f \in booting :
            /\ booting' = booting \ {f}
            /\ IF strategy[feeds[f].market]
               THEN /\ calls' = [calls EXCEPT ![Boot] = Call("start", f, NoFeed, NoStream)]
                    /\ UNCHANGED broken
               ELSE Fail(Boot)
      BY Zenon DEF StartPriceFeeds
    <2>2. /\ UNCHANGED <<feeds, active, sources, streams, up, shared, strategy>>
          /\ up /\ ~broken /\ calls[Boot] = NoCall
          /\ DOMAIN calls = RPCs /\ Boot \in RPCs
      BY Zenon DEF StartPriceFeeds, FeederInv, TypeInv, CallsTyped, RPCs
    <2>3. \A c \in RPCs : ~AtWork(c)
      BY Zenon, <2>1, <2>2, Fields DEF FeederInv, BootInv, AtWork, RPCs
    <2>4. /\ Rest /\ booting \subseteq StartedFeeds /\ (~shared => ~SharedTicker(feeds))
      BY Zenon, <2>2, <2>3 DEF FeederInv, FeedInv
    <2>5. /\ SourcesOK({})' /\ StartedFeeds' = StartedFeeds
          /\ SharedTicker(feeds') = SharedTicker(feeds)
      BY Zenon, <2>2, <2>4 DEF Rest, StartedFeeds, Started, Stored, SharedTicker, SourcesOK
    <2>6. SubsAre(active, {})'
      BY Zenon, <2>2, <2>4, ActiveUnchanged DEF Rest
    <2>7. Started(f) /\ f \in Feeds
      BY Zenon, <2>1, <2>4 DEF StartedFeeds
    <2>8. CASE strategy[feeds[f].market]
      <3>1. calls'[Boot].pc = "start" /\ calls'[Boot].feed = f
        <4>1. calls'[Boot] = Call("start", f, NoFeed, NoStream)
          BY Zenon, <2>1, <2>2, <2>8
        <4> QED BY <4>1 DEF Call
      <3>2. (\A d \in RPCs : AtWork(d)' => d = Boot) /\ AtWork(Boot)'
        BY Zenon, <2>1, <2>2, <2>3, <2>8, <3>1 DEF AtWork
      <3>3. active' = StartedFeeds' \ (booting' \cup {f})
        BY Zenon, <2>1, <2>2, <2>4, <2>5 DEF Rest
      <3>4. Stage(Boot)'
        BY Zenon, <2>1, <2>2, <2>5, <2>6, <2>7, <3>1, <3>3
           DEF Stage, Stored, Started, Starting, Stopping, Connected
      <3> QED BY Zenon, <2>1, <2>2, <2>4, <2>5, <2>8, <3>2, <3>4 DEF FeedInv, OneCall, RestartSucceeds
    <2>9. CASE ~strategy[feeds[f].market]
      <3>1. broken' /\ \A d \in RPCs : ~AtWork(d)'
        BY Zenon, <2>1, <2>2, <2>3, <2>9, Fields DEF Fail, AtWork
      <3>2. Started(f)' /\ ~strategy'[feeds'[f].market]
        BY Zenon, <2>2, <2>7, <2>9 DEF Started, Stored
      <3> QED BY Zenon, <2>1, <2>2, <2>4, <2>5, <2>7, <3>1, <3>2 DEF FeedInv, OneCall, RestartSucceeds
    <2> QED BY Zenon, <2>8, <2>9
  <1>1. TypeInv' /\ BootInv'
    BY Zenon, NextTypeInv, NextBootInv DEF FeederInv
  <1>2. CASE disturbed'
    BY Zenon, <1>1, <1>2 DEF FeederInv, FeedInv
  <1>3. CASE ~disturbed'
    <2>1. ~disturbed
      BY Zenon, <1>3, DisturbedStays
    <2>2. ASSUME NEW c \in RPCs, CallStep(c) PROVE FeedInv'
      BY Zenon, <1>3, <2>1, <2>2, <1>StoreStep, <1>StartReadsStep, <1>StartOpensStep, <1>StartSubscribesStep,
         <1>StartWritesStep, <1>StartActivatesStep, <1>StopWritesStep, <1>StopOpensStep,
         <1>StopUnsubscribesStep, <1>StopChecksStep, <1>StopSourceStep, <1>CloseChannelStep,
         <1>StopDeactivatesStep DEF CallStep
    <2>3. FeedInv'
      BY Zenon, <1>3, <2>1, <2>2, Steps, <1>BeginsStep, <1>DataKeepsFeeds, <1>ProcessStep,
         <1>StartPriceFeedsStep
    <2> QED BY Zenon, <1>1, <2>3 DEF FeederInv
  <1> QED BY Zenon, <1>2, <1>3

\* FeederInv holds at first.
LEMMA InitFeederInv ==
  ASSUME Init
  PROVE  FeederInv
  <1>1. TypeInv /\ BootInv
    BY Zenon, InitTypeInv, InitBootInv
  <1>2. \A c \in RPCs : ~AtWork(c)
    BY Zenon, Fields DEF Init, AtWork, RPCs
  <1>3. StartedFeeds = {} /\ ~SharedTicker(feeds) /\ RestartSucceeds
    BY Zenon DEF Init, StartedFeeds, Started, Stored, SharedTicker, RestartSucceeds
  <1>4. SourcesOK({}) /\ SubsAre(active, {})
    BY Zenon DEF Init, SourcesOK, SubsAre
  <1>5. Rest /\ booting = {}
    BY Zenon, <1>3, <1>4 DEF Init, Rest
  <1> QED BY Zenon, <1>1, <1>2, <1>3, <1>5 DEF FeederInv, FeedInv, OneCall

\* While RPCs do not overlap and nothing fails, and through restarts, the feeds
\* stored as started are the active ones, each with its subscription, and a source
\* is connected only for them; a daemon that cannot start its feeds again has one
\* whose market left the pluggable strategy.  For any feeds, markets, sources and
\* tickers (service.go, StartPriceFeed, StopPriceFeed; feeder/service.go,
\* startPriceFeeds).
THEOREM FeedsStaySubscribed == Spec => [](SubscribedWhileStarted /\ RestartSucceeds)
  <1>1. ASSUME FeederInv PROVE SubscribedWhileStarted /\ RestartSucceeds
    <2>1. RestartSucceeds
      BY Zenon, <1>1 DEF FeederInv, FeedInv, RestartSucceeds
    <2>2. ASSUME Undisturbed
          PROVE  Rest /\ booting = {}
      BY Zenon, <1>1, <2>2, Fields DEF Undisturbed, Serving, Busy, FeederInv, FeedInv, AtWork, RPCs
    <2>3. ASSUME Undisturbed
          PROVE  active = {f \in Feeds : Started(f)} /\ SubsAre(active, {})
      BY Zenon, <2>2, <2>3 DEF Rest, StartedFeeds
    <2>4. SubscribedWhileStarted
      BY Zenon, <2>3 DEF SubscribedWhileStarted, SubsAre
    <2> QED BY Zenon, <2>1, <2>4
  <1>2. FeederInv /\ [Next]_vars => FeederInv'
    BY Zenon, NextFeederInv
  <1> QED BY <1>1, <1>2, InitFeederInv, PTL DEF Spec

-----------------------------------------------------------------------------
(***************************************************************************)
(* The prices on their way, while there is one goroutine to store them:    *)
(* who has the connections, and in which order the prices are.             *)
(***************************************************************************)
Entries(q) == {q[n] : n \in 1..Len(q)}
Rising(q) == \A a, b \in 1..Len(q) : a < b => q[a].tick < q[b].tick
Below(D, E) == \A d \in D, e \in E : d.tick < e.tick

Queued(i) == Entries(streams[i].int)
Coming(i) == Entries(streams[i].ext)
Held(k) == {consumers[k].price} \ {NoPrice}
Live(k) == consumers[k].stream # NoStream

\* The prices of a stream that can still arrive.
Due(i) == Queued(i) \cup (IF streams[i].intClosed THEN {} ELSE Coming(i))

NotAhead(E) == \A e \in E : e.tick <= sent[e.market]
Latest(m, E) == \E e \in E : e.market = m /\ e.tick = sent[m]

TicksInv ==
  /\ \A m \in Markets : prices[m] <= ticks /\ sent[m] <= ticks
  /\ \A i \in Streams : NotAhead(Queued(i) \cup Coming(i))
  /\ \A k \in Consumers : NotAhead(Held(k))
  /\ \A m \in Markets : \/ prices[m] = sent[m]
                        \/ \E i \in Streams : Latest(m, Queued(i) \cup Coming(i))
                        \/ \E k \in Consumers : Latest(m, Held(k))
  /\ \A i \in Streams :
       Rising(streams[i].int) /\ Rising(streams[i].ext) /\ Below(Queued(i), Coming(i))

\* A start between its connection and its goroutine.
Opening(c) == calls[c].pc \in {"subscribe", "startWrite", "activate"}
Owned(i) ==
  \/ \E k \in Consumers : consumers[k].stream = i
  \/ \E c \in RPCs : Opening(c) /\ calls[c].stream = i
Fed(f) ==
  /\ sources[feeds[f].source] # NoStream
  /\ \E k \in Consumers : consumers[k].stream = sources[feeds[f].source]

OwnInv ==
  /\ \A k, l \in Consumers : Live(k) /\ Live(l) => k = l
  /\ \A i \in Streams : streams[i].intClosed => streams[i].extClosed
  /\ \A i \in Streams : ~streams[i].extClosed \/ Due(i) # {} => Owned(i)
  /\ \A c \in RPCs : calls[c].pc = "closeInt" => streams[calls[c].stream].extClosed
  /\ ~broken => \A f, g \in active : f = g
  /\ ~broken => \A f \in active : Fed(f) \/ \E c \in RPCs : calls[c].pc = "deactivate"

\* The goroutine that is left, if any, drains a connection other than j.
Waiting(j) ==
  \A k \in Consumers : Live(k) =>
    consumers[k].stream # j /\ streams[consumers[k].stream].intClosed

NotOlder(E) == \A e \in E : prices[e.market] <= e.tick

OrderInv ==
  /\ \A k \in Consumers : Live(k) =>
       /\ Below(Held(k), Due(consumers[k].stream))
       /\ NotOlder(Held(k) \cup Due(consumers[k].stream))
  /\ \A c \in RPCs : Opening(c) /\ Waiting(calls[c].stream) =>
       /\ NotOlder(Due(calls[c].stream))
       /\ \A k \in Consumers : Live(k) =>
            Below(Held(k) \cup Due(consumers[k].stream), Due(calls[c].stream))

Orderly == TicksInv /\ OwnInv /\ OrderInv

PriceInv == ~disturbed /\ ~crowded => Orderly

\* An empty channel has no entries.
LEMMA NoEntries == Entries(<<>>) = {} /\ Rising(<<>>)
  BY DEF Entries, Rising

\* The entries of a channel as it fills and empties.
LEMMA ChannelFacts ==
  ASSUME NEW q \in Seq(PriceRecord)
  PROVE  /\ Entries(q) \subseteq PriceRecord
         /\ q = <<>> => Entries(q) = {}
         /\ \A e \in PriceRecord :
              /\ Entries(Append(q, e)) = Entries(q) \cup {e}
              /\ Rising(q) /\ Below(Entries(q), {e}) => Rising(Append(q, e))
         /\ q # <<>> =>
              /\ Entries(q) = {Head(q)} \cup Entries(Tail(q))
              /\ Rising(q) => Rising(Tail(q)) /\ Below({Head(q)}, Entries(Tail(q)))
  <1>1. Entries(q) \subseteq PriceRecord
    BY DEF Entries
  <1>2. q = <<>> => Entries(q) = {}
    BY DEF Entries
  <1>3. ASSUME NEW e \in PriceRecord
        PROVE  /\ Entries(Append(q, e)) = Entries(q) \cup {e}
               /\ Rising(q) /\ Below(Entries(q), {e}) => Rising(Append(q, e))
    <2>1. /\ Len(Append(q, e)) = Len(q) + 1 /\ Len(q) \in Nat
          /\ \A n \in 1..Len(q) : Append(q, e)[n] = q[n]
          /\ Append(q, e)[Len(q) + 1] = e
      OBVIOUS
    <2>2. Entries(Append(q, e)) = Entries(q) \cup {e}
      <3>1. \A x : x \in Entries(Append(q, e)) <=> x \in Entries(q) \cup {e}
        BY <2>1 DEF Entries
      <3> QED BY Zenon, <3>1
    <2>3. ASSUME Rising(q), Below(Entries(q), {e}) PROVE Rising(Append(q, e))
      <3> SUFFICES ASSUME NEW a \in 1..(Len(q) + 1), NEW b \in 1..(Len(q) + 1), a < b
                   PROVE  Append(q, e)[a].tick < Append(q, e)[b].tick
        BY Zenon, <2>1 DEF Rising
      <3>1. a \in 1..Len(q) /\ q[a] \in Entries(q)
        BY <2>1 DEF Entries
      <3>2. CASE b = Len(q) + 1
        BY Zenon, <2>1, <2>3, <3>1, <3>2 DEF Below
      <3>3. CASE b \in 1..Len(q)
        BY Zenon, <2>1, <2>3, <3>1, <3>3 DEF Rising
      <3> QED BY <2>1, <3>2, <3>3
    <2> QED BY Zenon, <2>2, <2>3
  <1>4. ASSUME q # <<>>
        PROVE  /\ Entries(q) = {Head(q)} \cup Entries(Tail(q))
               /\ Rising(q) => Rising(Tail(q)) /\ Below({Head(q)}, Entries(Tail(q)))
    <2>1. /\ Len(Tail(q)) = Len(q) - 1 /\ Len(q) \in Nat /\ Len(q) >= 1
          /\ \A n \in 1..(Len(q) - 1) : Tail(q)[n] = q[n + 1]
          /\ Head(q) = q[1]
      BY <1>4
    <2>2. ASSUME NEW x PROVE x \in Entries(q) <=> x \in {Head(q)} \cup Entries(Tail(q))
      <3>1. ASSUME NEW n \in 1..Len(q), x = q[n] PROVE x \in {Head(q)} \cup Entries(Tail(q))
        <4>1. CASE n = 1
          BY Zenon, <2>1, <3>1, <4>1
        <4>2. CASE n # 1
          <5>1. n - 1 \in 1..(Len(q) - 1) /\ Tail(q)[n - 1] = x
            BY <2>1, <3>1, <4>2
          <5> QED BY Zenon, <2>1, <5>1 DEF Entries
        <4> QED BY Zenon, <4>1, <4>2
      <3>2. ASSUME NEW n \in 1..(Len(q) - 1), x = Tail(q)[n] PROVE x \in Entries(q)
        <4>1. n + 1 \in 1..Len(q) /\ q[n + 1] = x
          BY <2>1, <3>2
        <4> QED BY Zenon, <4>1 DEF Entries
      <3>3. Head(q) \in Entries(q)
        <4>1. 1 \in 1..Len(q)
          BY <2>1
        <4> QED BY Zenon, <2>1, <4>1 DEF Entries
      <3> QED BY Zenon, <2>1, <3>1, <3>2, <3>3 DEF Entries
    <2>3. ASSUME Rising(q) PROVE Rising(Tail(q)) /\ Below({Head(q)}, Entries(Tail(q)))
      <3>1. Rising(Tail(q))
        BY <2>1, <2>3 DEF Rising
      <3>2. \A n \in 1..(Len(q) - 1) : Head(q).tick < Tail(q)[n].tick
        BY <2>1, <2>3 DEF Rising
      <3> QED BY Zenon, <2>1, <3>1, <3>2 DEF Below, Entries
    <2> QED BY Zenon, <2>2, <2>3
  <1> QED BY Zenon, <1>1, <1>2, <1>3, <1>4

\* What is on its way are prices, and none is ahead of the clock.
LEMMA EntriesTyped ==
  ASSUME TypeInv
  PROVE  /\ \A i \in Streams : /\ streams[i].int \in Seq(PriceRecord)
                               /\ streams[i].ext \in Seq(PriceRecord)
                               /\ Queued(i) \subseteq PriceRecord
                               /\ Coming(i) \subseteq PriceRecord /\ Due(i) \subseteq PriceRecord
         /\ \A k \in Consumers : /\ Held(k) \subseteq PriceRecord
                                 /\ Live(k) => consumers[k].stream \in Streams
         /\ \A e \in PriceRecord : e.tick \in Nat /\ e.market \in Markets
         /\ \A m \in Markets : prices[m] \in Nat /\ sent[m] \in Nat
         /\ ticks \in Nat
  <1>1. ASSUME NEW i \in Streams
        PROVE  /\ streams[i].int \in Seq(PriceRecord) /\ streams[i].ext \in Seq(PriceRecord)
               /\ Queued(i) \subseteq PriceRecord /\ Coming(i) \subseteq PriceRecord
               /\ Due(i) \subseteq PriceRecord
    <2>1. streams[i].int \in Seq(PriceRecord) /\ streams[i].ext \in Seq(PriceRecord)
      BY Zenon DEF TypeInv, StreamsTyped, StreamRecord
    <2>2. Queued(i) \subseteq PriceRecord /\ Coming(i) \subseteq PriceRecord
      BY Zenon, <2>1, ChannelFacts DEF Queued, Coming
    <2> QED BY Zenon, <2>1, <2>2 DEF Due
  <1>2. ASSUME NEW k \in Consumers
        PROVE  /\ Held(k) \subseteq PriceRecord
               /\ Live(k) => consumers[k].stream \in Streams
    BY Zenon DEF TypeInv, ConsumersTyped, ConsumerOK, Held, Live
  <1>3. \A e \in PriceRecord : e.tick \in Nat /\ e.market \in Markets
    BY Zenon DEF PriceRecord
  <1>4. (\A m \in Markets : prices[m] \in Nat /\ sent[m] \in Nat) /\ ticks \in Nat
    BY Zenon DEF TypeInv, PricesTyped
  <1> QED BY Zenon, <1>1, <1>2, <1>3, <1>4

\* The clock is not behind.
LEMMA ClockAhead ==
  ASSUME TypeInv, TicksInv
  PROVE  /\ \A i \in Streams : \A e \in Queued(i) \cup Coming(i) \cup Due(i) : e.tick <= ticks
         /\ \A k \in Consumers : \A e \in Held(k) : e.tick <= ticks
  <1>1. \A e \in PriceRecord : e.tick \in Nat /\ sent[e.market] \in Nat
          /\ sent[e.market] <= ticks /\ ticks \in Nat
    BY Zenon, EntriesTyped DEF TicksInv
  <1>2. ASSUME NEW i \in Streams, NEW e \in Queued(i) \cup Coming(i) \cup Due(i)
        PROVE  e.tick <= ticks
    <2>1. e \in Queued(i) \cup Coming(i)
      BY Zenon DEF Due
    <2>2. e.tick <= sent[e.market] /\ e \in PriceRecord
      BY Zenon, <2>1, EntriesTyped DEF TicksInv, NotAhead
    <2> QED BY <1>1, <2>2
  <1>3. ASSUME NEW k \in Consumers, NEW e \in Held(k)
        PROVE  e.tick <= ticks
    <2>1. e.tick <= sent[e.market] /\ e \in PriceRecord
      BY Zenon, EntriesTyped DEF TicksInv, NotAhead
    <2> QED BY <1>1, <2>1
  <1> QED BY Zenon, <1>2, <1>3

\* The connections keep their goroutines while the feeds, the RPCs and the
\* connections of the goroutines stay.
LEMMA OwnFrame ==
  ASSUME TypeInv, OwnInv, UNCHANGED <<active, sources, feeds, calls, broken>>,
         \A j \in Streams : Closes(j, streams[j].extClosed, streams[j].intClosed),
         \A k \in Consumers : consumers'[k].stream = consumers[k].stream,
         \A j \in Streams : streams[j].extClosed /\ Due(j)' # {} => Due(j) # {}
  PROVE  OwnInv'
  <1>1. \A j \in Streams : Owned(j)' = Owned(j)
    BY Zenon DEF Owned, Opening
  <1>2. \A j \in Streams : (~streams[j].extClosed \/ Due(j) # {} => Owned(j))'
    BY Zenon, <1>1 DEF OwnInv, Closes
  <1>3. \A j \in Streams : (streams[j].intClosed => streams[j].extClosed)'
    BY Zenon DEF OwnInv, Closes
  <1>4. \A c \in RPCs : (calls[c].pc = "closeInt" => streams[calls[c].stream].extClosed)'
    <2>1. \A c \in RPCs : calls[c].pc = "closeInt" => calls[c].stream \in Streams
      BY Zenon, AtHand DEF Connected
    <2> QED BY Zenon, <2>1 DEF OwnInv, Closes
  <1>5. \A f \in active : Fed(f) => Fed(f)'
    BY Zenon DEF Fed
  <1>6. \A k \in Consumers : Live(k)' = Live(k)
    BY Zenon DEF Live
  <1> QED BY Zenon, <1>2, <1>3, <1>4, <1>5, <1>6 DEF OwnInv

\* A new price comes after all that are on their way
\* (pkg/price-feeder, start; service.go, getPriceFeederBySource).
LEMMA TickOrderly ==
  ASSUME TypeInv, Orderly, NEW i \in Streams, Tick(i)
  PROVE  Orderly'
  <1> USE DEF Orderly
  <1>1. PICK m \in Markets :
          /\ StreamNow(i, streams[i].subs,
                       Append(streams[i].ext, [market |-> m, tick |-> ticks + 1]),
                       streams[i].int)
          /\ sent' = [sent EXCEPT ![m] = ticks + 1]
          /\ [market |-> m, tick |-> ticks + 1] \in PriceRecord
    BY Zenon, TickStep
  <1>2. PICK e \in PriceRecord, t \in Nat :
          e = [market |-> m, tick |-> ticks + 1] /\ t = ticks
    BY Zenon, <1>1 DEF TypeInv, PricesTyped
  <1>3. e.market = m /\ e.tick = t + 1
    BY Zenon, <1>2
  <1>4. /\ UNCHANGED <<active, sources, feeds, consumers, calls, broken, prices>>
        /\ ticks' = t + 1 /\ ~streams[i].extClosed
    BY Zenon, <1>2 DEF Tick
  <1>5. /\ \A j \in Streams : Closes(j, streams[j].extClosed, streams[j].intClosed)
        /\ \A j \in Streams : streams'[j].int = streams[j].int
        /\ \A j \in Streams \ {i} : streams'[j].ext = streams[j].ext
        /\ streams'[i].ext = Append(streams[i].ext, e)
    BY Zenon, <1>1, <1>2, TickStep DEF StreamNow, OnlyStream, Closes
  <1>6. /\ \A j \in Streams : Queued(j)' = Queued(j)
        /\ \A j \in Streams \ {i} : Coming(j)' = Coming(j)
        /\ Coming(i)' = Coming(i) \cup {e}
    BY Zenon, <1>5, EntriesTyped, ChannelFacts DEF Queued, Coming
  <1>7. \A k \in Consumers : Held(k)' = Held(k) /\ Live(k)' = Live(k)
    BY Zenon, <1>4 DEF Held, Live
  <1>8. /\ \A j \in Streams : \A x \in Queued(j) \cup Coming(j) \cup Due(j) : x \in PriceRecord /\ x.tick <= t
        /\ \A k \in Consumers : \A x \in Held(k) : x \in PriceRecord /\ x.tick <= t
    BY Zenon, <1>2, ClockAhead, EntriesTyped
  <1>9. \A x \in PriceRecord : x.tick \in Nat /\ x.market \in Markets
    BY Zenon, EntriesTyped
  <1>10. /\ \A n \in Markets : prices[n] \in Nat /\ sent[n] \in Nat /\ prices[n] <= t /\ sent[n] <= t
         /\ \A n \in Markets : sent'[n] = IF n = m THEN t + 1 ELSE sent[n]
    BY Zenon, <1>1, <1>2, EntriesTyped DEF TicksInv, TypeInv, PricesTyped
  <1>11. TicksInv'
    <2>1. \A n \in Markets : prices'[n] <= ticks' /\ sent'[n] <= ticks'
      BY <1>4, <1>10
    <2>2. ASSUME NEW j \in Streams PROVE NotAhead(Queued(j) \cup Coming(j))'
      <3>1. ASSUME NEW x \in Queued(j) \cup Coming(j) PROVE x.tick <= sent'[x.market]
        BY <1>8, <1>9, <1>10, <3>1 DEF TicksInv, NotAhead
      <3>2. \A x \in (Queued(j) \cup Coming(j))' : x \in Queued(j) \cup Coming(j) \/ x = e
        BY Zenon, <1>6
      <3> QED BY <1>2, <1>3, <1>10, <3>1, <3>2 DEF NotAhead
    <2>3. ASSUME NEW k \in Consumers PROVE NotAhead(Held(k))'
      BY <1>7, <1>8, <1>9, <1>10 DEF TicksInv, NotAhead
    <2>4. ASSUME NEW n \in Markets
          PROVE  \/ prices'[n] = sent'[n]
                 \/ \E j \in Streams : Latest(n, Queued(j) \cup Coming(j))'
                 \/ \E k \in Consumers : Latest(n, Held(k))'
      <3>1. CASE n = m
        BY Zenon, <1>2, <1>3, <1>6, <1>10, <3>1 DEF Latest
      <3>2. CASE n # m
        <4>1. \A j \in Streams : Latest(n, Queued(j) \cup Coming(j)) =>
                                 Latest(n, Queued(j) \cup Coming(j))'
          BY Zenon, <1>6, <1>10, <3>2 DEF Latest
        <4>2. \A k \in Consumers : Latest(n, Held(k)) => Latest(n, Held(k))'
          BY Zenon, <1>7, <1>10, <3>2 DEF Latest
        <4> QED BY Zenon, <1>4, <1>10, <3>2, <4>1, <4>2 DEF TicksInv
      <3> QED BY Zenon, <3>1, <3>2
    <2>5. ASSUME NEW j \in Streams
          PROVE  (Rising(streams[j].int) /\ Rising(streams[j].ext) /\ Below(Queued(j), Coming(j)))'
      <3>1. CASE j # i
        BY Zenon, <1>5, <1>6, <3>1 DEF TicksInv, Rising
      <3>2. CASE j = i
        <4>1. Below(Coming(i), {e}) /\ Below(Queued(i), {e})
          BY <1>3, <1>8, <1>9 DEF Below
        <4>2. Rising(Append(streams[i].ext, e))
          BY Zenon, <4>1, ChannelFacts, EntriesTyped DEF TicksInv, Coming
        <4>3. Below(Queued(i), Coming(i) \cup {e})
          BY Zenon, <4>1 DEF Below, TicksInv
        <4> QED BY Zenon, <1>5, <1>6, <3>2, <4>2, <4>3 DEF TicksInv, Rising, Below
      <3> QED BY Zenon, <3>1, <3>2
    <2> QED BY Zenon, <2>1, <2>2, <2>3, <2>4, <2>5 DEF TicksInv
  <1>12. /\ \A j \in Streams \ {i} : Due(j)' = Due(j)
         /\ \A x \in Due(i)' : x \in Due(i) \/ x = e
    BY Zenon, <1>5, <1>6 DEF Due, Closes
  <1>13. OwnInv'
    <2>1. \A j \in Streams : streams[j].extClosed /\ Due(j)' # {} => Due(j) # {}
      BY Zenon, <1>4, <1>12
    <2> QED BY Zenon, <1>4, <1>5, <2>1, OwnFrame
  <1>14. OrderInv'
    <2>1. ASSUME NEW k \in Consumers, Live(k)
          PROVE  (/\ Below(Held(k), Due(consumers[k].stream))
                  /\ NotOlder(Held(k) \cup Due(consumers[k].stream)))'
      <3>1. PICK j \in Streams : j = consumers[k].stream
        BY Zenon, <2>1, EntriesTyped
      <3>2. /\ Below(Held(k), Due(j)) /\ NotOlder(Held(k) \cup Due(j))
        BY Zenon, <2>1, <3>1 DEF OrderInv
      <3>3. \A x \in Due(j)' : x \in Due(j) \/ x = e
        BY Zenon, <1>12
      <3>4. Below(Held(k), Due(j)')
        BY <1>3, <1>8, <1>9, <3>2, <3>3 DEF Below
      <3>5. \A x \in Held(k) \cup Due(j)' : prices[x.market] <= x.tick
        BY <1>3, <1>10, <3>2, <3>3 DEF NotOlder
      <3> QED BY Zenon, <1>4, <1>7, <3>1, <3>4, <3>5 DEF Below, NotOlder
    <2>2. ASSUME NEW c \in RPCs, Opening(c), Waiting(calls[c].stream)'
          PROVE  (/\ NotOlder(Due(calls[c].stream))
                  /\ \A k \in Consumers : Live(k) =>
                       Below(Held(k) \cup Due(consumers[k].stream), Due(calls[c].stream)))'
      <3>1. PICK j \in Streams : j = calls[c].stream
        BY Zenon, <2>2, AtHand DEF Opening, Connected
      <3>2. Waiting(j)
        BY Zenon, <1>4, <1>5, <1>7, <2>2, <3>1, EntriesTyped DEF Waiting, Closes
      <3>3. /\ NotOlder(Due(j))
            /\ \A k \in Consumers : Live(k) => Below(Held(k) \cup Due(consumers[k].stream), Due(j))
        BY Zenon, <2>2, <3>1, <3>2 DEF OrderInv
      <3>4. \A x \in Due(j)' : x \in Due(j) \/ x = e
        BY Zenon, <1>12
      <3>5. \A x \in Due(j)' : prices[x.market] <= x.tick
        BY <1>3, <1>10, <3>3, <3>4 DEF NotOlder
      <3>6. ASSUME NEW k \in Consumers, Live(k)
            PROVE  (Below(Held(k) \cup Due(consumers[k].stream), Due(j)))'
        <4>1. PICK r \in Streams : r = consumers[k].stream
          BY Zenon, <3>6, EntriesTyped
        <4>2. r # i
          BY Zenon, <1>4, <3>2, <3>6, <4>1 DEF Waiting, OwnInv
        <4>3. Below(Held(k) \cup Due(r), Due(j)')
          BY <1>3, <1>8, <1>9, <3>3, <3>4, <3>6, <4>1 DEF Below
        <4> QED BY Zenon, <1>4, <1>7, <1>12, <4>1, <4>2, <4>3 DEF Below
      <3> QED BY Zenon, <1>4, <1>7, <3>1, <3>5, <3>6 DEF NotOlder
    <2> QED BY Zenon, <1>4, <1>7, <2>1, <2>2 DEF OrderInv, Opening
  <1> QED BY Zenon, <1>11, <1>13, <1>14

\* The prices are as new as they were, in the order they had.
LEMMA OrderFrame ==
  ASSUME TypeInv, OrderInv, UNCHANGED <<calls, prices>>,
         \A j \in Streams : Closes(j, streams[j].extClosed, streams[j].intClosed),
         \A k \in Consumers : consumers'[k].stream = consumers[k].stream /\ Held(k)' = Held(k),
         \A j \in Streams : Due(j)' = Due(j)
  PROVE  OrderInv'
  <1>1. \A k \in Consumers : /\ Live(k)' = Live(k)
                             /\ Live(k) => consumers[k].stream \in Streams
    BY Zenon, EntriesTyped DEF Live
  <1>2. ASSUME NEW k \in Consumers, Live(k)
        PROVE  (/\ Below(Held(k), Due(consumers[k].stream))
                /\ NotOlder(Held(k) \cup Due(consumers[k].stream)))'
    <2>1. PICK j \in Streams : j = consumers[k].stream
      BY Zenon, <1>1, <1>2
    <2>2. Below(Held(k), Due(j)) /\ NotOlder(Held(k) \cup Due(j))
      BY Zenon, <1>2, <2>1 DEF OrderInv
    <2> QED BY Zenon, <2>1, <2>2 DEF Below, NotOlder
  <1>3. ASSUME NEW c \in RPCs, Opening(c), Waiting(calls[c].stream)'
        PROVE  (/\ NotOlder(Due(calls[c].stream))
                /\ \A k \in Consumers : Live(k) =>
                     Below(Held(k) \cup Due(consumers[k].stream), Due(calls[c].stream)))'
    <2>1. PICK j \in Streams : j = calls[c].stream
      BY Zenon, <1>3, AtHand DEF Opening, Connected
    <2>2. Waiting(j)
      BY Zenon, <1>1, <1>3, <2>1 DEF Waiting, Closes
    <2>3. /\ NotOlder(Due(j))
          /\ \A k \in Consumers : Live(k) => Below(Held(k) \cup Due(consumers[k].stream), Due(j))
      BY Zenon, <1>3, <2>1, <2>2 DEF OrderInv
    <2>4. ASSUME NEW k \in Consumers, Live(k)
          PROVE  Below(Held(k) \cup Due(consumers[k].stream), Due(j))'
      <3>1. PICK r \in Streams : r = consumers[k].stream
        BY Zenon, <1>1, <2>4
      <3> QED BY Zenon, <2>3, <2>4, <3>1 DEF Below
    <2> QED BY Zenon, <1>1, <2>1, <2>3, <2>4 DEF NotOlder
  <1> QED BY Zenon, <1>1, <1>2, <1>3 DEF OrderInv, Opening

\* A price goes from one channel of a source to the other, after those that went
\* before it (service.go, getPriceFeederBySource).
LEMMA ForwardOrderly ==
  ASSUME TypeInv, Orderly, NEW i \in Streams, Forward(i)
  PROVE  Orderly'
  <1> USE DEF Orderly
  <1>1. PICK h, e, q : /\ e = streams[i].ext /\ q = streams[i].int /\ h = Head(e)
    BY Zenon
  <1>2. /\ UNCHANGED <<active, sources, feeds, consumers, calls, broken, prices, sent, ticks>>
        /\ ~streams[i].intClosed /\ e # <<>>
    BY Zenon, <1>1 DEF Forward, daemon
  <1>3. e \in Seq(PriceRecord) /\ q \in Seq(PriceRecord) /\ h \in PriceRecord
    BY <1>1, <1>2, EntriesTyped
  <1>4. /\ \A j \in Streams : Closes(j, streams[j].extClosed, streams[j].intClosed)
        /\ \A j \in Streams \ {i} : streams'[j].int = streams[j].int /\ streams'[j].ext = streams[j].ext
        /\ streams'[i].ext = Tail(e) /\ streams'[i].int = Append(q, h)
    BY Zenon, <1>1, ForwardStep DEF StreamNow, OnlyStream, Closes
  <1>5. /\ \A j \in Streams \ {i} : Queued(j)' = Queued(j) /\ Coming(j)' = Coming(j)
        /\ Queued(i)' = Queued(i) \cup {h}
        /\ Coming(i) = {h} \cup Coming(i)'
    <2>1. /\ Entries(Append(q, h)) = Entries(q) \cup {h}
          /\ Entries(e) = {h} \cup Entries(Tail(e))
      BY Zenon, <1>1, <1>2, <1>3, ChannelFacts
    <2> QED BY Zenon, <1>1, <1>4, <2>1 DEF Queued, Coming
  <1>6. \A k \in Consumers : Held(k)' = Held(k) /\ consumers'[k].stream = consumers[k].stream
    BY Zenon, <1>2 DEF Held
  <1>7. \A j \in Streams : /\ (Queued(j) \cup Coming(j))' = Queued(j) \cup Coming(j)
                           /\ Due(j)' = Due(j)
    BY Zenon, <1>2, <1>4, <1>5 DEF Due, Closes
  <1>8. TicksInv'
    <2>1. ASSUME NEW j \in Streams
          PROVE  (Rising(streams[j].int) /\ Rising(streams[j].ext) /\ Below(Queued(j), Coming(j)))'
      <3>1. CASE j # i
        BY Zenon, <1>4, <1>5, <3>1 DEF TicksInv, Rising
      <3>2. CASE j = i
        <4>1. Rising(q) /\ Rising(e) /\ Below(Queued(i), Coming(i)) /\ Entries(q) = Queued(i)
          BY Zenon, <1>1 DEF TicksInv, Queued
        <4>2. Rising(Tail(e)) /\ Below({h}, Entries(Tail(e)))
          BY Zenon, <1>1, <1>2, <1>3, <4>1, ChannelFacts
        <4>3. Below(Queued(i), {h}) /\ Rising(Append(q, h))
          BY <1>3, <1>5, <4>1, ChannelFacts DEF Below
        <4>4. Coming(i)' = Entries(Tail(e))
          BY Zenon, <1>4 DEF Coming
        <4>5. Below(Queued(i) \cup {h}, Coming(i)')
          BY Zenon, <1>5, <4>1, <4>2, <4>4 DEF Below
        <4> QED BY Zenon, <1>4, <1>5, <3>2, <4>2, <4>3, <4>5 DEF Rising, Below
      <3> QED BY Zenon, <3>1, <3>2
    <2>2. \A j \in Streams : NotAhead(Queued(j) \cup Coming(j))'
      BY Zenon, <1>2, <1>7 DEF TicksInv, NotAhead
    <2>3. \A k \in Consumers : NotAhead(Held(k))'
      BY Zenon, <1>2, <1>6 DEF TicksInv, NotAhead
    <2>4. /\ \A j \in Streams, n \in Markets :
               Latest(n, Queued(j) \cup Coming(j)) => Latest(n, Queued(j) \cup Coming(j))'
          /\ \A k \in Consumers, n \in Markets : Latest(n, Held(k)) => Latest(n, Held(k))'
      BY Zenon, <1>2, <1>6, <1>7 DEF Latest
    <2> QED BY Zenon, <1>2, <2>1, <2>2, <2>3, <2>4 DEF TicksInv
  <1>9. OwnInv'
    BY Zenon, <1>2, <1>4, <1>6, <1>7, OwnFrame
  <1>10. OrderInv'
    BY Zenon, <1>2, <1>4, <1>6, <1>7, OrderFrame
  <1> QED BY Zenon, <1>8, <1>9, <1>10

\* The goroutine takes the oldest price of its channel
\* (feeder/service.go, StartPriceFeed).
LEMMA TakeOrderly ==
  ASSUME TypeInv, Orderly, NEW k \in Consumers, Take(k),
         streams[consumers[k].stream].int # <<>>
  PROVE  Orderly'
  <1> USE DEF Orderly
  <1>1. PICK i \in Streams : i = consumers[k].stream
    BY Zenon, TakeStep
  <1>2. PICK h, q : q = streams[i].int /\ h = Head(q)
    BY Zenon
  <1>3. /\ q # <<>> /\ consumers[k].price = NoPrice
        /\ consumers' = [consumers EXCEPT ![k] = Consumer(i, h)]
        /\ StreamNow(i, streams[i].subs, streams[i].ext, Tail(q))
        /\ Closes(i, streams[i].extClosed, streams[i].intClosed)
        /\ OnlyStream(i)
    BY Zenon, <1>1, <1>2, TakeStep
  <1>4. /\ UNCHANGED <<active, sources, feeds, calls, broken, prices, sent, ticks>>
    BY Zenon DEF Take, daemon
  <1>5. q \in Seq(PriceRecord) /\ h \in PriceRecord /\ h # NoPrice
    <2>1. q \in Seq(PriceRecord)
      BY Zenon, <1>2, EntriesTyped
    <2>2. h \in PriceRecord
      BY <1>2, <1>3, <2>1
    <2> QED BY Zenon, <2>1, <2>2, FeederAssumption DEF PriceRecord
  <1>6. /\ \A j \in Streams : Closes(j, streams[j].extClosed, streams[j].intClosed)
        /\ \A j \in Streams : streams'[j].ext = streams[j].ext
        /\ \A j \in Streams \ {i} : streams'[j].int = streams[j].int
        /\ streams'[i].int = Tail(q)
    BY Zenon, <1>3 DEF StreamNow, OnlyStream, Closes
  <1>7. /\ Entries(q) = {h} \cup Entries(Tail(q))
        /\ Rising(Tail(q)) /\ Below({h}, Entries(Tail(q)))
    <2>1. Rising(q)
      BY Zenon, <1>2 DEF TicksInv
    <2> QED BY Zenon, <1>2, <1>3, <1>5, <2>1, ChannelFacts
  <1>8. /\ \A j \in Streams : Coming(j)' = Coming(j)
        /\ \A j \in Streams \ {i} : Queued(j)' = Queued(j)
        /\ Queued(i)' = Entries(Tail(q)) /\ Queued(i) = {h} \cup Queued(i)'
    BY Zenon, <1>2, <1>6, <1>7 DEF Queued, Coming
  <1>9. /\ Held(k) = {} /\ Held(k)' = {h}
        /\ \A l \in Consumers \ {k} : Held(l)' = Held(l)
        /\ \A l \in Consumers : consumers'[l].stream = consumers[l].stream
        /\ \A l \in Consumers : Live(l)' = Live(l)
        /\ Live(k)
    <2>1. /\ \A l \in Consumers \ {k} : consumers'[l] = consumers[l]
          /\ consumers'[k].stream = i /\ consumers'[k].price = h
      BY <1>3, Fields DEF TypeInv, ConsumersTyped
    <2>2. i # NoStream
      BY Zenon, FeederAssumption
    <2> QED BY Zenon, <1>1, <1>3, <1>5, <2>1, <2>2 DEF Held, Live
  <1>10. /\ \A j \in Streams \ {i} : Due(j)' = Due(j)
         /\ Due(i)' \subseteq Due(i) /\ Due(i) = {h} \cup Due(i)'
    BY Zenon, <1>6, <1>8 DEF Due, Closes
  <1>11. Below({h}, Coming(i)) /\ Below({h}, Due(i)')
    <2>1. Below({h}, Coming(i))
      BY Zenon, <1>8 DEF TicksInv, Below
    <2>2. Below({h}, Queued(i)')
      BY Zenon, <1>7, <1>8 DEF Below
    <2> QED BY Zenon, <1>8, <2>1, <2>2 DEF Below, Due
  <1>12. TicksInv'
    <2>1. ASSUME NEW j \in Streams
          PROVE  (Rising(streams[j].int) /\ Rising(streams[j].ext) /\ Below(Queued(j), Coming(j)))'
      <3>1. CASE j # i
        BY Zenon, <1>6, <1>8, <3>1 DEF TicksInv, Rising
      <3>2. CASE j = i
        <4>1. Below(Queued(i)', Coming(i))
          BY Zenon, <1>8 DEF TicksInv, Below
        <4> QED BY Zenon, <1>6, <1>7, <1>8, <3>2, <4>1 DEF TicksInv, Rising, Below
      <3> QED BY Zenon, <3>1, <3>2
    <2>2. \A j \in Streams : NotAhead(Queued(j) \cup Coming(j))'
      BY Zenon, <1>4, <1>8 DEF TicksInv, NotAhead
    <2>3. \A l \in Consumers : NotAhead(Held(l))'
      BY Zenon, <1>4, <1>8, <1>9 DEF TicksInv, NotAhead
    <2>4. ASSUME NEW n \in Markets
          PROVE  \/ prices'[n] = sent'[n]
                 \/ \E j \in Streams : Latest(n, Queued(j) \cup Coming(j))'
                 \/ \E l \in Consumers : Latest(n, Held(l))'
      <3>1. ASSUME NEW j \in Streams, Latest(n, Queued(j) \cup Coming(j))
            PROVE  Latest(n, Queued(j) \cup Coming(j))' \/ Latest(n, Held(k))'
        BY Zenon, <1>4, <1>8, <1>9, <3>1 DEF Latest
      <3>2. ASSUME NEW l \in Consumers, Latest(n, Held(l))
            PROVE  Latest(n, Held(l))'
        BY Zenon, <1>4, <1>9, <3>2 DEF Latest
      <3> QED BY Zenon, <1>4, <3>1, <3>2 DEF TicksInv
    <2> QED BY Zenon, <1>4, <2>1, <2>2, <2>3, <2>4 DEF TicksInv
  <1>13. OwnInv'
    <2>1. \A j \in Streams : Due(j)' # {} => Due(j) # {}
      BY Zenon, <1>10
    <2> QED BY Zenon, <1>4, <1>6, <1>9, <2>1, OwnFrame
  <1>14. OrderInv'
    <2>1. ASSUME NEW l \in Consumers, Live(l)
          PROVE  (/\ Below(Held(l), Due(consumers[l].stream))
                  /\ NotOlder(Held(l) \cup Due(consumers[l].stream)))'
      <3>1. l = k
        BY Zenon, <1>9, <2>1 DEF OwnInv
      <3>2. NotOlder(Due(i))
        BY Zenon, <1>1, <1>9 DEF OrderInv, NotOlder
      <3>3. \A x \in {h} \cup Due(i)' : prices[x.market] <= x.tick
        BY Zenon, <1>10, <3>2 DEF NotOlder
      <3> QED BY Zenon, <1>1, <1>4, <1>9, <1>11, <3>1, <3>3 DEF Below, NotOlder
    <2>2. ASSUME NEW c \in RPCs, Opening(c), Waiting(calls[c].stream)'
          PROVE  (/\ NotOlder(Due(calls[c].stream))
                  /\ \A l \in Consumers : Live(l) =>
                       Below(Held(l) \cup Due(consumers[l].stream), Due(calls[c].stream)))'
      <3>1. PICK j \in Streams : j = calls[c].stream
        BY Zenon, <2>2, AtHand DEF Opening, Connected
      <3>2. Waiting(j) /\ j # i
        BY Zenon, <1>1, <1>4, <1>6, <1>9, <2>2, <3>1, EntriesTyped DEF Waiting, Closes
      <3>3. NotOlder(Due(j)) /\ Below(Due(i), Due(j))
        BY Zenon, <1>1, <1>9, <2>2, <3>1, <3>2 DEF OrderInv, Below
      <3>4. Due(j)' = Due(j)
        BY Zenon, <1>10, <3>2
      <3>5. Below({h} \cup Due(i)', Due(j))
        BY Zenon, <1>10, <3>3 DEF Below
      <3>6. \A l \in Consumers : Live(l) => l = k
        BY Zenon, <1>9 DEF OwnInv
      <3> QED BY Zenon, <1>1, <1>4, <1>9, <3>1, <3>3, <3>4, <3>5, <3>6 DEF NotOlder, Below
    <2> QED BY Zenon, <1>4, <1>9, <2>1, <2>2 DEF OrderInv, Opening
  <1> QED BY Zenon, <1>12, <1>13, <1>14

\* A price is stored: what is on its way is newer, and it is the last of its market
\* once nothing newer is on its way (feeder/service.go, StartPriceFeed).
LEMMA StoreOrderly ==
  ASSUME TypeInv, Orderly, NEW k \in Consumers, UpdateMarketPrice(k)
  PROVE  /\ Orderly'
         /\ \A m \in Markets : prices'[m] >= prices[m]
  <1> USE DEF Orderly
  <1>1. PICK e \in PriceRecord, m \in Markets, t \in Nat :
          e = consumers[k].price /\ m = e.market /\ t = e.tick
    BY Zenon DEF UpdateMarketPrice, TypeInv, ConsumersTyped, ConsumerOK, PriceRecord
  <1>2. /\ UNCHANGED <<active, sources, feeds, streams, calls, broken, sent, ticks>>
        /\ prices' = [prices EXCEPT ![m] = t]
        /\ consumers' = [consumers EXCEPT ![k] = Consumer(consumers[k].stream, NoPrice)]
    BY Zenon, <1>1 DEF UpdateMarketPrice
  <1>3. /\ \A n \in Markets : prices'[n] = IF n = m THEN t ELSE prices[n]
        /\ \A n \in Markets : prices[n] \in Nat /\ sent[n] \in Nat
        /\ \A x \in PriceRecord : x.tick \in Nat /\ x.market \in Markets
    BY Zenon, <1>2, EntriesTyped DEF TypeInv, PricesTyped
  <1>4. /\ Held(k) = {e} /\ Held(k)' = {}
        /\ \A l \in Consumers \ {k} : Held(l)' = Held(l)
        /\ \A l \in Consumers : consumers'[l].stream = consumers[l].stream
        /\ \A l \in Consumers : Live(l)' = Live(l)
        /\ Live(k)
    <2>1. /\ \A l \in Consumers \ {k} : consumers'[l] = consumers[l]
          /\ consumers'[k].stream = consumers[k].stream /\ consumers'[k].price = NoPrice
      BY <1>2, Fields DEF TypeInv, ConsumersTyped
    <2>2. e # NoPrice
      BY Zenon, <1>1, FeederAssumption DEF PriceRecord
    <2>3. consumers[k].stream # NoStream
      BY Zenon, <1>1, <2>2, Fields DEF TypeInv, ConsumersTyped, ConsumerOK
    <2> QED BY Zenon, <1>1, <2>1, <2>2, <2>3 DEF Held, Live
  <1>5. /\ \A j \in Streams : /\ Queued(j)' = Queued(j) /\ Coming(j)' = Coming(j)
                              /\ Due(j)' = Due(j)
                              /\ Closes(j, streams[j].extClosed, streams[j].intClosed)
    BY Zenon, <1>2 DEF Queued, Coming, Due, Closes
  <1>6. PICK i \in Streams : i = consumers[k].stream
    BY Zenon, <1>4, EntriesTyped
  <1>7. prices[m] <= t /\ NotOlder(Due(i)) /\ Below({e}, Due(i)) /\ t <= sent[m]
    <2>1. NotOlder({e} \cup Due(i)) /\ Below({e}, Due(i)) /\ NotAhead({e})
      BY Zenon, <1>4, <1>6 DEF OrderInv, TicksInv
    <2> QED BY Zenon, <1>1, <2>1 DEF NotOlder, NotAhead
  <1>8. ASSUME NEW E \in SUBSET PriceRecord, NotOlder(E), Below({e}, E)
        PROVE  \A x \in E : prices'[x.market] <= x.tick
    <2> SUFFICES ASSUME NEW x \in E PROVE prices'[x.market] <= x.tick
      BY Zenon
    <2>1. prices[x.market] <= x.tick /\ e.tick < x.tick
      BY Zenon, <1>8 DEF NotOlder, Below
    <2>2. prices'[x.market] = t \/ prices'[x.market] = prices[x.market]
      BY Zenon, <1>1, <1>3, <1>8
    <2>3. x.tick \in Nat
      BY Zenon, <1>3, <1>8
    <2> QED BY <1>1, <2>1, <2>2, <2>3
  <1>9. TicksInv'
    <2>1. \A n \in Markets : prices'[n] <= ticks' /\ sent'[n] <= ticks'
      <3>1. \A n \in Markets : prices[n] <= ticks /\ sent[n] <= ticks
        BY Zenon DEF TicksInv
      <3>2. ticks \in Nat
        BY Zenon, EntriesTyped
      <3>3. t <= ticks
        BY <1>3, <1>7, <3>1, <3>2
      <3> QED BY Zenon, <1>2, <1>3, <3>1, <3>3
    <2>2. \A j \in Streams : NotAhead(Queued(j) \cup Coming(j))'
      BY Zenon, <1>2, <1>5 DEF TicksInv, NotAhead
    <2>3. \A l \in Consumers : NotAhead(Held(l))'
      BY Zenon, <1>2, <1>4 DEF TicksInv, NotAhead
    <2>4. ASSUME NEW n \in Markets
          PROVE  \/ prices'[n] = sent'[n]
                 \/ \E j \in Streams : Latest(n, Queued(j) \cup Coming(j))'
                 \/ \E l \in Consumers : Latest(n, Held(l))'
      <3>1. ASSUME NEW j \in Streams, Latest(n, Queued(j) \cup Coming(j))
            PROVE  Latest(n, Queued(j) \cup Coming(j))'
        BY Zenon, <1>2, <1>5, <3>1 DEF Latest
      <3>2. ASSUME NEW l \in Consumers, Latest(n, Held(l))
            PROVE  Latest(n, Held(l))' \/ prices'[n] = sent'[n]
        <4>1. CASE l = k
          BY Zenon, <1>1, <1>2, <1>3, <1>4, <3>2, <4>1 DEF Latest
        <4>2. CASE l # k
          BY Zenon, <1>2, <1>4, <3>2, <4>2 DEF Latest
        <4> QED BY Zenon, <4>1, <4>2
      <3>3. CASE prices[n] = sent[n]
        BY <1>2, <1>3, <1>7, <3>3
      <3> QED BY Zenon, <3>1, <3>2, <3>3 DEF TicksInv
    <2>5. \A j \in Streams :
            (Rising(streams[j].int) /\ Rising(streams[j].ext) /\ Below(Queued(j), Coming(j)))'
      BY Zenon, <1>2, <1>5 DEF TicksInv, Rising
    <2> QED BY Zenon, <2>1, <2>2, <2>3, <2>4, <2>5 DEF TicksInv
  <1>10. OwnInv'
    BY Zenon, <1>2, <1>4, <1>5, OwnFrame
  <1>11. OrderInv'
    <2>1. ASSUME NEW l \in Consumers, Live(l)
          PROVE  (/\ Below(Held(l), Due(consumers[l].stream))
                  /\ NotOlder(Held(l) \cup Due(consumers[l].stream)))'
      <3>1. l = k
        BY Zenon, <1>4, <2>1 DEF OwnInv
      <3>2. \A x \in Due(i) : prices'[x.market] <= x.tick
        BY Zenon, <1>7, <1>8, EntriesTyped
      <3> QED BY Zenon, <1>4, <1>5, <1>6, <3>1, <3>2 DEF Below, NotOlder
    <2>2. ASSUME NEW c \in RPCs, Opening(c), Waiting(calls[c].stream)'
          PROVE  (/\ NotOlder(Due(calls[c].stream))
                  /\ \A l \in Consumers : Live(l) =>
                       Below(Held(l) \cup Due(consumers[l].stream), Due(calls[c].stream)))'
      <3>1. PICK j \in Streams : j = calls[c].stream
        BY Zenon, <2>2, AtHand DEF Opening, Connected
      <3>2. Waiting(j)
        BY Zenon, <1>2, <1>4, <2>2, <3>1, EntriesTyped DEF Waiting
      <3>3. NotOlder(Due(j)) /\ Below({e} \cup Due(i), Due(j))
        BY Zenon, <1>4, <1>6, <2>2, <3>1, <3>2 DEF OrderInv
      <3>4. Below({e}, Due(j)) /\ Below(Due(i), Due(j))
        BY Zenon, <3>3 DEF Below
      <3>5. \A x \in Due(j) : prices'[x.market] <= x.tick
        BY Zenon, <1>8, <3>3, <3>4, EntriesTyped
      <3>6. \A l \in Consumers : Live(l) => l = k
        BY Zenon, <1>4 DEF OwnInv
      <3> QED BY Zenon, <1>2, <1>4, <1>5, <1>6, <3>1, <3>4, <3>5, <3>6 DEF NotOlder, Below
    <2> QED BY Zenon, <1>2, <1>4, <2>1, <2>2 DEF OrderInv, Opening
  <1>12. \A n \in Markets : prices'[n] >= prices[n]
    BY <1>1, <1>3, <1>7
  <1> QED BY Zenon, <1>9, <1>10, <1>11, <1>12

\* What is on its way stays, while the channels and the goroutines keep it.
LEMMA TicksFrame ==
  ASSUME TypeInv, TicksInv, UNCHANGED <<prices, sent, ticks>>,
         \A j \in Streams : streams'[j].int = streams[j].int /\ streams'[j].ext = streams[j].ext,
         \A k \in Consumers : Held(k)' = Held(k)
  PROVE  TicksInv'
  <1>1. \A j \in Streams : Queued(j)' = Queued(j) /\ Coming(j)' = Coming(j)
    BY Zenon DEF Queued, Coming
  <1>2. \A j \in Streams : NotAhead(Queued(j) \cup Coming(j))'
    BY Zenon, <1>1 DEF TicksInv, NotAhead
  <1>3. \A k \in Consumers : NotAhead(Held(k))'
    BY Zenon DEF TicksInv, NotAhead
  <1>4. /\ \A j \in Streams, n \in Markets :
             Latest(n, Queued(j) \cup Coming(j)) => Latest(n, Queued(j) \cup Coming(j))'
        /\ \A k \in Consumers, n \in Markets : Latest(n, Held(k)) => Latest(n, Held(k))'
    BY Zenon, <1>1 DEF Latest
  <1>5. \A j \in Streams :
          (Rising(streams[j].int) /\ Rising(streams[j].ext) /\ Below(Queued(j), Coming(j)))'
    BY Zenon, <1>1 DEF TicksInv, Rising
  <1> QED BY Zenon, <1>2, <1>3, <1>4, <1>5 DEF TicksInv

\* An RPC takes no price away and adds none (service.go, StartPriceFeed,
\* StopPriceFeed, getPriceFeederBySource, removePriceFeederBySource).
LEMMA CallKeepsPrices ==
  ASSUME TypeInv, NEW c \in RPCs, CallStep(c)
  PROVE  /\ UNCHANGED <<prices, sent, ticks>>
         /\ \A j \in Streams : streams'[j].int = streams[j].int /\ streams'[j].ext = streams[j].ext
         /\ \A k \in Consumers : Held(k)' = Held(k)
         /\ ~StartActivates(c) => consumers' = consumers
  <1>1. UNCHANGED <<prices, sent, ticks>> /\ (~StartActivates(c) => consumers' = consumers)
    BY Zenon DEF CallStep, InsertFeed, UpdateFeed, RemoveFeed, StartReads, StartOpens,
           OpenSource, StartSubscribes, StartWrites, WriteFeed, StartActivates, StopWrites,
           StopOpens, StopUnsubscribes, StopChecks, StopSource, CloseChannel,
           StopDeactivates, daemon
  <1>2. \A k \in Consumers : Held(k)' = Held(k)
    <2>1. CASE StartActivates(c)
      <3>1. PICK k \in Consumers : /\ consumers[k] = NoConsumer
                  /\ consumers' = [consumers EXCEPT ![k] = Consumer(calls[c].stream, NoPrice)]
        BY Zenon, <2>1 DEF StartActivates
      <3>2. \A l \in Consumers : consumers'[l].price = consumers[l].price
        BY <3>1, Fields DEF TypeInv, ConsumersTyped
      <3> QED BY Zenon, <3>2 DEF Held
    <2>2. CASE ~StartActivates(c)
      BY Zenon, <1>1, <2>2 DEF Held
    <2> QED BY Zenon, <2>1, <2>2
  <1>3. ASSUME NEW j \in Streams
        PROVE  streams'[j].int = streams[j].int /\ streams'[j].ext = streams[j].ext
    <2>1. CASE StartOpens(c) \/ StopOpens(c)
      <3>1. PICK pc : OpenSource(c, pc) /\ calls[c].pc \in Copied
        BY Zenon, <2>1 DEF StartOpens, StopOpens, Copied
      <3>2. CASE streams' = streams
        BY Zenon, <3>2
      <3>3. ASSUME NEW i \in Streams, FreeStream(i), streams'[i] = NewStream, OnlyStream(i)
            PROVE  streams'[j].int = streams[j].int /\ streams'[j].ext = streams[j].ext
        <4>1. streams[i].int = <<>> /\ streams[i].ext = <<>>
          BY Zenon, <3>3, NewStreams DEF FreeStream, ClosedStream, NewStream
        <4> QED BY Zenon, <3>3, <4>1, NewStreams DEF OnlyStream
      <3> QED BY Zenon, <3>1, <3>2, <3>3, OpenStep
    <2>2. CASE StartSubscribes(c)
      BY Zenon, <2>2, SubscribeStep DEF OnlyStream, StreamNow
    <2>3. CASE StopUnsubscribes(c)
      BY Zenon, <2>3, UnsubscribeStep DEF OnlyStream, StreamNow
    <2>4. CASE StopSource(c) \/ CloseChannel(c)
      BY Zenon, <2>4, CloseSteps DEF OnlyStream, StreamNow
    <2>5. CASE streams' = streams
      BY Zenon, <2>5
    <2>6. streams' # streams => \/ StartOpens(c) \/ StopOpens(c) \/ StartSubscribes(c)
                                \/ StopUnsubscribes(c) \/ StopSource(c) \/ CloseChannel(c)
      BY Zenon DEF CallStep, InsertFeed, UpdateFeed, RemoveFeed, StartReads, StartWrites, WriteFeed,
             StartActivates, StopWrites, StopChecks, StopDeactivates
    <2> QED BY Zenon, <2>1, <2>2, <2>3, <2>4, <2>5, <2>6
  <1> QED BY Zenon, <1>1, <1>2, <1>3

\* An RPC goes on without a new connection and without a new goroutine.
LEMMA CallFrame ==
  ASSUME TypeInv, OwnInv, OrderInv, NEW c \in RPCs,
         UNCHANGED <<consumers, prices>>, active' \subseteq active,
         \A d \in RPCs \ {c} : calls'[d] = calls[d],
         Opening(c)' => Opening(c), Opening(c) => Opening(c)' /\ calls'[c].stream = calls[c].stream,
         \A j \in Streams :
           /\ streams[j].extClosed => streams'[j].extClosed
           /\ streams'[j].intClosed => streams'[j].extClosed
           /\ streams'[j].intClosed = streams[j].intClosed \/ \A d \in RPCs : ~Opening(d)
           /\ Due(j)' \subseteq Due(j),
         calls'[c].pc = "closeInt" => streams'[calls'[c].stream].extClosed,
         ~broken' /\ active' # {} => ~broken,
         \A f \in active' :
           \/ calls'[c].pc = "deactivate"
           \/ /\ calls[c].pc # "deactivate" /\ sources' = sources
              /\ feeds'[f].source = feeds[f].source
  PROVE  OwnInv' /\ OrderInv'
  <1>1. \A k \in Consumers : /\ Live(k)' = Live(k) /\ Held(k)' = Held(k)
                             /\ Live(k) => consumers[k].stream \in Streams
    BY Zenon, EntriesTyped DEF Live, Held
  <1>2. \A d \in RPCs : Opening(d)' = Opening(d) /\ (Opening(d) => calls'[d].stream = calls[d].stream)
    BY DEF Opening
  <1>3. \A j \in Streams : Owned(j) => Owned(j)'
    BY Zenon, <1>2 DEF Owned
  <1>4. OwnInv'
    <2>1. \A j \in Streams : (~streams[j].extClosed \/ Due(j) # {} => Owned(j))'
      <3>1. \A j \in Streams : ~streams'[j].extClosed \/ Due(j)' # {} =>
                               ~streams[j].extClosed \/ Due(j) # {}
        BY Zenon
      <3> QED BY Zenon, <1>3, <3>1 DEF OwnInv
    <2>2. ASSUME NEW d \in RPCs, calls'[d].pc = "closeInt"
          PROVE  streams'[calls'[d].stream].extClosed
      <3>1. CASE d # c
        BY Zenon, <2>2, <3>1, AtHand DEF OwnInv, Connected
      <3> QED BY Zenon, <2>2, <3>1
    <2>3. ASSUME NEW f \in active', ~broken'
          PROVE  Fed(f)' \/ \E d \in RPCs : calls'[d].pc = "deactivate"
      <3>1. CASE calls'[c].pc = "deactivate"
        BY Zenon, <3>1
      <3>2. CASE calls'[c].pc # "deactivate"
        <4>1. Fed(f) \/ \E d \in RPCs : calls[d].pc = "deactivate"
          BY Zenon, <2>3 DEF OwnInv
        <4>2. Fed(f) => Fed(f)'
          BY Zenon, <2>3, <3>2 DEF Fed
        <4> QED BY Zenon, <2>3, <3>2, <4>1, <4>2
      <3> QED BY Zenon, <3>1, <3>2
    <2> QED BY Zenon, <1>1, <2>1, <2>2, <2>3 DEF OwnInv
  <1>5. OrderInv'
    <2>1. ASSUME NEW k \in Consumers, Live(k)
          PROVE  (/\ Below(Held(k), Due(consumers[k].stream))
                  /\ NotOlder(Held(k) \cup Due(consumers[k].stream)))'
      <3>1. PICK j \in Streams : j = consumers[k].stream
        BY Zenon, <1>1, <2>1
      <3>2. Below(Held(k), Due(j)) /\ NotOlder(Held(k) \cup Due(j)) /\ Due(j)' \subseteq Due(j)
        BY Zenon, <2>1, <3>1 DEF OrderInv
      <3> QED BY Zenon, <1>1, <3>1, <3>2 DEF Below, NotOlder
    <2>2. ASSUME NEW d \in RPCs, Opening(d), Waiting(calls[d].stream)'
          PROVE  (/\ NotOlder(Due(calls[d].stream))
                  /\ \A k \in Consumers : Live(k) =>
                       Below(Held(k) \cup Due(consumers[k].stream), Due(calls[d].stream)))'
      <3>1. PICK j \in Streams : j = calls[d].stream
        BY Zenon, <2>2, AtHand DEF Opening, Connected
      <3>2. Waiting(j)
        BY Zenon, <1>1, <1>2, <2>2, <3>1 DEF Waiting
      <3>3. /\ NotOlder(Due(j)) /\ Due(j)' \subseteq Due(j)
            /\ \A k \in Consumers : Live(k) => Below(Held(k) \cup Due(consumers[k].stream), Due(j))
        BY Zenon, <2>2, <3>1, <3>2 DEF OrderInv
      <3>4. ASSUME NEW k \in Consumers, Live(k)
            PROVE  Below(Held(k) \cup Due(consumers[k].stream), Due(j))'
        <4>1. PICK r \in Streams : r = consumers[k].stream
          BY Zenon, <1>1, <3>4
        <4>2. Due(r)' \subseteq Due(r)
          BY Zenon
        <4> QED BY Zenon, <1>1, <3>3, <3>4, <4>1, <4>2 DEF Below
      <3> QED BY Zenon, <1>1, <1>2, <2>2, <3>1, <3>3, <3>4 DEF NotOlder
    <2> QED BY Zenon, <1>1, <1>2, <2>1, <2>2 DEF OrderInv
  <1> QED BY Zenon, <1>4, <1>5

\* An RPC goes on and leaves the connections and the feeds that are active alone.
LEMMA QuietCall ==
  ASSUME FeederInv, ~disturbed, Orderly, NEW c \in RPCs, CallStep(c),
         UNCHANGED <<consumers, active, sources>>,
         \A j \in Streams : Closes(j, streams[j].extClosed, streams[j].intClosed),
         \A f \in active : feeds'[f].source = feeds[f].source,
         Opening(c)' = Opening(c), Opening(c) => calls'[c].stream = calls[c].stream,
         calls'[c].pc # "closeInt", calls[c].pc # "deactivate"
  PROVE  Orderly'
  <1>1. TypeInv
    BY Zenon DEF FeederInv
  <1>2. AtWork(c) /\ \A d \in RPCs \ {c} : calls'[d] = calls[d]
    BY Zenon, <1>1, OneRPCMoves
  <1>3. ~broken
    BY Zenon, <1>2, Working
  <1>4. /\ UNCHANGED <<prices, sent, ticks>>
        /\ \A j \in Streams : streams'[j].int = streams[j].int /\ streams'[j].ext = streams[j].ext
        /\ \A k \in Consumers : Held(k)' = Held(k)
    BY Zenon, <1>1, CallKeepsPrices
  <1>5. TicksInv'
    BY Zenon, <1>1, <1>4, TicksFrame DEF Orderly
  <1>6. \A j \in Streams :
           /\ streams[j].extClosed => streams'[j].extClosed
           /\ streams'[j].intClosed => streams'[j].extClosed
           /\ streams'[j].intClosed = streams[j].intClosed
           /\ Due(j)' \subseteq Due(j)
    BY Zenon, <1>4 DEF Closes, Due, Queued, Coming, Orderly, OwnInv
  <1>7. OwnInv' /\ OrderInv'
    BY Zenon, <1>1, <1>2, <1>3, <1>4, <1>6, CallFrame DEF Orderly
  <1> QED BY Zenon, <1>5, <1>7 DEF Orderly

\* The steps of an RPC that open and close no connection
\* (feeder/service.go; service.go, StartPriceFeed, StopPriceFeed).
LEMMA QuietSteps ==
  ASSUME FeederInv, ~disturbed, ~disturbed', Orderly, NEW c \in RPCs, CallStep(c),
         \/ InsertFeed(c) \/ UpdateFeed(c) \/ RemoveFeed(c) \/ StartReads(c)
         \/ StartSubscribes(c) \/ StartWrites(c) \/ StopWrites(c) \/ StopUnsubscribes(c)
         \/ StopChecks(c)
  PROVE  Orderly'
  <1>1. TypeInv /\ DOMAIN calls = RPCs /\ DOMAIN feeds = Feeds /\ active \subseteq Feeds
    BY Zenon DEF FeederInv, TypeInv, CallsTyped, FeedsTyped
  <1>2. AtWork(c)
    BY Zenon, <1>1, OneRPCMoves
  <1>3. PICK f, copy, i : f = calls[c].feed /\ copy = calls[c].copy /\ i = calls[c].stream
    BY Zenon
  <1>4. Stage(c) /\ f \in Feeds
    BY Zenon, <1>1, <1>2, <1>3, Working, AtHand DEF AtWork
  <1>5. UNCHANGED <<consumers, active, sources>>
    BY Zenon DEF InsertFeed, UpdateFeed, RemoveFeed, StartReads, StartSubscribes, StartWrites,
           StopWrites, WriteFeed, StopUnsubscribes, StopChecks
  <1>6. \A j \in Streams : Closes(j, streams[j].extClosed, streams[j].intClosed)
    <2>1. CASE streams' = streams
      BY Zenon, <2>1 DEF Closes
    <2>2. CASE StartSubscribes(c)
      BY Zenon, <1>1, <2>1, <2>2, SubscribeStep DEF OnlyStream, Closes
    <2>3. CASE StopUnsubscribes(c)
      BY Zenon, <1>1, <2>1, <2>3, UnsubscribeStep DEF OnlyStream, Closes
    <2>4. streams' = streams \/ StartSubscribes(c) \/ StopUnsubscribes(c)
      BY Zenon DEF InsertFeed, UpdateFeed, RemoveFeed, StartReads, StartWrites, StopWrites,
             WriteFeed, StopChecks
    <2> QED BY Zenon, <2>1, <2>2, <2>3, <2>4
  <1>7. \A g \in active : feeds'[g].source = feeds[g].source
    <2>1. CASE InsertFeed(c) \/ UpdateFeed(c) \/ RemoveFeed(c)
      <3>1. \A g \in Feeds \ {f} : feeds'[g] = feeds[g]
        BY Zenon, <1>1, <1>3, <2>1 DEF InsertFeed, UpdateFeed, RemoveFeed
      <3>2. f \notin active
        BY Zenon, <1>3, <1>4, <2>1 DEF Stage, Rest, StartedFeeds, Started, InsertFeed, UpdateFeed, RemoveFeed
      <3> QED BY Zenon, <1>1, <3>1, <3>2
    <2>2. CASE StartWrites(c) \/ StopWrites(c)
      <3>1. /\ \A g \in Feeds \ {f} : feeds'[g] = feeds[g]
            /\ feeds'[f] = feeds[f] \/ feeds'[f].source = copy.source
        <4>1. \/ feeds' = feeds
              \/ \E b : feeds' = [feeds EXCEPT ![f] = Feed(copy.market, copy.source, copy.ticker, b)]
          BY Zenon, <1>3, <2>2 DEF StartWrites, StopWrites, WriteFeed
        <4>2. CASE feeds' = feeds
          BY Zenon, <4>2
        <4>3. ASSUME NEW b, feeds' = [feeds EXCEPT ![f] = Feed(copy.market, copy.source, copy.ticker, b)]
              PROVE  /\ \A g \in Feeds \ {f} : feeds'[g] = feeds[g]
                     /\ feeds'[f].source = copy.source
          <5>1. /\ \A g \in Feeds \ {f} : feeds'[g] = feeds[g]
                /\ feeds'[f] = Feed(copy.market, copy.source, copy.ticker, b)
            BY Zenon, <1>1, <1>4, <4>3
          <5>2. feeds'[f].source = copy.source
            BY <5>1 DEF Feed
          <5> QED BY Zenon, <5>1, <5>2
        <4> QED BY Zenon, <4>1, <4>2, <4>3
      <3>2. feeds[f].source = copy.source
        BY Zenon, <1>3, <1>4, <2>2 DEF Stage, Starting, Same, StartWrites, StopWrites
      <3> QED BY Zenon, <1>1, <3>1, <3>2
    <2>3. CASE feeds' = feeds
      BY Zenon, <2>3
    <2> QED BY Zenon, <2>1, <2>2, <2>3 DEF StartReads, StartSubscribes, StopUnsubscribes, StopChecks
  <1>8. /\ Opening(c)' = Opening(c) /\ (Opening(c) => calls'[c].stream = calls[c].stream)
        /\ calls'[c].pc # "closeInt" /\ calls[c].pc # "deactivate"
    <2>1. CASE InsertFeed(c) \/ UpdateFeed(c) \/ RemoveFeed(c)
      <3>1. calls' = [calls EXCEPT ![c] = NoCall] /\ calls[c].pc \in {"insert", "update", "remove"}
        BY Zenon, <2>1 DEF InsertFeed, UpdateFeed, RemoveFeed, Finish
      <3>2. calls'[c].pc = "idle"
        BY Zenon, <1>1, <3>1, Ends
      <3> QED BY <3>1, <3>2 DEF Opening
    <2>2. CASE StartReads(c)
      <3>1. calls[c].pc = "start"
        BY Zenon, <2>2 DEF StartReads
      <3>2. CASE calls' = [calls EXCEPT ![c] = NoCall]
        <4>1. calls'[c].pc = "idle"
          BY Zenon, <1>1, <3>2, Ends
        <4> QED BY <3>1, <4>1 DEF Opening
      <3>3. CASE calls' = [calls EXCEPT ![c] = Call("startOpen", f, feeds[f], NoStream)]
        <4>1. calls'[c] = Call("startOpen", f, feeds[f], NoStream)
          BY Zenon, <1>1, <3>3
        <4>2. calls'[c].pc = "startOpen"
          BY <4>1 DEF Call
        <4> QED BY <3>1, <4>2 DEF Opening
      <3> QED BY Zenon, <1>3, <2>2, <3>2, <3>3 DEF StartReads, Fail
    <2>3. CASE StartSubscribes(c)
      <3>1. calls[c].pc = "subscribe"
        BY Zenon, <2>3 DEF StartSubscribes
      <3>2. SourcesOK({}) /\ copy.source \in Sources /\ i = sources[copy.source] /\ i # NoStream
        BY Zenon, <1>1, <1>3, <1>4, <3>1, AtHand DEF Stage, Starting, Connected, Copied
      <3>3. ~streams[i].extClosed
        BY Zenon, <3>2 DEF SourcesOK
      <3>4. Goto(c, "startWrite")
        BY Zenon, <1>1, <1>3, <2>3, <3>3, SubscribeStep
      <3>5. calls'[c].pc = "startWrite" /\ calls'[c].stream = calls[c].stream
        BY Zenon, <1>1, <3>4, GoesTo
      <3> QED BY <3>1, <3>5 DEF Opening
    <2>4. CASE StartWrites(c)
      <3>1. Stored(f) /\ calls[c].pc = "startWrite"
        BY Zenon, <1>3, <1>4, <2>4 DEF Stage, Starting, Same, StartWrites
      <3>2. Goto(c, "activate")
        BY Zenon, <1>3, <2>4, <3>1 DEF StartWrites, WriteFeed, Fault
      <3>3. calls'[c].pc = "activate" /\ calls'[c].stream = calls[c].stream
        BY Zenon, <1>1, <3>2, GoesTo
      <3> QED BY <3>1, <3>3 DEF Opening
    <2>5. CASE StopWrites(c)
      <3>1. calls[c].pc = "stopWrite" /\ (Goto(c, "stopOpen") \/ Fail(c))
        BY Zenon, <2>5 DEF StopWrites, WriteFeed
      <3>2. calls'[c].pc = "stopOpen" \/ calls'[c].pc = "idle"
        BY Zenon, <1>1, <3>1, GoesTo, Ends DEF Fail
      <3> QED BY <3>1, <3>2 DEF Opening
    <2>6. CASE StopUnsubscribes(c)
      <3>1. calls[c].pc = "unsubscribe" /\ (Goto(c, "stopCheck") \/ Fail(c))
        BY Zenon, <2>6 DEF StopUnsubscribes
      <3>2. calls'[c].pc = "stopCheck" \/ calls'[c].pc = "idle"
        BY Zenon, <1>1, <3>1, GoesTo, Ends DEF Fail
      <3> QED BY <3>1, <3>2 DEF Opening
    <2>7. CASE StopChecks(c)
      <3>1. calls[c].pc = "stopCheck" /\ (calls'[c].pc = "closeExt" \/ calls'[c].pc = "deactivate")
        <4>1. PICK pc \in {"closeExt", "deactivate"} : calls[c].pc = "stopCheck" /\ Goto(c, pc)
          BY Zenon, <2>7 DEF StopChecks
        <4> QED BY Zenon, <1>1, <4>1, GoesTo
      <3> QED BY <3>1 DEF Opening
    <2> QED BY Zenon, <2>1, <2>2, <2>3, <2>4, <2>5, <2>6, <2>7
  <1> QED BY Zenon, <1>5, <1>6, <1>7, <1>8, QuietCall

\* A source is disconnected, and its last goroutine is left with what its channel
\* has (service.go, removePriceFeederBySource, StopPriceFeed).
LEMMA ClosingSteps ==
  ASSUME FeederInv, ~disturbed, Orderly, NEW c \in RPCs, CallStep(c),
         StopSource(c) \/ CloseChannel(c) \/ StopDeactivates(c)
  PROVE  Orderly'
  <1>1. TypeInv /\ DOMAIN calls = RPCs /\ DOMAIN feeds = Feeds /\ active \subseteq Feeds
    BY Zenon DEF FeederInv, TypeInv, CallsTyped, FeedsTyped
  <1>2. /\ AtWork(c) /\ (\A d \in RPCs \ {c} : calls'[d] = calls[d])
        /\ calls[c].pc \in {"closeExt", "closeInt", "deactivate"}
    BY Zenon, <1>1, OneRPCMoves DEF StopSource, CloseChannel, StopDeactivates
  <1>3. /\ Stage(c) /\ ~broken /\ (\A d \in RPCs : AtWork(d) => d = c)
    BY Zenon, <1>2, Working
  <1>4. \A d \in RPCs : ~Opening(d) /\ ~(calls[d].pc = "deactivate" /\ d # c)
    BY Zenon, <1>2, <1>3 DEF Opening, AtWork
  <1>5. /\ UNCHANGED <<prices, sent, ticks>>
        /\ \A j \in Streams : streams'[j].int = streams[j].int /\ streams'[j].ext = streams[j].ext
        /\ \A k \in Consumers : Held(k)' = Held(k)
    BY Zenon, <1>1, CallKeepsPrices
  <1>6. TicksInv'
    BY Zenon, <1>1, <1>5, TicksFrame DEF Orderly
  <1>7. UNCHANGED consumers /\ active' \subseteq active
    BY Zenon DEF StopSource, CloseChannel, StopDeactivates
  <1>8. /\ ~Opening(c)'
        /\ calls'[c].pc = "closeInt" => streams'[calls'[c].stream].extClosed
        /\ \A f \in active' :
             \/ calls'[c].pc = "deactivate"
             \/ /\ calls[c].pc # "deactivate" /\ sources' = sources
                /\ feeds'[f].source = feeds[f].source
    <2>1. CASE StopSource(c)
      <3>1. PICK s, i : s = calls[c].copy.source /\ i = sources[s]
        BY Zenon
      <3>2. i # NoStream
        BY Zenon, <1>3, <2>1, <3>1 DEF Stage, StopSource
      <3>3. /\ calls' = [calls EXCEPT ![c] = Call("closeInt", calls[c].feed, calls[c].copy, i)]
            /\ streams'[i].extClosed
        BY Zenon, <1>1, <2>1, <3>1, <3>2, CloseSteps DEF Closes
      <3>4. calls'[c].pc = "closeInt" /\ calls'[c].stream = i
        <4>1. calls'[c] = Call("closeInt", calls[c].feed, calls[c].copy, i)
          BY Zenon, <1>1, <3>3
        <4> QED BY <4>1 DEF Call
      <3> QED BY Zenon, <2>1, <3>3, <3>4 DEF StopSource, Opening
    <2>2. CASE CloseChannel(c)
      <3>1. calls'[c].pc = "deactivate"
        BY Zenon, <1>1, <2>2, GoesTo DEF CloseChannel
      <3> QED BY Zenon, <3>1 DEF Opening
    <2>3. CASE StopDeactivates(c)
      <3>1. calls'[c].pc = "idle"
        BY Zenon, <1>1, <2>3, Fields DEF StopDeactivates, Finish
      <3>2. calls[c].feed \in active /\ \A f, g \in active : f = g
        BY Zenon, <1>3, <2>3 DEF Stage, Stopping, StopDeactivates, Orderly, OwnInv
      <3>3. active' = {}
        BY Zenon, <2>3, <3>2 DEF StopDeactivates
      <3> QED BY Zenon, <3>1, <3>3 DEF Opening
    <2> QED BY Zenon, <2>1, <2>2, <2>3
  <1>9. \A j \in Streams :
           /\ streams[j].extClosed => streams'[j].extClosed
           /\ streams'[j].intClosed => streams'[j].extClosed
           /\ streams[j].intClosed => streams'[j].intClosed
    <2>1. CASE StopSource(c)
      <3>1. CASE UNCHANGED streams
        BY Zenon, <3>1 DEF Orderly, OwnInv
      <3>2. CASE \E i \in Streams : Closes(i, TRUE, streams[i].intClosed) /\ OnlyStream(i)
        BY Zenon, <3>2 DEF OnlyStream, Closes, Orderly, OwnInv
      <3> QED BY Zenon, <1>1, <2>1, <3>1, <3>2, CloseSteps
    <2>2. CASE CloseChannel(c)
      <3>1. streams[calls[c].stream].extClosed
        BY Zenon, <2>2 DEF CloseChannel, Orderly, OwnInv
      <3> QED BY Zenon, <1>1, <2>2, <3>1, CloseSteps DEF OnlyStream, Closes, Orderly, OwnInv
    <2>3. CASE StopDeactivates(c)
      BY Zenon, <2>3 DEF StopDeactivates, Orderly, OwnInv
    <2> QED BY Zenon, <2>1, <2>2, <2>3
  <1>10. \A j \in Streams : Due(j)' \subseteq Due(j)
    BY Zenon, <1>5, <1>9 DEF Due, Queued, Coming
  <1>11. OwnInv' /\ OrderInv'
    BY Zenon, <1>1, <1>2, <1>3, <1>4, <1>5, <1>7, <1>8, <1>9, <1>10, CallFrame DEF Orderly
  <1> QED BY Zenon, <1>6, <1>11 DEF Orderly

\* While an RPC is at work and nothing is being forgotten, an active feed has its
\* goroutine.
LEMMA ActiveFed ==
  ASSUME FeederInv, ~disturbed, OwnInv, NEW c \in RPCs, AtWork(c), calls[c].pc # "deactivate"
  PROVE  \A f \in active : Fed(f)
  <1>1. ~broken /\ \A d \in RPCs : AtWork(d) => d = c
    BY Zenon, Working
  <1>2. ~ \E d \in RPCs : calls[d].pc = "deactivate"
    BY Zenon, <1>1 DEF AtWork
  <1> QED BY Zenon, <1>1, <1>2 DEF OwnInv

\* A connection that is there has a goroutine when an RPC comes to use it
\* (service.go, getPriceFeederBySource).
LEMMA OpensOrderly ==
  ASSUME FeederInv, ~disturbed, ~disturbed', Orderly, NEW c \in RPCs, CallStep(c),
         StartOpens(c) \/ StopOpens(c)
  PROVE  Orderly'
  <1>1. TypeInv /\ DOMAIN calls = RPCs /\ active \subseteq Feeds
    BY Zenon DEF FeederInv, TypeInv, CallsTyped
  <1>2. PICK pc0, s : pc0 = calls[c].pc /\ s = calls[c].copy.source
    BY Zenon
  <1>3. /\ AtWork(c) /\ (\A d \in RPCs \ {c} : calls'[d] = calls[d])
        /\ pc0 \in {"startOpen", "stopOpen"} /\ pc0 \in Copied /\ s \in Sources
    BY Zenon, <1>1, <1>2, OneRPCMoves, AtHand DEF StartOpens, StopOpens, Copied
  <1>4. /\ Stage(c) /\ ~broken /\ (\A d \in RPCs : AtWork(d) => d = c)
    BY Zenon, <1>3, Working
  <1>5. SourcesOK({}) /\ (pc0 = "stopOpen" => \E f \in active : feeds[f].source = s)
    BY Zenon, <1>2, <1>3, <1>4 DEF Stage, Starting, Stopping, Same
  <1>6. /\ \A d \in RPCs : ~Opening(d) /\ calls[d].pc # "closeInt" /\ calls[d].pc # "deactivate"
        /\ \A f \in active : Fed(f)
    BY Zenon, <1>2, <1>3, <1>4, ActiveFed DEF Opening, AtWork, Orderly
  <1>7. PICK pc : /\ OpenSource(c, pc)
                  /\ pc = IF pc0 = "startOpen" THEN "subscribe" ELSE "unsubscribe"
    BY Zenon, <1>2 DEF StartOpens, StopOpens
  <1>8. UNCHANGED <<feeds, active, consumers>>
    BY Zenon, <1>7 DEF OpenSource
  <1>9. CASE /\ sources[s] \in Streams
             /\ calls' = [calls EXCEPT ![c] = Call(pc, calls[c].feed, calls[c].copy, sources[s])]
             /\ UNCHANGED <<sources, streams, broken, disturbed>>
    <2>1. PICK i \in Streams : i = sources[s]
      BY Zenon, <1>9
    <2>2. calls'[c].pc = pc /\ calls'[c].stream = i
      BY <1>1, <1>9, <2>1, Fields
    <2>3. CASE pc0 = "stopOpen"
      <3>1. /\ Opening(c)' = Opening(c) /\ ~Opening(c)
            /\ calls'[c].pc # "closeInt" /\ calls[c].pc # "deactivate"
        BY <1>6, <1>7, <2>2, <2>3 DEF Opening
      <3>2. \A j \in Streams : Closes(j, streams[j].extClosed, streams[j].intClosed)
        BY Zenon, <1>9 DEF Closes
      <3> QED BY Zenon, <1>8, <1>9, <3>1, <3>2, QuietCall
    <2>4. CASE pc0 = "startOpen"
      <3>1. i # NoStream /\ ~streams[i].extClosed
        BY Zenon, <1>3, <1>5, <2>1, FeederAssumption DEF SourcesOK
      <3>2. PICK k \in Consumers : consumers[k].stream = i
        BY Zenon, <1>6, <3>1 DEF Orderly, OwnInv, Owned
      <3>3. ~Waiting(i)'
        BY Zenon, <1>8, <3>1, <3>2 DEF Waiting, Live
      <3>4. \A j \in Streams : /\ Owned(j) => Owned(j)'
                               /\ Due(j)' = Due(j)
        BY Zenon, <1>6, <1>8, <1>9 DEF Owned, Due, Queued, Coming
      <3>5. \A k0 \in Consumers : Live(k0)' = Live(k0) /\ Held(k0)' = Held(k0)
        BY Zenon, <1>8 DEF Live, Held
      <3>6. \A f \in active : Fed(f)'
        BY Zenon, <1>6, <1>8, <1>9 DEF Fed
      <3>7. \A d \in RPCs : calls'[d].pc # "closeInt" /\ (Opening(d)' => d = c)
        BY Zenon, <1>3, <1>6, <1>7, <2>2, <2>4 DEF Opening
      <3>8. OwnInv'
        BY Zenon, <1>8, <1>9, <3>4, <3>5, <3>6, <3>7 DEF OwnInv, Orderly
      <3>9. \A k0 \in Consumers : Live(k0) => consumers[k0].stream \in Streams
        BY Zenon, <1>1, EntriesTyped
      <3>10. prices' = prices
        BY Zenon, <1>1, CallKeepsPrices
      <3>11. ASSUME NEW k0 \in Consumers, Live(k0)
             PROVE  (/\ Below(Held(k0), Due(consumers[k0].stream))
                     /\ NotOlder(Held(k0) \cup Due(consumers[k0].stream)))'
        <4>1. PICK j \in Streams : j = consumers[k0].stream
          BY Zenon, <3>9, <3>11
        <4>2. Below(Held(k0), Due(j)) /\ NotOlder(Held(k0) \cup Due(j))
          BY Zenon, <3>11, <4>1 DEF Orderly, OrderInv
        <4> QED BY Zenon, <1>8, <3>4, <3>5, <3>10, <4>1, <4>2 DEF Below, NotOlder
      <3>12. OrderInv'
        BY Zenon, <2>2, <3>3, <3>5, <3>7, <3>11 DEF OrderInv
      <3>13. TicksInv'
        BY Zenon, <1>1, CallKeepsPrices, TicksFrame DEF Orderly
      <3> QED BY Zenon, <3>8, <3>12, <3>13 DEF Orderly
    <2> QED BY Zenon, <1>3, <2>3, <2>4
  <1>10. ASSUME sources[s] = NoStream, UNCHANGED <<broken, disturbed>>, NEW i \in Streams,
                FreeStream(i), sources' = [sources EXCEPT ![s] = i],
                streams'[i] = NewStream, OnlyStream(i),
                calls' = [calls EXCEPT ![c] = Call(pc, calls[c].feed, calls[c].copy, i)]
         PROVE  Orderly'
    <2>1. pc0 = "startOpen" /\ pc = "subscribe"
      BY Zenon, <1>3, <1>5, <1>6, <1>7, <1>10 DEF Fed
    <2>2. calls'[c].pc = "subscribe" /\ calls'[c].stream = i
      <3>1. calls'[c] = Call("subscribe", calls[c].feed, calls[c].copy, i)
        BY Zenon, <1>1, <1>10, <2>1
      <3> QED BY <3>1 DEF Call
    <2>3. /\ streams'[i].int = <<>> /\ streams'[i].ext = <<>>
          /\ ~streams'[i].extClosed /\ ~streams'[i].intClosed
      BY Zenon, <1>10, NewStreams
    <2>4. Due(i)' = {} /\ \A j \in Streams \ {i} : Due(j)' = Due(j)
      BY <1>10, <2>3 DEF Due, Queued, Coming, Entries, OnlyStream
    <2>5. \A k \in Consumers : /\ consumers[k].stream # i
                               /\ Live(k)' = Live(k) /\ Held(k)' = Held(k)
                               /\ Live(k) => consumers[k].stream \in Streams
      BY Zenon, <1>1, <1>8, <1>10, EntriesTyped DEF FreeStream, Live, Held
    <2>6. \A d \in RPCs : calls'[d].pc # "closeInt" /\ (Opening(d)' => d = c)
      BY Zenon, <1>3, <1>6, <2>2 DEF Opening
    <2>7. Opening(c)'
      BY Zenon, <2>2 DEF Opening
    <2>8. \A j \in Streams : (~streams[j].extClosed \/ Due(j) # {} => Owned(j))'
      <3>1. Owned(i)'
        BY Zenon, <2>2, <2>7 DEF Owned
      <3>2. \A j \in Streams \ {i} : Owned(j) => Owned(j)'
        BY Zenon, <1>6, <1>8 DEF Owned
      <3> QED BY Zenon, <1>10, <2>4, <3>1, <3>2 DEF Orderly, OwnInv, OnlyStream
    <2>9. ASSUME NEW f \in active PROVE Fed(f)'
      <3>1. Fed(f) /\ feeds[f].source # s
        BY Zenon, <1>6, <1>10 DEF Fed
      <3>2. sources'[feeds[f].source] = sources[feeds[f].source]
        BY <1>1, <1>3, <1>10, <3>1
      <3> QED BY Zenon, <1>8, <3>1, <3>2 DEF Fed
    <2>10. OwnInv'
      BY Zenon, <1>8, <1>10, <2>3, <2>5, <2>6, <2>8, <2>9 DEF OwnInv, Orderly, OnlyStream
    <2>11. prices' = prices
      BY Zenon, <1>1, CallKeepsPrices
    <2>12. ASSUME NEW k \in Consumers, Live(k)
           PROVE  (/\ Below(Held(k), Due(consumers[k].stream))
                   /\ NotOlder(Held(k) \cup Due(consumers[k].stream)))'
      <3>1. PICK j \in Streams \ {i} : j = consumers[k].stream
        BY Zenon, <2>5, <2>12
      <3>2. Below(Held(k), Due(j)) /\ NotOlder(Held(k) \cup Due(j))
        BY Zenon, <2>12, <3>1 DEF Orderly, OrderInv
      <3> QED BY Zenon, <1>8, <2>4, <2>5, <2>11, <3>1, <3>2 DEF Below, NotOlder
    <2>13. OrderInv'
      <3>1. NotOlder(Due(calls[c].stream))' /\ \A E : Below(E, Due(calls[c].stream)')
        BY Zenon, <2>2, <2>4 DEF NotOlder, Below
      <3> QED BY Zenon, <2>2, <2>4, <2>5, <2>6, <2>12, <3>1 DEF OrderInv, Below
    <2>14. TicksInv'
      BY Zenon, <1>1, CallKeepsPrices, TicksFrame DEF Orderly
    <2> QED BY Zenon, <2>10, <2>13, <2>14 DEF Orderly
  <1> QED BY Zenon, <1>1, <1>2, <1>3, <1>7, <1>9, <1>10, OpenStep

\* The only goroutine takes over the connection
\* (feeder/service.go, StartPriceFeed).
LEMMA ActivatesOrderly ==
  ASSUME FeederInv, ~disturbed, ~crowded', Orderly, NEW c \in RPCs, CallStep(c),
         StartActivates(c)
  PROVE  Orderly'
  <1>1. TypeInv /\ DOMAIN calls = RPCs /\ DOMAIN consumers = Consumers
    BY Zenon DEF FeederInv, TypeInv, CallsTyped, ConsumersTyped
  <1>2. PICK f, s, i : f = calls[c].feed /\ s = calls[c].copy.source /\ i = calls[c].stream
    BY Zenon
  <1>3. calls[c].pc = "activate" /\ AtWork(c)
    BY Zenon DEF StartActivates, AtWork
  <1>4. /\ Stage(c) /\ ~broken /\ (\A d \in RPCs : AtWork(d) => d = c) /\ i \in Streams
    BY Zenon, <1>1, <1>2, <1>3, Working, AtHand DEF Connected
  <1>5. i = sources[s] /\ i # NoStream /\ feeds[f].source = s
    BY Zenon, <1>2, <1>3, <1>4, FeederAssumption DEF Stage, Starting, Connected, Same
  <1>6. PICK k \in Consumers : consumers' = [consumers EXCEPT ![k] = Consumer(i, NoPrice)]
    BY Zenon, <1>2 DEF StartActivates
  <1>7. /\ UNCHANGED <<feeds, sources, streams, broken, prices>> /\ active' = active \cup {f}
        /\ calls' = [calls EXCEPT ![c] = NoCall]
    BY Zenon, <1>2 DEF StartActivates, daemon, Finish
  <1>8. \A l \in Consumers : ~Live(l)
    BY Zenon, Fields DEF StartActivates, Live
  <1>9. /\ consumers'[k].stream = i /\ Live(k)' /\ Held(k)' = {}
        /\ \A l \in Consumers \ {k} : ~Live(l)'
    BY <1>1, <1>5, <1>6, <1>8, Fields DEF Live, Held
  <1>10. active = {}
    <2>1. \A g \in active : Fed(g)
      BY Zenon, <1>3, ActiveFed DEF Orderly
    <2> QED BY Zenon, <1>8, <2>1 DEF Fed, Live
  <1>11. \A d \in RPCs : /\ ~Opening(d)' /\ calls'[d].pc # "closeInt"
                         /\ Opening(d) => d = c
    BY Zenon, <1>1, <1>3, <1>4, <1>7, Fields DEF Opening, AtWork
  <1>12. \A j \in Streams : Due(j)' = Due(j)
    BY Zenon, <1>7 DEF Due, Queued, Coming
  <1>13. \A j \in Streams : Owned(j) => Owned(j)'
    <2>1. \A j \in Streams : Owned(j) => j = i
      BY Zenon, <1>2, <1>8, <1>11, FeederAssumption DEF Owned, Live
    <2> QED BY Zenon, <1>9, <2>1 DEF Owned
  <1>14. OwnInv'
    <2>1. Fed(f)'
      BY Zenon, <1>5, <1>7, <1>9 DEF Fed
    <2>2. \A g \in active' : g = f
      BY Zenon, <1>7, <1>10
    <2>3. \A j \in Streams : /\ (streams[j].intClosed => streams[j].extClosed)'
                             /\ (~streams[j].extClosed \/ Due(j) # {} => Owned(j))'
      BY Zenon, <1>7, <1>12, <1>13 DEF Orderly, OwnInv
    <2>4. \A l, m \in Consumers : (Live(l) /\ Live(m))' => l = m
      BY Zenon, <1>9
    <2> QED BY Zenon, <1>11, <2>1, <2>2, <2>3, <2>4 DEF OwnInv
  <1>15. OrderInv'
    <2>1. NotOlder(Due(i))
      <3>1. Opening(c) /\ Waiting(i)
        BY Zenon, <1>3, <1>8 DEF Opening, Waiting
      <3> QED BY Zenon, <1>2, <3>1 DEF Orderly, OrderInv
    <2>2. (/\ Below(Held(k), Due(consumers[k].stream))
           /\ NotOlder(Held(k) \cup Due(consumers[k].stream)))'
      BY Zenon, <1>4, <1>7, <1>9, <1>12, <2>1 DEF Below, NotOlder
    <2> QED BY Zenon, <1>9, <1>11, <2>2 DEF OrderInv
  <1>16. TicksInv'
    BY Zenon, <1>1, CallKeepsPrices, TicksFrame DEF Orderly
  <1> QED BY Zenon, <1>14, <1>15, <1>16 DEF Orderly

\* The connection of a source takes prices while the process is up, and an active
\* feed is stored.
LEMMA SourcesOpen ==
  ASSUME FeederInv, ~disturbed, up, ~broken
  PROVE  /\ \A s \in Sources : sources[s] # NoStream => ~streams[sources[s]].intClosed
         /\ \A f \in active : feeds[f].source \in Sources
  <1>1. ASSUME NEW c \in RPCs, AtWork(c)
        PROVE  (\E X : SourcesOK(X)) /\ \A f \in active : Stored(f)
    <2>1. Stage(c)
      BY Zenon, <1>1, Working
    <2>2. calls[c].pc \in {"insert", "update", "remove", "stopWrite", "start"}
            \cup Starting \cup Stopping
      BY Zenon, <1>1 DEF FeederInv, TypeInv, CallsTyped, CallOK, AtWork, Copied, Starting, Stopping
    <2> QED BY Zenon, <2>1, <2>2 DEF Stage, Rest, StartedFeeds, Started, Same
  <1>2. ASSUME \A c \in RPCs : ~AtWork(c)
        PROVE  SourcesOK({}) /\ \A f \in active : Stored(f)
    BY Zenon, <1>2 DEF FeederInv, FeedInv, Rest, StartedFeeds, Started
  <1>3. (\E X : SourcesOK(X)) /\ \A f \in active : Stored(f)
    BY Zenon, <1>1, <1>2
  <1>4. \A f \in active : feeds[f].source \in Sources
    BY Zenon, <1>3 DEF Stored, FeederInv, TypeInv, FeedsTyped, FeedRecord
  <1> QED BY Zenon, <1>3, <1>4 DEF SourcesOK

\* The goroutine ends with its connection, which no feed uses any more
\* (feeder/service.go, StartPriceFeed).
LEMMA EndOrderly ==
  ASSUME FeederInv, ~disturbed, Orderly, NEW k \in Consumers, Take(k),
         streams[consumers[k].stream].int = <<>>
  PROVE  Orderly'
  <1>1. TypeInv /\ DOMAIN consumers = Consumers
    BY Zenon DEF FeederInv, TypeInv, ConsumersTyped
  <1>2. PICK i \in Streams : i = consumers[k].stream
    BY Zenon, <1>1, TakeStep
  <1>3. /\ streams[i].int = <<>> /\ streams[i].intClosed /\ consumers[k].price = NoPrice
        /\ consumers' = [consumers EXCEPT ![k] = NoConsumer] /\ streams' = streams
    BY Zenon, <1>1, <1>2, TakeStep
  <1>4. UNCHANGED <<active, sources, feeds, calls, broken, up, prices, sent, ticks>>
    BY Zenon DEF Take, daemon
  <1>5. /\ ~Live(k)' /\ \A l \in Consumers : Held(l)' = Held(l)
        /\ \A l \in Consumers \ {k} : consumers'[l] = consumers[l] /\ ~Live(l) /\ ~Live(l)'
        /\ Live(k)
    <2>1. Live(k)
      BY Zenon, <1>2, FeederAssumption DEF Live
    <2>2. \A l \in Consumers \ {k} : consumers'[l] = consumers[l] /\ ~Live(l)
      BY Zenon, <1>1, <1>3, <2>1 DEF Orderly, OwnInv
    <2> QED BY Zenon, <1>1, <1>3, <2>1, <2>2, Fields DEF Live, Held
  <1>6. up
    BY Zenon, <1>1, <1>5, Fields DEF FeederInv, BootInv, Live
  <1>7. \A j \in Streams : Due(j)' = Due(j)
    BY Zenon, <1>3 DEF Due, Queued, Coming
  <1>8. Due(i) = {} /\ streams[i].extClosed
    BY Zenon, <1>3, NoEntries DEF Due, Queued, Orderly, OwnInv
  <1>9. \A j \in Streams \ {i} : Owned(j) => Owned(j)'
    BY Zenon, <1>2, <1>4, <1>5 DEF Owned, Opening
  <1>10. TicksInv'
    BY Zenon, <1>1, <1>3, <1>4, <1>5, TicksFrame DEF Orderly
  <1>11. OwnInv'
    <2>1. \A j \in Streams : (~streams[j].extClosed \/ Due(j) # {} => Owned(j))'
      BY Zenon, <1>3, <1>7, <1>8, <1>9 DEF Orderly, OwnInv
    <2>2. ASSUME NEW f \in active, ~broken, Fed(f) PROVE Fed(f)'
      <3>1. PICK j : j = sources[feeds[f].source]
        BY Zenon
      <3>2. j # NoStream /\ \E l \in Consumers : consumers[l].stream = j
        BY Zenon, <2>2, <3>1 DEF Fed
      <3>3. feeds[f].source \in Sources
        BY Zenon, <1>6, <2>2, SourcesOpen
      <3>4. j # i
        BY Zenon, <1>3, <1>6, <2>2, <3>1, <3>2, <3>3, SourcesOpen
      <3> QED BY Zenon, <1>2, <1>4, <1>5, <3>1, <3>2, <3>4 DEF Fed
    <2>3. \A l, m \in Consumers : (Live(l) /\ Live(m))' => l = m
      BY Zenon, <1>5
    <2> QED BY Zenon, <1>3, <1>4, <2>1, <2>2, <2>3 DEF Orderly, OwnInv
  <1>12. OrderInv'
    <2>1. ASSUME NEW c \in RPCs, Opening(c) PROVE NotOlder(Due(calls[c].stream))'
      <3>1. PICK j \in Streams : j = calls[c].stream
        BY Zenon, <1>1, <2>1, AtHand DEF Opening, Connected
      <3>2. AtWork(c) /\ calls[c].pc \in Connected /\ calls[c].pc \in Copied
        BY Zenon, <2>1 DEF Opening, AtWork, Connected, Copied
      <3>3. Stage(c) /\ ~broken /\ calls[c].copy.source \in Sources
        BY Zenon, <1>1, <3>2, Working, AtHand
      <3>4. j = sources[calls[c].copy.source] /\ j # NoStream
        BY Zenon, <3>1, <3>2, <3>3, FeederAssumption DEF Stage
      <3>5. j # i
        BY Zenon, <1>3, <1>6, <3>3, <3>4, SourcesOpen
      <3>6. Waiting(j)
        BY Zenon, <1>2, <1>3, <1>5, <3>5 DEF Waiting
      <3> QED BY Zenon, <1>4, <1>7, <2>1, <3>1, <3>6 DEF Orderly, OrderInv, NotOlder
    <2> QED BY Zenon, <1>4, <1>5, <2>1 DEF OrderInv, Opening
  <1> QED BY Zenon, <1>10, <1>11, <1>12 DEF Orderly

\* Where the connections, the goroutines and the active feeds stay, and no RPC is at
\* work on a connection, the prices stay in order.
LEMMA StillOrderly ==
  ASSUME TypeInv, Orderly, NEW c \in RPCs,
         UNCHANGED <<feeds, active, sources, streams, consumers, prices, sent, ticks>>,
         \A d \in RPCs \ {c} : calls'[d] = calls[d], calls[c] = NoCall,
         calls'[c].pc \in {"idle", "insert", "update", "remove", "start", "stopWrite"},
         ~broken' /\ active # {} => ~broken
  PROVE  Orderly'
  <1>1. TicksInv'
    <2>1. \A k \in Consumers : Held(k)' = Held(k)
      BY Zenon DEF Held
    <2> QED BY Zenon, <2>1, TicksFrame DEF Orderly
  <1>2. /\ ~Opening(c) /\ ~Opening(c)'
        /\ calls'[c].pc # "closeInt" /\ calls[c].pc # "deactivate"
    BY Zenon, Fields DEF Opening
  <1>3. \A j \in Streams :
           /\ streams'[j].intClosed => streams'[j].extClosed
           /\ Due(j)' \subseteq Due(j)
    BY Zenon DEF Due, Queued, Coming, Orderly, OwnInv
  <1>4. OwnInv' /\ OrderInv'
    BY Zenon, <1>2, <1>3, CallFrame DEF Orderly
  <1> QED BY Zenon, <1>1, <1>4 DEF Orderly

\* An RPC begins, or the daemon starts again or goes on with its feeds
\* (feeder/service.go, startPriceFeeds).
LEMMA BeginsOrderly ==
  ASSUME FeederInv, Orderly, RPCBegins \/ StartPriceFeeds \/ Restart
  PROVE  Orderly'
  <1>1. TypeInv /\ DOMAIN calls = RPCs /\ Boot \in RPCs
    BY Zenon DEF FeederInv, TypeInv, CallsTyped, RPCs
  <1>2. CASE RPCBegins
    <2>1. PICK c \in Callers : \/ AddPriceFeed(c) \/ UpdatePriceFeed(c) \/ RemovePriceFeed(c)
                               \/ StartPriceFeed(c) \/ StopPriceFeed(c)
      BY Zenon, <1>2 DEF RPCBegins
    <2>2. /\ calls[c] = NoCall
          /\ \E f, copy : \E pc \in {"insert", "update", "remove", "start", "stopWrite"} :
               calls' = [calls EXCEPT ![c] = Call(pc, f, copy, NoStream)]
      BY Zenon, <2>1 DEF AddPriceFeed, UpdatePriceFeed, RemovePriceFeed, StartPriceFeed,
                  StopPriceFeed, Begins
    <2>3. /\ c \in RPCs /\ \A d \in RPCs \ {c} : calls'[d] = calls[d]
          /\ calls'[c].pc \in {"insert", "update", "remove", "start", "stopWrite"}
      BY <1>1, <2>2, Fields DEF RPCs
    <2>4. UNCHANGED <<feeds, active, sources, streams, consumers, broken, prices, sent, ticks>>
      BY Zenon, <1>1, <1>2, OneRPCBegins
    <2> QED BY Zenon, <1>1, <2>2, <2>3, <2>4, StillOrderly
  <1>3. CASE StartPriceFeeds
    <2>1. /\ UNCHANGED <<feeds, active, sources, streams, consumers, prices, sent, ticks>>
          /\ calls[Boot] = NoCall /\ ~broken
      BY Zenon, <1>3 DEF StartPriceFeeds
    <2>2. \/ calls' = [calls EXCEPT ![Boot] = NoCall]
          \/ \E f : calls' = [calls EXCEPT ![Boot] = Call("start", f, NoFeed, NoStream)]
      BY Zenon, <1>3 DEF StartPriceFeeds, Fail
    <2>3. /\ \A d \in RPCs \ {Boot} : calls'[d] = calls[d]
          /\ calls'[Boot].pc \in {"idle", "start"}
      <3>1. PICK x : calls' = [calls EXCEPT ![Boot] = x]
                       /\ (x = NoCall \/ \E f : x = Call("start", f, NoFeed, NoStream))
        BY Zenon, <2>2
      <3>2. calls'[Boot] = x /\ \A d \in RPCs \ {Boot} : calls'[d] = calls[d]
        BY Zenon, <1>1, <3>1
      <3>3. x.pc \in {"idle", "start"}
        BY <3>1 DEF Call, NoCall
      <3> QED BY Zenon, <3>2, <3>3
    <2> QED BY Zenon, <1>1, <2>1, <2>3, StillOrderly
  <1>4. CASE Restart
    <2>1. /\ UNCHANGED <<feeds, active, sources, streams, consumers, calls, prices, sent, ticks>>
          /\ active = {} /\ ~AtWork(Boot)
      BY Zenon, <1>1, <1>4 DEF Restart, FeederInv, BootInv
    <2>2. calls[Boot] = NoCall /\ calls'[Boot].pc = "idle"
      BY Zenon, <1>1, <2>1, Fields DEF TypeInv, CallsTyped, CallOK, AtWork
    <2> QED BY Zenon, <1>1, <2>1, <2>2, StillOrderly
  <1> QED BY Zenon, <1>2, <1>3, <1>4

\* Nothing is on its way in a process that is down.
LEMMA DiesOrderly ==
  ASSUME TypeInv, Orderly, Dies
  PROVE  Orderly'
  <1>1. /\ active' = {} /\ sent' = prices /\ prices' = prices /\ ticks' = ticks
        /\ \A c \in RPCs : calls'[c] = NoCall
        /\ \A i \in Streams : streams'[i] = ClosedStream
        /\ \A k \in Consumers : consumers'[k] = NoConsumer
    BY Zenon DEF Dies, TypeInv, CallsTyped
  <1>2. \A i \in Streams : /\ streams'[i].int = <<>> /\ streams'[i].ext = <<>>
                           /\ streams'[i].extClosed /\ streams'[i].intClosed
    BY Zenon, <1>1, NewStreams
  <1>3. /\ \A i \in Streams : Queued(i)' = {} /\ Coming(i)' = {} /\ Due(i)' = {}
        /\ \A k \in Consumers : ~Live(k)' /\ Held(k)' = {}
        /\ \A c \in RPCs : ~Opening(c)' /\ calls'[c].pc # "closeInt"
    <2>1. \A i \in Streams : Queued(i)' = {} /\ Coming(i)' = {} /\ Due(i)' = {}
      BY Zenon, <1>2, NoEntries DEF Queued, Coming, Due
    <2>2. \A k \in Consumers : ~Live(k)' /\ Held(k)' = {}
      BY Zenon, <1>1, Fields DEF Live, Held
    <2>3. \A c \in RPCs : ~Opening(c)' /\ calls'[c].pc # "closeInt"
      BY Zenon, <1>1, Fields DEF Opening
    <2> QED BY Zenon, <2>1, <2>2, <2>3
  <1>4. \A i \in Streams : Rising(streams[i].int)' /\ Rising(streams[i].ext)'
    BY <1>2 DEF Rising
  <1>5. TicksInv'
    BY Zenon, <1>1, <1>3, <1>4 DEF Orderly, TicksInv, NotAhead, Below
  <1>6. OwnInv'
    BY Zenon, <1>1, <1>2, <1>3 DEF OwnInv
  <1>7. OrderInv'
    BY Zenon, <1>3 DEF OrderInv
  <1> QED BY Zenon, <1>5, <1>6, <1>7 DEF Orderly

\* Nothing is on its way at first.
LEMMA InitOrderly ==
  ASSUME Init
  PROVE  Orderly
  <1>1. /\ active = {} /\ (\A m \in Markets : prices[m] = 0 /\ sent[m] = 0) /\ ticks = 0
        /\ \A c \in RPCs : calls[c] = NoCall
        /\ \A i \in Streams : streams[i] = ClosedStream
        /\ \A k \in Consumers : consumers[k] = NoConsumer
    BY Zenon DEF Init, RPCs
  <1>2. \A i \in Streams : /\ streams[i].int = <<>> /\ streams[i].ext = <<>>
                           /\ streams[i].extClosed /\ streams[i].intClosed
    BY Zenon, <1>1, NewStreams
  <1>3. /\ \A i \in Streams : Queued(i) = {} /\ Coming(i) = {} /\ Due(i) = {}
        /\ \A k \in Consumers : ~Live(k) /\ Held(k) = {}
        /\ \A c \in RPCs : ~Opening(c) /\ calls[c].pc # "closeInt"
    <2>1. \A i \in Streams : Queued(i) = {} /\ Coming(i) = {} /\ Due(i) = {}
      BY Zenon, <1>2, NoEntries DEF Queued, Coming, Due
    <2>2. \A k \in Consumers : ~Live(k) /\ Held(k) = {}
      BY Zenon, <1>1, Fields DEF Live, Held
    <2>3. \A c \in RPCs : ~Opening(c) /\ calls[c].pc # "closeInt"
      BY Zenon, <1>1, Fields DEF Opening
    <2> QED BY Zenon, <2>1, <2>2, <2>3
  <1>4. \A i \in Streams : Rising(streams[i].int) /\ Rising(streams[i].ext)
    BY <1>2 DEF Rising
  <1>5. TicksInv
    <2>1. \A i \in Streams : NotAhead(Queued(i) \cup Coming(i)) /\ Below(Queued(i), Coming(i))
      BY Zenon, <1>3 DEF NotAhead, Below
    <2>2. \A k \in Consumers : NotAhead(Held(k))
      BY Zenon, <1>3 DEF NotAhead
    <2>3. \A m \in Markets : prices[m] <= ticks /\ sent[m] <= ticks /\ prices[m] = sent[m]
      BY <1>1
    <2> QED BY Zenon, <1>4, <2>1, <2>2, <2>3 DEF TicksInv
  <1>6. OwnInv
    BY Zenon, <1>1, <1>2, <1>3 DEF OwnInv
  <1>7. OrderInv
    BY Zenon, <1>3 DEF OrderInv
  <1> QED BY Zenon, <1>5, <1>6, <1>7 DEF Orderly

\* Two goroutines at the same time are not forgotten.
LEMMA CrowdedStays ==
  ASSUME [Next]_vars, crowded
  PROVE  crowded'
  BY Zenon DEF Next, vars, RPCBegins, AddPriceFeed, UpdatePriceFeed, RemovePriceFeed, Begins,
         StartPriceFeed, StopPriceFeed, CallStep, InsertFeed, UpdateFeed, RemoveFeed,
         StartReads, StartOpens, StopOpens, OpenSource, StartWrites, StopWrites, WriteFeed,
         StartSubscribes, StopUnsubscribes, StartActivates, StopDeactivates, StopChecks,
         StopSource, CloseChannel, UpdateMarketStrategy, Tick, Forward, ForwardPanics, Dies,
         Take, UpdateMarketPrice, Crash, Restart, StartPriceFeeds

\* PriceInv is inductive, with FeederInv, and no price gets older by a step.
LEMMA NextPriceInv ==
  ASSUME FeederInv, PriceInv, [Next]_vars
  PROVE  /\ PriceInv'
         /\ ~disturbed /\ ~crowded => \A m \in Markets : prices'[m] >= prices[m]
  <1>1. TypeInv
    BY Zenon DEF FeederInv
  <1>2. ASSUME ~disturbed, ~crowded PROVE \A m \in Markets : prices'[m] >= prices[m]
    <2>1. CASE prices' = prices
      <3>1. \A m \in Markets : prices[m] \in Nat
        BY Zenon, <1>1 DEF TypeInv, PricesTyped
      <3> QED BY <2>1, <3>1
    <2>2. CASE \E k \in Consumers : UpdateMarketPrice(k)
      BY Zenon, <1>1, <1>2, <2>2, StoreOrderly DEF PriceInv
    <2>3. prices' # prices => \E k \in Consumers : UpdateMarketPrice(k)
      <3>1. prices' # prices => DataStep
        <4>1. \A c \in RPCs : CallStep(c) => prices' = prices
          BY Zenon, <1>1, CallKeepsPrices
        <4>2. RPCBegins => prices' = prices
          BY Zenon, <1>1, OneRPCBegins
        <4> QED BY Zenon, <4>1, <4>2, Steps DEF Dies, Restart, StartPriceFeeds
      <3> QED BY Zenon, <3>1 DEF DataStep, UpdateMarketStrategy, Tick, Forward, Take, daemon, vars
    <2> QED BY Zenon, <2>1, <2>2, <2>3
  <1>3. ASSUME ~disturbed', ~crowded' PROVE Orderly'
    <2>1. ~disturbed /\ ~crowded /\ Orderly
      BY Zenon, <1>3, DisturbedStays, CrowdedStays DEF PriceInv
    <2>2. ASSUME NEW c \in RPCs, CallStep(c) PROVE Orderly'
      BY Zenon, <1>3, <2>1, <2>2, QuietSteps, ClosingSteps, OpensOrderly, ActivatesOrderly DEF CallStep
    <2>3. CASE DataStep
      <3>1. ASSUME UNCHANGED <<feeds, active, sources, streams, consumers, calls, broken,
                               prices, sent, ticks>>
            PROVE  Orderly'
        <4>1. /\ \A j \in Streams : /\ Due(j)' = Due(j)
                                    /\ Closes(j, streams[j].extClosed, streams[j].intClosed)
              /\ \A k \in Consumers : /\ Held(k)' = Held(k)
                                      /\ consumers'[k].stream = consumers[k].stream
          BY Zenon, <3>1 DEF Due, Queued, Coming, Held, Closes
        <4> QED BY Zenon, <1>1, <2>1, <3>1, <4>1, TicksFrame, OwnFrame, OrderFrame DEF Orderly
      <3>2. ASSUME NEW k \in Consumers, Take(k) PROVE Orderly'
        BY Zenon, <1>1, <2>1, <3>2, TakeOrderly, EndOrderly
      <3>3. ASSUME NEW k \in Consumers, UpdateMarketPrice(k) PROVE Orderly'
        BY Zenon, <1>1, <2>1, <3>3, StoreOrderly
      <3>4. ASSUME NEW i \in Streams, Tick(i) \/ Forward(i) PROVE Orderly'
        BY Zenon, <1>1, <2>1, <3>4, TickOrderly, ForwardOrderly
      <3>5. UpdateMarketStrategy \/ UNCHANGED vars =>
              UNCHANGED <<feeds, active, sources, streams, consumers, calls, broken,
                          prices, sent, ticks>>
        BY Zenon DEF UpdateMarketStrategy, vars
      <3> QED BY Zenon, <2>3, <3>1, <3>2, <3>3, <3>4, <3>5 DEF DataStep
    <2> QED BY Zenon, <1>1, <2>1, <2>2, <2>3, Steps, BeginsOrderly, DiesOrderly
  <1> QED BY Zenon, <1>2, <1>3 DEF PriceInv

\* No price is lost between a source and the store: once none is on its way, the
\* stored price of a market is the latest its source sent, for any feeds, sources and
\* channels, while RPCs do not overlap, nothing fails and one goroutine at a time
\* stores prices (service.go, getPriceFeederBySource, removePriceFeederBySource).
THEOREM PricesAreNotLost == Spec => []PricesArrive
  <1>1. ASSUME FeederInv, PriceInv PROVE PricesArrive
    <2> SUFFICES ASSUME ~OnTheWay, ~disturbed, ~crowded PROVE prices = sent
      BY Zenon DEF PricesArrive
    <2>1. TypeInv /\ TicksInv
      BY Zenon, <1>1 DEF FeederInv, PriceInv, Orderly
    <2>2. /\ \A i \in Streams : Queued(i) = {} /\ Coming(i) = {}
          /\ \A k \in Consumers : Held(k) = {}
      BY DEF OnTheWay, Queued, Coming, Held, Entries
    <2>3. \A m \in Markets : prices[m] = sent[m]
      BY Zenon, <2>1, <2>2 DEF TicksInv, Latest
    <2> QED BY <2>1, <2>3 DEF TypeInv, PricesTyped
  <1>2. Init => FeederInv /\ PriceInv
    BY Zenon, InitFeederInv, InitOrderly DEF PriceInv
  <1>3. FeederInv /\ PriceInv /\ [Next]_vars => (FeederInv /\ PriceInv)'
    BY Zenon, NextFeederInv, NextPriceInv
  <1> QED BY <1>1, <1>2, <1>3, PTL DEF Spec

\* A market never goes back to an older price, while one goroutine at a time stores
\* prices, RPCs do not overlap and nothing fails: through stops and starts of feeds,
\* which leave the goroutine of a stopped feed behind to drain its channel, and
\* through restarts of the daemon (feeder/service.go, StartPriceFeed; service.go,
\* StopPriceFeed).
THEOREM PricesStayInOrder == Spec => PricesInOrder
  <1>1. Init => FeederInv /\ PriceInv
    BY Zenon, InitFeederInv, InitOrderly DEF PriceInv
  <1>2. FeederInv /\ PriceInv /\ [Next]_vars => (FeederInv /\ PriceInv)'
    BY Zenon, NextFeederInv, NextPriceInv
  <1>3. FeederInv /\ PriceInv /\ [Next]_vars =>
          [\A m \in Markets : prices'[m] >= prices[m] \/ crowded \/ disturbed]_vars
    BY Zenon, NextPriceInv
  <1> QED BY <1>1, <1>2, <1>3, PTL DEF Spec, PricesInOrder
==============================================================================
