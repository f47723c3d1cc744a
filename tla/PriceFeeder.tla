----------------------------- MODULE PriceFeeder -----------------------------
(***************************************************************************)
(* The price feeds: the feeder service of the application                  *)
(* (internal/core/application/feeder/service.go) over the price feeder     *)
(* (internal/infrastructure/price-feeder/service.go), its store, and the   *)
(* price sources (pkg/price-feeder).                                       *)
(*                                                                         *)
(* The feeds of a source share one connection, a stream here, with two     *)
(* buffered channels: ext, filled by the source, and int, filled by a      *)
(* forwarding goroutine and emptied by one goroutine for each feed that    *)
(* was started.  Every access to the store, to a lock or to a stream is a  *)
(* step.                                                                   *)
(***************************************************************************)
EXTENDS Naturals, Sequences, Functions

CONSTANTS
  Feeds, Markets, Sources, Tickers,
  Streams,      \* slots for connections
  Consumers,    \* slots for the goroutines that store prices
  Callers,      \* RPCs
  Boot,         \* the caller that starts the feeds with the daemon
  NoFeed, NoStream, NoPrice,
  Cap,          \* capacity of the channels
  MaxTicks,     \* bound on the prices
  MaxFaults     \* bound on failures and crashes

ASSUME FeederAssumption ==
  /\ {Cap, MaxTicks, MaxFaults} \subseteq Nat
  /\ Boot \notin Callers
  /\ NoStream \notin Streams
  /\ NoFeed \notin [market : Markets, source : Sources, ticker : Tickers, started : BOOLEAN]
  /\ NoPrice \notin [market : Markets, tick : Nat]

VARIABLES
  feeds,        \* the store of feeds
  strategy,     \* is the strategy of a market pluggable
  active,       \* s.activeFeeds
  sources,      \* s.sources and s.feedChBySource
  streams,
  consumers,
  calls,
  booting,      \* started feeds that the daemon has yet to start
  up,
  broken,       \* the feeder service could not be made
  prices,       \* the stored price of a market: the number of its tick
  sent,         \* the last tick of a market from this process (history)
  ticks,
  faults,
  disturbed,    \* RPCs overlapped or did not run to their end (history)
  crowded,      \* two consumers ran at the same time (history)
  shared        \* two feeds had the same ticker (history)

vars == <<feeds, strategy, active, sources, streams, consumers, calls, booting,
          up, broken, prices, sent, ticks, faults, disturbed, crowded, shared>>

Feed(m, s, t, started) == [market |-> m, source |-> s, ticker |-> t, started |-> started]

Stored(f) == feeds[f] # NoFeed
Started(f) == Stored(f) /\ feeds[f].started

NewStream == [subs |-> <<>>, ext |-> <<>>, int |-> <<>>,
              extClosed |-> FALSE, intClosed |-> FALSE]
ClosedStream == [NewStream EXCEPT !.extClosed = TRUE, !.intClosed = TRUE]

NoCall == [pc |-> "idle", feed |-> NoFeed, copy |-> NoFeed, stream |-> NoStream]
Call(pc, f, copy, i) == [pc |-> pc, feed |-> f, copy |-> copy, stream |-> i]

NoConsumer == [stream |-> NoStream, price |-> NoPrice]
Consumer(i, price) == [stream |-> i, price |-> price]

Goto(c, pc) == calls' = [calls EXCEPT ![c] = Call(pc, calls[c].feed, calls[c].copy, calls[c].stream)]

\* The end of an RPC; an error of a start of Boot leaves no feeder service.
Finish(c) == calls' = [calls EXCEPT ![c] = NoCall] /\ UNCHANGED broken
Fail(c) ==
  /\ calls' = [calls EXCEPT ![c] = NoCall]
  /\ broken' = (broken \/ c = Boot)

Fault == faults < MaxFaults /\ faults' = faults + 1 /\ disturbed' = TRUE

Busy == \E c \in Callers \cup {Boot} : calls[c] # NoCall

\* The daemon serves RPCs once the started feeds are started again.
Serving == up /\ ~broken /\ booting = {} /\ calls[Boot] = NoCall

Begins(c) ==
  /\ Serving
  /\ c \in Callers
  /\ calls[c] = NoCall
  /\ disturbed' = (disturbed \/ Busy)

Init ==
  /\ feeds = [f \in Feeds |-> NoFeed]
  /\ strategy = [m \in Markets |-> TRUE]
  /\ active = {}
  /\ sources = [s \in Sources |-> NoStream]
  /\ streams = [i \in Streams |-> ClosedStream]
  /\ consumers = [k \in Consumers |-> NoConsumer]
  /\ calls = [c \in Callers \cup {Boot} |-> NoCall]
  /\ booting = {}
  /\ up = TRUE /\ broken = FALSE
  /\ prices = [m \in Markets |-> 0]
  /\ sent = [m \in Markets |-> 0]
  /\ ticks = 0
  /\ faults = 0
  /\ disturbed = FALSE /\ crowded = FALSE /\ shared = FALSE

SharedTicker(fs) ==
  \E f, g \in Feeds :
    f # g /\ NoFeed \notin {fs[f], fs[g]} /\ fs[f].ticker = fs[g].ticker

daemon == <<booting, up, prices, sent, ticks, strategy>>

-----------------------------------------------------------------------------
(***************************************************************************)
(* Adding, changing and removing feeds.                                    *)
(***************************************************************************)
AddPriceFeed(c) ==
  /\ Begins(c)
  /\ \E f \in Feeds, m \in Markets, s \in Sources, t \in Tickers :
       /\ feeds[f] = NoFeed /\ f \notin active
       /\ \A d \in DOMAIN calls : calls[d].feed # f
       /\ \A g \in Feeds : Stored(g) => feeds[g].market # m
       /\ calls' = [calls EXCEPT ![c] = Call("insert", f, Feed(m, s, t, FALSE), NoStream)]
  /\ UNCHANGED <<feeds, active, sources, streams, consumers, broken, daemon, faults, crowded, shared>>

InsertFeed(c) ==
  /\ calls[c].pc = "insert"
  /\ feeds' = [feeds EXCEPT ![calls[c].feed] = calls[c].copy]
  /\ shared' = (shared \/ SharedTicker(feeds'))
  /\ Finish(c)
  /\ UNCHANGED <<active, sources, streams, consumers, daemon, faults, disturbed, crowded>>

\* UpdatePriceFeed reads that the feed is stopped, and then changes what the
\* store holds.
UpdatePriceFeed(c) ==
  /\ Begins(c)
  /\ \E f \in Feeds, s \in Sources, t \in Tickers :
       /\ Stored(f) /\ ~Started(f)
       /\ calls' = [calls EXCEPT ![c] =
                      Call("update", f, Feed(feeds[f].market, s, t, FALSE), NoStream)]
  /\ UNCHANGED <<feeds, active, sources, streams, consumers, broken, daemon, faults, crowded, shared>>

UpdateFeed(c) ==
  LET f == calls[c].feed
  IN  /\ calls[c].pc = "update"
      /\ feeds' = IF Stored(f)
                  THEN [feeds EXCEPT ![f] = Feed(@.market, calls[c].copy.source,
                                                 calls[c].copy.ticker, @.started)]
                  ELSE feeds
      /\ shared' = (shared \/ SharedTicker(feeds'))
      /\ Finish(c)
      /\ UNCHANGED <<active, sources, streams, consumers, daemon, faults, disturbed, crowded>>

RemovePriceFeed(c) ==
  /\ Begins(c)
  /\ \E f \in Feeds :
       /\ Stored(f) /\ ~Started(f)
       /\ ~strategy[feeds[f].market]
       /\ calls' = [calls EXCEPT ![c] = Call("remove", f, NoFeed, NoStream)]
  /\ UNCHANGED <<feeds, active, sources, streams, consumers, broken, daemon, faults, crowded, shared>>

RemoveFeed(c) ==
  /\ calls[c].pc = "remove"
  /\ feeds' = [feeds EXCEPT ![calls[c].feed] = NoFeed]
  /\ Finish(c)
  /\ UNCHANGED <<active, sources, streams, consumers, daemon, faults, disturbed, crowded, shared>>

\* The operator changes the strategy of a market, whatever its feed.
UpdateMarketStrategy ==
  /\ Serving
  /\ \E m \in Markets : strategy' = [strategy EXCEPT ![m] = ~@]
  /\ UNCHANGED <<feeds, active, sources, streams, consumers, calls, broken, booting,
                 up, prices, sent, ticks, faults, disturbed, crowded, shared>>

-----------------------------------------------------------------------------
(***************************************************************************)
(* getPriceFeederBySource: the stream of the source, or a new one.         *)
(***************************************************************************)
\* The lock is held from the first to the last step of the removal of a source.
Unlocked == \A c \in DOMAIN calls : calls[c].pc # "closeInt"

FreeStream(i) ==
  /\ streams[i] = [ClosedStream EXCEPT !.subs = streams[i].subs]
  /\ \A k \in Consumers : consumers[k].stream # i
  /\ \A c \in DOMAIN calls : calls[c].stream # i

OpenSource(c, pc) ==
  LET f == calls[c].feed
      copy == calls[c].copy
  IN  /\ Unlocked
      /\ \/ /\ sources[copy.source] # NoStream
            /\ calls' = [calls EXCEPT ![c] = Call(pc, f, copy, sources[copy.source])]
            /\ UNCHANGED <<sources, streams, broken, faults, disturbed>>
         \/ /\ sources[copy.source] = NoStream
            /\ \E i \in Streams :
                 /\ FreeStream(i)
                 /\ sources' = [sources EXCEPT ![copy.source] = i]
                 /\ streams' = [streams EXCEPT ![i] = NewStream]
                 /\ calls' = [calls EXCEPT ![c] = Call(pc, f, copy, i)]
            /\ UNCHANGED <<broken, faults, disturbed>>
         \/ /\ sources[copy.source] = NoStream
            /\ Fault
            /\ Fail(c)
            /\ UNCHANGED <<sources, streams>>
      /\ UNCHANGED <<feeds, active, consumers, daemon, crowded, shared>>

-----------------------------------------------------------------------------
(***************************************************************************)
(* StartPriceFeed.                                                         *)
(***************************************************************************)
StartPriceFeed(c) ==
  /\ Begins(c)
  /\ \E f \in Feeds :
       /\ Stored(f)
       /\ strategy[feeds[f].market]
       /\ calls' = [calls EXCEPT ![c] = Call("start", f, NoFeed, NoStream)]
  /\ UNCHANGED <<feeds, active, sources, streams, consumers, broken, daemon, faults, crowded, shared>>

StartReads(c) ==
  LET f == calls[c].feed
  IN  /\ calls[c].pc = "start"
      /\ IF Stored(f) /\ f \notin active
         THEN /\ calls' = [calls EXCEPT ![c] = Call("startOpen", f, feeds[f], NoStream)]
              /\ UNCHANGED broken
         ELSE Fail(c)
      /\ UNCHANGED <<feeds, active, sources, streams, consumers, daemon, faults,
                     disturbed, crowded, shared>>

StartOpens(c) == calls[c].pc = "startOpen" /\ OpenSource(c, "subscribe")

\* SubscribeMarkets: a ticker that is subscribed keeps its market.
StartSubscribes(c) ==
  LET i == calls[c].stream
      copy == calls[c].copy
  IN  /\ calls[c].pc = "subscribe"
      /\ \/ /\ ~streams[i].extClosed
            /\ streams' = [streams EXCEPT ![i].subs =
                 [t \in DOMAIN @ \cup {copy.ticker} |->
                    IF t \in DOMAIN @ THEN @[t] ELSE copy.market]]
            /\ Goto(c, "startWrite")
            /\ UNCHANGED <<broken, faults, disturbed>>
         \/ /\ streams[i].extClosed
            /\ Fail(c)
            /\ UNCHANGED <<streams, faults, disturbed>>
         \/ /\ Fault
            /\ Fail(c)
            /\ UNCHANGED streams
      /\ UNCHANGED <<feeds, active, sources, consumers, daemon, crowded, shared>>

\* The copy is written, if the feed is still there.
WriteFeed(c, started, pc) ==
  LET f == calls[c].feed
      copy == calls[c].copy
  IN  /\ \/ /\ Stored(f)
            /\ feeds' = [feeds EXCEPT ![f] =
                           Feed(copy.market, copy.source, copy.ticker, started)]
            /\ Goto(c, pc)
            /\ UNCHANGED <<broken, faults, disturbed>>
         \/ /\ ~Stored(f)
            /\ Fail(c)
            /\ UNCHANGED <<feeds, faults, disturbed>>
         \/ /\ Fault
            /\ Fail(c)
            /\ UNCHANGED feeds
      /\ UNCHANGED <<active, sources, streams, consumers, daemon, crowded, shared>>

StartWrites(c) == calls[c].pc = "startWrite" /\ WriteFeed(c, TRUE, "activate")

StartActivates(c) ==
  /\ calls[c].pc = "activate"
  /\ active' = active \cup {calls[c].feed}
  /\ \E k \in Consumers :
       /\ consumers[k] = NoConsumer
       /\ consumers' = [consumers EXCEPT ![k] = Consumer(calls[c].stream, NoPrice)]
  /\ crowded' = (crowded \/ \E k \in Consumers : consumers[k] # NoConsumer)
  /\ Finish(c)
  /\ UNCHANGED <<feeds, sources, streams, daemon, faults, disturbed, shared>>

-----------------------------------------------------------------------------
(***************************************************************************)
(* StopPriceFeed.                                                          *)
(***************************************************************************)
StopPriceFeed(c) ==
  /\ Begins(c)
  /\ \E f \in Feeds :
       /\ Started(f)
       /\ calls' = [calls EXCEPT ![c] = Call("stopWrite", f, feeds[f], NoStream)]
  /\ UNCHANGED <<feeds, active, sources, streams, consumers, broken, daemon, faults, crowded, shared>>

StopWrites(c) == calls[c].pc = "stopWrite" /\ WriteFeed(c, FALSE, "stopOpen")

StopOpens(c) == calls[c].pc = "stopOpen" /\ OpenSource(c, "unsubscribe")

\* UnsubscribeMarkets that forgets to remove the market.
StopUnsubscribesOnly(c) ==
  LET i == calls[c].stream
  IN  /\ calls[c].pc = "unsubscribe"
      /\ ~streams[i].extClosed
      /\ Goto(c, "stopCheck")
      /\ UNCHANGED <<streams, broken, faults, disturbed, feeds, active, sources,
                     consumers, daemon, crowded, shared>>

StopUnsubscribes(c) ==
  LET i == calls[c].stream
  IN  /\ calls[c].pc = "unsubscribe"
      /\ \/ /\ ~streams[i].extClosed
            /\ streams' = [streams EXCEPT ![i].subs =
                             Restrict(@, DOMAIN @ \ {calls[c].copy.ticker})]
            /\ Goto(c, "stopCheck")
            /\ UNCHANGED <<broken, faults, disturbed>>
         \/ /\ streams[i].extClosed
            /\ Fail(c)
            /\ UNCHANGED <<streams, faults, disturbed>>
         \/ /\ Fault
            /\ Fail(c)
            /\ UNCHANGED streams
      /\ UNCHANGED <<feeds, active, sources, consumers, daemon, crowded, shared>>

\* ListSubscriptions.
StopChecks(c) ==
  /\ calls[c].pc = "stopCheck"
  /\ Goto(c, IF DOMAIN streams[calls[c].stream].subs = {} THEN "closeExt" ELSE "deactivate")
  /\ UNCHANGED <<feeds, active, sources, streams, consumers, broken, daemon, faults,
                 disturbed, crowded, shared>>

\* removePriceFeederBySource, of whatever stream the source has by then.
StopSource(c) ==
  LET i == sources[calls[c].copy.source]
  IN  /\ calls[c].pc = "closeExt"
      /\ Unlocked
      /\ IF i = NoStream
         THEN /\ Goto(c, "deactivate")
              /\ UNCHANGED streams
         ELSE /\ streams' = [streams EXCEPT ![i].extClosed = TRUE]
              /\ calls' = [calls EXCEPT ![c] =
                             Call("closeInt", calls[c].feed, calls[c].copy, i)]
      /\ UNCHANGED <<feeds, active, sources, consumers, broken, daemon, faults,
                     disturbed, crowded, shared>>

CloseChannel(c) ==
  /\ calls[c].pc = "closeInt"
  /\ streams' = [streams EXCEPT ![calls[c].stream].intClosed = TRUE]
  /\ sources' = [sources EXCEPT ![calls[c].copy.source] = NoStream]
  /\ Goto(c, "deactivate")
  /\ UNCHANGED <<feeds, active, consumers, broken, daemon, faults, disturbed, crowded, shared>>

StopDeactivates(c) ==
  /\ calls[c].pc = "deactivate"
  /\ active' = active \ {calls[c].feed}
  /\ Finish(c)
  /\ UNCHANGED <<feeds, sources, streams, consumers, daemon, faults, disturbed, crowded, shared>>

-----------------------------------------------------------------------------
(***************************************************************************)
(* The way of a price.                                                     *)
(***************************************************************************)
\* The source has a new price for one of its tickers; a full channel blocks it.
Tick(i) ==
  /\ ~streams[i].extClosed
  /\ ticks < MaxTicks
  /\ Len(streams[i].ext) < Cap
  /\ \E t \in DOMAIN streams[i].subs :
       LET m == streams[i].subs[t]
       IN  /\ streams' = [streams EXCEPT ![i].ext =
                            Append(@, [market |-> m, tick |-> ticks + 1])]
           /\ sent' = [sent EXCEPT ![m] = ticks + 1]
  /\ ticks' = ticks + 1
  /\ UNCHANGED <<feeds, active, sources, consumers, calls, broken, strategy, booting,
                 up, prices, faults, disturbed, crowded, shared>>

\* Forward that drops a price when the channel is full.
ForwardOrDrop(i) ==
  /\ streams[i].ext # <<>>
  /\ ~streams[i].intClosed
  /\ streams' = [streams EXCEPT ![i] =
       [streams[i] EXCEPT !.ext = Tail(streams[i].ext),
                          !.int = IF Len(@) < Cap THEN Append(@, Head(streams[i].ext)) ELSE @]]
  /\ UNCHANGED <<feeds, active, sources, consumers, calls, broken, daemon, faults,
                 disturbed, crowded, shared>>

Forward(i) ==
  /\ streams[i].ext # <<>>
  /\ ~streams[i].intClosed
  /\ Len(streams[i].int) < Cap
  /\ streams' = [streams EXCEPT ![i] =
       [streams[i] EXCEPT !.ext = Tail(streams[i].ext),
                          !.int = Append(streams[i].int, Head(streams[i].ext))]]
  /\ UNCHANGED <<feeds, active, sources, consumers, calls, broken, daemon, faults,
                 disturbed, crowded, shared>>

\* A consumer that also reads the channel of the source.
TakeFromSource(k) ==
  LET i == consumers[k].stream
  IN  /\ i # NoStream
      /\ consumers[k].price = NoPrice
      /\ IF streams[i].ext # <<>>
         THEN /\ consumers' = [consumers EXCEPT ![k] = Consumer(i, Head(streams[i].ext))]
              /\ streams' = [streams EXCEPT ![i].ext = Tail(@)]
         ELSE /\ streams[i].int # <<>>
              /\ consumers' = [consumers EXCEPT ![k] = Consumer(i, Head(streams[i].int))]
              /\ streams' = [streams EXCEPT ![i].int = Tail(@)]
      /\ UNCHANGED <<feeds, active, sources, calls, broken, daemon, faults,
                     disturbed, crowded, shared>>

\* A consumer takes a price of any market, or ends with its channel.
Take(k) ==
  LET i == consumers[k].stream
  IN  /\ i # NoStream
      /\ consumers[k].price = NoPrice
      /\ \/ /\ streams[i].int # <<>>
            /\ consumers' = [consumers EXCEPT ![k] = Consumer(i, Head(streams[i].int))]
            /\ streams' = [streams EXCEPT ![i].int = Tail(@)]
         \/ /\ streams[i].int = <<>>
            /\ streams[i].intClosed
            /\ consumers' = [consumers EXCEPT ![k] = NoConsumer]
            /\ UNCHANGED streams
      /\ UNCHANGED <<feeds, active, sources, calls, broken, daemon, faults,
                     disturbed, crowded, shared>>

UpdateMarketPrice(k) ==
  /\ consumers[k].price # NoPrice
  /\ prices' = [prices EXCEPT ![consumers[k].price.market] = consumers[k].price.tick]
  /\ consumers' = [consumers EXCEPT ![k] = Consumer(@.stream, NoPrice)]
  /\ UNCHANGED <<feeds, active, sources, streams, calls, broken, booting, up, sent,
                 ticks, strategy, faults, disturbed, crowded, shared>>

-----------------------------------------------------------------------------
(***************************************************************************)
(* The process.                                                            *)
(***************************************************************************)
Dies ==
  /\ up' = FALSE
  /\ active' = {}
  /\ sources' = [s \in Sources |-> NoStream]
  /\ streams' = [i \in Streams |-> ClosedStream]
  /\ consumers' = [k \in Consumers |-> NoConsumer]
  /\ calls' = [c \in DOMAIN calls |-> NoCall]
  /\ booting' = {}
  /\ disturbed' = (disturbed \/ Busy)
  /\ sent' = prices
  /\ UNCHANGED <<feeds, strategy, broken, prices, ticks, crowded, shared>>

\* The forwarding goroutine sends on a channel that was closed.
ForwardPanics(i) ==
  /\ up
  /\ streams[i].ext # <<>>
  /\ streams[i].intClosed
  /\ Dies
  /\ UNCHANGED faults

Crash ==
  /\ up
  /\ faults < MaxFaults
  /\ faults' = faults + 1
  /\ Dies

\* startPriceFeeds of every feed, started or not.
RestartAll ==
  /\ ~up
  /\ up' = TRUE
  /\ broken' = FALSE
  /\ booting' = {f \in Feeds : Stored(f)}
  /\ UNCHANGED <<feeds, strategy, active, sources, streams, consumers, calls, prices,
                 sent, ticks, faults, disturbed, crowded, shared>>

Restart ==
  /\ ~up
  /\ up' = TRUE
  /\ broken' = FALSE
  /\ booting' = {f \in Feeds : Started(f)}
  /\ UNCHANGED <<feeds, strategy, active, sources, streams, consumers, calls, prices,
                 sent, ticks, faults, disturbed, crowded, shared>>

\* startPriceFeeds: one started feed after the other, until one cannot be started.
StartPriceFeeds ==
  /\ up /\ ~broken
  /\ calls[Boot] = NoCall
  /\ \E f \in booting :
       /\ booting' = booting \ {f}
       /\ IF strategy[feeds[f].market]
          THEN /\ calls' = [calls EXCEPT ![Boot] = Call("start", f, NoFeed, NoStream)]
               /\ UNCHANGED broken
          ELSE Fail(Boot)
  /\ UNCHANGED <<feeds, strategy, active, sources, streams, consumers, up, prices, sent,
                 ticks, faults, disturbed, crowded, shared>>

-----------------------------------------------------------------------------
RPCBegins ==
  \E c \in Callers :
    \/ AddPriceFeed(c)
    \/ UpdatePriceFeed(c)
    \/ RemovePriceFeed(c)
    \/ StartPriceFeed(c)
    \/ StopPriceFeed(c)

CallStep(c) ==
  \/ InsertFeed(c)
  \/ UpdateFeed(c)
  \/ RemoveFeed(c)
  \/ StartReads(c)
  \/ StartOpens(c)
  \/ StartSubscribes(c)
  \/ StartWrites(c)
  \/ StartActivates(c)
  \/ StopWrites(c)
  \/ StopOpens(c)
  \/ StopUnsubscribes(c)
  \/ StopChecks(c)
  \/ StopSource(c)
  \/ CloseChannel(c)
  \/ StopDeactivates(c)

Next ==
  \/ RPCBegins
  \/ \E c \in Callers \cup {Boot} : CallStep(c)
  \/ UpdateMarketStrategy
  \/ \E i \in Streams : Tick(i) \/ Forward(i) \/ ForwardPanics(i)
  \/ \E k \in Consumers : Take(k) \/ UpdateMarketPrice(k)
  \/ Crash
  \/ Restart
  \/ StartPriceFeeds

Spec == Init /\ [][Next]_vars

-----------------------------------------------------------------------------
Undisturbed == Serving /\ ~disturbed /\ ~Busy

\* Without overlapping RPCs and failures, and through restarts of the daemon, the
\* feeds stored as started are the active ones, each has its ticker subscribed
\* for its market with its source, and a source is connected only for started
\* feeds.  Feeds that once shared a ticker lose the guarantee of a subscription
\* (service.go, StartPriceFeed, StopPriceFeed, getPriceFeederBySource,
\* removePriceFeederBySource; feeder/service.go, startPriceFeeds).
Subscription(f) ==
  LET i == sources[feeds[f].source]
  IN  /\ i # NoStream
      /\ feeds[f].ticker \in DOMAIN streams[i].subs
      /\ streams[i].subs[feeds[f].ticker] = feeds[f].market
SubscribedWhileStarted ==
  Undisturbed =>
    /\ active = {f \in Feeds : Started(f)}
    /\ ~shared =>
         /\ \A f \in Feeds : Started(f) => Subscription(f)
         /\ \A s \in Sources : sources[s] # NoStream =>
              \E f \in Feeds : Started(f) /\ feeds[f].source = s

\* The daemon finds its feeds startable again after a restart, unless a market
\* has left the pluggable strategy meanwhile or something failed
\* (feeder/service.go, startPriceFeeds).
RestartSucceeds ==
  up /\ broken /\ ~disturbed => \E f \in Feeds : Started(f) /\ ~strategy[feeds[f].market]

\* A single goroutine stores the prices of a source in the order they came:
\* a market never goes back to an older price.  A start that failed after it had
\* subscribed leaves old prices in the channels of its source, which a later start
\* stores (feeder/service.go, StartPriceFeed; service.go, StartPriceFeed).
PricesInOrder ==
  [][\A m \in Markets : prices'[m] >= prices[m] \/ crowded \/ disturbed]_vars

\* No price is lost between a source and the store: once none is on its way,
\* the stored price of a market is the latest one its source sent
\* (service.go, getPriceFeederBySource, removePriceFeederBySource).
OnTheWay ==
  \/ \E i \in Streams : streams[i].ext # <<>> \/ streams[i].int # <<>>
  \/ \E k \in Consumers : consumers[k].price # NoPrice
PricesArrive ==
  ~OnTheWay /\ ~disturbed /\ ~crowded => prices = sent
=============================================================================
