SPECIFICATION Spec
CONSTANTS
  f1 = f1
  f2 = f2
  m1 = m1
  m2 = m2
  t1 = t1
  t2 = t2
  s1 = s1
  st1 = st1
  k1 = k1
  k2 = k2
  c1 = c1
  Feeds <- MCFeeds
  Markets <- MCMarkets
  Tickers <- MCTickers
  Sources <- MCSources
  Streams <- MCStreams
  Consumers <- MCConsumers
  Callers <- MCCallers
  Boot = Boot
  NoFeed = NoFeed
  NoStream = NoStream
  NoPrice = NoPrice
  Cap = 1
  MaxTicks = 2
  MaxFaults = 1
SYMMETRY FeedSymmetry
INVARIANTS
  SubscribedWhileStarted
  
  PricesArrive
PROPERTY
  PricesInOrder
CHECK_DEADLOCK FALSE
