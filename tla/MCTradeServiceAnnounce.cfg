SPECIFICATION FairSpec
CONSTANTS
  t1 = t1
  Trades = {t1}
  Handlers = {t1}
  MarketUtxos = {m1}
  FeeUtxos = {f1}
  Calls = {}
  Nobody = Nobody
  NoHandler = NoHandler
  NoTrade = NoTrade
  LockTime = 1
  MaxTime = 3
  MaxFaults = 0
PROPERTIES
  SettlementIsAnnounced
CHECK_DEADLOCK FALSE
