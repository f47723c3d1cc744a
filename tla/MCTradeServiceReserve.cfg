SPECIFICATION Spec
CONSTANTS
  t1 = t1
  t2 = t2
  Trades = {t1, t2}
  Handlers = {t1, t2}
  MarketUtxos = {m1, m2}
  FeeUtxos = {f1}
  Calls = {}
  Nobody = Nobody
  NoHandler = NoHandler
  NoTrade = NoTrade
  LockTime = 2
  MaxTime = 3
  MaxFaults = 0
SYMMETRY TradeSymmetry
INVARIANTS
  CoinsStayReserved
  LiveTradesDisjoint
CHECK_DEADLOCK FALSE
