SPECIFICATION Spec
CONSTANTS
  t1 = t1
  Trades = {t1}
  Handlers = {t1}
  MarketUtxos = {m1}
  FeeUtxos = {f1}
  Calls = {c1, c2}
  Nobody = Nobody
  NoHandler = NoHandler
  NoTrade = NoTrade
  LockTime = 1
  MaxTime = 3
  MaxFaults = 1
SYMMETRY CallSymmetry
INVARIANTS
  SettledMeansSpent
  CopiesWellFormed
  SettledEventOnce
  FailureCanBeReported
PROPERTIES
  AcceptanceIsKept
CHECK_DEADLOCK FALSE
