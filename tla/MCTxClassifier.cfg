SPECIFICATION Spec
CONSTANTS
  fee = fee
  market = market
  fragmenter = fragmenter
  outside = outside
  FeeAccount = fee
  Markets <- MCMarkets
  Fragmenters <- MCFragmenters
  Outside = outside
  Assets <- MCAssets
  NativeAsset = "LBTC"
  Transactions <- MCTransactions
  Word = 1024
  NoRecord = NoRecord
  MaxEvents = 2
  MaxFaults = 1

  
  
PROPERTY
  DepositsAnnounced
CHECK_DEADLOCK FALSE
