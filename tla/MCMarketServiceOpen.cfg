SPECIFICATION Spec
CONSTANTS
  Pairs = {p1}
  Modulus = 20000
  Names = {n1}
  Calls = {c1, c2, c3}
  Prices = {1}
  NewMarkets <- MCNewMarkets
  PercentageFees <- MCPercentageFees
  FixedFees <- MCFixedFees
  Precisions <- MCPrecisions
  NoMarket = NoMarket
  NoName = NoName
  MaxFaults = 1
SYMMETRY MarketSymmetry
INVARIANTS
  OpenMarketsPriced
  MarketsCanBeListed
PROPERTIES
  OnlyOpenMarketOpens
  PriceNeverLost
