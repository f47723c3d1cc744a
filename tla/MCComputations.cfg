SPECIFICATION Spec
CONSTANTS
  SecondTicks = 2
  HourSeconds = 3
  One = 100
  ReportCalls <- MCReportCalls
  MarketFragmentCalls <- MCMarketFragmentCalls
  FeeFragmentCalls <- MCFeeFragmentCalls
  PreviewCalls <- MCPreviewCalls
  CoinCalls <- MCCoinCalls
  WithdrawalCalls <- MCWithdrawalCalls
  SwapCalls <- MCSwapCalls
  Word = 1024
  Funds = 800
  Lbtc = "base"
  Slippages = {0, 5}
  Pending = Pending
INVARIANTS
  ReportCountsOnce
  
  
  PreviewIsAccepted
  CoinsCoverTarget
  
CHECK_DEADLOCK FALSE
