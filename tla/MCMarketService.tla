-------------------------- MODULE MCMarketService --------------------------
(***************************************************************************)
(* Constants of the runs of MarketService.                                 *)
(***************************************************************************)
EXTENDS MarketService, TLC

NewArgs(fixedFee, strategy) ==
  [percentageFee |-> <<0, 0>>, fixedFee |-> fixedFee, precision |-> <<0, 0>>,
   strategy |-> strategy]

MCNewMarkets == {NewArgs(<<0, 0>>, StrategyTypeUndefined),
                 NewArgs(<<0, 0>>, StrategyTypePluggable)}

MCPercentageFees == {<<0, 1>>, <<-1, 1>>}
MCFixedFees == {<<-1, 0>>}
MCPrecisions == {<<0, 0>>, <<9, 0>>}

MarketSymmetry == Permutations(Calls)
=============================================================================
