--------------------------- MODULE MCTradeService ---------------------------
(***************************************************************************)
(* TLC instance of the trade service.                                      *)
(***************************************************************************)
EXTENDS TradeService, TLC

\* Trades and coins of an account differ only by name, and so do RPCs.
TradeSymmetry == Permutations(Trades) \cup Permutations(MarketUtxos)
CallSymmetry == Permutations(Calls)
=============================================================================
