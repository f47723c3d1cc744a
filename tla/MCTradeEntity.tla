--------------------------- MODULE MCTradeEntity ---------------------------
(***************************************************************************)
(* TLC instance of TradeEntity: one trade and a clock that passes every    *)
(* deadline a call can set.                                                *)
(***************************************************************************)
EXTENDS TradeEntity
=============================================================================
