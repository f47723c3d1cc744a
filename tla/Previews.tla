------------------------------- MODULE Previews -------------------------------
(***************************************************************************)
(* The RPC that previews a trade, and what its answer promises: the        *)
(* reserves of a balanced market keep their product, and a proposal with   *)
(* the amounts of the preview is accepted.                                 *)
(*                                                                         *)
(* A call is answered once and changes nothing.                            *)
(***************************************************************************)
EXTENDS Pricing

CONSTANTS
  PreviewCalls,   \* the calls
  Slippages,      \* tolerances of the check of a price, in units of 1/One
  Pending         \* no answer yet

\* A precision divides the decimals (asset precisions are powers of ten up to
\* 10^8).
PrecisionRange == {p \in 1..One : One % p = 0}

MarketConfig ==
  [balanced : BOOLEAN,
   precision : PrecisionRange \X PrecisionRange,
   percentageFee : Nat \X Nat, fixedFee : Nat \X Nat,
   basePrice : Nat, quotePrice : Nat]

ASSUME PreviewAssumption ==
  /\ PreviewCalls \subseteq
       [op : {"preview"}, market : MarketConfig, balances : Nat \X Nat, amount : Nat,
        asset : {Base, Quote}, feeAsset : {Base, Quote}, isBuy : BOOLEAN]
  /\ Slippages \subseteq Nat

VARIABLES call, answer

Answers(op, value) ==
  /\ call.op = op
  /\ answer = Pending
  /\ answer' = value
  /\ UNCHANGED call

Answered(op) == call.op = op /\ answer # Pending

AnswerPreview ==
  Answers("preview", Preview(call.market, call.balances, call.amount, call.asset,
                             call.feeAsset, call.isBuy))

PreviewInit == call \in PreviewCalls /\ answer = Pending
PreviewSpec == PreviewInit /\ [][AnswerPreview]_<<call, answer>>

-----------------------------------------------------------------------------
\* A preview of a balanced market keeps the product of the reserves, up to the
\* rounding of the ratio, whose error grows with the reserve it multiplies, and
\* up to a unit of the asset; the market never gives a whole reserve; and only a
\* price that is rounded to zero makes a preview panic (market.go, Preview;
\* balanced_reserves.go, OutGivenIn and InGivenOut).
PreviewKeepsProduct ==
  Answered("preview") /\ call.market.balanced =>
    LET d == Decimals(call.market, call.balances)
        balanceIn == d[IF call.isBuy THEN 2 ELSE 1]
        balanceOut == d[IF call.isBuy THEN 1 ELSE 2]
        given == call.amount * (One \div Side(call.market.precision, call.asset))
        unit == One \div Side(call.market.precision, OtherAsset(call.asset))
        gives == call.isBuy = (call.asset = Base)
        \* exact numerator and denominator, and the reserve that is multiplied
        den == IF gives THEN balanceOut - given ELSE balanceIn + given
        num == IF gives THEN balanceIn * given ELSE balanceOut * given
        reserve == IF gives THEN balanceIn ELSE balanceOut
        got == answer.amount * unit
    IN  /\ answer.result = "ok" =>
             /\ 2 * One * (got * den - num) <= (reserve + One) * den
             /\ 2 * One * (num - got * den) <= (reserve + One + 2 * One * unit) * den
             /\ (IF gives THEN given ELSE got) < balanceOut
        /\ answer.result = "panic" <=> d[1] > 0 /\ d[2] > 0 /\ 2 * d[2] * One < d[1]

\* A proposal with the amounts of a preview, of either of its assets, is within
\* every slippage while price and balances stay (utils.go, isValidTradePrice).
PreviewIsAccepted ==
  Answered("preview") =>
    (answer.result = "ok" =>
       LET sent == call.asset = AssetP(call.isBuy)
           request == [isBuy |-> call.isBuy, feeAsset |-> call.feeAsset,
                       amountP |-> IF sent THEN call.amount ELSE answer.amount,
                       amountR |-> IF sent THEN answer.amount ELSE call.amount]
       IN  \A s \in Slippages : isValidTradePrice(call.market, call.balances, request, s))
=============================================================================
