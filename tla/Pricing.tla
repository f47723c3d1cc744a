-------------------------------- MODULE Pricing --------------------------------
(***************************************************************************)
(* Previews (internal/core/domain/market.go with pkg/marketmaking/formula) *)
(* and the check of the price of a proposal (internal/core/application/    *)
(* trade/utils.go).  A decimal is an integer, in units of 1/One: the       *)
(* program keeps eight digits, One = 10^8.                                 *)
(*                                                                         *)
(* A market is [balanced, precision, percentageFee, fixedFee, basePrice,   *)
(* quotePrice].  Precisions, fees and balances are pairs <<base, quote>>;  *)
(* a precision is the number of units of an asset in a whole, and divides  *)
(* One.  A preview panics if it divides by a price that was rounded to     *)
(* zero.                                                                   *)
(***************************************************************************)
EXTENDS Integers

CONSTANT One

ASSUME OneAssumption == One \in Nat \ {0}

Failed == [result |-> "error"]
Panicked == [result |-> "panic"]
Ok(amount) == [result |-> "ok", amount |-> amount]

\* Division rounds half up to the digits of a decimal, and so does Round after a
\* multiplication.
RoundedQuotient(x, y) == (2 * x + y) \div (2 * y)
Div(x, y) == RoundedQuotient(x * One, y)
MulRound(x, y) == RoundedQuotient(x * y, One)

Base == "base"
Quote == "quote"
Side(pair, asset) == IF asset = Base THEN pair[1] ELSE pair[2]
OtherAsset(asset) == IF asset = Base THEN Quote ELSE Base

-----------------------------------------------------------------------------
(***************************************************************************)
(* The formulas.                                                           *)
(***************************************************************************)
\* The price before the trade.
OutAtSpotPrice(balanceIn, balanceOut, amountIn) ==
  LET amount == MulRound(balanceOut, Div(amountIn, balanceIn))
  IN  IF amount <= 0 \/ amount >= balanceOut THEN Failed ELSE Ok(amount)

BalancedOutGivenIn(balanceIn, balanceOut, amountIn) ==
  IF amountIn <= 0 THEN Failed
  ELSE LET amount == MulRound(balanceOut, One - Div(balanceIn, balanceIn + amountIn))
       IN  IF amount <= 0 \/ amount >= balanceOut THEN Failed ELSE Ok(amount)

BalancedInGivenOut(balanceIn, balanceOut, amountOut) ==
  IF amountOut = 0 \/ amountOut >= balanceOut THEN Failed
  ELSE LET amount == MulRound(balanceIn, Div(balanceOut, balanceOut - amountOut) - One)
       IN  IF amount <= 0 THEN Failed ELSE Ok(amount)

PluggableOutGivenIn(balanceOut, price, amountIn) ==
  LET amount == MulRound(amountIn, price)
  IN  IF amountIn = 0 \/ amount <= 0 \/ amount >= balanceOut THEN Failed ELSE Ok(amount)

PluggableInGivenOut(balanceOut, price, amountOut) ==
  LET amount == MulRound(amountOut, price)
  IN  IF amountOut = 0 \/ amountOut >= balanceOut \/ amount <= 0 THEN Failed ELSE Ok(amount)

\* The amount of the other asset.  The asset is what the market gives if the base
\* asset is bought or the quote asset is what a seller wants.
Formula(market, balances, decimal, asset, isBuy) ==
  LET balanceIn == balances[IF isBuy THEN 2 ELSE 1]
      balanceOut == balances[IF isBuy THEN 1 ELSE 2]
      price == IF asset = Base THEN market.quotePrice ELSE market.basePrice
      gives == isBuy = (asset = Base)
  IN  CASE market.balanced /\ gives -> BalancedInGivenOut(balanceIn, balanceOut, decimal)
        [] market.balanced /\ ~gives -> BalancedOutGivenIn(balanceIn, balanceOut, decimal)
        [] ~market.balanced /\ gives -> PluggableInGivenOut(balanceOut, price, decimal)
        [] ~market.balanced /\ ~gives -> PluggableOutGivenIn(balanceOut, price, decimal)

\* The prices of a balanced market, each the inverse of the other.
priceFromBalances(balances) ==
  IF balances[1] = 0 \/ balances[2] = 0 THEN Failed
  ELSE LET quotePrice == Div(balances[2], balances[1])
       IN  IF quotePrice = 0 THEN Panicked ELSE Ok(quotePrice)

\* The fee must be less than an amount it is subtracted from.
previewFees(market, amount, asset, isBuy) ==
  LET fee == (amount * Side(market.percentageFee, asset)) \div 10000
               + Side(market.fixedFee, asset)
      subtract == isBuy = (asset = Base)
  IN  IF subtract /\ fee >= amount THEN Failed ELSE Ok(fee)

\* Amounts and balances are in units of the precision of their asset.
Decimals(market, sats) ==
  <<sats[1] * (One \div market.precision[1]), sats[2] * (One \div market.precision[2])>>

Preview(market, balances, amount, asset, feeAsset, isBuy) ==
  LET decimals == Decimals(market, balances)
      price == IF market.balanced THEN priceFromBalances(decimals) ELSE Ok(market.quotePrice)
      other == OtherAsset(asset)
      answer == Formula(market, decimals, amount * (One \div Side(market.precision, asset)),
                        asset, isBuy)
      sats == (answer.amount * Side(market.precision, other)) \div One
      fee == previewFees(market, IF feeAsset = asset THEN amount ELSE sats, feeAsset, isBuy)
  IN  IF price.result # "ok" THEN price
      ELSE IF answer.result # "ok" THEN answer
      ELSE IF sats = 0 THEN Failed
      ELSE IF fee.result # "ok" THEN fee
      ELSE [result |-> "ok", amount |-> sats, asset |-> other, fee |-> fee.amount]

-----------------------------------------------------------------------------
(***************************************************************************)
(* The price of a proposal.  A buyer sends (P) the quote asset.  The fee   *)
(* is added to, or subtracted from, values that are then discarded.        *)
(***************************************************************************)
AssetP(isBuy) == IF isBuy THEN Quote ELSE Base
AssetR(isBuy) == IF isBuy THEN Base ELSE Quote

isPriceInRange(request, preview, slippage) ==
  LET expected == IF preview.asset = AssetR(request.isBuy) THEN request.amountR
                  ELSE request.amountP
  IN  /\ preview.amount * One >= expected * (One - slippage)
      /\ preview.amount * One <= expected * (One + slippage)

PreviewOf(market, balances, request, asset) ==
  Preview(market, balances,
          IF asset = AssetP(request.isBuy) THEN request.amountP ELSE request.amountR,
          asset, request.feeAsset, request.isBuy)

InRangeOf(market, balances, request, slippage, asset) ==
  LET preview == PreviewOf(market, balances, request, asset)
  IN  preview.result = "ok" /\ isPriceInRange(request, preview, slippage)

\* Only the amount that the proposer sends is previewed.
ValidForSender(market, balances, request, slippage) ==
  InRangeOf(market, balances, request, slippage, AssetP(request.isBuy))

isValidTradePrice(market, balances, request, slippage) ==
  \/ InRangeOf(market, balances, request, slippage, AssetP(request.isBuy))
  \/ InRangeOf(market, balances, request, slippage, AssetR(request.isBuy))
=============================================================================
