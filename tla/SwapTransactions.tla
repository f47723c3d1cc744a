--------------------------- MODULE SwapTransactions ---------------------------
(***************************************************************************)
(* The amounts of the transactions that the daemon makes: withdrawals      *)
(* (internal/core/application/wallet/service.go, SendToMany), and swaps,   *)
(* which a client begins (pkg/trade, marketOrderRequest and NewSwapTx) and *)
(* the daemon completes (CompleteSwap).  Amounts are unsigned words.       *)
(*                                                                         *)
(* An input or output is [owner, asset, amount]; the coins that one call   *)
(* selects are one input.  The answers of the wallet are given: what the   *)
(* coins it selects exceed the amount by, in the account (change) and in   *)
(* the fee account (feeChange), the two estimates of the network fee, and  *)
(* whether a call fails.                                                   *)
(***************************************************************************)
EXTENDS CoinSelection, Pricing

CONSTANTS
  Word,      \* 2^64
  Funds,     \* what the wallet can select at most of an asset
  Lbtc       \* the asset of network fees

ASSUME WordAssumption == Funds \in Nat /\ Word \in Nat /\ Funds < Word

Plus(x, y) == (x + y) % Word
Minus(x, y) == (x - y) % Word

Part(owner, asset, amount) == [owner |-> owner, asset |-> asset, amount |-> amount]
ChangePart(owner, asset, change) ==
  IF change > 0 THEN <<Part(owner, asset, change)>> ELSE <<>>

NoTransaction == [ok |-> FALSE]
Transaction(inputs, outputs) == [ok |-> TRUE, inputs |-> inputs, outputs |-> outputs]

\* The wallet selects coins worth amount + change.
CanSelect(amount, change) == amount + change <= Funds

\* The fee of the transaction with its last output, which is not corrected.
FinalFeeOnly(inputs, outputs, wallet) ==
  LET dummyFeeAmount == Plus(wallet.estimate, 150)
      feeAmount == IF wallet.feeChange > 0 THEN wallet.finalEstimate ELSE dummyFeeAmount
  IN  IF ~CanSelect(dummyFeeAmount, wallet.feeChange) THEN NoTransaction
      ELSE Transaction(
             inputs \o <<Part("fee account", Lbtc, dummyFeeAmount + wallet.feeChange)>>,
             outputs \o ChangePart("fee account", Lbtc, wallet.feeChange)
                     \o <<Part("network", Lbtc, feeAmount)>>)

\* The fee account pays the fee.  A change output makes for a new estimate, and
\* gets the difference of the two.
PayFee(inputs, outputs, wallet) ==
  LET dummyFeeAmount == Plus(wallet.estimate, 150)
      feeAmount == IF wallet.feeChange > 0 THEN wallet.finalEstimate ELSE dummyFeeAmount
      diff == Minus(dummyFeeAmount, feeAmount)
      change == IF wallet.feeChange > 0
                THEN <<Part("fee account", Lbtc, Plus(wallet.feeChange, diff))>> ELSE <<>>
  IN  IF ~CanSelect(dummyFeeAmount, wallet.feeChange) THEN NoTransaction
      ELSE Transaction(
             inputs \o <<Part("fee account", Lbtc, dummyFeeAmount + wallet.feeChange)>>,
             outputs \o change \o <<Part("network", Lbtc, feeAmount)>>)

totOutputAmountPerAsset(outs) ==
  [a \in {outs[i].asset : i \in DOMAIN outs} |->
     FoldLeft(LAMBDA n, o : IF o.asset = a THEN Plus(n, o.amount) ELSE n, 0, outs)]

SendToMany(outs, wallet) ==
  LET tot == totOutputAmountPerAsset(outs)
      assets == SetToSeq(DOMAIN tot)
      inputs == [i \in DOMAIN assets |->
                   Part("account", assets[i], tot[assets[i]] + wallet.change[assets[i]])]
      changes == FlattenSeq([i \in DOMAIN assets |->
                   ChangePart("account", assets[i], wallet.change[assets[i]])])
  IN  IF wallet.fails \/ \E a \in DOMAIN tot : ~CanSelect(tot[a], wallet.change[a])
      THEN NoTransaction
      ELSE PayFee(inputs, outs \o changes, wallet)

-----------------------------------------------------------------------------
(***************************************************************************)
(* A swap.  A request is [isBuy, amountP, amountR, feeAsset, feeAmount].   *)
(***************************************************************************)
FeesToAdd(request) ==
  \/ request.isBuy /\ request.feeAsset = Quote
  \/ ~request.isBuy /\ request.feeAsset = Base

NewSwapTx(utxos, inAsset, outAsset, inAmount, outAmount) ==
  LET selected == SelectUnspents(utxos, inAmount, inAsset)
  IN  IF ~selected.ok THEN NoTransaction
      ELSE Transaction([i \in DOMAIN selected.coins |->
                          Part("client", inAsset, selected.coins[i].value)],
                       <<Part("client", outAsset, outAmount)>>
                         \o ChangePart("client", inAsset, selected.change))

\* The transaction of the client, who adds the fee to what is sent or subtracts
\* it from what is received.
marketOrderRequest(utxos, request) ==
  LET send == AssetP(request.isBuy)
      receive == AssetR(request.isBuy)
      amounts == [[a \in {Base, Quote} |-> IF a = send THEN request.amountP ELSE request.amountR]
                  EXCEPT ![request.feeAsset] = IF FeesToAdd(request)
                                               THEN Plus(@, request.feeAmount)
                                               ELSE Minus(@, request.feeAmount)]
  IN  IF utxos = <<>> THEN NoTransaction
      ELSE NewSwapTx(utxos, send, receive, amounts[send], amounts[receive])

CompleteSwap(tx, request, wallet, feesToAdd) ==
  LET send == AssetP(request.isBuy)
      receive == AssetR(request.isBuy)
      amountR == IF request.feeAsset = receive /\ ~feesToAdd
                 THEN Minus(request.amountR, request.feeAmount) ELSE request.amountR
      amountP == IF request.feeAsset = send /\ feesToAdd
                 THEN Plus(request.amountP, request.feeAmount) ELSE request.amountP
      change == wallet.change[receive]
  IN  IF wallet.fails \/ ~CanSelect(amountR, change) THEN NoTransaction
      ELSE PayFee(tx.inputs \o <<Part("account", receive, amountR + change)>>,
                  tx.outputs \o <<Part("account", send, amountP)>>
                             \o ChangePart("account", receive, change),
                  wallet)

Swap(utxos, request, wallet) ==
  LET tx == marketOrderRequest(utxos, request)
  IN  IF ~tx.ok THEN NoTransaction
      ELSE CompleteSwap(tx, request, wallet, FeesToAdd(request))
=============================================================================
