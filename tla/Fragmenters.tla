------------------------------ MODULE Fragmenters ------------------------------
(***************************************************************************)
(* How the fragmenters split the funds of their accounts                   *)
(* (internal/core/application/operator/market_fragmenter_account.go and    *)
(* fee_fragmenter_account.go).  An output is [asset, n, i, amount, addr]:  *)
(* the i-th of the n fragments of a percentage, paid to an address given   *)
(* by its index.                                                           *)
(***************************************************************************)
EXTENDS Integers, FiniteSetsExt

minMarketFragmentAmount == 100000
feeFragmentAmount == 5000
defaultNumFragments == 20

\* How many fragments have which percentage of the balance.
fragmentationMap == [n \in {1, 2, 3, 5} |->
  CASE n = 1 -> 30 [] n = 2 -> 15 [] n = 3 -> 10 [] n = 5 -> 2]

numFragments == SumSet(DOMAIN fragmentationMap)

\* Rounded up.
percentageAmountUp(amount, percentage) == (amount * percentage + 99) \div 100

percentageAmount(amount, percentage) == (amount * percentage) \div 100

\* The fragments of one asset.  The indices of the addresses start over for every
\* percentage.
MarketOutputs(asset, balance, offset) ==
  UNION {{[asset |-> asset, n |-> n, i |-> i, addr |-> offset + i,
           amount |-> percentageAmount(balance, fragmentationMap[n])] : i \in 0..(n - 1)} :
           n \in DOMAIN fragmentationMap}

\* A market of the balanced strategy without funds needs both assets.
CanFragment(baseBalance, quoteBalance, balanced, marketFunded) ==
  /\ \/ baseBalance >= minMarketFragmentAmount
     \/ quoteBalance >= minMarketFragmentAmount
  /\ balanced /\ ~marketFunded =>
       /\ baseBalance >= minMarketFragmentAmount
       /\ quoteBalance >= minMarketFragmentAmount

MarketFragmenterSplitFunds(baseBalance, quoteBalance, balanced, marketFunded) ==
  IF ~CanFragment(baseBalance, quoteBalance, balanced, marketFunded) THEN [ok |-> FALSE]
  ELSE LET splitBase == baseBalance > minMarketFragmentAmount
           splitQuote == quoteBalance > minMarketFragmentAmount
           base == IF splitBase THEN MarketOutputs("base", baseBalance, 0) ELSE {}
           quote == IF splitQuote
                    THEN MarketOutputs("quote", quoteBalance, Cardinality(base)) ELSE {}
       IN  [ok |-> TRUE, outputs |-> base \cup quote,
            numOfAddresses |-> numFragments * (IF splitBase /\ splitQuote THEN 2 ELSE 1)]

\* The last of num fragments gets what is left after num of them.
LastShort(balance, num) == balance - num * feeFragmentAmount

\* The last of num fragments gets what the others leave.
LastFragment(balance, num) == balance - (num - 1) * feeFragmentAmount

FeeFragmenterSplitFunds(balance, maxFragments) ==
  LET num == IF maxFragments > 0 THEN maxFragments ELSE defaultNumFragments
  IN  IF balance < feeFragmentAmount \/ feeFragmentAmount * num - 1 >= balance
      THEN [ok |-> FALSE]
      ELSE [ok |-> TRUE,
            outputs |-> {[asset |-> "lbtc", n |-> num, i |-> i, addr |-> i,
                          amount |-> IF i = num - 1 THEN LastFragment(balance, num)
                                     ELSE feeFragmentAmount] : i \in 0..(num - 1)},
            numOfAddresses |-> num]
=============================================================================
