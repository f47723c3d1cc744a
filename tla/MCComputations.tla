---------------------------- MODULE MCComputations ----------------------------
EXTENDS Computations

\* Two trades, in any seconds of a range of up to three frames of an hour; one
\* bound of the range, or both, may lie between two seconds.
Trade(t, buy) ==
  [timestamp |-> t, amountP |-> 3, amountR |-> 5, buy |-> buy, feeAmount |-> 1,
   feeInBase |-> ~buy]
MCReportCalls ==
  [op : {"report"}, start : 0..1, end : 4..20, frame : {1, 2},
   trades : {{Trade(t, TRUE), Trade(u, FALSE)} : t, u \in 0..10}]

\* Around the smallest amounts and multiples.
Around(S) == UNION {{n - 1, n, n + 1} : n \in S}
MCMarketFragmentCalls ==
  [op : {"market fragments"},
   balances : LET amounts == {0, 123456, 10000000} \cup Around({100000, 100050})
              IN  amounts \X amounts,
   balanced : BOOLEAN, marketFunded : BOOLEAN]
MCFeeFragmentCalls ==
  [op : {"fee fragments"}, balance : {0, 123456} \cup Around({5000, 10000, 15000, 100000}),
   maxFragments : {0, 1, 2, 3, 20, 21}]

\* Decimals of two digits, assets with as many or fewer, and reserves from nothing
\* to several hundred units.
MCMarkets ==
  [balanced : BOOLEAN, precision : {<<100, 100>>, <<100, 10>>},
   percentageFee : {<<0, 0>>, <<2500, 100>>}, fixedFee : {<<0, 3>>},
   basePrice : {40}, quotePrice : {250}]
MCPreviewCalls ==
  [op : {"preview"}, market : MCMarkets,
   balances : LET amounts == {0, 1, 7, 20, 100, 250, 999} IN amounts \X amounts,
   amount : (1..30) \cup {99, 100, 400},
   asset : {Base, Quote}, feeAsset : {Base, Quote}, isBuy : BOOLEAN]

\* Up to four coins of values around the ratio, one of them of another asset or
\* blinded.
MCUtxos ==
  LET Coins(vs) == [i \in DOMAIN vs |->
                      [id |-> i, asset |-> Base, value |-> vs[i], blinded |-> FALSE]]
      plain == {Coins(vs) : vs \in BoundedSeq({1, 2, 3, 10, 31}, 4)}
  IN  plain \cup {[u EXCEPT ![1].asset = Quote] : u \in plain \ {<<>>}}
            \cup {[u EXCEPT ![1].blinded = TRUE] : u \in plain \ {<<>>}}
MCCoinCalls ==
  [op : {"coins"}, utxos : MCUtxos, amount : (0..7) \cup {31, 45}, asset : {Base}]

\* Estimates of the network fee that grow and shrink, and fall short of the coins
\* that were selected or exceed them by one.
MCWallets ==
  [change : [{Base, Quote} -> {0, 4}], estimate : {50},
   finalEstimate : {0, 50, 199, 200, 201, 202, 230, 231},
   feeChange : {0, 1, 30}, fails : BOOLEAN]
MCWithdrawalCalls ==
  [op : {"withdrawal"}, wallet : MCWallets,
   outs : BoundedSeq([owner : {"receiver"}, asset : {Base, Quote}, amount : {1, 7, 300}], 3)
            \ {<<>>}]
MCSwapCalls ==
  [op : {"swap"}, wallet : MCWallets,
   utxos : {<<>>} \cup {<<[id |-> 1, asset |-> Base, value |-> b, blinded |-> FALSE],
                     [id |-> 2, asset |-> Quote, value |-> q, blinded |-> FALSE],
                     [id |-> 3, asset |-> Quote, value |-> 40, blinded |-> FALSE]>> :
                       b \in {20, 22, 100}, q \in {20, 40}},
   request : [isBuy : BOOLEAN, amountP : {20, 60}, amountR : {3, 30},
              feeAsset : {Base, Quote}, feeAmount : {0, 2}]]
=============================================================================
