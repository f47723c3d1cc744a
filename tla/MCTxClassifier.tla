---------------------------- MODULE MCTxClassifier ----------------------------
EXTENDS TxClassifier

CONSTANTS fee, market, fragmenter, outside

MCMarkets == {market}
MCFragmenters == {fragmenter}
MCAssets == {"LBTC", "USDT"}

\* The ways to share an amount between the owners.
Shares(n) ==
  LET owners == {fee, market, fragmenter, outside}
  IN  {f \in [owners -> 0..n] : MapThenSumSet(LAMBDA o : f[o], owners) = n}

Coins(native, other) ==
  [o \in DOMAIN native |-> [asset \in MCAssets |->
     IF asset = "LBTC" THEN native[o] ELSE other[o]]]

\* Three units of the native asset are spent, one of them on the network fee, or
\* two units of it and two of the other asset.  Whether the wallet knows the coins
\* of others matters only if they are spent.
MCTransactions ==
  {t \in
     {[in |-> Coins(p[1], p[3]), out |-> Coins(p[2], p[4]), fee |-> 1, known |-> p[5]] :
        p \in Shares(3) \X Shares(2) \X Shares(0) \X Shares(0) \X BOOLEAN
              \cup Shares(2) \X Shares(1) \X Shares(2) \X Shares(2) \X BOOLEAN} :
     t.known \/ \E asset \in MCAssets : t.in[outside][asset] > 0}
=============================================================================
