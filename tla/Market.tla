------------------------------- MODULE Market -------------------------------
(***************************************************************************)
(* The market entity of internal/core/domain/market.go: its record and,    *)
(* for every method that changes it, whether the method succeeds and the   *)
(* value the receiver has when it returns.                                 *)
(*                                                                         *)
(* A price is a natural number, 0 the zero price (MarketPrice.IsZero): no  *)
(* method tells two non-zero prices apart.  Fees and precisions are pairs  *)
(* <<base, quote>>; a negative argument asks for no change of that side.   *)
(* NewMarket gets its fees as unsigned numbers converted from signed ones. *)
(***************************************************************************)
EXTENDS Integers

CONSTANTS
  Pairs,     \* the asset pairs, base and quote
  Modulus    \* 2^64 in the code

ASSUME ModulusAssumption == Modulus \in Nat /\ Modulus > 2 * 9999

StrategyTypeUndefined == 0
StrategyTypePluggable == 1
StrategyTypeBalanced  == 2

MarketRecord ==
  [pair          : Pairs,
   percentageFee : Nat \X Nat,
   fixedFee      : Nat \X Nat,
   precision     : Nat \X Nat,
   tradable      : BOOLEAN,
   strategyType  : {StrategyTypePluggable, StrategyTypeBalanced},
   price         : Nat]

uint64(v) == v % Modulus

int64(u) == IF 2 * u < Modulus THEN u ELSE u - Modulus

Returns(ok, m) == [ok |-> ok, market |-> m]

isValidPercentageFee(fee) == \A i \in 1..2 : fee[i] \in 0..9999

isValidFixedFee(fee) == \A i \in 1..2 : fee[i] >= -1

isValidPrecision(precision) == precision <= 8

isValidStrategy(strategy) ==
  strategy \in StrategyTypeUndefined..StrategyTypeBalanced

IsStrategyPluggable(m) == m.strategyType = StrategyTypePluggable

\* The strategy a new market gets: balanced, unless told otherwise.
StrategyOrDefault(strategy) ==
  IF strategy = StrategyTypeUndefined THEN StrategyTypeBalanced ELSE strategy

NewMarket(pair, percentageFee, fixedFee, precision, strategy) ==
  Returns(/\ isValidPercentageFee([i \in 1..2 |-> int64(percentageFee[i])])
          /\ isValidFixedFee([i \in 1..2 |-> int64(fixedFee[i])])
          /\ \A i \in 1..2 : isValidPrecision(precision[i])
          /\ isValidStrategy(strategy),
          [pair          |-> pair,
           percentageFee |-> percentageFee,
           fixedFee      |-> fixedFee,
           precision     |-> precision,
           tradable      |-> FALSE,
           strategyType  |-> StrategyOrDefault(strategy),
           price         |-> 0])

\* MakeTradable without the check that the market is priced.
MakeTradableUnpriced(m) == Returns(TRUE, [m EXCEPT !.tradable = TRUE])

MakeTradable(m) ==
  IF IsStrategyPluggable(m) /\ m.price = 0
  THEN Returns(FALSE, m)
  ELSE Returns(TRUE, [m EXCEPT !.tradable = TRUE])

MakeNotTradable(m) == [m EXCEPT !.tradable = FALSE]

MakeStrategyPluggable(m) ==
  IF m.tradable THEN Returns(FALSE, m)
  ELSE Returns(TRUE, [[m EXCEPT !.strategyType = StrategyTypePluggable]
                        EXCEPT !.price = 0])

MakeStrategyBalanced(m) ==
  IF m.tradable THEN Returns(FALSE, m)
  ELSE Returns(TRUE, [m EXCEPT !.strategyType = StrategyTypeBalanced])

\* The pair of values after a change that leaves alone the sides given as
\* negative.
Changed(old, new) ==
  <<IF new[1] >= 0 THEN new[1] ELSE old[1],
    IF new[2] >= 0 THEN new[2] ELSE old[2]>>

\* ChangePercentageFee without the check that the market is closed.
ChangePercentageFeeAnytime(m, fee) ==
  IF ~isValidPercentageFee(fee) THEN Returns(FALSE, m)
  ELSE Returns(TRUE, [m EXCEPT !.percentageFee = Changed(@, fee)])

ChangePercentageFee(m, fee) ==
  IF m.tradable \/ ~isValidPercentageFee(fee) THEN Returns(FALSE, m)
  ELSE Returns(TRUE, [m EXCEPT !.percentageFee = Changed(@, fee)])

ChangeFixedFee(m, fee) ==
  IF m.tradable \/ ~isValidFixedFee(fee) THEN Returns(FALSE, m)
  ELSE Returns(TRUE, [m EXCEPT !.fixedFee = Changed(@, fee)])

ChangeAssetPrecision(m, precision) ==
  IF m.tradable \/ \E i \in 1..2 : ~isValidPrecision(precision[i])
  THEN Returns(FALSE, m)
  ELSE Returns(TRUE, [m EXCEPT !.precision = Changed(@, precision)])
=============================================================================
