------------------------ MODULE MarketServiceProofs ------------------------
(***************************************************************************)
(* Proofs about the markets.                                               *)
(*                                                                         *)
(* MarketService, for any numbers of markets, pairs, RPCs and faults: the  *)
(* types of its state, that an open market with the pluggable strategy is  *)
(* priced, that a price is never lost, that only OpenMarket opens, and     *)
(* that markets can be listed as long as nothing failed.                   *)
(* OpenMarketsPriced is not inductive.  The strengthening says what is     *)
(* known of the copy each RPC holds, and that at most one NewMarket is     *)
(* past the wallet for a name, before the name has a price: it is the      *)
(* wallet's refusal of a label in use that keeps a second NewMarket from   *)
(* zeroing the price of an open market.                                    *)
(*                                                                         *)
(* Previews, for every market, all reserves, amounts and slippages and any *)
(* number of digits: the product of the reserves, and that a proposal made *)
(* of a preview is accepted.                                               *)
(***************************************************************************)
EXTENDS MarketService, Previews, TLAPS

\* What the methods of a market do to it, as far as the proofs need.
ClosedMarket(m) == m \in MarketRecord /\ ~m.tradable

Creating(k) == k.pc \in {"insert", "insertPrice", "undo"}

\* What is known of an RPC in progress.
CallOK(k) ==
  /\ k \in CallRecord
  /\ k.pc # "idle" => k.name \in Names
  /\ k.pc \in {"createAccount", "insert", "insertPrice"}
       => ClosedMarket(k.market) /\ k.market.price = 0
  /\ k.pc \in {"closeWrite", "updateWrite"} => ClosedMarket(k.market)
  /\ k.pc \in {"openPrice", "openWrite"} => k.market \in MarketRecord
  /\ k.pc = "openWrite" /\ IsStrategyPluggable(k.market)
       /\ k.name \notin dropped => prices[k.name] > 0
  /\ k.pc = "setPrice" => prices[k.name] # NoPrice

CallsOK == \A c \in Calls : CallOK(calls[c])

\* Before the price of a market is first stored, one NewMarket at most is
\* past the creation of the account; afterwards, none is.
CreatorsOK ==
  \A n \in Names \ dropped :
    /\ prices[n] # NoPrice => n \in accounts
    /\ \A c \in Calls : Creating(calls[c]) /\ calls[c].name = n
         => /\ n \in accounts
            /\ prices[n] = NoPrice
            /\ \A d \in Calls : Creating(calls[d]) /\ calls[d].name = n => d = c

IInv == TypeOK /\ CallsOK /\ CreatorsOK /\ OpenMarketsPriced

-----------------------------------------------------------------------------
(***************************************************************************)
(* The entity.                                                             *)
(***************************************************************************)
\* Fees and precisions stay non-negative whatever change is asked for
\* (market.go, ChangePercentageFee, ChangeFixedFee, ChangeAssetPrecision).
LEMMA ChangedType ==
  ASSUME NEW old \in Nat \X Nat, NEW new \in Int \X Int
  PROVE  Changed(old, new) \in Nat \X Nat
  BY DEF Changed

\* A change of the percentage fee that succeeds yields a closed market
\* (market.go, ChangePercentageFee).
LEMMA PercentageFeeFact ==
  ASSUME NEW m \in MarketRecord, NEW fee \in Int \X Int,
         ChangePercentageFee(m, fee).ok
  PROVE  ClosedMarket(ChangePercentageFee(m, fee).market)
  <1>1. ~m.tradable /\ ChangePercentageFee(m, fee).market
          = [m EXCEPT !.percentageFee = Changed(m.percentageFee, fee)]
    BY Zenon DEF ChangePercentageFee, Returns
  <1>2. Changed(m.percentageFee, fee) \in Nat \X Nat
    BY Zenon, ChangedType DEF MarketRecord
  <1> QED BY Zenon, <1>1, <1>2 DEF ClosedMarket, MarketRecord

\* So does a change of the fixed fee (market.go, ChangeFixedFee).
LEMMA FixedFeeFact ==
  ASSUME NEW m \in MarketRecord, NEW fee \in Int \X Int,
         ChangeFixedFee(m, fee).ok
  PROVE  ClosedMarket(ChangeFixedFee(m, fee).market)
  <1>1. ~m.tradable /\ ChangeFixedFee(m, fee).market
          = [m EXCEPT !.fixedFee = Changed(m.fixedFee, fee)]
    BY Zenon DEF ChangeFixedFee, Returns
  <1>2. Changed(m.fixedFee, fee) \in Nat \X Nat
    BY Zenon, ChangedType DEF MarketRecord
  <1> QED BY Zenon, <1>1, <1>2 DEF ClosedMarket, MarketRecord

\* So does a change of the precisions (market.go, ChangeAssetPrecision).
LEMMA PrecisionFact ==
  ASSUME NEW m \in MarketRecord, NEW precision \in Int \X Int,
         ChangeAssetPrecision(m, precision).ok
  PROVE  ClosedMarket(ChangeAssetPrecision(m, precision).market)
  <1>1. ~m.tradable /\ ChangeAssetPrecision(m, precision).market
          = [m EXCEPT !.precision = Changed(m.precision, precision)]
    BY Zenon DEF ChangeAssetPrecision, Returns
  <1>2. Changed(m.precision, precision) \in Nat \X Nat
    BY Zenon, ChangedType DEF MarketRecord
  <1> QED BY Zenon, <1>1, <1>2 DEF ClosedMarket, MarketRecord

\* So does a change of the strategy (market.go, MakeStrategyBalanced and
\* MakeStrategyPluggable).
LEMMA StrategyFact ==
  ASSUME NEW m \in MarketRecord
  PROVE  /\ MakeStrategyBalanced(m).ok => ClosedMarket(MakeStrategyBalanced(m).market)
         /\ MakeStrategyPluggable(m).ok => ClosedMarket(MakeStrategyPluggable(m).market)
  <1>1. ASSUME MakeStrategyBalanced(m).ok
        PROVE  ClosedMarket(MakeStrategyBalanced(m).market)
    <2>1. ~m.tradable /\ MakeStrategyBalanced(m).market
            = [m EXCEPT !.strategyType = StrategyTypeBalanced]
      BY Zenon, <1>1 DEF MakeStrategyBalanced, Returns
    <2> QED BY Zenon, <2>1 DEF ClosedMarket, MarketRecord
  <1>2. ASSUME MakeStrategyPluggable(m).ok
        PROVE  ClosedMarket(MakeStrategyPluggable(m).market)
    <2> DEFINE s == [m EXCEPT !.strategyType = StrategyTypePluggable]
    <2>1. ~m.tradable /\ MakeStrategyPluggable(m).market = [s EXCEPT !.price = 0]
      BY Zenon, <1>2 DEF MakeStrategyPluggable, Returns
    <2>2. s \in MarketRecord /\ s.tradable = m.tradable
      BY Zenon DEF MarketRecord
    <2> HIDE DEF s
    <2>3. /\ [s EXCEPT !.price = 0] \in MarketRecord
          /\ [s EXCEPT !.price = 0].tradable = s.tradable
      BY Zenon, <2>2 DEF MarketRecord
    <2> QED BY Zenon, <2>1, <2>2, <2>3 DEF ClosedMarket
  <1> QED BY Zenon, <1>1, <1>2

\* MakeTradable keeps the strategy, and a pluggable market it opens is priced
\* (market.go, MakeTradable).
LEMMA TradableFact ==
  ASSUME NEW m \in MarketRecord, MakeTradable(m).ok
  PROVE  /\ MakeTradable(m).market \in MarketRecord
         /\ IsStrategyPluggable(MakeTradable(m).market) => m.price > 0
  <1>1. ~(IsStrategyPluggable(m) /\ m.price = 0)
    BY Zenon DEF MakeTradable, Returns
  <1>2. MakeTradable(m).market = [m EXCEPT !.tradable = TRUE]
    BY Zenon, <1>1 DEF MakeTradable, Returns
  <1>3. /\ [m EXCEPT !.tradable = TRUE] \in MarketRecord
        /\ [m EXCEPT !.tradable = TRUE].strategyType = m.strategyType
        /\ m.price \in Nat
    BY Zenon DEF MarketRecord
  <1>4. m.price > 0 \/ ~IsStrategyPluggable(m)
    BY <1>1, <1>3
  <1> QED BY Zenon, <1>2, <1>3, <1>4 DEF IsStrategyPluggable

\* MakeNotTradable closes (market.go, MakeNotTradable).
LEMMA NotTradableFact ==
  ASSUME NEW m \in MarketRecord
  PROVE  ClosedMarket(MakeNotTradable(m))
  BY Zenon DEF MakeNotTradable, ClosedMarket, MarketRecord

\* A price may be put into a market or taken out of it without touching the
\* rest (market_repository_impl.go, getMarket and updateMarket).
LEMMA PriceFact ==
  ASSUME NEW m \in MarketRecord, NEW p \in Nat
  PROVE  /\ [m EXCEPT !.price = p] \in MarketRecord
         /\ [m EXCEPT !.price = p].price = p
         /\ [m EXCEPT !.price = p].tradable = m.tradable
         /\ [m EXCEPT !.price = p].strategyType = m.strategyType
  BY Zenon DEF MarketRecord

\* A market NewMarket accepts is closed and has no price (market.go,
\* NewMarket).
LEMMA NewMarketFact ==
  ASSUME NEW pair \in Pairs, NEW args \in NewMarkets,
         NEW new, new = NewMarket(pair, unsigned(args.percentageFee),
                                  unsigned(args.fixedFee), args.precision,
                                  args.strategy)
  PROVE  ClosedMarket(new.market) /\ new.market.price = 0
  <1>1. /\ args.percentageFee \in Int \X Int /\ args.fixedFee \in Int \X Int
        /\ args.precision \in Nat \X Nat /\ args.strategy \in 0..2
    BY MarketAssumption
  <1>2. \A fee \in Int \X Int : unsigned(fee) \in Nat \X Nat
    BY ModulusAssumption DEF unsigned, uint64
  <1>3. StrategyOrDefault(args.strategy) \in {StrategyTypePluggable, StrategyTypeBalanced}
    BY <1>1 DEF StrategyOrDefault, StrategyTypeUndefined,
                StrategyTypePluggable, StrategyTypeBalanced
  <1> QED BY Zenon, <1>1, <1>2, <1>3 DEF NewMarket, Returns, ClosedMarket, MarketRecord

-----------------------------------------------------------------------------
(***************************************************************************)
(* The shape of a step.                                                    *)
(***************************************************************************)
\* What a lookup finds is stored and priced (market_repository_impl.go,
\* findMarkets).
LEMMA FoundFact ==
  ASSUME IInv, NEW n \in Found
  PROVE  /\ n \in Names /\ Stored(n) /\ prices[n] # NoPrice
         /\ prices[n] \in Nat /\ markets[n] \in MarketRecord
         /\ getMarket(n) \in MarketRecord
  <1>1. n \in Names /\ Stored(n) /\ prices[n] # NoPrice
    BY Zenon DEF Found, GetMarketByAssets, WithAssets
  <1>2. prices[n] \in Nat /\ markets[n] \in MarketRecord
    BY Zenon, <1>1 DEF IInv, TypeOK, Stored
  <1> QED BY Zenon, <1>1, <1>2, PriceFact DEF getMarket

\* The step of one RPC leaves the others alone.
LEMMA OthersStay ==
  ASSUME TypeOK, NEW c \in Calls, NEW k \in CallRecord,
         calls' = [calls EXCEPT ![c] = k]
  PROVE  /\ calls' \in [Calls -> CallRecord]
         /\ calls'[c] = k
         /\ \A d \in Calls : d # c => calls'[d] = calls[d]
  BY Zenon DEF TypeOK

\* Steps that only move an RPC on.
LEMMA MoveStep ==
  ASSUME IInv, NEW c \in Calls, NEW k, CallOK(k),
         Creating(k) => Creating(calls[c]) /\ k.name = calls[c].name,
         calls' = [calls EXCEPT ![c] = k],
         UNCHANGED <<markets, prices, accounts, dropped>>,
         faults' \in 0..MaxFaults
  PROVE  IInv'
  <1>1. k \in CallRecord
    BY Zenon DEF CallOK
  <1>2. /\ calls' \in [Calls -> CallRecord]
        /\ calls'[c] = k
        /\ \A d \in Calls : d # c => calls'[d] = calls[d]
    BY Zenon, <1>1, OthersStay DEF IInv
  <1>3. TypeOK'
    BY Zenon, <1>2 DEF IInv, TypeOK
  <1>4. CallsOK'
    <2>1. \A d \in Calls : CallOK(calls'[d])
      BY Zenon, <1>2 DEF IInv, CallsOK
    <2> QED BY Zenon, <2>1 DEF CallsOK, CallOK
  <1>5. CreatorsOK'
    <2>1. \A d \in Calls : Creating(calls'[d])
            => Creating(calls[d]) /\ calls'[d].name = calls[d].name
      BY Zenon, <1>2
    <2> QED BY <2>1 DEF IInv, CreatorsOK, Creating
  <1>6. OpenMarketsPriced'
    BY Zenon DEF IInv, OpenMarketsPriced, Stored
  <1> QED BY Zenon, <1>3, <1>4, <1>5, <1>6 DEF IInv

\* An RPC that returns.
LEMMA IdleOK == CallOK(Call("idle", NoName, NoMarket))
                  /\ ~Creating(Call("idle", NoName, NoMarket))
  BY Zenon DEF CallOK, Call, CallRecord, Creating

-----------------------------------------------------------------------------
(***************************************************************************)
(* The steps of the RPCs.                                                  *)
(***************************************************************************)
\* A finished RPC with nothing written (market_account.go: every return of an
\* error).
LEMMA FinishStep ==
  ASSUME IInv, NEW c \in Calls, Finish(c),
         UNCHANGED <<markets, prices, accounts, dropped>>,
         faults' \in 0..MaxFaults
  PROVE  IInv'
  BY Zenon, IdleOK, MoveStep DEF Finish, Goto

\* The lookups that begin an RPC (market_account.go).
LEMMA BeginSteps ==
  ASSUME IInv, NEW c \in Calls,
         \/ OpenMarketBegins(c) \/ CloseMarketBegins(c)
         \/ UpdateMarketPriceBegins(c) \/ DropMarketBegins(c)
  PROVE  IInv'
  <1>1. PICK pc \in {"open", "close", "setPrice", "deleteAccount"} : MarketRPC(c, pc)
    BY Zenon DEF OpenMarketBegins, CloseMarketBegins, UpdateMarketPriceBegins,
           DropMarketBegins
  <1>2. PICK n \in Found : Goto(c, pc, n, NoMarket)
    BY Zenon, <1>1 DEF MarketRPC
  <1>3. n \in Names /\ prices[n] # NoPrice
    BY Zenon, FoundFact
  <1>4. CallOK(Call(pc, n, NoMarket)) /\ ~Creating(Call(pc, n, NoMarket))
    BY Zenon, <1>3 DEF CallOK, Call, CallRecord, Creating
  <1>5. UNCHANGED <<markets, prices, accounts, dropped>> /\ faults' \in 0..MaxFaults
    BY Zenon, <1>1 DEF MarketRPC, IInv, TypeOK
  <1> QED BY Zenon, <1>2, <1>4, <1>5, MoveStep DEF Goto

\* The RPCs that change a setting hold a closed copy (market_account.go).
LEMMA SettingSteps ==
  ASSUME IInv, NEW c \in Calls,
         \/ UpdateMarketPercentageFee(c) \/ UpdateMarketFixedFee(c)
         \/ UpdateMarketAssetsPrecision(c) \/ UpdateMarketStrategy(c)
  PROVE  IInv'
  <1>1. ASSUME NEW n \in Found, NEW changed, UpdateMarketBegins(c, n, changed),
               changed.ok => ClosedMarket(changed.market)
        PROVE  IInv'
    <2>1. n \in Names /\ ClosedMarket(changed.market)
      BY Zenon, <1>1, FoundFact DEF UpdateMarketBegins
    <2> DEFINE k == Call("updateWrite", n, changed.market)
    <2>2. CallOK(k) /\ ~Creating(k)
      BY Zenon, <2>1 DEF CallOK, Call, CallRecord, Creating, ClosedMarket
    <2>3. /\ calls' = [calls EXCEPT ![c] = k]
          /\ UNCHANGED <<markets, prices, accounts, dropped>>
          /\ faults' \in 0..MaxFaults
      BY Zenon, <1>1 DEF UpdateMarketBegins, Goto, IInv, TypeOK
    <2> HIDE DEF k
    <2> QED BY Zenon, <2>2, <2>3, MoveStep
  <1>2. CASE UpdateMarketPercentageFee(c)
    <2>1. PICK n \in Found, fee \in PercentageFees :
            UpdateMarketBegins(c, n, ChangePercentageFee(getMarket(n), fee))
      BY Zenon, <1>2 DEF UpdateMarketPercentageFee
    <2>2. getMarket(n) \in MarketRecord /\ fee \in Int \X Int
      BY Zenon, FoundFact, MarketAssumption
    <2> QED BY Zenon, <1>1, <2>1, <2>2, PercentageFeeFact
  <1>3. CASE UpdateMarketFixedFee(c)
    <2>1. PICK n \in Found, fee \in FixedFees :
            UpdateMarketBegins(c, n, ChangeFixedFee(getMarket(n), fee))
      BY Zenon, <1>3 DEF UpdateMarketFixedFee
    <2>2. getMarket(n) \in MarketRecord /\ fee \in Int \X Int
      BY Zenon, FoundFact, MarketAssumption
    <2> QED BY <1>1, <2>1, <2>2, FixedFeeFact
  <1>4. CASE UpdateMarketAssetsPrecision(c)
    <2>1. PICK n \in Found, precision \in Precisions :
            UpdateMarketBegins(c, n, ChangeAssetPrecision(getMarket(n), precision))
      BY Zenon, <1>4 DEF UpdateMarketAssetsPrecision
    <2>2. getMarket(n) \in MarketRecord /\ precision \in Int \X Int
      BY FoundFact, MarketAssumption
    <2> QED BY Zenon, <1>1, <2>1, <2>2, PrecisionFact
  <1>5. CASE UpdateMarketStrategy(c)
    <2>1. PICK n \in Found :
            \/ UpdateMarketBegins(c, n, MakeStrategyBalanced(getMarket(n)))
            \/ UpdateMarketBegins(c, n, MakeStrategyPluggable(getMarket(n)))
      BY Zenon, <1>5 DEF UpdateMarketStrategy
    <2>2. getMarket(n) \in MarketRecord
      BY Zenon, FoundFact
    <2> QED BY Zenon, <1>1, <2>1, <2>2, StrategyFact
  <1> QED BY Zenon, <1>2, <1>3, <1>4, <1>5

\* OpenMarket reads the record, then the price (market_repository_impl.go,
\* OpenMarket).
LEMMA OpenSteps ==
  ASSUME IInv, NEW c \in Calls, OpenReads(c) \/ OpenMarket(c)
  PROVE  IInv'
  <1> DEFINE n == calls[c].name
  <1>1. CallOK(calls[c]) /\ TypeOK
    BY Zenon DEF IInv, CallsOK
  <1>2. UNCHANGED <<markets, prices, accounts, dropped>> /\ faults' \in 0..MaxFaults
    BY Zenon, <1>1 DEF OpenReads, OpenMarket, TypeOK
  <1>3. CASE Finish(c)
    BY Zenon, <1>2, <1>3, FinishStep
  <1>4. CASE OpenReads(c) /\ ~Finish(c)
    <2>1. n \in Names /\ Stored(n) /\ Goto(c, "openPrice", n, markets[n])
      BY Zenon, <1>1, <1>4 DEF OpenReads, CallOK
    <2>2. markets[n] \in MarketRecord
      BY Zenon, <1>1, <2>1 DEF TypeOK, Stored
    <2> DEFINE k == Call("openPrice", n, markets[n])
    <2>3. CallOK(k) /\ ~Creating(k)
      BY Zenon, <2>1, <2>2 DEF CallOK, Call, CallRecord, Creating
    <2>4. calls' = [calls EXCEPT ![c] = k]
      BY Zenon, <2>1 DEF Goto
    <2> HIDE DEF k
    <2> QED BY Zenon, <1>2, <2>3, <2>4, MoveStep
  <1>5. CASE OpenMarket(c) /\ ~Finish(c)
    <2> DEFINE m == [calls[c].market EXCEPT !.price = prices[n]]
               k == Call("openWrite", n, MakeTradable(m).market)
    <2>1. /\ calls[c].pc = "openPrice" /\ prices[n] # NoPrice /\ MakeTradable(m).ok
          /\ Goto(c, "openWrite", n, MakeTradable(m).market)
      BY Zenon, <1>5 DEF OpenMarket
    <2>2. n \in Names /\ calls[c].market \in MarketRecord
      BY Zenon, <1>1, <2>1 DEF CallOK
    <2>3. prices[n] \in Nat
      BY Zenon, <1>1, <2>1, <2>2 DEF TypeOK
    <2>4. m \in MarketRecord /\ m.price = prices[n]
      BY Zenon, <2>2, <2>3, PriceFact
    <2>5. calls' = [calls EXCEPT ![c] = k]
      BY Zenon, <2>1 DEF Goto
    <2> HIDE DEF m
    <2>6. /\ MakeTradable(m).market \in MarketRecord
          /\ IsStrategyPluggable(MakeTradable(m).market) => prices[n] > 0
      BY Zenon, <2>1, <2>4, TradableFact
    <2>7. CallOK(k) /\ ~Creating(k)
      BY Zenon, <2>2, <2>6 DEF CallOK, Call, CallRecord, Creating
    <2> HIDE DEF k
    <2> QED BY Zenon, <1>2, <2>5, <2>7, MoveStep
  <1> QED BY Zenon, <1>3, <1>4, <1>5

\* CloseMarket holds a closed copy (market_repository_impl.go, CloseMarket).
LEMMA CloseStep ==
  ASSUME IInv, NEW c \in Calls, CloseMarket(c)
  PROVE  IInv'
  <1> DEFINE n == calls[c].name
             k == Call("closeWrite", n, MakeNotTradable(getMarket(n)))
  <1>1. CallOK(calls[c]) /\ TypeOK
    BY Zenon DEF IInv, CallsOK
  <1>2. UNCHANGED <<markets, prices, accounts, dropped>> /\ faults' \in 0..MaxFaults
    BY Zenon, <1>1 DEF CloseMarket, TypeOK
  <1>3. CASE Finish(c)
    BY Zenon, <1>2, <1>3, FinishStep
  <1>4. CASE ~Finish(c)
    <2>1. /\ n \in Names /\ Stored(n) /\ prices[n] # NoPrice
          /\ calls' = [calls EXCEPT ![c] = k]
      BY Zenon, <1>1, <1>4 DEF CloseMarket, CallOK, Goto
    <2>2. prices[n] \in Nat /\ markets[n] \in MarketRecord
      BY Zenon, <1>1, <2>1 DEF TypeOK, Stored
    <2>3. ClosedMarket(MakeNotTradable(getMarket(n)))
      BY Zenon, <2>2, PriceFact, NotTradableFact DEF getMarket
    <2>4. CallOK(k) /\ ~Creating(k)
      BY Zenon, <2>1, <2>3 DEF CallOK, Call, CallRecord, Creating, ClosedMarket
    <2> HIDE DEF k
    <2> QED BY Zenon, <1>2, <2>1, <2>4, MoveStep
  <1> QED BY Zenon, <1>3, <1>4

\* The beginning of NewMarket (market_account.go, NewMarket).
LEMMA NewMarketStep ==
  ASSUME IInv, NEW c \in Calls, NewMarketBegins(c)
  PROVE  IInv'
  <1>1. PICK pair \in Pairs, n \in Names, args \in NewMarkets :
          Goto(c, "createAccount", n,
               NewMarket(pair, unsigned(args.percentageFee),
                         unsigned(args.fixedFee), args.precision,
                         args.strategy).market)
    BY Zenon DEF NewMarketBegins
  <1>2. PICK m : m = NewMarket(pair, unsigned(args.percentageFee),
                               unsigned(args.fixedFee), args.precision,
                               args.strategy).market
    BY Zenon
  <1>3. ClosedMarket(m) /\ m.price = 0
    BY Zenon, <1>2, NewMarketFact
  <1>4. CallOK(Call("createAccount", n, m)) /\ ~Creating(Call("createAccount", n, m))
    BY Zenon, <1>3 DEF CallOK, Call, CallRecord, Creating, ClosedMarket
  <1>5. /\ calls' = [calls EXCEPT ![c] = Call("createAccount", n, m)]
        /\ UNCHANGED <<markets, prices, accounts, dropped>>
        /\ faults' \in 0..MaxFaults
    BY Zenon, <1>1, <1>2 DEF Goto, NewMarketBegins, IInv, TypeOK
  <1> QED BY Zenon, <1>4, <1>5, MoveStep

\* The wallet creates the account of a name nobody is creating a market for
\* (market_account.go, NewMarket).
LEMMA CreateStep ==
  ASSUME IInv, NEW c \in Calls, CreateAccount(c)
  PROVE  IInv'
  <1> DEFINE n == calls[c].name
             k == Call("insert", n, calls[c].market)
  <1>1. CallOK(calls[c]) /\ TypeOK /\ CallsOK /\ CreatorsOK /\ OpenMarketsPriced
    BY Zenon DEF IInv, CallsOK
  <1>2. UNCHANGED <<markets, prices, dropped>> /\ faults' \in 0..MaxFaults
    BY Zenon, <1>1 DEF CreateAccount, TypeOK
  <1>3. CASE Finish(c) /\ UNCHANGED accounts
    BY Zenon, <1>2, <1>3, FinishStep
  <1>4. CASE ~(Finish(c) /\ UNCHANGED accounts)
    <2>1. /\ n \notin accounts /\ accounts' = accounts \cup {n}
          /\ calls' = [calls EXCEPT ![c] = k]
          /\ calls[c].pc = "createAccount"
      BY Zenon, <1>4 DEF CreateAccount, Goto
    <2>2. n \in Names /\ ClosedMarket(calls[c].market) /\ calls[c].market.price = 0
      BY Zenon, <1>1, <2>1 DEF CallOK
    <2>3. CallOK(k) /\ k \in CallRecord /\ k.name = n
      BY Zenon, <2>2 DEF CallOK, Call, CallRecord, ClosedMarket
    <2> HIDE DEF k
    <2>4. /\ calls' \in [Calls -> CallRecord]
          /\ calls'[c] = k
          /\ \A d \in Calls : d # c => calls'[d] = calls[d]
      BY Zenon, <1>1, <2>1, <2>3, OthersStay
    <2>5. TypeOK'
      BY Zenon, <1>1, <1>2, <2>1, <2>2, <2>4 DEF TypeOK
    <2>6. CallsOK'
      <3>1. \A d \in Calls : CallOK(calls'[d])
        BY Zenon, <1>1, <2>3, <2>4 DEF CallsOK
      <3> QED BY Zenon, <1>2, <3>1 DEF CallsOK, CallOK
    <2>7. CreatorsOK'
      <3> SUFFICES ASSUME NEW v \in Names \ dropped
                   PROVE  /\ prices[v] # NoPrice => v \in accounts'
                          /\ \A d \in Calls : Creating(calls'[d]) /\ calls'[d].name = v
                               => /\ v \in accounts'
                                  /\ prices[v] = NoPrice
                                  /\ \A e \in Calls :
                                       Creating(calls'[e]) /\ calls'[e].name = v => e = d
        BY Zenon, <1>2 DEF CreatorsOK, Creating
      <3>1. CASE v # n
        BY <1>1, <2>1, <2>3, <2>4, <3>1 DEF CreatorsOK
      <3>2. CASE v = n
        <4>1. prices[n] = NoPrice
          BY Zenon, <1>1, <2>1, <3>2 DEF CreatorsOK
        <4>2. \A d \in Calls : d # c => ~(Creating(calls'[d]) /\ calls'[d].name = n)
          BY Zenon, <1>1, <2>1, <2>4, <3>2 DEF CreatorsOK
        <4> QED BY Zenon, <2>1, <3>2, <4>1, <4>2
      <3> QED BY Zenon, <3>1, <3>2
    <2>8. OpenMarketsPriced'
      BY Zenon, <1>1, <1>2 DEF OpenMarketsPriced, Stored
    <2> QED BY Zenon, <2>5, <2>6, <2>7, <2>8 DEF IInv
  <1> QED BY Zenon, <1>3, <1>4

\* A market is inserted closed (market_repository_impl.go, insertMarket).
LEMMA InsertStep ==
  ASSUME IInv, NEW c \in Calls, InsertMarket(c)
  PROVE  IInv'
  <1> DEFINE n == calls[c].name
             k == Call("insertPrice", n, calls[c].market)
             u == Call("undo", n, NoMarket)
  <1>1. CallOK(calls[c]) /\ TypeOK /\ CallsOK /\ CreatorsOK /\ OpenMarketsPriced
    BY Zenon DEF IInv, CallsOK
  <1>2. /\ UNCHANGED <<prices, accounts, dropped>> /\ faults' \in 0..MaxFaults
        /\ calls[c].pc = "insert" /\ Creating(calls[c])
    BY <1>1, MarketAssumption DEF InsertMarket, TypeOK, Creating
  <1>3. n \in Names /\ ClosedMarket(calls[c].market) /\ calls[c].market.price = 0
    BY Zenon, <1>1, <1>2 DEF CallOK
  <1>4. CallOK(k) /\ k.name = n /\ CallOK(u) /\ u.name = n
    BY Zenon, <1>3 DEF CallOK, Call, CallRecord, ClosedMarket
  <1>5. \/ UNCHANGED markets /\ calls' = [calls EXCEPT ![c] = u]
        \/ UNCHANGED markets /\ calls' = [calls EXCEPT ![c] = k]
        \/ /\ markets' = [markets EXCEPT ![n] = calls[c].market]
           /\ calls' = [calls EXCEPT ![c] = k]
    BY Zenon DEF InsertMarket, Goto
  <1> HIDE DEF k, u
  <1>6. CASE UNCHANGED markets
    BY Zenon, <1>2, <1>4, <1>5, <1>6, MoveStep
  <1>7. CASE /\ markets' = [markets EXCEPT ![n] = calls[c].market]
             /\ calls' = [calls EXCEPT ![c] = k]
    <2>1. k \in CallRecord
      BY Zenon, <1>4 DEF CallOK
    <2>2. /\ calls' \in [Calls -> CallRecord]
          /\ calls'[c] = k
          /\ \A d \in Calls : d # c => calls'[d] = calls[d]
      BY Zenon, <1>1, <1>7, <2>1, OthersStay
    <2>3. /\ markets' \in [Names -> MarketRecord \cup {NoMarket}]
          /\ \A v \in Names : markets'[v] = IF v = n THEN calls[c].market ELSE markets[v]
      BY Zenon, <1>1, <1>3, <1>7 DEF TypeOK, ClosedMarket
    <2>4. TypeOK'
      BY Zenon, <1>1, <1>2, <2>2, <2>3 DEF TypeOK
    <2>5. CallsOK'
      <3>1. \A d \in Calls : CallOK(calls'[d])
        BY Zenon, <1>1, <1>4, <2>2 DEF CallsOK
      <3> QED BY Zenon, <1>2, <3>1 DEF CallsOK, CallOK
    <2>6. CreatorsOK'
      <3>1. \A d \in Calls : Creating(calls'[d])
              => Creating(calls[d]) /\ calls'[d].name = calls[d].name
        BY Zenon, <1>2, <1>4, <2>2
      <3> QED BY <1>1, <1>2, <3>1 DEF CreatorsOK, Creating
    <2>7. OpenMarketsPriced'
      BY Zenon, <1>1, <1>2, <1>3, <2>3 DEF OpenMarketsPriced, Stored, ClosedMarket
    <2> QED BY Zenon, <2>4, <2>5, <2>6, <2>7 DEF IInv
  <1> QED BY Zenon, <1>5, <1>6, <1>7

\* An RPC that returns leaves the others as they were.
LEMMA Returned ==
  ASSUME TypeOK, NEW c \in Calls, Finish(c)
  PROVE  /\ calls' \in [Calls -> CallRecord]
         /\ calls'[c] = Call("idle", NoName, NoMarket)
         /\ ~Creating(calls'[c])
         /\ \A d \in Calls : d # c => calls'[d] = calls[d]
  <1>1. Call("idle", NoName, NoMarket) \in CallRecord
    BY Zenon DEF Call, CallRecord
  <1> QED BY Zenon, <1>1, IdleOK, OthersStay DEF Finish, Goto

\* The price of a new market is stored, as zero: there was none before, unless
\* the name has been freed (market_repository_impl.go, insertMarket).
LEMMA InsertPriceStep ==
  ASSUME IInv, NEW c \in Calls, InsertPrice(c)
  PROVE  IInv'
  <1> DEFINE n == calls[c].name
             u == Call("undo", n, NoMarket)
  <1>1. CallOK(calls[c]) /\ TypeOK /\ CallsOK /\ CreatorsOK /\ OpenMarketsPriced
    BY Zenon DEF IInv, CallsOK
  <1>2. /\ UNCHANGED <<markets, accounts, dropped>> /\ faults' \in 0..MaxFaults
        /\ calls[c].pc = "insertPrice" /\ Creating(calls[c])
    BY <1>1, MarketAssumption DEF InsertPrice, TypeOK, Creating
  <1>3. n \in Names /\ calls[c].market.price = 0
    BY Zenon, <1>1, <1>2 DEF CallOK
  <1>4. CASE UNCHANGED prices /\ Goto(c, "undo", n, NoMarket)
    <2>1. CallOK(u) /\ u.name = n
      BY Zenon, <1>3 DEF CallOK, Call, CallRecord
    <2>2. calls' = [calls EXCEPT ![c] = u]
      BY Zenon, <1>4 DEF Goto
    <2> HIDE DEF u
    <2> QED BY Zenon, <1>2, <1>4, <2>1, <2>2, MoveStep
  <1>5. CASE prices' = [prices EXCEPT ![n] = calls[c].market.price] /\ Finish(c)
    <2>1. /\ prices' \in [Names -> Nat \cup {NoPrice}]
          /\ \A v \in Names : prices'[v] = IF v = n THEN 0 ELSE prices[v]
      BY <1>1, <1>3, <1>5 DEF TypeOK
    <2>2. n \notin dropped => prices[n] = NoPrice /\ n \in accounts
      BY Zenon, <1>1, <1>2, <1>3 DEF CreatorsOK
    <2>3. /\ calls' \in [Calls -> CallRecord]
          /\ calls'[c] = Call("idle", NoName, NoMarket)
          /\ ~Creating(calls'[c])
          /\ \A d \in Calls : d # c => calls'[d] = calls[d]
      BY Zenon, <1>1, <1>5, Returned
    <2>4. TypeOK'
      BY Zenon, <1>1, <1>2, <2>1, <2>3 DEF TypeOK
    <2>5. CallsOK'
      <3>1. \A d \in Calls : CallOK(calls'[d])
        BY Zenon, <1>1, <2>3, IdleOK DEF CallsOK
      <3>2. /\ \A v \in Names : prices[v] # NoPrice => prices'[v] # NoPrice
            /\ \A v \in Names \ dropped' : prices[v] > 0 => prices'[v] > 0
        BY <1>2, <2>1, <2>2 DEF NoPrice
      <3> QED BY Zenon, <1>2, <3>1, <3>2 DEF CallsOK, CallOK
    <2>6. CreatorsOK'
      <3> SUFFICES ASSUME NEW v \in Names \ dropped
                   PROVE  /\ prices'[v] # NoPrice => v \in accounts
                          /\ \A d \in Calls : Creating(calls'[d]) /\ calls'[d].name = v
                               => /\ v \in accounts
                                  /\ prices'[v] = NoPrice
                                  /\ \A e \in Calls :
                                       Creating(calls'[e]) /\ calls'[e].name = v => e = d
        BY Zenon, <1>2 DEF CreatorsOK, Creating
      <3>1. CASE v # n
        BY <1>1, <2>1, <2>3, <3>1 DEF CreatorsOK
      <3>2. CASE v = n
        <4>1. \A d \in Calls : ~(Creating(calls'[d]) /\ calls'[d].name = n)
          BY Zenon, <1>1, <1>2, <1>3, <2>3, <3>2 DEF CreatorsOK
        <4> QED BY Zenon, <2>2, <3>2, <4>1
      <3> QED BY Zenon, <3>1, <3>2
    <2>7. OpenMarketsPriced'
      BY <1>1, <1>2, <2>1, <2>2 DEF OpenMarketsPriced, Stored, NoPrice
    <2> QED BY Zenon, <2>4, <2>5, <2>6, <2>7 DEF IInv
  <1> QED BY Zenon, <1>4, <1>5 DEF InsertPrice

\* The account of a market that could not be added is deleted: the name has no
\* price (market_account.go, NewMarket).
LEMMA UndoStep ==
  ASSUME IInv, NEW c \in Calls, UndoAccount(c)
  PROVE  IInv'
  <1> DEFINE n == calls[c].name
  <1>1. CallOK(calls[c]) /\ TypeOK /\ CallsOK /\ CreatorsOK /\ OpenMarketsPriced
    BY Zenon DEF IInv, CallsOK
  <1>2. /\ UNCHANGED <<markets, prices, dropped>> /\ faults' \in 0..MaxFaults
        /\ calls[c].pc = "undo" /\ Creating(calls[c]) /\ Finish(c)
        /\ accounts' \in {accounts, accounts \ {n}}
    BY Zenon, <1>1 DEF UndoAccount, TypeOK, Creating
  <1>3. n \in Names
    BY Zenon, <1>1, <1>2 DEF CallOK
  <1>4. /\ calls' \in [Calls -> CallRecord]
        /\ calls'[c] = Call("idle", NoName, NoMarket)
        /\ ~Creating(calls'[c])
        /\ \A d \in Calls : d # c => calls'[d] = calls[d]
    BY Zenon, <1>1, <1>2, Returned
  <1>5. TypeOK'
    BY Zenon, <1>1, <1>2, <1>4 DEF TypeOK
  <1>6. CallsOK'
    <2>1. \A d \in Calls : CallOK(calls'[d])
      BY Zenon, <1>1, <1>4, IdleOK DEF CallsOK
    <2> QED BY Zenon, <1>2, <2>1 DEF CallsOK, CallOK
  <1>7. CreatorsOK'
    <2> SUFFICES ASSUME NEW v \in Names \ dropped
                 PROVE  /\ prices[v] # NoPrice => v \in accounts'
                        /\ \A d \in Calls : Creating(calls'[d]) /\ calls'[d].name = v
                             => /\ v \in accounts'
                                /\ prices[v] = NoPrice
                                /\ \A e \in Calls :
                                     Creating(calls'[e]) /\ calls'[e].name = v => e = d
      BY Zenon, <1>2 DEF CreatorsOK, Creating
    <2>1. CASE v # n
      <3>1. v \in accounts' <=> v \in accounts
        BY Zenon, <1>2, <2>1
      <3>2. \A d \in Calls : Creating(calls'[d]) => calls'[d] = calls[d]
        BY Zenon, <1>4
      <3> QED BY Zenon, <1>1, <3>1, <3>2 DEF CreatorsOK
    <2>2. CASE v = n
      <3>1. prices[n] = NoPrice
        BY Zenon, <1>1, <1>2, <1>3, <2>2 DEF CreatorsOK
      <3>2. \A d \in Calls : ~(Creating(calls'[d]) /\ calls'[d].name = n)
        BY Zenon, <1>1, <1>2, <1>3, <1>4, <2>2 DEF CreatorsOK
      <3> QED BY Zenon, <2>2, <3>1, <3>2
    <2> QED BY Zenon, <2>1, <2>2
  <1>8. OpenMarketsPriced'
    BY Zenon, <1>1, <1>2 DEF OpenMarketsPriced, Stored
  <1> QED BY Zenon, <1>5, <1>6, <1>7, <1>8 DEF IInv

\* An RPC whose last step writes to the stores, and loses no price.
LEMMA WriteStep ==
  ASSUME IInv, NEW c \in Calls, Finish(c),
         UNCHANGED <<accounts, dropped, faults>>,
         markets' \in [Names -> MarketRecord \cup {NoMarket}],
         prices' \in [Names -> Nat \cup {NoPrice}],
         \A v \in Names : prices'[v] = NoPrice <=> prices[v] = NoPrice,
         \A v \in Names \ dropped : prices[v] > 0 => prices'[v] > 0,
         OpenMarketsPriced'
  PROVE  IInv'
  <1>1. TypeOK /\ CallsOK /\ CreatorsOK
    BY Zenon DEF IInv
  <1>2. /\ calls' \in [Calls -> CallRecord]
        /\ calls'[c] = Call("idle", NoName, NoMarket)
        /\ ~Creating(calls'[c])
        /\ \A d \in Calls : d # c => calls'[d] = calls[d]
    BY Zenon, <1>1, Returned
  <1>3. TypeOK'
    BY Zenon, <1>1, <1>2 DEF TypeOK
  <1>4. CallsOK'
    <2>1. \A d \in Calls : CallOK(calls'[d])
      BY Zenon, <1>1, <1>2, IdleOK DEF CallsOK
    <2> QED BY Zenon, <2>1 DEF CallsOK, CallOK
  <1>5. CreatorsOK'
    <2>1. \A d \in Calls : Creating(calls'[d])
            => Creating(calls[d]) /\ calls'[d].name = calls[d].name
      BY Zenon, <1>2
    <2> QED BY <1>1, <2>1 DEF CreatorsOK, Creating
  <1> QED BY Zenon, <1>3, <1>4, <1>5 DEF IInv

\* The write of a copy, however old: it is closed, or its price is still there
\* (market_repository_impl.go, updateMarket).
LEMMA UpdateStep ==
  ASSUME IInv, NEW c \in Calls, UpdateMarket(c)
  PROVE  IInv'
  <1> DEFINE n == calls[c].name
             m == [calls[c].market EXCEPT !.price = 0]
  <1>1. CallOK(calls[c]) /\ TypeOK /\ OpenMarketsPriced
    BY Zenon DEF IInv, CallsOK
  <1>2. /\ UNCHANGED <<prices, accounts, dropped, faults>> /\ Finish(c)
        /\ calls[c].pc \in {"openWrite", "closeWrite", "updateWrite"}
    BY Zenon DEF UpdateMarket
  <1>3. n \in Names /\ calls[c].market \in MarketRecord
    BY Zenon, <1>1, <1>2 DEF CallOK, ClosedMarket
  <1>4. /\ m \in MarketRecord /\ m.tradable = calls[c].market.tradable
        /\ m.strategyType = calls[c].market.strategyType
    BY Zenon, <1>3, PriceFact
  <1>5. n \notin dropped /\ m.tradable /\ IsStrategyPluggable(m) => prices[n] > 0
    BY Zenon, <1>1, <1>2, <1>4 DEF CallOK, ClosedMarket, IsStrategyPluggable
  <1>6. \/ UNCHANGED markets
        \/ markets' = [markets EXCEPT ![n] = m]
    BY Zenon DEF UpdateMarket
  <1> HIDE DEF m
  <1>7. /\ markets' \in [Names -> MarketRecord \cup {NoMarket}]
        /\ \A v \in Names : markets'[v] = markets[v] \/ (v = n /\ markets'[v] = m)
    BY Zenon, <1>1, <1>3, <1>4, <1>6 DEF TypeOK
  <1>8. OpenMarketsPriced'
    BY Zenon, <1>1, <1>2, <1>5, <1>7 DEF OpenMarketsPriced, Stored
  <1>9. prices' \in [Names -> Nat \cup {NoPrice}]
    BY Zenon, <1>1, <1>2 DEF TypeOK
  <1> QED BY Zenon, <1>2, <1>7, <1>8, <1>9, WriteStep

\* A new price replaces another (market_repository_impl.go,
\* updateMarketPrice).
LEMMA SetPriceStep ==
  ASSUME IInv, NEW c \in Calls, UpdateMarketPrice(c)
  PROVE  IInv'
  <1> DEFINE n == calls[c].name
  <1>1. CallOK(calls[c]) /\ TypeOK /\ OpenMarketsPriced
    BY Zenon DEF IInv, CallsOK
  <1>2. /\ UNCHANGED <<markets, accounts, dropped, faults>> /\ Finish(c)
        /\ n \in Names /\ prices[n] # NoPrice
    BY Zenon, <1>1 DEF UpdateMarketPrice, CallOK
  <1>3. PICK p \in Prices : prices' = [prices EXCEPT ![n] = p]
    BY Zenon DEF UpdateMarketPrice
  <1>4. p \in Nat /\ p > 0
    BY MarketAssumption
  <1>5. /\ prices' \in [Names -> Nat \cup {NoPrice}]
        /\ \A v \in Names : prices'[v] = IF v = n THEN p ELSE prices[v]
    BY Zenon, <1>1, <1>2, <1>3, <1>4 DEF TypeOK
  <1>6. /\ \A v \in Names : prices'[v] = NoPrice <=> prices[v] = NoPrice
        /\ \A v \in Names : prices[v] > 0 => prices'[v] > 0
    BY <1>2, <1>4, <1>5 DEF NoPrice
  <1>7. OpenMarketsPriced'
    BY Zenon, <1>1, <1>2, <1>6 DEF OpenMarketsPriced, Stored
  <1>8. markets' \in [Names -> MarketRecord \cup {NoMarket}]
    BY Zenon, <1>1, <1>2 DEF TypeOK
  <1> QED BY Zenon, <1>2, <1>5, <1>6, <1>7, <1>8, WriteStep

\* The record of a dropped market is deleted (market_repository_impl.go,
\* DeleteMarket).
LEMMA DeleteStep ==
  ASSUME IInv, NEW c \in Calls, DeleteMarket(c)
  PROVE  IInv'
  <1> DEFINE n == calls[c].name
  <1>1. CallOK(calls[c]) /\ TypeOK /\ OpenMarketsPriced
    BY Zenon DEF IInv, CallsOK
  <1>2. /\ UNCHANGED <<prices, accounts, dropped, faults>> /\ Finish(c)
        /\ n \in Names /\ markets' = [markets EXCEPT ![n] = NoMarket]
    BY Zenon, <1>1 DEF DeleteMarket, CallOK
  <1>3. /\ markets' \in [Names -> MarketRecord \cup {NoMarket}]
        /\ \A v \in Names : markets'[v] = IF v = n THEN NoMarket ELSE markets[v]
    BY Zenon, <1>1, <1>2 DEF TypeOK
  <1>4. OpenMarketsPriced'
    BY Zenon, <1>1, <1>2, <1>3 DEF OpenMarketsPriced, Stored
  <1>5. prices' \in [Names -> Nat \cup {NoPrice}]
    BY Zenon, <1>1, <1>2 DEF TypeOK
  <1> QED BY Zenon, <1>2, <1>3, <1>4, <1>5, WriteStep

\* DropMarket deletes the account: from here on the name is freed
\* (market_account.go, DropMarket).
LEMMA DropStep ==
  ASSUME IInv, NEW c \in Calls, DeleteAccount(c)
  PROVE  IInv'
  <1> DEFINE n == calls[c].name
             k == Call("deleteMarket", n, NoMarket)
  <1>1. CallOK(calls[c]) /\ TypeOK /\ CallsOK /\ CreatorsOK /\ OpenMarketsPriced
    BY Zenon DEF IInv, CallsOK
  <1>2. UNCHANGED <<markets, prices, faults>> /\ n \in Names
    BY Zenon, <1>1 DEF DeleteAccount, CallOK
  <1>3. CASE Finish(c) /\ UNCHANGED <<accounts, dropped>>
    BY Zenon, <1>1, <1>2, <1>3, FinishStep DEF TypeOK
  <1>4. CASE ~(Finish(c) /\ UNCHANGED <<accounts, dropped>>)
    <2>1. /\ accounts' = accounts \ {n} /\ dropped' = dropped \cup {n}
          /\ calls' = [calls EXCEPT ![c] = k]
      BY Zenon, <1>4 DEF DeleteAccount, Goto
    <2>2. CallOK(k) /\ k \in CallRecord /\ ~Creating(k)
      BY Zenon, <1>2 DEF CallOK, Call, CallRecord, Creating
    <2> HIDE DEF k
    <2>3. /\ calls' \in [Calls -> CallRecord]
          /\ calls'[c] = k
          /\ \A d \in Calls : d # c => calls'[d] = calls[d]
      BY Zenon, <1>1, <2>1, <2>2, OthersStay
    <2>4. TypeOK'
      BY Zenon, <1>1, <1>2, <2>1, <2>3 DEF TypeOK
    <2>5. CallsOK'
      <3>1. \A d \in Calls : CallOK(calls'[d])
        BY Zenon, <1>1, <2>2, <2>3 DEF CallsOK
      <3>2. ASSUME NEW d \in Calls PROVE CallOK(calls[d])'
        BY <1>2, <2>1, <3>1 DEF CallOK
      <3> QED BY Zenon, <3>2 DEF CallsOK
    <2>6. CreatorsOK'
      <3>1. \A d \in Calls : Creating(calls'[d])
              => Creating(calls[d]) /\ calls'[d].name = calls[d].name
        BY Zenon, <2>2, <2>3
      <3> SUFFICES ASSUME NEW v \in Names \ dropped'
                   PROVE  /\ prices[v] # NoPrice => v \in accounts'
                          /\ \A d \in Calls : Creating(calls'[d]) /\ calls'[d].name = v
                               => /\ v \in accounts'
                                  /\ prices[v] = NoPrice
                                  /\ \A e \in Calls :
                                       Creating(calls'[e]) /\ calls'[e].name = v => e = d
        BY Zenon, <1>2 DEF CreatorsOK, Creating
      <3>2. v \in Names \ dropped /\ v # n
        BY Zenon, <2>1
      <3>3. v \in accounts' <=> v \in accounts
        BY Zenon, <2>1, <3>2
      <3> QED BY <1>1, <3>1, <3>2, <3>3 DEF CreatorsOK
    <2>7. OpenMarketsPriced'
      BY Zenon, <1>1, <1>2, <2>1 DEF OpenMarketsPriced, Stored
    <2> QED BY Zenon, <2>4, <2>5, <2>6, <2>7 DEF IInv
  <1> QED BY Zenon, <1>3, <1>4

\* A failed last write ends the RPC; a crash ends all of them.
LEMMA FaultSteps ==
  ASSUME IInv, Crash \/ \E c \in Calls : WriteFails(c)
  PROVE  IInv'
  <1>1. TypeOK /\ CreatorsOK /\ OpenMarketsPriced
    BY Zenon DEF IInv
  <1>2. ASSUME NEW c \in Calls, WriteFails(c) PROVE IInv'
    <2>1. /\ Finish(c) /\ UNCHANGED <<markets, prices, accounts, dropped>>
          /\ faults' \in 0..MaxFaults
      BY <1>1, <1>2, MarketAssumption DEF WriteFails, TypeOK
    <2> QED BY Zenon, <2>1, FinishStep
  <1>3. CASE Crash
    <2>1. /\ UNCHANGED <<markets, prices, accounts, dropped>>
          /\ faults' \in 0..MaxFaults
      BY <1>1, <1>3, MarketAssumption DEF Crash, TypeOK
    <2>2. /\ calls' \in [Calls -> CallRecord]
          /\ \A c \in Calls : calls'[c] = Call("idle", NoName, NoMarket)
      <3>1. Call("idle", NoName, NoMarket) \in CallRecord
        BY Zenon DEF Call, CallRecord
      <3> QED BY Zenon, <1>3, <3>1 DEF Crash
    <2>3. TypeOK'
      BY Zenon, <1>1, <2>1, <2>2 DEF TypeOK
    <2>4. CallsOK'
      <3>1. \A c \in Calls : CallOK(calls'[c])
        BY Zenon, <2>2, IdleOK
      <3> QED BY Zenon, <2>1, <3>1 DEF CallsOK, CallOK
    <2>5. CreatorsOK'
      <3>1. \A c \in Calls : ~Creating(calls'[c])
        BY Zenon, <2>2, IdleOK
      <3> QED BY Zenon, <1>1, <2>1, <3>1 DEF CreatorsOK, Creating
    <2>6. OpenMarketsPriced'
      BY Zenon, <1>1, <2>1 DEF OpenMarketsPriced, Stored
    <2> QED BY Zenon, <2>3, <2>4, <2>5, <2>6 DEF IInv
  <1> QED BY Zenon, <1>2, <1>3

-----------------------------------------------------------------------------
(***************************************************************************)
(* The theorems.                                                           *)
(***************************************************************************)
\* The invariant holds at the start.
LEMMA InitIInv == Init => IInv
  <1> SUFFICES ASSUME Init PROVE IInv
    BY Zenon
  <1>1. TypeOK
    BY MarketAssumption DEF Init, TypeOK, Call, CallRecord
  <1>2. CallsOK
    BY Zenon, IdleOK DEF Init, CallsOK
  <1>3. CreatorsOK
    BY Zenon, IdleOK DEF Init, CreatorsOK
  <1>4. OpenMarketsPriced
    BY Zenon DEF Init, OpenMarketsPriced, Stored
  <1> QED BY Zenon, <1>1, <1>2, <1>3, <1>4 DEF IInv

\* Every step keeps the invariant.
LEMMA NextIInv == IInv /\ [Next]_vars => IInv'
  <1> SUFFICES ASSUME IInv, [Next]_vars PROVE IInv'
    BY ZenonT(30)
  <1>1. CASE UNCHANGED vars
    BY Zenon, <1>1 DEF vars, IInv, TypeOK, CallsOK, CallOK, CreatorsOK,
                OpenMarketsPriced, Stored
  <1>2. CASE Crash
    BY Zenon, <1>2, FaultSteps
  <1>3. ASSUME NEW c \in Calls, CallNext(c) PROVE IInv'
    <2>1. CASE NewMarketBegins(c) \/ CreateAccount(c) \/ InsertMarket(c)
               \/ InsertPrice(c) \/ UndoAccount(c)
      BY Zenon, <2>1, NewMarketStep, CreateStep, InsertStep, InsertPriceStep, UndoStep
    <2>2. CASE OpenMarketBegins(c) \/ CloseMarketBegins(c)
               \/ UpdateMarketPriceBegins(c) \/ DropMarketBegins(c)
      BY Zenon, <2>2, BeginSteps
    <2>3. CASE OpenReads(c) \/ OpenMarket(c) \/ CloseMarket(c)
      BY Zenon, <2>3, OpenSteps, CloseStep
    <2>4. CASE UpdateMarketPercentageFee(c) \/ UpdateMarketFixedFee(c)
               \/ UpdateMarketAssetsPrecision(c) \/ UpdateMarketStrategy(c)
      BY Zenon, <2>4, SettingSteps
    <2>5. CASE UpdateMarket(c) \/ UpdateMarketPrice(c) \/ DeleteAccount(c)
               \/ DeleteMarket(c)
      BY Zenon, <2>5, UpdateStep, SetPriceStep, DropStep, DeleteStep
    <2>6. CASE WriteFails(c)
      BY Zenon, <2>6, FaultSteps
    <2> QED BY Zenon, <1>3, <2>1, <2>2, <2>3, <2>4, <2>5, <2>6 DEF CallNext
  <1> QED BY Zenon, <1>1, <1>2, <1>3 DEF Next

\* The strengthened invariant holds throughout.
LEMMA MarketInvariance == Spec => []IInv
  BY InitIInv, NextIInv, PTL DEF Spec

\* The stores, the wallet and the RPCs keep their types (market.go,
\* market_repository_impl.go).
THEOREM MarketTypes == Spec => []TypeOK
  <1>1. IInv => TypeOK
    BY Zenon DEF IInv
  <1> QED BY <1>1, MarketInvariance, PTL

\* An open market with the pluggable strategy is priced, for any number of
\* markets, RPCs and faults (market.go, MakeTradable).
THEOREM OpenPriced == Spec => []OpenMarketsPriced
  <1>1. IInv => OpenMarketsPriced
    BY Zenon DEF IInv
  <1> QED BY <1>1, MarketInvariance, PTL

\* Only these steps write a price (market_repository_impl.go, insertPrice and
\* updatePrice).
LEMMA PriceSteps ==
  ASSUME [Next]_vars
  PROVE  \/ UNCHANGED prices
         \/ \E c \in Calls : InsertPrice(c) \/ UpdateMarketPrice(c)
  BY ZenonT(40) DEF Next, CallNext, Crash, NewMarketBegins, CreateAccount,
     InsertMarket, UndoAccount, OpenMarketBegins, CloseMarketBegins,
     UpdateMarketPriceBegins, DropMarketBegins, MarketRPC, OpenReads, OpenMarket,
     CloseMarket, UpdateMarketPercentageFee, UpdateMarketFixedFee,
     UpdateMarketAssetsPrecision, UpdateMarketStrategy, UpdateMarketBegins,
     UpdateMarket, DeleteAccount, DeleteMarket, WriteFails, vars

\* Only these steps write a record (market_repository_impl.go, insertMarket,
\* updateMarket and DeleteMarket).
LEMMA RecordSteps ==
  ASSUME [Next]_vars
  PROVE  \/ UNCHANGED markets
         \/ \E c \in Calls : InsertMarket(c) \/ UpdateMarket(c) \/ DeleteMarket(c)
  BY Zenon DEF Next, CallNext, Crash, NewMarketBegins, CreateAccount,
     InsertPrice, UndoAccount, OpenMarketBegins, CloseMarketBegins,
     UpdateMarketPriceBegins, DropMarketBegins, MarketRPC, OpenReads, OpenMarket,
     CloseMarket, UpdateMarketPercentageFee, UpdateMarketFixedFee,
     UpdateMarketAssetsPrecision, UpdateMarketStrategy, UpdateMarketBegins,
     UpdateMarketPrice, DeleteAccount, WriteFails, vars

\* A step of an RPC moves that RPC alone.
LEMMA CallMoves ==
  ASSUME NEW c \in Calls, CallNext(c)
  PROVE  \E k : calls' = [calls EXCEPT ![c] = k]
  <1>1. \E pc, n, m : Goto(c, pc, n, m)
    BY Zenon DEF CallNext, NewMarketBegins, CreateAccount, InsertMarket, InsertPrice,
       UndoAccount, OpenMarketBegins, CloseMarketBegins, UpdateMarketPriceBegins,
       DropMarketBegins, MarketRPC, OpenReads, OpenMarket, CloseMarket,
       UpdateMarketPercentageFee, UpdateMarketFixedFee,
       UpdateMarketAssetsPrecision, UpdateMarketStrategy, UpdateMarketBegins,
       UpdateMarket, UpdateMarketPrice, DeleteAccount, DeleteMarket, WriteFails,
       Finish
  <1> QED BY Zenon, <1>1 DEF Goto

\* A step never takes the price of a market back to zero
\* (market_repository_impl.go, insertMarket and updateMarket).
LEMMA PriceStays ==
  ASSUME IInv, [Next]_vars, NEW n \in Names \ dropped, prices[n] > 0
  PROVE  prices'[n] > 0
  <1>1. TypeOK /\ CallsOK /\ CreatorsOK
    BY Zenon DEF IInv
  <1>2. CASE UNCHANGED prices
    BY Zenon, <1>2
  <1>3. ASSUME NEW c \in Calls, InsertPrice(c), ~UNCHANGED prices
        PROVE  prices'[n] > 0
    <2>1. /\ Creating(calls[c])
          /\ prices' = [prices EXCEPT ![calls[c].name] = calls[c].market.price]
      BY Zenon, <1>3 DEF InsertPrice, Creating
    <2>2. n # calls[c].name
      BY <1>1, <2>1 DEF CreatorsOK, NoPrice
    <2>3. prices \in [Names -> Nat \cup {NoPrice}]
      BY Zenon, <1>1 DEF TypeOK
    <2>4. prices'[n] = prices[n]
      BY Zenon, <2>1, <2>2, <2>3
    <2> QED BY <2>4, SMTT(30)
  <1>4. ASSUME NEW c \in Calls, UpdateMarketPrice(c)
        PROVE  prices'[n] > 0
    <2>1. PICK p \in Prices : prices' = [prices EXCEPT ![calls[c].name] = p]
      BY Zenon, <1>4 DEF UpdateMarketPrice
    <2>2. p > 0
      BY MarketAssumption
    <2> QED BY Zenon, <1>1, <2>1, <2>2 DEF TypeOK
  <1> QED BY Zenon, <1>2, <1>3, <1>4, PriceSteps

\* Prices are never lost, for any number of markets, RPCs and faults
\* (market_repository_impl.go).
THEOREM PriceKept == Spec => PriceNeverLost
  <1>1. IInv /\ [Next]_vars
          => [\A n \in Names \ dropped : prices[n] > 0 => prices'[n] > 0]_vars
    BY Zenon, PriceStays
  <1> QED BY <1>1, MarketInvariance, PTL DEF Spec, PriceNeverLost

\* The step that opens a closed market is the write of an OpenMarket
\* (market_repository_impl.go, updateMarket).
LEMMA OpeningStep ==
  ASSUME IInv, [Next]_vars, NEW n \in Names,
         Stored(n), Stored(n)', ~markets[n].tradable, markets'[n].tradable
  PROVE  \E c \in Calls : calls[c].pc = "openWrite" /\ calls[c].name = n
  <1>1. TypeOK /\ CallsOK
    BY Zenon DEF IInv
  <1>2. ~UNCHANGED markets
    BY Zenon
  <1>3. ASSUME NEW c \in Calls, UpdateMarket(c)
        PROVE  calls[c].pc = "openWrite" /\ calls[c].name = n
    <2>1. /\ markets' = [markets EXCEPT ![calls[c].name]
                           = [calls[c].market EXCEPT !.price = 0]]
          /\ calls[c].pc \in {"openWrite", "closeWrite", "updateWrite"}
      BY Zenon, <1>2, <1>3 DEF UpdateMarket
    <2>2. calls[c].name = n /\ markets'[n] = [calls[c].market EXCEPT !.price = 0]
      BY Zenon, <1>1, <2>1 DEF TypeOK
    <2>3. CallOK(calls[c])
      BY Zenon, <1>1 DEF CallsOK
    <2>4. calls[c].market \in MarketRecord
      BY Zenon, <2>1, <2>3 DEF CallOK, ClosedMarket
    <2>5. calls[c].market.tradable
      BY <2>2, <2>4, PriceFact
    <2> QED BY Zenon, <2>1, <2>2, <2>3, <2>5 DEF CallOK, ClosedMarket
  <1>4. ASSUME NEW c \in Calls, InsertMarket(c) PROVE FALSE
    <2>1. /\ ~Stored(calls[c].name)
          /\ markets' = [markets EXCEPT ![calls[c].name] = calls[c].market]
      BY Zenon, <1>2, <1>4 DEF InsertMarket
    <2>2. n # calls[c].name
      BY Zenon, <2>1
    <2> QED BY Zenon, <1>1, <2>1, <2>2 DEF TypeOK
  <1>5. ASSUME NEW c \in Calls, DeleteMarket(c) PROVE FALSE
    <2>1. markets' = [markets EXCEPT ![calls[c].name] = NoMarket]
      BY Zenon, <1>5 DEF DeleteMarket
    <2>2. n # calls[c].name
      BY Zenon, <1>1, <2>1 DEF TypeOK, Stored
    <2> QED BY Zenon, <1>1, <2>1, <2>2 DEF TypeOK
  <1> QED BY Zenon, <1>2, <1>3, <1>4, <1>5, RecordSteps

\* A closed market is opened by OpenMarket alone, for any number of markets,
\* RPCs and faults (market_account.go).
THEOREM OpenedByOpenMarket == Spec => OnlyOpenMarketOpens
  <1>1. IInv /\ [Next]_vars
          => [\A n \in Names :
                Stored(n) /\ Stored(n)' /\ ~markets[n].tradable /\ markets'[n].tradable
                  => \E c \in Calls : calls[c].pc = "openWrite" /\ calls[c].name = n]_vars
    BY Zenon, OpeningStep
  <1> QED BY <1>1, MarketInvariance, PTL DEF Spec, OnlyOpenMarketOpens

-----------------------------------------------------------------------------
(***************************************************************************)
(* Markets can be listed.  A record without a price is one a NewMarket is  *)
(* about to store the price of, as long as nothing failed.                 *)
(***************************************************************************)
BeingInserted(n) ==
  \E c \in Calls : calls[c].pc = "insertPrice" /\ calls[c].name = n

ListedInv ==
  faults = 0 =>
    \A n \in Names : Stored(n) => prices[n] # NoPrice \/ BeingInserted(n)

\* A price that is there stays (market_repository_impl.go: nothing deletes one).
LEMMA PricesStay ==
  ASSUME IInv, [Next]_vars, NEW n \in Names, prices[n] # NoPrice
  PROVE  prices'[n] # NoPrice
  <1>1. TypeOK /\ CallsOK
    BY Zenon DEF IInv
  <1>2. CASE UNCHANGED prices
    BY Zenon, <1>2
  <1>3. ASSUME NEW c \in Calls, InsertPrice(c), ~UNCHANGED prices
        PROVE  prices'[n] # NoPrice
    <2>1. /\ calls[c].pc = "insertPrice"
          /\ prices' = [prices EXCEPT ![calls[c].name] = calls[c].market.price]
      BY Zenon, <1>3 DEF InsertPrice
    <2>2. calls[c].market.price = 0
      BY Zenon, <1>1, <2>1 DEF CallsOK, CallOK
    <2> QED BY <1>1, <2>1, <2>2 DEF TypeOK, NoPrice
  <1>4. ASSUME NEW c \in Calls, UpdateMarketPrice(c)
        PROVE  prices'[n] # NoPrice
    <2>1. PICK p \in Prices : prices' = [prices EXCEPT ![calls[c].name] = p]
      BY Zenon, <1>4 DEF UpdateMarketPrice
    <2>2. p # NoPrice
      BY MarketAssumption DEF NoPrice
    <2> QED BY Zenon, <1>1, <2>1, <2>2 DEF TypeOK
  <1> QED BY Zenon, <1>2, <1>3, <1>4, PriceSteps

\* A record appears only by the first write of insertMarket, which the write of
\* the price follows (market_repository_impl.go, insertMarket).
LEMMA RecordAppears ==
  ASSUME IInv, [Next]_vars, NEW n \in Names, ~Stored(n), Stored(n)'
  PROVE  BeingInserted(n)'
  <1>1. TypeOK /\ CallsOK
    BY Zenon DEF IInv
  <1>2. ~UNCHANGED markets
    BY Zenon DEF Stored
  <1>3. ASSUME NEW c \in Calls, UpdateMarket(c) PROVE FALSE
    <2>1. /\ Stored(calls[c].name)
          /\ markets' = [markets EXCEPT ![calls[c].name]
                           = [calls[c].market EXCEPT !.price = 0]]
      BY Zenon, <1>2, <1>3 DEF UpdateMarket
    <2> QED BY Zenon, <1>1, <2>1 DEF TypeOK, Stored
  <1>4. ASSUME NEW c \in Calls, InsertMarket(c) PROVE BeingInserted(n)'
    <2>1. /\ markets' = [markets EXCEPT ![calls[c].name] = calls[c].market]
          /\ calls' = [calls EXCEPT
               ![c] = Call("insertPrice", calls[c].name, calls[c].market)]
      BY Zenon, <1>2, <1>4 DEF InsertMarket, Goto
    <2>2. n = calls[c].name
      BY Zenon, <1>1, <2>1 DEF TypeOK, Stored
    <2>3. calls'[c].pc = "insertPrice" /\ calls'[c].name = n
      BY Zenon, <1>1, <2>1, <2>2 DEF TypeOK, Call
    <2> QED BY Zenon, <2>3 DEF BeingInserted
  <1>5. ASSUME NEW c \in Calls, DeleteMarket(c) PROVE FALSE
    <2>1. markets' = [markets EXCEPT ![calls[c].name] = NoMarket]
      BY Zenon, <1>5 DEF DeleteMarket
    <2> QED BY Zenon, <1>1, <2>1 DEF TypeOK, Stored
  <1> QED BY Zenon, <1>2, <1>3, <1>4, <1>5, RecordSteps

\* A NewMarket that has stored a record is there until it stores the price,
\* unless something fails (market_repository_impl.go, insertMarket).
LEMMA InsertionEnds ==
  ASSUME IInv, [Next]_vars, NEW n \in Names, BeingInserted(n), faults' = 0
  PROVE  prices'[n] # NoPrice \/ BeingInserted(n)'
  <1>1. TypeOK /\ CallsOK /\ faults \in Nat
    BY DEF IInv, TypeOK
  <1>2. PICK c \in Calls : calls[c].pc = "insertPrice" /\ calls[c].name = n
    BY Zenon DEF BeingInserted
  <1>3. CASE calls'[c] = calls[c]
    BY Zenon, <1>2, <1>3 DEF BeingInserted
  <1>4. ~Crash
    BY <1>1 DEF Crash
  <1>5. ASSUME NEW d \in Calls, CallNext(d), d # c
        PROVE  calls'[c] = calls[c]
    <2>1. \E k : calls' = [calls EXCEPT ![d] = k]
      BY Zenon, <1>5, CallMoves
    <2> QED BY Zenon, <1>1, <1>5, <2>1 DEF TypeOK
  <1>6. ASSUME CallNext(c)
        PROVE  prices'[n] # NoPrice
    <2>1. InsertPrice(c)
      BY Zenon, <1>2, <1>6 DEF CallNext, NewMarketBegins, CreateAccount, InsertMarket,
        UndoAccount, OpenMarketBegins, CloseMarketBegins, UpdateMarketPriceBegins,
        DropMarketBegins, MarketRPC, Idle, OpenReads, OpenMarket, CloseMarket,
        UpdateMarketPercentageFee, UpdateMarketFixedFee,
        UpdateMarketAssetsPrecision, UpdateMarketStrategy, UpdateMarketBegins,
        UpdateMarket, UpdateMarketPrice, DeleteAccount, DeleteMarket, WriteFails
    <2>2. prices' = [prices EXCEPT ![n] = calls[c].market.price]
      BY <1>1, <1>2, <2>1 DEF InsertPrice
    <2>3. calls[c].market.price = 0
      BY Zenon, <1>1, <1>2 DEF CallsOK, CallOK
    <2> QED BY <1>1, <2>2, <2>3 DEF TypeOK, NoPrice
  <1>7. CASE UNCHANGED vars
    BY Zenon, <1>3, <1>7 DEF vars
  <1> QED BY Zenon, <1>3, <1>4, <1>5, <1>6, <1>7 DEF Next

\* Faults are not forgotten.
LEMMA FaultsCounted ==
  ASSUME IInv, [Next]_vars, faults' = 0
  PROVE  faults = 0
  <1>1. faults \in Nat
    BY DEF IInv, TypeOK
  <1>2. ASSUME NEW c \in Calls, CallNext(c)
        PROVE  faults' = faults \/ faults' = faults + 1
    <2>1. CASE \/ NewMarketBegins(c) \/ OpenMarketBegins(c) \/ CloseMarketBegins(c)
               \/ UpdateMarketPriceBegins(c) \/ DropMarketBegins(c)
               \/ UpdateMarketPercentageFee(c) \/ UpdateMarketFixedFee(c)
               \/ UpdateMarketAssetsPrecision(c) \/ UpdateMarketStrategy(c)
      BY <2>1, Zenon DEF NewMarketBegins, OpenMarketBegins, CloseMarketBegins,
         UpdateMarketPriceBegins, DropMarketBegins, MarketRPC,
         UpdateMarketPercentageFee, UpdateMarketFixedFee,
         UpdateMarketAssetsPrecision, UpdateMarketStrategy, UpdateMarketBegins
    <2>2. CASE CreateAccount(c) \/ InsertMarket(c) \/ InsertPrice(c) \/ UndoAccount(c)
      BY <2>2, Zenon DEF CreateAccount, InsertMarket, InsertPrice, UndoAccount
    <2>3. CASE OpenReads(c) \/ OpenMarket(c) \/ CloseMarket(c) \/ UpdateMarket(c)
      BY <2>3, Zenon DEF OpenReads, OpenMarket, CloseMarket, UpdateMarket
    <2>4. CASE \/ UpdateMarketPrice(c) \/ DeleteAccount(c) \/ DeleteMarket(c)
               \/ WriteFails(c)
      BY <2>4, Zenon DEF UpdateMarketPrice, DeleteAccount, DeleteMarket, WriteFails
    <2> QED BY <1>2, <2>1, <2>2, <2>3, <2>4, Zenon DEF CallNext
  <1>3. faults' = faults \/ faults' = faults + 1
    BY <1>2, Zenon DEF Next, Crash, vars
  <1> QED BY <1>1, <1>3

\* A market can be listed with its price once no NewMarket is between its two
\* writes, for any number of markets and overlapping RPCs
\* (market_repository_impl.go, insertMarket and findMarkets).
THEOREM MarketsListed == Spec => []MarketsCanBeListed
  <1>1. Init => ListedInv
    BY Zenon DEF Init, ListedInv, Stored
  <1>2. IInv /\ ListedInv /\ [Next]_vars => ListedInv'
    <2> SUFFICES ASSUME IInv, ListedInv, [Next]_vars, faults' = 0,
                        NEW n \in Names, Stored(n)'
                 PROVE  prices'[n] # NoPrice \/ BeingInserted(n)'
      BY Zenon DEF ListedInv
    <2>1. CASE ~Stored(n)
      BY Zenon, <2>1, RecordAppears
    <2>2. CASE Stored(n)
      <3>1. prices[n] # NoPrice \/ BeingInserted(n)
        BY Zenon, <2>2, FaultsCounted DEF ListedInv
      <3> QED BY Zenon, <3>1, PricesStay, InsertionEnds
    <2> QED BY Zenon, <2>1, <2>2
  <1>3. ListedInv => MarketsCanBeListed
    BY Zenon DEF ListedInv, MarketsCanBeListed, BeingInserted
  <1> QED BY <1>1, <1>2, <1>3, MarketInvariance, PTL DEF Spec

-----------------------------------------------------------------------------
(***************************************************************************)
(* The previews of a market.                                               *)
(***************************************************************************)
\* Multiplication by a natural number is monotonic.
LEMMA Monotonic ==
  \A a, b \in Int, c \in Nat : a <= b => a * c <= b * c
  OBVIOUS

\* Integer division.
LEMMA Quotient ==
  ASSUME NEW x \in Int, NEW y \in Nat, y > 0
  PROVE  x \div y \in Int /\ (x \div y) * y <= x /\ x < (x \div y) * y + y
  OBVIOUS

\* Rounding half up is off by at most a half (decimal.go, DivRound and Round).
LEMMA Rounded ==
  ASSUME NEW x \in Int, NEW y \in Nat, y > 0
  PROVE  /\ RoundedQuotient(x, y) \in Int
         /\ 2 * (RoundedQuotient(x, y) * y) <= 2 * x + y
         /\ 2 * x - y < 2 * (RoundedQuotient(x, y) * y)
  <1>1. PICK z \in Nat : z = 2 * y /\ z > 0
    OBVIOUS
  <1>2. PICK w \in Int : w = 2 * x + y
    OBVIOUS
  <1>3. w \div z \in Int /\ (w \div z) * z <= w /\ w < (w \div z) * z + z
    BY Zenon, <1>1, Quotient
  <1>4. RoundedQuotient(x, y) = w \div z
    BY Zenon, <1>1, <1>2 DEF RoundedQuotient
  <1>5. (w \div z) * z = 2 * ((w \div z) * y)
    BY <1>1, <1>3
  <1> QED BY <1>1, <1>2, <1>3, <1>4, <1>5

\* How far the amount of a preview may be from the exact quotient of num and den:
\* half a unit of a decimal, and half a unit times the reserve.
Near(amount, num, den, reserve) ==
  /\ 2 * One * (amount * den - num) <= (reserve + One) * den
  /\ 2 * One * (num - amount * den) <= (reserve + One) * den

\* What the market gives for an amount (balanced_reserves.go, OutGivenIn).
LEMMA OutGivenIn ==
  ASSUME NEW bI \in Nat, NEW bO \in Nat, NEW a \in Nat, bI > 0, bO > 0,
         BalancedOutGivenIn(bI, bO, a).result = "ok"
  PROVE  LET amount == BalancedOutGivenIn(bI, bO, a).amount
         IN  amount \in Nat /\ amount < bO /\ Near(amount, bO * a, bI + a, bO)
  <1>1. PICK q \in Int : q = Div(bI, bI + a) /\ 2 * (q * (bI + a)) <= 2 * (bI * One) + (bI + a)
                         /\ 2 * (bI * One) - (bI + a) < 2 * (q * (bI + a))
    <2>1. PICK x \in Int : x = bI * One
      BY OneAssumption
    <2>2. PICK y \in Nat : y = bI + a /\ y > 0
      BY OneAssumption
    <2>3. /\ RoundedQuotient(x, y) \in Int
          /\ 2 * (RoundedQuotient(x, y) * y) <= 2 * x + y
          /\ 2 * x - y < 2 * (RoundedQuotient(x, y) * y)
      BY Zenon, <2>2, Rounded
    <2> QED BY Zenon, <2>1, <2>2, <2>3 DEF Div
  <1>2. PICK m \in Int : m = MulRound(bO, One - q) /\ 2 * (m * One) <= 2 * (bO * (One - q)) + One
                         /\ 2 * (bO * (One - q)) - One < 2 * (m * One)
    <2>1. PICK x \in Int : x = bO * (One - q)
      BY OneAssumption
    <2>2. PICK y \in Nat : y = One /\ y > 0
      BY OneAssumption
    <2>3. /\ RoundedQuotient(x, y) \in Int
          /\ 2 * (RoundedQuotient(x, y) * y) <= 2 * x + y
          /\ 2 * x - y < 2 * (RoundedQuotient(x, y) * y)
      BY Zenon, <2>2, Rounded
    <2> QED BY Zenon, <2>1, <2>2, <2>3 DEF MulRound
  <1>3. m > 0 /\ m < bO /\ BalancedOutGivenIn(bI, bO, a).amount = m
    BY <1>1, <1>2 DEF BalancedOutGivenIn, Failed, Ok
  <1>4. PICK d \in Nat : d = bI + a
    OBVIOUS
  <1>5. (2 * (m * One)) * d <= (2 * (bO * (One - q)) + One) * d
    BY <1>2, <1>4, Monotonic, OneAssumption
  <1>6. (2 * (bO * (One - q)) - One) * d <= (2 * (m * One)) * d
    BY <1>2, <1>4, Monotonic, OneAssumption
  <1>7. (2 * (bI * One) - d) * bO <= (2 * (q * d)) * bO
    BY <1>1, <1>4, Monotonic, OneAssumption
  <1>8. (2 * (q * d)) * bO <= (2 * (bI * One) + d) * bO
    BY <1>1, <1>4, Monotonic, OneAssumption
  <1>9. 2 * One * (m * d - bO * a) <= (bO + One) * d
    BY <1>4, <1>5, <1>7, OneAssumption
  <1>10. 2 * One * (bO * a - m * d) <= (bO + One) * d
    BY <1>4, <1>6, <1>8, OneAssumption
  <1> QED BY <1>3, <1>4, <1>9, <1>10 DEF Near

\* What the market wants for an amount (balanced_reserves.go, InGivenOut).
LEMMA InGivenOut ==
  ASSUME NEW bI \in Nat, NEW bO \in Nat, NEW a \in Nat, bI > 0, bO > 0,
         BalancedInGivenOut(bI, bO, a).result = "ok"
  PROVE  LET amount == BalancedInGivenOut(bI, bO, a).amount
         IN  amount \in Nat /\ a < bO /\ Near(amount, bI * a, bO - a, bI)
  <1>1. a < bO
    BY DEF BalancedInGivenOut, Failed
  <1>2. PICK d \in Nat : d = bO - a /\ d > 0
    BY <1>1
  <1>3. PICK q \in Int : q = Div(bO, d) /\ 2 * (q * d) <= 2 * (bO * One) + d
                         /\ 2 * (bO * One) - d < 2 * (q * d)
    <2>1. PICK x \in Int : x = bO * One
      BY OneAssumption
    <2>2. PICK y \in Nat : y = d /\ y > 0
      BY Zenon, <1>2
    <2>3. /\ RoundedQuotient(x, y) \in Int
          /\ 2 * (RoundedQuotient(x, y) * y) <= 2 * x + y
          /\ 2 * x - y < 2 * (RoundedQuotient(x, y) * y)
      BY Zenon, <2>2, Rounded
    <2> QED BY Zenon, <2>1, <2>2, <2>3 DEF Div
  <1>4. PICK m \in Int : m = MulRound(bI, q - One) /\ 2 * (m * One) <= 2 * (bI * (q - One)) + One
                         /\ 2 * (bI * (q - One)) - One < 2 * (m * One)
    <2>1. PICK x \in Int : x = bI * (q - One)
      BY OneAssumption
    <2>2. PICK y \in Nat : y = One /\ y > 0
      BY OneAssumption
    <2>3. /\ RoundedQuotient(x, y) \in Int
          /\ 2 * (RoundedQuotient(x, y) * y) <= 2 * x + y
          /\ 2 * x - y < 2 * (RoundedQuotient(x, y) * y)
      BY Zenon, <2>2, Rounded
    <2> QED BY Zenon, <2>1, <2>2, <2>3 DEF MulRound
  <1>5. m > 0 /\ BalancedInGivenOut(bI, bO, a).amount = m
    BY <1>2, <1>3, <1>4 DEF BalancedInGivenOut, Failed, Ok
  <1>6. (2 * (m * One)) * d <= (2 * (bI * (q - One)) + One) * d
    BY <1>2, <1>4, Monotonic, OneAssumption
  <1>7. (2 * (bI * (q - One)) - One) * d <= (2 * (m * One)) * d
    BY <1>2, <1>4, Monotonic, OneAssumption
  <1>8. (2 * (bO * One) - d) * bI <= (2 * (q * d)) * bI
    BY <1>2, <1>3, Monotonic, OneAssumption
  <1>9. (2 * (q * d)) * bI <= (2 * (bO * One) + d) * bI
    BY <1>2, <1>3, Monotonic, OneAssumption
  <1>10. 2 * One * (m * d - bI * a) <= (bI + One) * d
    BY <1>2, <1>6, <1>9, OneAssumption
  <1>11. 2 * One * (bI * a - m * d) <= (bI + One) * d
    BY <1>2, <1>7, <1>8, OneAssumption
  <1> QED BY <1>1, <1>2, <1>5, <1>10, <1>11 DEF Near

\* The unit of an asset divides the decimals; an amount loses less than a unit
\* when it is cut to units (market.go, Preview).
LEMMA CutToUnits ==
  ASSUME NEW p \in PrecisionRange, NEW m \in Nat
  PROVE  /\ One \div p \in Nat /\ One \div p > 0
         /\ (m * p) \div One \in Nat
         /\ ((m * p) \div One) * (One \div p) <= m
         /\ m < ((m * p) \div One) * (One \div p) + (One \div p)
  <1>1. PICK u \in Int : u = One \div p /\ u * p = One /\ p \in Nat /\ p > 0
    BY OneAssumption DEF PrecisionRange
  <1>2. u \in Nat /\ u > 0
    BY <1>1, OneAssumption
  <1>3. PICK x \in Nat : x = m * p
    BY <1>1
  <1>4. PICK s \in Int : s = x \div One /\ s * One <= x /\ x < s * One + One
    BY <1>3, Quotient, OneAssumption
  <1>5. s \in Nat
    BY <1>3, <1>4, OneAssumption
  <1>6. (s * u) * p <= m * p /\ m * p < (s * u + u) * p
    <2>1. (s * u) * p = s * (u * p) /\ (s * u + u) * p = s * (u * p) + u * p
      BY <1>1
    <2>2. (s * u) * p = s * One /\ (s * u + u) * p = s * One + One
      BY Zenon, <1>1, <2>1
    <2> QED BY Zenon, <1>3, <1>4, <2>2
  <1>7. s * u <= m
    <2>1. CASE s * u >= m + 1
      <3>1. (m + 1) * p <= (s * u) * p
        BY <1>1, <1>2, <1>5, <2>1, Monotonic
      <3> QED BY <1>1, <1>6, <3>1
    <2> QED BY <1>2, <1>5, <2>1
  <1>8. m < s * u + u
    <2>1. CASE m >= s * u + u
      <3>1. (s * u + u) * p <= m * p
        BY <1>1, <1>2, <1>5, <2>1, Monotonic
      <3> QED BY <1>1, <1>2, <1>5, <1>6, <3>1
    <2> QED BY <1>2, <1>5, <2>1
  <1> QED BY Zenon, <1>1, <1>2, <1>3, <1>4, <1>5, <1>7, <1>8

\* Cutting an amount to units moves it by less than a unit.
LEMMA NearInUnits ==
  ASSUME NEW m \in Nat, NEW got \in Nat, NEW unit \in Nat, NEW num \in Nat, NEW den \in Nat,
         NEW reserve \in Nat, got <= m, m < got + unit, Near(m, num, den, reserve)
  PROVE  /\ 2 * One * (got * den - num) <= (reserve + One) * den
         /\ 2 * One * (num - got * den) <= (reserve + One + 2 * One * unit) * den
  <1> USE OneAssumption
  <1>1. got * den <= m * den /\ m * den <= (got + unit) * den
    BY Monotonic
  <1>2. PICK g \in Int : g = got * den
    OBVIOUS
  <1>3. PICK k \in Int : k = m * den
    OBVIOUS
  <1>4. PICK w \in Int : w = unit * den
    OBVIOUS
  <1>5. g <= k /\ k <= g + w
    BY <1>1, <1>2, <1>3, <1>4
  <1>6. One * g <= One * k /\ One * k <= One * (g + w)
    BY <1>5, Monotonic
  <1>7. /\ 2 * One * (k - num) <= (reserve + One) * den
        /\ 2 * One * (num - k) <= (reserve + One) * den
    BY Zenon, <1>3 DEF Near
  <1>8. 2 * One * (g - num) <= (reserve + One) * den
    BY <1>6, <1>7
  <1>9. 2 * One * (num - g) <= (reserve + One) * den + 2 * One * w
    BY <1>6, <1>7
  <1>10. (reserve + One) * den + 2 * One * w = (reserve + One + 2 * One * unit) * den
    BY <1>4
  <1> QED BY Zenon, <1>2, <1>8, <1>9, <1>10

\* What is known of a call: it is one of the calls, and its answer is the preview.
PreviewInv ==
  /\ call \in PreviewCalls
  /\ answer = Pending \/ answer = Preview(call.market, call.balances, call.amount, call.asset,
                                         call.feeAsset, call.isBuy)

\* The types of the arguments of a call.
LEMMA CallFacts ==
  ASSUME call \in PreviewCalls
  PROVE  /\ call.op = "preview" /\ call.market.balanced \in BOOLEAN
         /\ call.market.precision[1] \in PrecisionRange
         /\ call.market.precision[2] \in PrecisionRange
         /\ call.balances[1] \in Nat /\ call.balances[2] \in Nat /\ call.amount \in Nat
         /\ call.asset \in {Base, Quote} /\ call.feeAsset \in {Base, Quote}
         /\ call.isBuy \in BOOLEAN
  BY Zenon, PreviewAssumption DEF MarketConfig

\* The answer of a preview of a balanced market: an error, a panic because the
\* price is rounded to zero, or the amount of the formula in units of its asset
\* (market.go, Preview).
LEMMA BalancedAnswers ==
  ASSUME call \in PreviewCalls, call.market.balanced,
         answer = Preview(call.market, call.balances, call.amount, call.asset,
                          call.feeAsset, call.isBuy),
         NEW d, d = Decimals(call.market, call.balances)
  PROVE  LET formula == Formula(call.market, d,
                          call.amount * (One \div Side(call.market.precision, call.asset)),
                          call.asset, call.isBuy)
         IN  /\ answer.result = "panic" <=> priceFromBalances(d) = Panicked
             /\ answer.result = "ok" =>
                  /\ priceFromBalances(d).result = "ok" /\ formula.result = "ok"
                  /\ answer.amount = (formula.amount
                       * Side(call.market.precision, OtherAsset(call.asset))) \div One
                  /\ answer.asset = OtherAsset(call.asset)
  <1> DEFINE formula == Formula(call.market, d,
                          call.amount * (One \div Side(call.market.precision, call.asset)),
                          call.asset, call.isBuy)
             sats == (formula.amount * Side(call.market.precision, OtherAsset(call.asset))) \div One
             fee == previewFees(call.market,
                      IF call.feeAsset = call.asset THEN call.amount ELSE sats,
                      call.feeAsset, call.isBuy)
  <1>1. answer = IF priceFromBalances(d).result # "ok" THEN priceFromBalances(d)
                 ELSE IF formula.result # "ok" THEN formula
                 ELSE IF sats = 0 THEN Failed
                 ELSE IF fee.result # "ok" THEN fee
                 ELSE [result |-> "ok", amount |-> sats, asset |-> OtherAsset(call.asset),
                       fee |-> fee.amount]
    BY Zenon DEF Preview
  <1>2. priceFromBalances(d) \in {Failed, Panicked} \/ priceFromBalances(d).result = "ok"
    BY Zenon DEF priceFromBalances, Ok
  <1>3. fee.result # "ok" => fee = Failed
    <2>1. ASSUME NEW m, NEW a, NEW s, NEW b
          PROVE  previewFees(m, a, s, b) = Failed \/ \E x : previewFees(m, a, s, b) = Ok(x)
      <3> DEFINE charged == (a * Side(m.percentageFee, s)) \div 10000 + Side(m.fixedFee, s)
      <3>1. previewFees(m, a, s, b)
              = IF (b = (s = Base)) /\ charged >= a THEN Failed ELSE Ok(charged)
        BY DEF previewFees
      <3> HIDE DEF charged
      <3> QED BY Zenon, <3>1
    <2>2. \A x : Ok(x).result = "ok"
      BY Zenon DEF Ok
    <2>3. fee = Failed \/ \E x : fee = Ok(x)
      BY <2>1
    <2> HIDE DEF fee
    <2> QED BY Zenon, <2>2, <2>3
  <1>4. formula.result # "ok" => formula = Failed
    <2>1. \A x, y, z : /\ BalancedInGivenOut(x, y, z).result # "ok" =>
                            BalancedInGivenOut(x, y, z) = Failed
                       /\ BalancedOutGivenIn(x, y, z).result # "ok" =>
                            BalancedOutGivenIn(x, y, z) = Failed
      BY DEF BalancedInGivenOut, BalancedOutGivenIn, Ok
    <2> QED BY <2>1 DEF Formula
  <1> HIDE DEF formula, sats, fee
  <1>5. Failed.result = "error" /\ Panicked.result = "panic"
    BY Zenon DEF Failed, Panicked
  <1>6. answer.result = "panic" <=> priceFromBalances(d) = Panicked
    BY <1>1, <1>2, <1>3, <1>4, <1>5
  <1>7. answer.result = "ok" =>
          /\ priceFromBalances(d).result = "ok" /\ formula.result = "ok"
          /\ answer.amount = sats /\ answer.asset = OtherAsset(call.asset)
    BY <1>1, <1>2, <1>3, <1>4, <1>5
  <1> QED BY Zenon, <1>6, <1>7 DEF formula, sats

\* A preview panics exactly if the price is rounded to zero (market.go,
\* priceFromBalances).
LEMMA PriceRoundedToZero ==
  ASSUME NEW d, d[1] \in Nat, d[2] \in Nat
  PROVE  /\ priceFromBalances(d) = Panicked <=> d[1] > 0 /\ d[2] > 0 /\ 2 * d[2] * One < d[1]
         /\ priceFromBalances(d).result = "ok" => d[1] > 0 /\ d[2] > 0
  <1>1. CASE d[1] = 0 \/ d[2] = 0
    BY <1>1 DEF priceFromBalances, Failed, Panicked
  <1>2. CASE d[1] > 0 /\ d[2] > 0
    <2>1. PICK x \in Nat : x = d[1] /\ x > 0
      BY Zenon, <1>2
    <2>2. PICK y \in Int : y = d[2] * One /\ y >= 0
      BY <1>2, OneAssumption
    <2>3. PICK q \in Int : /\ q = Div(d[2], d[1])
                           /\ 2 * (q * x) <= 2 * y + x
                           /\ 2 * y - x < 2 * (q * x)
      <3>1. Div(d[2], d[1]) = RoundedQuotient(y, x)
        BY Zenon, <2>1, <2>2 DEF Div
      <3>2. /\ RoundedQuotient(y, x) \in Int
            /\ 2 * (RoundedQuotient(y, x) * x) <= 2 * y + x
            /\ 2 * y - x < 2 * (RoundedQuotient(y, x) * x)
        BY Zenon, <2>1, Rounded
      <3> QED BY Zenon, <3>1, <3>2
    <2>4. 2 * y < x => q = 0
      <3>1. SUFFICES ASSUME 2 * y < x, q # 0 PROVE FALSE
        BY Zenon
      <3>2. CASE q >= 1
        <4>1. 1 * x <= q * x
          BY <2>1, <3>2, Monotonic
        <4> QED BY <2>1, <2>2, <2>3, <3>1, <4>1
      <3>3. CASE q <= -1
        <4>1. q * x <= (-1) * x
          BY <2>1, <3>3, Monotonic
        <4> QED BY <2>1, <2>2, <2>3, <4>1
      <3> QED BY <3>1, <3>2, <3>3
    <2>5. q = 0 => 2 * y < x
      BY <2>1, <2>2, <2>3
    <2>6. 2 * d[2] * One = 2 * y
      BY <2>2, OneAssumption
    <2>7. priceFromBalances(d) = IF q = 0 THEN Panicked ELSE Ok(q)
      BY <1>2, <2>3 DEF priceFromBalances
    <2>8. Ok(q).result = "ok" /\ Panicked.result = "panic"
      BY Zenon DEF Ok, Panicked
    <2> QED BY Zenon, <1>2, <2>1, <2>4, <2>5, <2>6, <2>7, <2>8
  <1> QED BY <1>1, <1>2

\* The preview of a balanced market.
LEMMA BalancedPreview ==
  ASSUME call \in PreviewCalls,
         answer = Preview(call.market, call.balances, call.amount, call.asset,
                          call.feeAsset, call.isBuy)
  PROVE  PreviewKeepsProduct
  <1> SUFFICES ASSUME call.market.balanced PROVE PreviewKeepsProduct
    BY Zenon DEF PreviewKeepsProduct
  <1>1. PICK d : d = Decimals(call.market, call.balances)
    BY Zenon
  <1>2. PICK pG \in PrecisionRange : pG = Side(call.market.precision, call.asset)
    BY Zenon, CallFacts DEF Side
  <1>3. PICK pO \in PrecisionRange : pO = Side(call.market.precision, OtherAsset(call.asset))
    BY Zenon, CallFacts DEF Side, OtherAsset
  <1>4. d[1] \in Nat /\ d[2] \in Nat
    <2>1. /\ One \div call.market.precision[1] \in Nat
          /\ One \div call.market.precision[2] \in Nat
      BY Zenon, CallFacts, CutToUnits
    <2> QED BY <1>1, <2>1, CallFacts DEF Decimals
  <1>5. PICK given \in Nat : given = call.amount * (One \div pG)
    BY CallFacts, CutToUnits
  <1>6. PICK unit \in Nat : unit = One \div pO
    BY Zenon, CutToUnits
  <1>7. PICK bI \in Nat : bI = d[IF call.isBuy THEN 2 ELSE 1]
    BY Zenon, <1>4
  <1>8. PICK bO \in Nat : bO = d[IF call.isBuy THEN 1 ELSE 2]
    BY Zenon, <1>4
  <1>9. PICK f : f = Formula(call.market, d, given, call.asset, call.isBuy)
    BY Zenon
  <1> DEFINE gives == call.isBuy = (call.asset = Base)
  <1>10. f = IF gives THEN BalancedInGivenOut(bI, bO, given) ELSE BalancedOutGivenIn(bI, bO, given)
    BY Zenon, <1>7, <1>8, <1>9 DEF Formula
  <1>11. /\ answer.result = "panic" <=> priceFromBalances(d) = Panicked
         /\ answer.result = "ok" =>
              /\ priceFromBalances(d).result = "ok" /\ f.result = "ok"
              /\ answer.amount = (f.amount * pO) \div One
    BY Zenon, <1>1, <1>2, <1>3, <1>5, <1>9, BalancedAnswers
  <1>12. answer.result = "panic" <=> d[1] > 0 /\ d[2] > 0 /\ 2 * d[2] * One < d[1]
    BY Zenon, <1>4, <1>11, PriceRoundedToZero
  <1>13. ASSUME answer.result = "ok"
         PROVE  /\ f.result = "ok" /\ answer.amount = (f.amount * pO) \div One
                /\ bI > 0 /\ bO > 0
    BY Zenon, <1>4, <1>7, <1>8, <1>11, <1>13, PriceRoundedToZero
  <1> HIDE DEF gives
  <1>14. ASSUME NEW m \in Nat, answer.amount = (m * pO) \div One,
                NEW num \in Nat, NEW den \in Nat, NEW reserve \in Nat,
                Near(m, num, den, reserve)
         PROVE  LET got == answer.amount * unit
                IN  /\ got \in Nat /\ got <= m
                    /\ 2 * One * (got * den - num) <= (reserve + One) * den
                    /\ 2 * One * (num - got * den) <= (reserve + One + 2 * One * unit) * den
    <2>1. PICK got \in Nat : got = answer.amount * unit /\ got <= m /\ m < got + unit
      BY <1>6, <1>14, CutToUnits
    <2> QED BY Zenon, <1>14, <2>1, NearInUnits
  <1>15. ASSUME answer.result = "ok", gives
         PROVE  LET den == bO - given
                    num == bI * given
                    got == answer.amount * unit
                IN  /\ 2 * One * (got * den - num) <= (bI + One) * den
                    /\ 2 * One * (num - got * den) <= (bI + One + 2 * One * unit) * den
                    /\ given < bO
    <2>1. PICK m \in Nat : /\ m = f.amount /\ given < bO
                           /\ Near(m, bI * given, bO - given, bI)
      BY Zenon, <1>10, <1>13, <1>15, InGivenOut
    <2>2. PICK den \in Nat : den = bO - given
      BY <2>1
    <2>3. PICK num \in Nat : num = bI * given
      OBVIOUS
    <2> QED BY Zenon, <1>13, <1>14, <1>15, <2>1, <2>2, <2>3
  <1>16. ASSUME answer.result = "ok", ~gives
         PROVE  LET den == bI + given
                    num == bO * given
                    got == answer.amount * unit
                IN  /\ 2 * One * (got * den - num) <= (bO + One) * den
                    /\ 2 * One * (num - got * den) <= (bO + One + 2 * One * unit) * den
                    /\ got < bO
    <2>1. PICK m \in Nat : /\ m = f.amount /\ m < bO
                           /\ Near(m, bO * given, bI + given, bO)
      BY Zenon, <1>10, <1>13, <1>16, OutGivenIn
    <2>2. PICK den \in Nat : den = bI + given
      OBVIOUS
    <2>3. PICK num \in Nat : num = bO * given
      OBVIOUS
    <2>4. LET got == answer.amount * unit
          IN  /\ got \in Nat /\ got <= m
              /\ 2 * One * (got * den - num) <= (bO + One) * den
              /\ 2 * One * (num - got * den) <= (bO + One + 2 * One * unit) * den
      BY <1>13, <1>14, <1>16, <2>1, <2>2, <2>3
    <2> QED BY <2>1, <2>2, <2>3, <2>4
  <1> QED
    BY ZenonT(40), <1>1, <1>2, <1>3, <1>5, <1>6, <1>7, <1>8, <1>12, <1>15, <1>16
    DEF PreviewKeepsProduct, gives

\* A proposal made of a preview is previewed again, with the same answer
\* (trade/utils.go, isValidTradePrice).
LEMMA AcceptedPreview ==
  ASSUME call \in PreviewCalls,
         answer = Preview(call.market, call.balances, call.amount, call.asset,
                          call.feeAsset, call.isBuy),
         answer.result = "ok" => answer.amount \in Nat /\ answer.asset = OtherAsset(call.asset)
  PROVE  PreviewIsAccepted
  <1> DEFINE sent == call.asset = AssetP(call.isBuy)
             request == [isBuy |-> call.isBuy, feeAsset |-> call.feeAsset,
                         amountP |-> IF sent THEN call.amount ELSE answer.amount,
                         amountR |-> IF sent THEN answer.amount ELSE call.amount]
  <1> SUFFICES ASSUME answer.result = "ok", NEW s \in Slippages
               PROVE  isValidTradePrice(call.market, call.balances, request, s)
    BY Zenon DEF PreviewIsAccepted
  <1>1. /\ call.asset \in {Base, Quote} /\ call.isBuy \in BOOLEAN /\ s \in Nat
        /\ answer.amount \in Nat /\ answer.asset = OtherAsset(call.asset)
    BY Zenon, CallFacts, PreviewAssumption
  <1>2. \/ sent /\ call.asset = AssetP(call.isBuy) /\ answer.asset = AssetR(call.isBuy)
        \/ /\ ~sent /\ call.asset = AssetR(call.isBuy) /\ call.asset # AssetP(call.isBuy)
           /\ answer.asset # AssetR(call.isBuy)
    BY Zenon, <1>1 DEF AssetP, AssetR, OtherAsset, Base, Quote
  <1>3. PreviewOf(call.market, call.balances, request, call.asset) = answer
    BY Zenon, <1>2 DEF PreviewOf
  <1>4. isPriceInRange(request, answer, s)
    <2>1. (IF answer.asset = AssetR(request.isBuy) THEN request.amountR ELSE request.amountP)
            = answer.amount
      BY Zenon, <1>2
    <2>2. PICK a \in Nat : a = answer.amount
      BY Zenon, <1>1
    <2>3. 0 <= a * s /\ a * One >= a * (One - s) /\ a * One <= a * (One + s)
      BY <1>1, OneAssumption
    <2> HIDE DEF request
    <2> QED BY Zenon, <2>1, <2>2, <2>3 DEF isPriceInRange
  <1>5. InRangeOf(call.market, call.balances, request, s, call.asset)
    <2> HIDE DEF request
    <2> QED BY Zenon, <1>3, <1>4 DEF InRangeOf
  <1>6. request.isBuy = call.isBuy
    OBVIOUS
  <1> HIDE DEF request
  <1> QED BY Zenon, <1>2, <1>5, <1>6 DEF isValidTradePrice

\* A product or a quotient that is rounded is an integer.
LEMMA RoundedTyped ==
  /\ \A x, y \in Int : MulRound(x, y) \in Int
  /\ \A x \in Int, y \in Nat : y > 0 => Div(x, y) \in Int
  <1>1. ASSUME NEW x \in Int, NEW y \in Int PROVE MulRound(x, y) \in Int
    <2>1. x * y \in Int
      OBVIOUS
    <2> QED BY <2>1, Rounded, OneAssumption DEF MulRound
  <1>2. ASSUME NEW x \in Int, NEW y \in Nat, y > 0 PROVE Div(x, y) \in Int
    <2>1. x * One \in Int
      BY OneAssumption
    <2> QED BY Zenon, <1>2, <2>1, Rounded DEF Div
  <1> QED BY Zenon, <1>1, <1>2

\* The formulas give amounts (pkg/marketmaking/formula).
LEMMA AmountsTyped ==
  ASSUME NEW bI \in Nat, NEW bO \in Nat, NEW price \in Nat, NEW a \in Nat
  PROVE  \A f \in {BalancedInGivenOut(bI, bO, a), BalancedOutGivenIn(bI, bO, a),
                    PluggableInGivenOut(bO, price, a), PluggableOutGivenIn(bO, price, a)} :
           f.result = "ok" => f.amount \in Nat
  <1>1. \A x \in Int : (x > 0 => x \in Nat) /\ Ok(x).amount = x
    BY DEF Ok
  <1>2. Failed.result # "ok"
    BY Zenon DEF Failed
  <1>3. LET f == BalancedInGivenOut(bI, bO, a) IN f.result = "ok" => f.amount \in Nat
    <2>1. CASE a = 0 \/ a >= bO
      BY Zenon, <1>2, <2>1 DEF BalancedInGivenOut
    <2>2. CASE ~(a = 0 \/ a >= bO)
      <3>1. bO - a \in Nat /\ bO - a > 0
        BY <2>2
      <3>2. Div(bO, bO - a) \in Int
        BY <3>1, RoundedTyped
      <3>3. MulRound(bI, Div(bO, bO - a) - One) \in Int
        BY <3>2, RoundedTyped, OneAssumption
      <3> QED BY <1>1, <1>2, <2>2, <3>3 DEF BalancedInGivenOut
    <2> QED BY Zenon, <2>1, <2>2
  <1>4. LET f == BalancedOutGivenIn(bI, bO, a) IN f.result = "ok" => f.amount \in Nat
    <2>1. CASE a <= 0
      BY Zenon, <1>2, <2>1 DEF BalancedOutGivenIn
    <2>2. CASE ~(a <= 0)
      <3>1. bI + a \in Nat /\ bI + a > 0
        BY <2>2
      <3>2. Div(bI, bI + a) \in Int
        BY <3>1, RoundedTyped
      <3>3. MulRound(bO, One - Div(bI, bI + a)) \in Int
        BY <3>2, RoundedTyped, OneAssumption
      <3> QED BY <1>1, <1>2, <2>2, <3>3 DEF BalancedOutGivenIn
    <2> QED BY Zenon, <2>1, <2>2
  <1>5. MulRound(a, price) \in Int
    BY RoundedTyped
  <1>6. LET f == PluggableInGivenOut(bO, price, a) IN f.result = "ok" => f.amount \in Nat
    BY <1>1, <1>2, <1>5 DEF PluggableInGivenOut
  <1>7. LET f == PluggableOutGivenIn(bO, price, a) IN f.result = "ok" => f.amount \in Nat
    BY <1>1, <1>2, <1>5 DEF PluggableOutGivenIn
  <1> QED BY Zenon, <1>3, <1>4, <1>6, <1>7

\* The amount of a preview, of a market of either strategy, is a number of units
\* of the other asset (market.go, Preview).
LEMMA AnswerTyped ==
  ASSUME call \in PreviewCalls,
         answer = Preview(call.market, call.balances, call.amount, call.asset,
                          call.feeAsset, call.isBuy),
         answer.result = "ok"
  PROVE  answer.amount \in Nat /\ answer.asset = OtherAsset(call.asset)
  <1> USE CallFacts
  <1>1. PICK p \in PrecisionRange : p = Side(call.market.precision, OtherAsset(call.asset))
    BY Zenon DEF Side, OtherAsset
  <1>2. PICK d : d = Decimals(call.market, call.balances)
    OBVIOUS
  <1>3. PICK given : given = call.amount * (One \div Side(call.market.precision, call.asset))
    BY Zenon
  <1>4. PICK f : f = Formula(call.market, d, given, call.asset, call.isBuy)
    BY Zenon
  <1> DEFINE price == IF call.market.balanced THEN priceFromBalances(d)
                      ELSE Ok(call.market.quotePrice)
             sats == (f.amount * p) \div One
             fee == previewFees(call.market,
                      IF call.feeAsset = call.asset THEN call.amount ELSE sats,
                      call.feeAsset, call.isBuy)
  <1>5. answer = IF price.result # "ok" THEN price
                 ELSE IF f.result # "ok" THEN f
                 ELSE IF sats = 0 THEN Failed
                 ELSE IF fee.result # "ok" THEN fee
                 ELSE [result |-> "ok", amount |-> sats, asset |-> OtherAsset(call.asset),
                       fee |-> fee.amount]
    BY Zenon, <1>1, <1>2, <1>3, <1>4 DEF Preview
  <1> HIDE DEF price, sats, fee
  <1>6. f.result = "ok" /\ answer.amount = sats /\ answer.asset = OtherAsset(call.asset)
    BY <1>5 DEF Failed
  <1>7. f.amount \in Nat
    <2>1. /\ d[1] \in Nat /\ d[2] \in Nat /\ given \in Nat
          /\ call.market.quotePrice \in Nat /\ call.market.basePrice \in Nat
      <3>1. \A q \in PrecisionRange : One \div q \in Nat
        BY Zenon, CutToUnits
      <3>2. Side(call.market.precision, call.asset) \in PrecisionRange
        BY Zenon DEF Side
      <3>3. d[1] \in Nat /\ d[2] \in Nat
        BY <1>2, <3>1 DEF Decimals
      <3>4. call.market.quotePrice \in Nat /\ call.market.basePrice \in Nat
        BY Zenon, PreviewAssumption DEF MarketConfig
      <3> QED BY <1>3, <3>1, <3>2, <3>3, <3>4
    <2> QED BY Zenon, <1>4, <1>6, <2>1, AmountsTyped DEF Formula
  <1> QED BY Zenon, <1>6, <1>7, CutToUnits DEF sats

\* The previews of the calls are what they should be, and so are the answers.
LEMMA PreviewInvariance == PreviewSpec => []PreviewInv
  <1>1. PreviewInit => PreviewInv
    BY Zenon DEF PreviewInit, PreviewInv
  <1>2. PreviewInv /\ [AnswerPreview]_<<call, answer>> => PreviewInv'
    BY Zenon DEF PreviewInv, AnswerPreview, Answers
  <1> QED BY <1>1, <1>2, PTL DEF PreviewSpec

\* The reserves of a balanced market keep their product, for every market, all
\* reserves and all amounts (market.go, Preview).
THEOREM ProductIsKept == PreviewSpec => []PreviewKeepsProduct
  <1>1. PreviewInv => PreviewKeepsProduct
    BY Zenon, BalancedPreview DEF PreviewInv, PreviewKeepsProduct, Answered
  <1> QED BY <1>1, PreviewInvariance, PTL

\* A proposal made of a preview passes the check of its price, for every market
\* and every slippage (trade/utils.go, isValidTradePrice).
THEOREM PreviewsAreAccepted == PreviewSpec => []PreviewIsAccepted
  <1>1. PreviewInv => PreviewIsAccepted
    BY AcceptedPreview, AnswerTyped DEF PreviewInv, PreviewIsAccepted, Answered
  <1> QED BY <1>1, PreviewInvariance, PTL
=============================================================================
