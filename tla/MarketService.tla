---------------------------- MODULE MarketService ----------------------------
(***************************************************************************)
(* The market RPCs of the operator service                                 *)
(* (internal/core/application/operator/market_account.go) and the feeds    *)
(* that set prices, over the badger market repository and the accounts of  *)
(* the ocean wallet.                                                       *)
(*                                                                         *)
(* The repository keeps the record of a market and its price in two        *)
(* stores.  Every access to a store and every wallet call is one step, and *)
(* the RPCs interleave at these points.  An RPC that returns an error      *)
(* before it has changed anything is a stuttering step.  A lookup needs    *)
(* both the record and the price; where the price is only needed to be     *)
(* there, the two reads are one step, since a price that is there stays.   *)
(* The account labels NewMarket keeps in memory are left out: they serve   *)
(* only the classification of wallet transactions.                         *)
(***************************************************************************)
EXTENDS Market

CONSTANTS
  Names,           \* names of markets and of their wallet accounts
  Calls,           \* RPCs in progress
  Prices,          \* prices the operator or a feed may set
  NewMarkets,      \* arguments of NewMarket: fees, precision, strategy
  PercentageFees,  \* arguments of UpdateMarketPercentageFee
  FixedFees,       \* arguments of UpdateMarketFixedFee
  Precisions,      \* arguments of UpdateMarketAssetsPrecision
  NoMarket,        \* the absent market
  NoName,          \* the name an idle call is about
  MaxFaults        \* crashes and failed writes

ASSUME MarketAssumption ==
  /\ Prices \subseteq Nat \ {0}
  /\ NewMarkets \subseteq [percentageFee : Int \X Int, fixedFee : Int \X Int,
                           precision : (0..8) \X (0..8), strategy : 0..2]
  /\ PercentageFees \cup FixedFees \subseteq Int \X Int
  /\ Precisions \subseteq Nat \X Nat
  /\ NoMarket \notin MarketRecord
  /\ NoName \notin Names
  /\ MaxFaults \in Nat

VARIABLES
  markets,    \* the market store
  prices,     \* the price store
  accounts,   \* the wallet's accounts that belong to markets
  calls,      \* the RPCs in progress: step, market name and copy held
  dropped,    \* names whose account DropMarket has deleted (history)
  faults

vars == <<markets, prices, accounts, calls, dropped, faults>>

NoPrice == -1

Stored(n) == markets[n] # NoMarket

CallRecord ==
  [pc : {"idle", "createAccount", "insert", "insertPrice", "undo",
         "open", "openPrice", "openWrite", "close", "closeWrite",
         "updateWrite", "deleteAccount", "deleteMarket", "setPrice"},
   name : Names \cup {NoName},
   market : MarketRecord \cup {NoMarket}]

Call(pc, n, m) == [pc |-> pc, name |-> n, market |-> m]

Goto(c, pc, n, m) == calls' = [calls EXCEPT ![c] = Call(pc, n, m)]

Finish(c) == Goto(c, "idle", NoName, NoMarket)

TypeOK ==
  /\ markets \in [Names -> MarketRecord \cup {NoMarket}]
  /\ prices \in [Names -> Nat \cup {NoPrice}]
  /\ accounts \subseteq Names
  /\ calls \in [Calls -> CallRecord]
  /\ dropped \subseteq Names
  /\ faults \in 0..MaxFaults

Init ==
  /\ markets = [n \in Names |-> NoMarket]
  /\ prices = [n \in Names |-> NoPrice]
  /\ accounts = {}
  /\ calls = [c \in Calls |-> Call("idle", NoName, NoMarket)]
  /\ dropped = {}
  /\ faults = 0

-----------------------------------------------------------------------------
(***************************************************************************)
(* Lookups.  findMarkets fails when the price of any market it found is    *)
(* missing; of several markets with the same pair, the first one found is  *)
(* used, which may be any.                                                 *)
(***************************************************************************)
WithAssets(pair) == {n \in Names : Stored(n) /\ markets[n].pair = pair}

GetMarketByAssets(pair) ==
  IF \E n \in WithAssets(pair) : prices[n] = NoPrice THEN {}
  ELSE WithAssets(pair)

\* The markets an RPC may be about.
Found == UNION {GetMarketByAssets(pair) : pair \in Pairs}

\* What a lookup returns: the record with the price of the price store.
getMarket(n) == [markets[n] EXCEPT !.price = prices[n]]

Idle(c) == calls[c].pc = "idle"

-----------------------------------------------------------------------------
(***************************************************************************)
(* NewMarket.  Whether the pair is taken is looked up first, and an error  *)
(* of that lookup is ignored.                                              *)
(***************************************************************************)
\* parseMarketFee of the RPC's handler.
ValidMarketFee(fee) ==
  /\ \A i \in 1..2 : fee[i] >= -1
  /\ fee # <<-1, -1>>

unsigned(fee) == <<uint64(fee[1]), uint64(fee[2])>>

NewMarketBegins(c) ==
  /\ Idle(c)
  /\ \E pair \in Pairs, n \in Names, args \in NewMarkets :
       LET new == NewMarket(pair, unsigned(args.percentageFee),
                            unsigned(args.fixedFee), args.precision,
                            args.strategy)
       IN  /\ ValidMarketFee(args.percentageFee)
           /\ ValidMarketFee(args.fixedFee)
           /\ GetMarketByAssets(pair) = {}
           /\ new.ok
           /\ Goto(c, "createAccount", n, new.market)
  /\ UNCHANGED <<markets, prices, accounts, dropped, faults>>

\* A wallet that accepts a label that is in use.
CreateAccountTwice(c) ==
  /\ calls[c].pc = "createAccount"
  /\ accounts' = accounts \cup {calls[c].name}
  /\ Goto(c, "insert", calls[c].name, calls[c].market)
  /\ UNCHANGED <<markets, prices, dropped, faults>>

\* The wallet refuses a label that is in use, and may fail.
CreateAccount(c) ==
  /\ calls[c].pc = "createAccount"
  /\ \/ /\ calls[c].name \notin accounts
        /\ accounts' = accounts \cup {calls[c].name}
        /\ Goto(c, "insert", calls[c].name, calls[c].market)
     \/ /\ Finish(c)
        /\ UNCHANGED accounts
  /\ UNCHANGED <<markets, prices, dropped, faults>>

\* insertMarket stores the record, then the price.  It stops only when the
\* name is taken; any other error of the store is passed over.
InsertMarket(c) ==
  LET n == calls[c].name
  IN  /\ calls[c].pc = "insert"
      /\ \/ /\ Stored(n)
            /\ Goto(c, "undo", n, NoMarket)
            /\ UNCHANGED <<markets, faults>>
         \/ /\ ~Stored(n)
            /\ markets' = [markets EXCEPT ![n] = calls[c].market]
            /\ Goto(c, "insertPrice", n, calls[c].market)
            /\ UNCHANGED faults
         \/ /\ faults < MaxFaults
            /\ faults' = faults + 1
            /\ Goto(c, "insertPrice", n, calls[c].market)
            /\ UNCHANGED markets
      /\ UNCHANGED <<prices, accounts, dropped>>

\* InsertPrice that leaves the price of a pluggable market to its feed.
InsertPriceOfBalanced(c) ==
  /\ calls[c].pc = "insertPrice"
  /\ prices' = IF IsStrategyPluggable(calls[c].market) THEN prices
               ELSE [prices EXCEPT ![calls[c].name] = calls[c].market.price]
  /\ Finish(c)
  /\ UNCHANGED <<markets, accounts, dropped, faults>>

InsertPrice(c) ==
  LET n == calls[c].name
  IN  /\ calls[c].pc = "insertPrice"
      /\ \/ /\ prices' = [prices EXCEPT ![n] = calls[c].market.price]
            /\ Finish(c)
            /\ UNCHANGED faults
         \/ /\ faults < MaxFaults
            /\ faults' = faults + 1
            /\ Goto(c, "undo", n, NoMarket)
            /\ UNCHANGED prices
      /\ UNCHANGED <<markets, accounts, dropped>>

\* After a failed AddMarket a goroutine deletes the account, with the context
\* of the RPC that has already returned: the wallet may not get to see it.
UndoAccount(c) ==
  /\ calls[c].pc = "undo"
  /\ accounts' \in {accounts, accounts \ {calls[c].name}}
  /\ Finish(c)
  /\ UNCHANGED <<markets, prices, dropped, faults>>

-----------------------------------------------------------------------------
(***************************************************************************)
(* OpenMarket and CloseMarket: the RPC looks the name up, the repository   *)
(* reads the market again by name, changes the copy and writes it.         *)
(***************************************************************************)
MarketRPC(c, pc) ==
  /\ Idle(c)
  /\ \E n \in Found : Goto(c, pc, n, NoMarket)
  /\ UNCHANGED <<markets, prices, accounts, dropped, faults>>

OpenMarketBegins(c) == MarketRPC(c, "open")

CloseMarketBegins(c) == MarketRPC(c, "close")

\* getMarket reads the record first and the price in a later step.
OpenReads(c) ==
  LET n == calls[c].name
  IN  /\ calls[c].pc = "open"
      /\ IF Stored(n) THEN Goto(c, "openPrice", n, markets[n]) ELSE Finish(c)
      /\ UNCHANGED <<markets, prices, accounts, dropped, faults>>

OpenMarket(c) ==
  LET n == calls[c].name
      market == [calls[c].market EXCEPT !.price = prices[n]]
      opened == MakeTradable(market)
  IN  /\ calls[c].pc = "openPrice"
      /\ IF prices[n] = NoPrice \/ market.tradable \/ ~opened.ok
         THEN Finish(c)
         ELSE Goto(c, "openWrite", n, opened.market)
      /\ UNCHANGED <<markets, prices, accounts, dropped, faults>>

CloseMarket(c) ==
  LET n == calls[c].name
  IN  /\ calls[c].pc = "close"
      /\ IF Stored(n) /\ prices[n] # NoPrice /\ markets[n].tradable
         THEN Goto(c, "closeWrite", n, MakeNotTradable(getMarket(n)))
         ELSE Finish(c)
      /\ UNCHANGED <<markets, prices, accounts, dropped, faults>>

-----------------------------------------------------------------------------
(***************************************************************************)
(* The RPCs that change the settings of a market: one change to the copy   *)
(* the lookup returned, which the closure of UpdateMarket writes whatever  *)
(* the repository holds by then.                                           *)
(***************************************************************************)
UpdateMarketBegins(c, n, changed) ==
  /\ Idle(c)
  /\ changed.ok
  /\ Goto(c, "updateWrite", n, changed.market)
  /\ UNCHANGED <<markets, prices, accounts, dropped, faults>>

UpdateMarketPercentageFee(c) ==
  \E n \in Found, fee \in PercentageFees :
    /\ ValidMarketFee(fee)
    /\ UpdateMarketBegins(c, n, ChangePercentageFee(getMarket(n), fee))

UpdateMarketFixedFee(c) ==
  \E n \in Found, fee \in FixedFees :
    /\ ValidMarketFee(fee)
    /\ UpdateMarketBegins(c, n, ChangeFixedFee(getMarket(n), fee))

UpdateMarketAssetsPrecision(c) ==
  \E n \in Found, precision \in Precisions :
    UpdateMarketBegins(c, n, ChangeAssetPrecision(getMarket(n), precision))

UpdateMarketStrategy(c) ==
  \E n \in Found :
    \/ UpdateMarketBegins(c, n, MakeStrategyBalanced(getMarket(n)))
    \/ UpdateMarketBegins(c, n, MakeStrategyPluggable(getMarket(n)))

\* updateMarket zeroes the price of the copy and fails if the market is gone.
UpdateMarket(c) ==
  LET n == calls[c].name
  IN  /\ calls[c].pc \in {"openWrite", "closeWrite", "updateWrite"}
      /\ IF Stored(n)
         THEN markets' = [markets EXCEPT ![n] = [calls[c].market EXCEPT !.price = 0]]
         ELSE UNCHANGED markets
      /\ Finish(c)
      /\ UNCHANGED <<prices, accounts, dropped, faults>>

-----------------------------------------------------------------------------
(***************************************************************************)
(* UpdateMarketPrice, called by the operator or for each price of a feed.  *)
(***************************************************************************)
UpdateMarketPriceBegins(c) == MarketRPC(c, "setPrice")

UpdateMarketPrice(c) ==
  /\ calls[c].pc = "setPrice"
  /\ \E p \in Prices : prices' = [prices EXCEPT ![calls[c].name] = p]
  /\ Finish(c)
  /\ UNCHANGED <<markets, accounts, dropped, faults>>

(***************************************************************************)
(* DropMarket deletes the account, then the record.  The wallet refuses an *)
(* unknown account, and may fail.  The price stays in its store.           *)
(***************************************************************************)
DropMarketBegins(c) == MarketRPC(c, "deleteAccount")

DeleteAccount(c) ==
  LET n == calls[c].name
  IN  /\ calls[c].pc = "deleteAccount"
      /\ \/ /\ n \in accounts
            /\ accounts' = accounts \ {n}
            /\ dropped' = dropped \cup {n}
            /\ Goto(c, "deleteMarket", n, NoMarket)
         \/ /\ Finish(c)
            /\ UNCHANGED <<accounts, dropped>>
      /\ UNCHANGED <<markets, prices, faults>>

DeleteMarket(c) ==
  /\ calls[c].pc = "deleteMarket"
  /\ markets' = [markets EXCEPT ![calls[c].name] = NoMarket]
  /\ Finish(c)
  /\ UNCHANGED <<prices, accounts, dropped, faults>>

\* The last write of an RPC fails: the RPC returns the error.
WriteFails(c) ==
  /\ calls[c].pc \in {"openWrite", "closeWrite", "updateWrite", "setPrice",
                      "deleteMarket"}
  /\ faults < MaxFaults
  /\ faults' = faults + 1
  /\ Finish(c)
  /\ UNCHANGED <<markets, prices, accounts, dropped>>

\* The daemon stops: its RPCs are gone, the stores and the wallet stay.
Crash ==
  /\ faults < MaxFaults
  /\ faults' = faults + 1
  /\ calls' = [c \in Calls |-> Call("idle", NoName, NoMarket)]
  /\ UNCHANGED <<markets, prices, accounts, dropped>>

-----------------------------------------------------------------------------
CallNext(c) ==
  \/ NewMarketBegins(c) \/ CreateAccount(c) \/ InsertMarket(c)
  \/ InsertPrice(c) \/ UndoAccount(c)
  \/ OpenMarketBegins(c) \/ OpenReads(c) \/ OpenMarket(c)
  \/ CloseMarketBegins(c) \/ CloseMarket(c)
  \/ UpdateMarketPercentageFee(c) \/ UpdateMarketFixedFee(c)
  \/ UpdateMarketAssetsPrecision(c) \/ UpdateMarketStrategy(c)
  \/ UpdateMarket(c)
  \/ UpdateMarketPriceBegins(c) \/ UpdateMarketPrice(c)
  \/ DropMarketBegins(c) \/ DeleteAccount(c) \/ DeleteMarket(c)
  \/ WriteFails(c)

Next == Crash \/ \E c \in Calls : CallNext(c)

Spec == Init /\ [][Next]_vars

-----------------------------------------------------------------------------
(***************************************************************************)
(* Properties.                                                             *)
(***************************************************************************)
\* A market open with the pluggable strategy has a price, whichever RPCs and
\* feeds overlap and wherever the daemon stops: MakeTradable checks a copy
\* (market.go), the write comes later, and the price lives in another store
\* that NewMarket zeroes.  Names that DropMarket has freed are left out: an
\* RPC still under way may be about the market that had the name before.
OpenMarketsPriced ==
  \A n \in Names \ dropped :
    Stored(n) /\ markets[n].tradable /\ IsStrategyPluggable(markets[n])
      => prices[n] > 0

\* A closed market is opened only by an OpenMarket that found it closed: the
\* copies that the other RPCs write back are closed ones, so a late write can
\* undo an opening but never a closing (market_account.go, UpdateMarket).
OnlyOpenMarketOpens ==
  [][\A n \in Names :
       Stored(n) /\ Stored(n)' /\ ~markets[n].tradable /\ markets'[n].tradable
         => \E c \in Calls : calls[c].pc = "openWrite" /\ calls[c].name = n]_vars

\* The price of a market, once set, is only replaced by another: no write of
\* a stale copy and no NewMarket of the same name takes it back to zero or
\* removes it, as long as the name is not freed (market_repository_impl.go,
\* updateMarket and insertMarket).
PriceNeverLost ==
  [][\A n \in Names \ dropped : prices[n] > 0 => prices'[n] > 0]_vars

\* A market can be read with its price once no NewMarket is between the two
\* writes, unless a write failed or the daemon stopped: a record without a price
\* would make every query that matches it fail, and GetAllMarkets with it.  No
\* overlap of NewMarket, DropMarket and updates alone has that effect
\* (market_repository_impl.go, insertMarket and findMarkets).
MarketsCanBeListed ==
  faults = 0 /\ (\A c \in Calls : calls[c].pc # "insertPrice")
    => \A n \in Names : Stored(n) => prices[n] # NoPrice
=============================================================================
