----------------------------- MODULE Computations -----------------------------
(***************************************************************************)
(* The calls that compute something and change nothing: reports,           *)
(* fragmentations, previews and the check of a proposed price, the         *)
(* selection of coins and the transactions made of them, against           *)
(* definitions of what they should compute.                                *)
(***************************************************************************)
EXTENDS MarketReport, Fragmenters, Previews, SwapTransactions

CONSTANTS
  ReportCalls, MarketFragmentCalls, FeeFragmentCalls,   \* the other calls
  CoinCalls, WithdrawalCalls, SwapCalls

vars == <<call, answer>>

Init ==
  /\ call \in ReportCalls \cup MarketFragmentCalls \cup FeeFragmentCalls \cup PreviewCalls
              \cup CoinCalls \cup WithdrawalCalls \cup SwapCalls
  /\ answer = Pending

AnswerReport ==
  Answers("report", GetMarketReport(call.start, call.end, call.frame, call.trades))

AnswerMarketFragments ==
  Answers("market fragments",
          MarketFragmenterSplitFunds(call.balances[1], call.balances[2],
                                     call.balanced, call.marketFunded))

AnswerFeeFragments ==
  Answers("fee fragments", FeeFragmenterSplitFunds(call.balance, call.maxFragments))

AnswerCoins ==
  Answers("coins", SelectUnspents(call.utxos, call.amount, call.asset))

AnswerWithdrawal ==
  Answers("withdrawal", SendToMany(call.outs, call.wallet))

AnswerSwap ==
  Answers("swap", Swap(call.utxos, call.request, call.wallet))

Next ==
  \/ AnswerReport \/ AnswerMarketFragments \/ AnswerFeeFragments \/ AnswerPreview
  \/ AnswerCoins \/ AnswerWithdrawal \/ AnswerSwap

Spec == Init /\ [][Next]_vars

-----------------------------------------------------------------------------
\* Between two frames lies a second, of which only the end of the earlier frame
\* and the start of the later one belong to a frame.
InGap(t) ==
  \E k \in 1..(call.end - call.start) :
    LET bound == call.end - k * call.frame * HourTicks
    IN  bound > call.start /\ bound < t * SecondTicks /\ t * SecondTicks < bound + SecondTicks

\* A report counts the volume of every trade of its range once, except the trades
\* between two frames, of which there are none if the range ends on a full
\* second; and it counts the fees of all trades of the range (market_account.go,
\* GetMarketReport and splitTimeRange).
ReportCountsOnce ==
  Answered("report") /\ answer.ok =>
    LET inRange == {t \in call.trades : /\ call.start <= t.timestamp * SecondTicks
                                        /\ t.timestamp * SecondTicks <= call.end}
        counted == {t \in inRange : ~InGap(t.timestamp)}
    IN  /\ answer.totBaseVolume = MapThenSumSet(BaseAmount, counted)
        /\ answer.totQuoteVolume = MapThenSumSet(QuoteAmount, counted)
        /\ call.end % SecondTicks = 0 => counted = inRange
        /\ answer.totBaseFee + answer.totQuoteFee =
             MapThenSumSet(LAMBDA t : t.feeAmount, inRange)

\* The amount of an asset in the outputs.
Paid(asset) ==
  MapThenSumSet(LAMBDA o : o.amount, {o \in answer.outputs : o.asset = asset})

\* The fragments fit the balance they are made of: those of a market leave less
\* than a unit for each fragment, those of the fee account nothing, with no
\* fragment below the fixed amount; and every fragment finds its address
\* (market_fragmenter_account.go and fee_fragmenter_account.go).
FragmentsFitBalance ==
  /\ Answered("market fragments") /\ answer.ok =>
       \A i \in 1..2 :
         LET paid == Paid(<<"base", "quote">>[i])
         IN  /\ paid <= call.balances[i]
             /\ IF call.balances[i] > minMarketFragmentAmount
                THEN call.balances[i] - paid < numFragments ELSE paid = 0
  /\ Answered("fee fragments") /\ answer.ok =>
       /\ Paid("lbtc") = call.balance
       /\ \A o \in answer.outputs : o.amount >= feeFragmentAmount
  /\ (Answered("market fragments") \/ Answered("fee fragments")) /\ answer.ok =>
       \A o \in answer.outputs : o.addr < answer.numOfAddresses

\* The client selects coins exactly if it has coins of the asset that cover the
\* amount, none of them twice, with the change they leave; as few as any set of
\* its coins between the amount and ten times as much, if there is such a set, and
\* one coin otherwise (coinselection.go: "the goal of the selection strategy is to
\* select as less as possible utxo's until a 10x ratio").
CoinsCoverTarget ==
  Answered("coins") =>
    LET Value(u) == u.value
        all == ToSet(call.utxos)
        own == {u \in all : u.asset = call.asset}
        coins == ToSet(answer.coins)
        within == {S \in SUBSET own : /\ MapThenSumSet(Value, S) >= call.amount
                                      /\ MapThenSumSet(Value, S) <= 10 * call.amount}
    IN  /\ answer.ok <=> /\ own # {} /\ MapThenSumSet(Value, own) >= call.amount
                         /\ \A u \in all : ~u.blinded
        /\ answer.ok =>
             /\ coins \subseteq own /\ Len(answer.coins) = Cardinality(coins)
             /\ MapThenSumSet(Value, coins) = call.amount + answer.change
             /\ IF within \ {{}} = {} THEN Cardinality(coins) = 1
                ELSE /\ coins \in within
                     /\ \A S \in within \ {{}} : Cardinality(coins) <= Cardinality(S)

\* What an owner has of an asset after the transaction, less what it had before.
Gain(owner, asset) ==
  LET Total(parts) == FoldLeft(LAMBDA n, p : IF p.owner = owner /\ p.asset = asset
                                             THEN n + p.amount ELSE n, 0, parts)
  IN  Total(answer.outputs) - Total(answer.inputs)

\* Every amount of a transaction is paid by the one who owes it: a withdrawal by
\* its account; in a swap, client and market exchange the amounts of the request,
\* with the fee for the market, as the client computed it and as the daemon did;
\* and the network fee by the fee account, although the difference of its two
\* estimates is taken of unsigned words, unless the second estimate is above the
\* coins that were selected for the first (wallet/service.go, SendToMany and
\* CompleteSwap; pkg/trade/buy.go, marketOrderRequest).
EveryonePaysTheirShare ==
  /\ Answered("withdrawal") /\ answer.ok =>
       \A a \in {Base, Quote} :
         LET sum == FoldLeft(LAMBDA n, o : IF o.asset = a THEN n + o.amount ELSE n,
                             0, call.outs)
         IN  Gain("receiver", a) = sum /\ Gain("account", a) = -sum
  /\ Answered("swap") /\ answer.ok =>
       LET r == call.request
           send == AssetP(r.isBuy)
           receive == AssetR(r.isBuy)
           sent == r.amountP + (IF r.feeAsset = send THEN r.feeAmount ELSE 0)
           received == r.amountR - (IF r.feeAsset = receive THEN r.feeAmount ELSE 0)
       IN  /\ Gain("client", send) = -sent /\ Gain("account", send) = sent
           /\ Gain("client", receive) = received /\ Gain("account", receive) = -received
  /\ (Answered("withdrawal") \/ Answered("swap")) /\ answer.ok =>
       LET w == call.wallet
           selected == w.estimate + 150 + w.feeChange
       IN  (w.feeChange = 0 \/ w.finalEstimate <= selected)
             <=> Gain("fee account", Lbtc) = -Gain("network", Lbtc)
=============================================================================
