----------------------------- MODULE MarketReport -----------------------------
(***************************************************************************)
(* The market report (internal/core/application/operator/                  *)
(* market_account.go, GetMarketReport).  A time is a number of ticks, of   *)
(* which a second has SecondTicks: the bounds of a range may lie between   *)
(* two seconds, the timestamps of trades may not.  A trade is              *)
(* [timestamp, amountP, amountR, buy, feeAmount, feeInBase]; the proposer  *)
(* of a buy receives (R) the base asset.                                   *)
(***************************************************************************)
EXTENDS Integers, Sequences, FiniteSetsExt

CONSTANTS SecondTicks, HourSeconds

ASSUME TimeAssumption == {SecondTicks, HourSeconds} \subseteq Nat \ {0}

HourTicks == HourSeconds * SecondTicks

\* A sub-range begins where the next one ends.
TouchingStart(start, nextEnd) == IF nextEnd > start THEN nextEnd ELSE start

\* A sub-range begins a second after the end of the next one.
NextStart(start, nextEnd) == IF nextEnd > start THEN nextEnd + SecondTicks ELSE start

\* From end to start, frame hours each, the last one cut off at start.
RECURSIVE splitTimeRange(_, _, _)
splitTimeRange(start, end, frame) ==
  IF end <= start THEN <<>>
  ELSE LET nextEnd == end - HourTicks * frame
       IN  <<[start |-> NextStart(start, nextEnd), end |-> end]>>
             \o splitTimeRange(start, nextEnd, frame)

isInTimeRange(t, start, end) == t * SecondTicks >= start /\ t * SecondTicks <= end

BaseAmount(trade) == IF trade.buy THEN trade.amountR ELSE trade.amountP
QuoteAmount(trade) == IF trade.buy THEN trade.amountP ELSE trade.amountR
FeeIn(base, trade) == IF trade.feeInBase = base THEN trade.feeAmount ELSE 0

\* The sums over the trades of the range, frame by frame; the totals are added up
\* from the frames, the fees from the trades.
Report(start, end, frame, trades) ==
  LET inRange == {t \in trades : isInTimeRange(t.timestamp, start, end)}
      frames == splitTimeRange(start, end, frame)
      In(i) == {t \in inRange : isInTimeRange(t.timestamp, frames[i].start, frames[i].end)}
      baseVolume == [i \in DOMAIN frames |-> MapThenSumSet(BaseAmount, In(i))]
      quoteVolume == [i \in DOMAIN frames |-> MapThenSumSet(QuoteAmount, In(i))]
  IN  [ok |-> TRUE,
       totBaseVolume |-> MapThenSumSet(LAMBDA i : baseVolume[i], DOMAIN frames),
       totQuoteVolume |-> MapThenSumSet(LAMBDA i : quoteVolume[i], DOMAIN frames),
       totBaseFee |-> MapThenSumSet(LAMBDA t : FeeIn(TRUE, t), inRange),
       totQuoteFee |-> MapThenSumSet(LAMBDA t : FeeIn(FALSE, t), inRange)]

\* The range must have as many whole hours as a frame.
GetMarketReport(start, end, frame, trades) ==
  IF (end - start) \div HourTicks < frame THEN [ok |-> FALSE]
  ELSE Report(start, end, frame, trades)
=============================================================================
