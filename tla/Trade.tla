------------------------------- MODULE Trade -------------------------------
(***************************************************************************)
(* The trade entity of internal/core/domain/trade.go: its record and, for  *)
(* every method, the value the receiver has when the method returns.       *)
(*                                                                         *)
(* A method that returns (bool, error) is an operator with result          *)
(* [ok, trade].  The wall clock is the parameter now; whether the swap     *)
(* parser accepts the message at hand is the parameter valid.  Amounts,    *)
(* assets and message bodies are left out: no method branches on them.     *)
(***************************************************************************)
EXTENDS Naturals

TradeStatusCodeUndefined == 0
TradeStatusCodeProposal  == 1
TradeStatusCodeAccepted  == 2
TradeStatusCodeCompleted == 3
TradeStatusCodeSettled   == 4
TradeStatusCodeExpired   == 5

(***************************************************************************)
(* requestTime is SwapRequest.Timestamp, 0 while SwapRequest is nil;       *)
(* expiryTime is ExpiryTime, 0 while unset.  swapAccept, swapComplete and  *)
(* swapFail say whether the pointer is set; TxHex and TxId are set exactly *)
(* where SwapComplete is.                                                  *)
(***************************************************************************)
TradeRecord ==
  [code         : TradeStatusCodeUndefined..TradeStatusCodeExpired,
   failed       : BOOLEAN,
   requestTime  : Nat,
   expiryTime   : Nat,
   swapAccept   : BOOLEAN,
   swapComplete : BOOLEAN,
   swapFail     : BOOLEAN]

NewTrade ==
  [code         |-> TradeStatusCodeUndefined,
   failed       |-> FALSE,
   requestTime  |-> 0,
   expiryTime   |-> 0,
   swapAccept   |-> FALSE,
   swapComplete |-> FALSE,
   swapFail     |-> FALSE]

Returns(ok, t) == [ok |-> ok, trade |-> t]

IsAccepted(t)  == t.code = TradeStatusCodeAccepted
IsCompleted(t) == t.code = TradeStatusCodeCompleted
IsSettled(t)   == t.code = TradeStatusCodeSettled

IsExpired(t, now) ==
  \/ t.code = TradeStatusCodeExpired
  \/ t.expiryTime > 0 /\ now > t.expiryTime

\* Mutated form of Fail: no SwapFail message is made.
FailWithoutMessage(t) == [t EXCEPT !.failed = TRUE]

Fail(t) ==
  IF t.failed THEN t ELSE [t EXCEPT !.swapFail = TRUE, !.failed = TRUE]

Propose(t, knownType, valid, now) ==
  LET proposed == [t EXCEPT !.requestTime = now,
                            !.code = TradeStatusCodeProposal]
  IN  IF t.code >= TradeStatusCodeProposal THEN Returns(TRUE, t)
      ELSE IF ~knownType THEN Returns(FALSE, t)
      ELSE IF valid THEN Returns(TRUE, proposed)
      ELSE Returns(FALSE, Fail(proposed))

Accept(t, expiryTime, valid) ==
  IF t.code >= TradeStatusCodeAccepted THEN Returns(TRUE, t)
  ELSE IF t.code # TradeStatusCodeProposal THEN Returns(FALSE, t)
  ELSE IF expiryTime <= t.requestTime THEN Returns(FALSE, t)
  ELSE IF valid
       THEN Returns(TRUE, [t EXCEPT !.expiryTime = expiryTime,
                                    !.code = TradeStatusCodeAccepted,
                                    !.swapAccept = TRUE])
       ELSE Returns(FALSE, Fail(t))

\* Mutated form of Complete: the deadline is not checked.
CompleteIgnoringDeadline(t, valid, now) ==
  IF t.code >= TradeStatusCodeCompleted THEN Returns(TRUE, t)
  ELSE IF ~IsAccepted(t) THEN Returns(FALSE, t)
  ELSE IF valid
       THEN Returns(TRUE, [t EXCEPT !.code = TradeStatusCodeCompleted,
                                    !.swapComplete = TRUE])
       ELSE Returns(FALSE, Fail(t))

\* The expired branch marks the trade failed without adding a SwapFail message.
Complete(t, valid, now) ==
  IF t.code >= TradeStatusCodeCompleted THEN Returns(TRUE, t)
  ELSE IF ~IsAccepted(t) THEN Returns(FALSE, t)
  ELSE IF IsExpired(t, now) THEN Returns(FALSE, [t EXCEPT !.failed = TRUE])
  ELSE IF valid
       THEN Returns(TRUE, [t EXCEPT !.code = TradeStatusCodeCompleted,
                                    !.swapComplete = TRUE])
       ELSE Returns(FALSE, Fail(t))

\* Mutated forms of Settle: a failed trade settles; the deadline is kept.
SettleFailedToo(t) ==
  IF IsSettled(t) THEN Returns(TRUE, t)
  ELSE IF ~(IsCompleted(t) \/ IsAccepted(t)) THEN Returns(FALSE, t)
  ELSE Returns(TRUE, [t EXCEPT !.expiryTime = 0,
                               !.code = TradeStatusCodeSettled])
SettleKeepingDeadline(t) ==
  IF IsSettled(t) THEN Returns(TRUE, t)
  ELSE IF ~(IsCompleted(t) \/ IsAccepted(t)) \/ t.failed THEN Returns(FALSE, t)
  ELSE Returns(TRUE, [t EXCEPT !.code = TradeStatusCodeSettled])

Settle(t) ==
  IF IsSettled(t) THEN Returns(TRUE, t)
  ELSE IF ~(IsCompleted(t) \/ IsAccepted(t)) \/ t.failed THEN Returns(FALSE, t)
  ELSE Returns(TRUE, [t EXCEPT !.expiryTime = 0,
                               !.code = TradeStatusCodeSettled])

\* Mutated form of Expire: the date is not checked.
ExpireAnyTime(t, now) ==
  IF t.code = TradeStatusCodeExpired THEN Returns(TRUE, t)
  ELSE IF t.expiryTime = 0 THEN Returns(FALSE, t)
  ELSE Returns(TRUE, [t EXCEPT !.code = TradeStatusCodeExpired])

Expire(t, now) ==
  IF t.code = TradeStatusCodeExpired THEN Returns(TRUE, t)
  ELSE IF t.expiryTime = 0 \/ now < t.expiryTime THEN Returns(FALSE, t)
  ELSE Returns(TRUE, [t EXCEPT !.code = TradeStatusCodeExpired])

\* SwapFailMessage returns nil for a trade that has not failed and otherwise
\* reads t.SwapFail.Message: it panics when the pointer is nil.
SwapFailMessagePanics(t) == t.failed /\ ~t.swapFail

-----------------------------------------------------------------------------
(***************************************************************************)
(* What every method relies on when it dereferences the receiver's         *)
(* pointers and times: an accepted trade and all its successors carry the  *)
(* SwapRequest and the SwapAccept message, a completed one the transaction *)
(* too, and the deadline is set exactly from acceptance until settlement.  *)
(***************************************************************************)
WellFormed(t) ==
  /\ t.code >= TradeStatusCodeProposal => t.requestTime > 0
  /\ t.swapAccept <=> t.code >= TradeStatusCodeAccepted
  /\ t.swapComplete => t.code >= TradeStatusCodeCompleted
  /\ IsCompleted(t) => t.swapComplete
  /\ t.expiryTime > 0 <=> t.swapAccept /\ ~IsSettled(t)
  /\ t.swapFail => t.failed
=============================================================================
