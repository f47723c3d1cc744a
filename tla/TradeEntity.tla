---------------------------- MODULE TradeEntity ----------------------------
(***************************************************************************)
(* One trade, its methods called in any order with any argument while the  *)
(* clock advances: what internal/core/domain/trade.go guarantees without   *)
(* any assumption about its callers.                                       *)
(***************************************************************************)
EXTENDS Trade

CONSTANT MaxTime        \* last value of the clock, and latest deadline

ASSUME MaxTimeAssumption == MaxTime \in Nat \ {0}

VARIABLES trade, now

vars == <<trade, now>>

Init ==
  /\ trade = NewTrade
  /\ now = 1

Tick ==
  /\ now < MaxTime
  /\ now' = now + 1
  /\ UNCHANGED trade

CallPropose ==
  /\ \E knownType, valid \in BOOLEAN :
       trade' = Propose(trade, knownType, valid, now).trade
  /\ UNCHANGED now

CallAccept ==
  /\ \E valid \in BOOLEAN, expiryTime \in 0..MaxTime :
       trade' = Accept(trade, expiryTime, valid).trade
  /\ UNCHANGED now

CallComplete ==
  /\ \E valid \in BOOLEAN : trade' = Complete(trade, valid, now).trade
  /\ UNCHANGED now

CallSettle ==
  /\ trade' = Settle(trade).trade
  /\ UNCHANGED now

CallFail ==
  /\ trade' = Fail(trade)
  /\ UNCHANGED now

CallExpire ==
  /\ trade' = Expire(trade, now).trade
  /\ UNCHANGED now

Next ==
  \/ Tick
  \/ CallPropose
  \/ CallAccept
  \/ CallComplete
  \/ CallSettle
  \/ CallFail
  \/ CallExpire

Spec == Init /\ [][Next]_vars

-----------------------------------------------------------------------------
\* The trade is a trade record and the clock stays within its bound.
TypeOK ==
  /\ trade \in TradeRecord
  /\ now \in 1..MaxTime

\* Whatever the order of the calls, the pointers and the deadline of the trade
\* agree with its status, so no method dereferences a nil SwapRequest or
\* SwapAccept (trade.go: Accept, Complete, SwapAcceptMessage).
EntityWellFormed == WellFormed(trade)

\* A trade is Expired only once its deadline has passed, however often Expire
\* and Settle are called before it (trade.go, Expire).
ExpiredOnlyLate ==
  trade.code = TradeStatusCodeExpired =>
    trade.expiryTime > 0 /\ trade.expiryTime <= now

\* "Complete must be called before the trade expires": no call turns a trade
\* into a Completed one after its deadline (trade.go, Complete).
NoLateCompletion ==
  [][IsCompleted(trade') /\ ~IsCompleted(trade) =>
       now <= trade.expiryTime /\ trade.expiryTime = trade'.expiryTime]_vars

-----------------------------------------------------------------------------
\* Refinement mapping onto the life cycle the entity promises.
PhaseOf(t) ==
  CASE t.code = TradeStatusCodeUndefined -> "Empty"
    [] t.code = TradeStatusCodeProposal  -> "Proposal"
    [] t.code = TradeStatusCodeAccepted  -> "Accepted"
    [] t.code = TradeStatusCodeCompleted -> "Completed"
    [] t.code = TradeStatusCodeSettled   -> "Settled"
    [] OTHER                             -> "Expired"

L == INSTANCE TradeLifecycle WITH phase <- PhaseOf(trade),
                                  failed <- trade.failed

\* Every sequence of method calls implements the abstract life cycle: forward
\* moves only, final Settled and Expired, no settlement of a failed trade, no
\* failure taken back (trade.go, all methods).
ImplementsLifecycle == L!Spec
=============================================================================
