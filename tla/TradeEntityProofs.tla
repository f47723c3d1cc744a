------------------------- MODULE TradeEntityProofs -------------------------
(***************************************************************************)
(* Proofs about the trade entity: for every bound on the clock, every      *)
(* sequence of method calls keeps the entity well formed, completes it     *)
(* only in time, and implements the abstract life cycle.                   *)
(***************************************************************************)
EXTENDS TradeEntity, TradeProofs

USE DEF TradeStatusCodeUndefined, TradeStatusCodeProposal,
        TradeStatusCodeAccepted, TradeStatusCodeCompleted,
        TradeStatusCodeSettled, TradeStatusCodeExpired

\* The inductive invariant: ExpiredOnlyLate needs the deadline of an Expired
\* trade to survive every later call, which WellFormed provides.
IInv == TypeOK /\ EntityWellFormed /\ ExpiredOnlyLate

\* The initial trade satisfies the inductive invariant (trade.go, NewTrade).
LEMMA InitIInv == Init => IInv
  <1> SUFFICES ASSUME Init PROVE IInv
    OBVIOUS
  <1>1. trade = NewTrade /\ now = 1
    BY DEF Init
  <1>2. NewTrade.code # TradeStatusCodeExpired
    BY DEF NewTrade
  <1> QED
    BY <1>1, <1>2, NewTradeFact, MaxTimeAssumption
    DEF IInv, TypeOK, EntityWellFormed, ExpiredOnlyLate

\* Every step keeps the types and the shape of the trade and makes one of the
\* moves of TradeProofs (trade.go, all methods).
LEMMA StepFact ==
  ASSUME IInv, [Next]_vars
  PROVE  /\ TypeOK' /\ EntityWellFormed'
         /\ Move(trade, trade', now)
         /\ now <= now'
  <1> USE MaxTimeAssumption
  <1>1. trade \in TradeRecord /\ WellFormed(trade) /\ now \in Nat \ {0}
    BY DEF IInv, TypeOK, EntityWellFormed
  <1>2. now' \in 1..MaxTime /\ now <= now'
    BY DEF IInv, TypeOK, Next, vars, Tick, CallPropose, CallAccept,
           CallComplete, CallSettle, CallFail, CallExpire
  <1>3. trade' \in TradeRecord /\ WellFormed(trade') /\ Move(trade, trade', now)
    <2>1. CASE UNCHANGED trade
      BY <1>1, <2>1 DEF Move
    <2>2. CASE CallPropose
      BY <1>1, <2>2, ProposeFact DEF CallPropose, Move
    <2>3. CASE CallAccept
      <3>1. PICK valid \in BOOLEAN, expiry \in 0..MaxTime :
              trade' = Accept(trade, expiry, valid).trade
        BY <2>3 DEF CallAccept
      <3>2. expiry \in Nat
        OBVIOUS
      <3> QED BY <1>1, <3>1, <3>2, AcceptFact DEF Move
    <2>4. CASE CallComplete
      BY <1>1, <2>4, CompleteFact DEF CallComplete, Move
    <2>5. CASE CallSettle
      BY <1>1, <2>5, SettleFact DEF CallSettle, Move
    <2>6. CASE CallFail
      BY <1>1, <2>6, FailFact DEF CallFail, Move
    <2>7. CASE CallExpire
      BY <1>1, <2>7, ExpireFact DEF CallExpire, Move
    <2> QED
      BY <2>1, <2>2, <2>3, <2>4, <2>5, <2>6, <2>7 DEF Next, vars, Tick
  <1> QED BY <1>2, <1>3 DEF TypeOK, EntityWellFormed

\* The inductive invariant is preserved by every step (trade.go, all methods).
LEMMA NextIInv == IInv /\ [Next]_vars => IInv'
  <1> SUFFICES ASSUME IInv, [Next]_vars PROVE IInv'
    OBVIOUS
  <1>1. TypeOK' /\ EntityWellFormed' /\ Move(trade, trade', now) /\ now <= now'
    BY StepFact
  <1>2. ExpiredOnlyLate'
    <2> SUFFICES ASSUME trade'.code = TradeStatusCodeExpired
                 PROVE  trade'.expiryTime > 0 /\ trade'.expiryTime <= now'
      BY DEF ExpiredOnlyLate
    <2>1. trade.expiryTime \in Nat /\ now \in Nat /\ now' \in Nat
      BY <1>1, MaxTimeAssumption DEF IInv, TypeOK, TradeRecord
    <2>2. /\ trade'.expiryTime = trade.expiryTime
          /\ trade.expiryTime > 0 /\ trade.expiryTime <= now
      BY <1>1
      DEF IInv, ExpiredOnlyLate, Move, FailMove, ProposeMove, AcceptMove,
          CompleteMove, SettleMove, ExpireMove, IsAccepted, IsCompleted,
          IsSettled
    <2> QED BY <1>1, <2>1, <2>2
  <1> QED BY <1>1, <1>2 DEF IInv

-----------------------------------------------------------------------------
\* The inductive invariant holds in every reachable state.
THEOREM Invariance == Spec => []IInv
  <1> QED BY InitIInv, NextIInv, PTL DEF Spec

\* Type correctness of the entity and of the clock, for every MaxTime.
THEOREM TypeCorrect == Spec => []TypeOK
  <1>1. IInv => TypeOK
    BY DEF IInv
  <1> QED BY <1>1, Invariance, PTL

\* Whatever the order of the calls, the pointers and the deadline of a trade
\* agree with its status (trade.go: Accept, Complete, Settle, Expire).
THEOREM AlwaysWellFormed == Spec => []EntityWellFormed
  <1>1. IInv => EntityWellFormed
    BY DEF IInv
  <1> QED BY <1>1, Invariance, PTL

\* No trade is Expired ahead of its deadline (trade.go, Expire).
THEOREM NeverExpiredEarly == Spec => []ExpiredOnlyLate
  <1>1. IInv => ExpiredOnlyLate
    BY DEF IInv
  <1> QED BY <1>1, Invariance, PTL

\* No call completes a trade after its deadline (trade.go, Complete).
THEOREM NeverCompletedLate == Spec => NoLateCompletion
  <1> DEFINE InTime == IsCompleted(trade') /\ ~IsCompleted(trade) =>
                         now <= trade.expiryTime
                           /\ trade.expiryTime = trade'.expiryTime
  <1>1. IInv /\ [Next]_vars => [InTime]_vars
    <2> SUFFICES ASSUME IInv, [Next]_vars, IsCompleted(trade'),
                        ~IsCompleted(trade)
                 PROVE  now <= trade.expiryTime
                          /\ trade.expiryTime = trade'.expiryTime
      OBVIOUS
    <2>1. Move(trade, trade', now)
      BY StepFact
    <2> QED
      BY <2>1
      DEF Move, FailMove, ProposeMove, AcceptMove, CompleteMove, SettleMove,
          ExpireMove, IsAccepted, IsCompleted, IsSettled
  <1> QED BY <1>1, Invariance, PTL DEF Spec, NoLateCompletion

\* Every sequence of method calls implements the abstract life cycle
\* (trade.go, all methods).
THEOREM EntityImplementsLifecycle == Spec => ImplementsLifecycle
  <1>1. Init => L!Init
    BY DEF Init, L!Init, NewTrade, PhaseOf
  <1>2. IInv /\ [Next]_vars => [L!Next]_(L!lifecycle)
    <2> SUFFICES ASSUME IInv, [Next]_vars
                 PROVE  [L!Next]_(L!lifecycle)
      OBVIOUS
    <2>1. /\ Move(trade, trade', now)
          /\ trade \in TradeRecord
          /\ trade' \in TradeRecord
      BY StepFact DEF IInv, TypeOK
    <2> USE DEF IsAccepted, IsCompleted, IsSettled, PhaseOf
    <2>2. CASE trade' = trade
      BY <2>2 DEF L!lifecycle
    <2>3. CASE FailMove(trade, trade')
      <3>1. trade'.failed = TRUE
        BY <2>1, <2>3 DEF FailMove, TradeRecord
      <3> QED BY <2>3, <3>1 DEF FailMove, L!Next, L!BecomeFailed
    <2>4. CASE ProposeMove(trade, trade')
      <3>1. trade.code = 0 /\ trade'.code = 1 /\ trade'.failed \in {trade.failed, TRUE}
        BY <2>4 DEF ProposeMove
      <3>2. PhaseOf(trade) = "Empty" /\ PhaseOf(trade') = "Proposal"
        BY <3>1
      <3> QED BY <3>1, <3>2 DEF L!Next, L!BecomeProposal
    <2>5. CASE AcceptMove(trade, trade')
      BY <2>5 DEF AcceptMove, L!Next, L!BecomeAccepted
    <2>6. CASE CompleteMove(trade, trade', now)
      BY <2>6 DEF CompleteMove, L!Next, L!BecomeCompleted
    <2>7. CASE SettleMove(trade, trade')
      BY <2>7 DEF SettleMove, L!Next, L!BecomeSettled
    <2>8. CASE ExpireMove(trade, trade', now)
      BY <2>8 DEF ExpireMove, L!Next, L!BecomeExpired
    <2> QED
      BY <2>1, <2>2, <2>3, <2>4, <2>5, <2>6, <2>7, <2>8 DEF Move
  <1> QED BY <1>1, <1>2, Invariance, PTL DEF Spec, L!Spec, ImplementsLifecycle
=============================================================================
