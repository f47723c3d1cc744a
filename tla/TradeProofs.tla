---------------------------- MODULE TradeProofs ----------------------------
(***************************************************************************)
(* Facts about the methods of the trade entity, for every trade record:    *)
(* what each may change, and that each keeps a trade well formed.          *)
(***************************************************************************)
EXTENDS Trade, TLAPS

USE DEF TradeStatusCodeUndefined, TradeStatusCodeProposal,
        TradeStatusCodeAccepted, TradeStatusCodeCompleted,
        TradeStatusCodeSettled, TradeStatusCodeExpired

-----------------------------------------------------------------------------
(***************************************************************************)
(* The record updates the methods make, field by field.                    *)
(***************************************************************************)

\* The update of Propose: the request and the status are set.
LEMMA ProposalUpdate ==
  ASSUME NEW t \in TradeRecord,
         NEW time \in Nat
  PROVE  LET r == [t EXCEPT !.requestTime = time, !.code = TradeStatusCodeProposal]
         IN  /\ r \in TradeRecord
             /\ r.code = TradeStatusCodeProposal /\ r.requestTime = time
             /\ r.expiryTime = t.expiryTime /\ r.failed = t.failed
             /\ r.swapAccept = t.swapAccept /\ r.swapComplete = t.swapComplete
             /\ r.swapFail = t.swapFail
  <1> DEFINE r == [t EXCEPT !.requestTime = time, !.code = TradeStatusCodeProposal]
  <1>1. PICK s : s = [t EXCEPT !.requestTime = time]
    OBVIOUS
  <1>2. s \in TradeRecord
    BY <1>1 DEF TradeRecord
  <1>3. r = [s EXCEPT !.code = TradeStatusCodeProposal]
    BY <1>1 DEF TradeRecord
  <1>4. r \in TradeRecord
    BY <1>2, <1>3 DEF TradeRecord
  <1>5. /\ r.code = TradeStatusCodeProposal /\ r.requestTime = time
         /\ r.expiryTime = t.expiryTime /\ r.failed = t.failed
         /\ r.swapAccept = t.swapAccept /\ r.swapComplete = t.swapComplete
         /\ r.swapFail = t.swapFail
    BY DEF TradeRecord
  <1> QED BY <1>4, <1>5

\* The update of Accept: the deadline, the status and SwapAccept are set.
LEMMA AcceptedUpdate ==
  ASSUME NEW t \in TradeRecord,
         NEW expiry \in Nat
  PROVE  LET r == [t EXCEPT !.expiryTime = expiry, !.code = TradeStatusCodeAccepted, !.swapAccept = TRUE]
         IN  /\ r \in TradeRecord
             /\ r.code = TradeStatusCodeAccepted /\ r.requestTime = t.requestTime
             /\ r.expiryTime = expiry /\ r.failed = t.failed
             /\ r.swapAccept = TRUE /\ r.swapComplete = t.swapComplete
             /\ r.swapFail = t.swapFail
  <1> DEFINE r == [t EXCEPT !.expiryTime = expiry, !.code = TradeStatusCodeAccepted, !.swapAccept = TRUE]
  <1>1. PICK s : s = [t EXCEPT !.expiryTime = expiry]
    OBVIOUS
  <1>2. s \in TradeRecord
    BY <1>1 DEF TradeRecord
  <1>3. PICK u : u = [s EXCEPT !.code = TradeStatusCodeAccepted]
    OBVIOUS
  <1>4. u \in TradeRecord
    BY <1>2, <1>3 DEF TradeRecord
  <1>5. r = [u EXCEPT !.swapAccept = TRUE]
    BY <1>1, <1>3 DEF TradeRecord
  <1>6. r \in TradeRecord
    BY <1>4, <1>5 DEF TradeRecord
  <1>7. /\ r.code = TradeStatusCodeAccepted /\ r.requestTime = t.requestTime
         /\ r.expiryTime = expiry /\ r.failed = t.failed
         /\ r.swapAccept = TRUE /\ r.swapComplete = t.swapComplete
         /\ r.swapFail = t.swapFail
    BY DEF TradeRecord
  <1> QED BY <1>6, <1>7

\* The update of Complete: the status and SwapComplete are set.
LEMMA CompletedUpdate ==
  ASSUME NEW t \in TradeRecord
  PROVE  LET r == [t EXCEPT !.code = TradeStatusCodeCompleted, !.swapComplete = TRUE]
         IN  /\ r \in TradeRecord
             /\ r.code = TradeStatusCodeCompleted /\ r.requestTime = t.requestTime
             /\ r.expiryTime = t.expiryTime /\ r.failed = t.failed
             /\ r.swapAccept = t.swapAccept /\ r.swapComplete = TRUE
             /\ r.swapFail = t.swapFail
  <1> DEFINE r == [t EXCEPT !.code = TradeStatusCodeCompleted, !.swapComplete = TRUE]
  <1>1. PICK s : s = [t EXCEPT !.code = TradeStatusCodeCompleted]
    OBVIOUS
  <1>2. s \in TradeRecord
    BY <1>1 DEF TradeRecord
  <1>3. r = [s EXCEPT !.swapComplete = TRUE]
    BY <1>1 DEF TradeRecord
  <1>4. r \in TradeRecord
    BY <1>2, <1>3 DEF TradeRecord
  <1>5. /\ r.code = TradeStatusCodeCompleted /\ r.requestTime = t.requestTime
         /\ r.expiryTime = t.expiryTime /\ r.failed = t.failed
         /\ r.swapAccept = t.swapAccept /\ r.swapComplete = TRUE
         /\ r.swapFail = t.swapFail
    BY DEF TradeRecord
  <1> QED BY <1>4, <1>5

\* The update of Settle: the deadline is cleared and the status set.
LEMMA SettledUpdate ==
  ASSUME NEW t \in TradeRecord
  PROVE  LET r == [t EXCEPT !.expiryTime = 0, !.code = TradeStatusCodeSettled]
         IN  /\ r \in TradeRecord
             /\ r.code = TradeStatusCodeSettled /\ r.requestTime = t.requestTime
             /\ r.expiryTime = 0 /\ r.failed = t.failed
             /\ r.swapAccept = t.swapAccept /\ r.swapComplete = t.swapComplete
             /\ r.swapFail = t.swapFail
  <1> DEFINE r == [t EXCEPT !.expiryTime = 0, !.code = TradeStatusCodeSettled]
  <1>1. PICK s : s = [t EXCEPT !.expiryTime = 0]
    OBVIOUS
  <1>2. s \in TradeRecord
    BY <1>1 DEF TradeRecord
  <1>3. r = [s EXCEPT !.code = TradeStatusCodeSettled]
    BY <1>1 DEF TradeRecord
  <1>4. r \in TradeRecord
    BY <1>2, <1>3 DEF TradeRecord
  <1>5. /\ r.code = TradeStatusCodeSettled /\ r.requestTime = t.requestTime
         /\ r.expiryTime = 0 /\ r.failed = t.failed
         /\ r.swapAccept = t.swapAccept /\ r.swapComplete = t.swapComplete
         /\ r.swapFail = t.swapFail
    BY DEF TradeRecord
  <1> QED BY <1>4, <1>5

-----------------------------------------------------------------------------
(***************************************************************************)
(* The moves the methods can make: a method called on t leaves r.          *)
(***************************************************************************)

FailMove(t, r) ==
  /\ r.code = t.code
  /\ r.expiryTime = t.expiryTime
  /\ r.failed

ProposeMove(t, r) ==
  /\ t.code = TradeStatusCodeUndefined
  /\ r.code = TradeStatusCodeProposal
  /\ r.failed \in {t.failed, TRUE}

AcceptMove(t, r) ==
  /\ t.code = TradeStatusCodeProposal
  /\ IsAccepted(r)
  /\ r.failed = t.failed

CompleteMove(t, r, time) ==
  /\ IsAccepted(t)
  /\ IsCompleted(r)
  /\ r.failed = t.failed
  /\ r.expiryTime = t.expiryTime
  /\ time <= t.expiryTime

SettleMove(t, r) ==
  /\ IsAccepted(t) \/ IsCompleted(t)
  /\ ~t.failed
  /\ IsSettled(r)
  /\ r.failed = t.failed

ExpireMove(t, r, time) ==
  /\ IsAccepted(t) \/ IsCompleted(t)
  /\ r.code = TradeStatusCodeExpired
  /\ r.failed = t.failed
  /\ r.expiryTime = t.expiryTime
  /\ t.expiryTime > 0 /\ t.expiryTime <= time

Move(t, r, time) ==
  \/ r = t
  \/ FailMove(t, r)
  \/ ProposeMove(t, r)
  \/ AcceptMove(t, r)
  \/ CompleteMove(t, r, time)
  \/ SettleMove(t, r)
  \/ ExpireMove(t, r, time)

-----------------------------------------------------------------------------
(***************************************************************************)
(* Each method returns a trade record and keeps a trade well formed.       *)
(***************************************************************************)

\* NewTrade is a well-formed trade record (trade.go, NewTrade).
LEMMA NewTradeFact == NewTrade \in TradeRecord /\ WellFormed(NewTrade)
  BY DEF NewTrade, TradeRecord, WellFormed, IsCompleted, IsSettled

\* Fail keeps a trade well formed, its status and its deadline
\* (trade.go, Fail).
LEMMA FailFact ==
  ASSUME NEW t \in TradeRecord, WellFormed(t)
  PROVE  /\ Fail(t) \in TradeRecord
         /\ WellFormed(Fail(t))
         /\ FailMove(t, Fail(t))
  BY DEF Fail, FailMove, TradeRecord, WellFormed, IsCompleted, IsSettled

\* Propose only brings an Empty trade to Proposal (trade.go, Propose).
LEMMA ProposeFact ==
  ASSUME NEW t \in TradeRecord, WellFormed(t),
         NEW knownType \in BOOLEAN, NEW valid \in BOOLEAN,
         NEW time \in Nat \ {0},
         NEW r, r = Propose(t, knownType, valid, time).trade
  PROVE  /\ r \in TradeRecord
         /\ WellFormed(r)
         /\ r = t \/ ProposeMove(t, r)
  <1> DEFINE proposed == [t EXCEPT !.requestTime = time,
                                   !.code = TradeStatusCodeProposal]
  <1>1. CASE t.code >= TradeStatusCodeProposal \/ ~knownType
    <2>1. r = t
      BY <1>1 DEF Propose, Returns
    <2> QED BY <2>1
  <1>2. CASE ~(t.code >= TradeStatusCodeProposal \/ ~knownType)
    <2>1. t.code = TradeStatusCodeUndefined
      BY <1>2 DEF TradeRecord
    <2>2. /\ proposed \in TradeRecord
          /\ proposed.code = TradeStatusCodeProposal
          /\ proposed.requestTime = time
          /\ proposed.expiryTime = t.expiryTime
          /\ proposed.failed = t.failed
          /\ proposed.swapAccept = t.swapAccept
          /\ proposed.swapComplete = t.swapComplete
          /\ proposed.swapFail = t.swapFail
      BY Zenon, ProposalUpdate
    <2>3. r = proposed \/ r = Fail(proposed)
      BY <1>2 DEF Propose, Returns
    <2> HIDE DEF proposed
    <2>4. WellFormed(proposed)
      BY <2>1, <2>2 DEF TradeRecord, WellFormed, IsCompleted, IsSettled
    <2>5. CASE r = proposed
      BY <2>1, <2>2, <2>4, <2>5 DEF ProposeMove
    <2>6. CASE r = Fail(proposed)
      <3>1. r \in TradeRecord /\ WellFormed(r) /\ FailMove(proposed, r)
        BY <2>2, <2>4, <2>6, FailFact
      <3> QED BY <2>1, <2>2, <3>1 DEF ProposeMove, FailMove
    <2> QED BY <2>3, <2>5, <2>6
  <1> QED BY <1>1, <1>2

\* Accept only brings a Proposal to Accepted and sets its deadline
\* (trade.go, Accept).
LEMMA AcceptFact ==
  ASSUME NEW t \in TradeRecord, WellFormed(t),
         NEW expiry \in Nat, NEW valid \in BOOLEAN,
         NEW r, r = Accept(t, expiry, valid).trade
  PROVE  /\ r \in TradeRecord
         /\ WellFormed(r)
         /\ r = t \/ FailMove(t, r) \/ AcceptMove(t, r)
  <1>1. CASE r = t \/ r = Fail(t)
    BY <1>1, FailFact
  <1>2. CASE ~(r = t \/ r = Fail(t))
    <2> DEFINE a == [t EXCEPT !.expiryTime = expiry,
                              !.code = TradeStatusCodeAccepted,
                              !.swapAccept = TRUE]
    <2>1. t.code = TradeStatusCodeProposal /\ expiry > t.requestTime /\ r = a
      BY <1>2 DEF Accept, Returns, TradeRecord
    <2>2. /\ a \in TradeRecord /\ a.code = TradeStatusCodeAccepted
          /\ a.requestTime = t.requestTime /\ a.expiryTime = expiry
          /\ a.failed = t.failed /\ a.swapAccept = TRUE
          /\ a.swapComplete = t.swapComplete /\ a.swapFail = t.swapFail
      BY AcceptedUpdate
    <2> HIDE DEF a
    <2>3. /\ r \in TradeRecord /\ r.code = TradeStatusCodeAccepted
          /\ r.requestTime = t.requestTime /\ r.expiryTime = expiry
          /\ r.failed = t.failed /\ r.swapAccept = TRUE
          /\ r.swapComplete = t.swapComplete /\ r.swapFail = t.swapFail
      BY <2>1, <2>2
    <2>4. WellFormed(r)
      BY <2>1, <2>3 DEF TradeRecord, WellFormed, IsCompleted, IsSettled
    <2> QED BY <2>1, <2>3, <2>4 DEF AcceptMove, IsAccepted
  <1> QED BY <1>1, <1>2

\* Complete only brings an Accepted trade to Completed, and only in time
\* (trade.go, Complete).
LEMMA CompleteFact ==
  ASSUME NEW t \in TradeRecord, WellFormed(t),
         NEW valid \in BOOLEAN, NEW time \in Nat,
         NEW r, r = Complete(t, valid, time).trade
  PROVE  /\ r \in TradeRecord
         /\ WellFormed(r)
         /\ r = t \/ FailMove(t, r) \/ CompleteMove(t, r, time)
  <1>1. CASE r = t \/ r = Fail(t)
    BY <1>1, FailFact
  <1>2. CASE r = [t EXCEPT !.failed = TRUE]
    <2>1. /\ r \in TradeRecord /\ r.code = t.code
          /\ r.requestTime = t.requestTime /\ r.expiryTime = t.expiryTime
          /\ r.failed = TRUE /\ r.swapAccept = t.swapAccept
          /\ r.swapComplete = t.swapComplete /\ r.swapFail = t.swapFail
      BY <1>2 DEF TradeRecord
    <2>2. WellFormed(r)
      BY <2>1 DEF TradeRecord, WellFormed, IsCompleted, IsSettled
    <2> QED BY <2>1, <2>2 DEF FailMove
  <1>3. CASE ~(r = t \/ r = Fail(t) \/ r = [t EXCEPT !.failed = TRUE])
    <2>1. /\ IsAccepted(t)
          /\ ~IsExpired(t, time)
          /\ r = [t EXCEPT !.code = TradeStatusCodeCompleted,
                           !.swapComplete = TRUE]
      BY <1>3 DEF Complete, Returns
    <2>2. time <= t.expiryTime
      BY <2>1 DEF IsExpired, IsAccepted, WellFormed, IsSettled, TradeRecord
    <2>3. /\ r \in TradeRecord /\ r.code = TradeStatusCodeCompleted
          /\ r.requestTime = t.requestTime /\ r.expiryTime = t.expiryTime
          /\ r.failed = t.failed /\ r.swapAccept = t.swapAccept
          /\ r.swapComplete = TRUE /\ r.swapFail = t.swapFail
      BY <2>1, Zenon, CompletedUpdate
    <2>4. WellFormed(r)
      BY <2>1, <2>3
      DEF TradeRecord, WellFormed, IsAccepted, IsCompleted, IsSettled
    <2> QED BY <2>1, <2>2, <2>3, <2>4 DEF CompleteMove, IsCompleted
  <1> QED BY <1>1, <1>2, <1>3

\* Settle only brings an Accepted or Completed trade that has not failed to
\* Settled (trade.go, Settle).
LEMMA SettleFact ==
  ASSUME NEW t \in TradeRecord, WellFormed(t),
         NEW r, r = Settle(t).trade
  PROVE  /\ r \in TradeRecord
         /\ WellFormed(r)
         /\ r = t \/ SettleMove(t, r)
  <1>1. CASE r = t
    BY <1>1
  <1>2. CASE r # t
    <2>1. /\ IsAccepted(t) \/ IsCompleted(t)
          /\ ~t.failed
          /\ r = [t EXCEPT !.expiryTime = 0, !.code = TradeStatusCodeSettled]
      BY <1>2 DEF Settle, Returns
    <2>2. /\ r \in TradeRecord /\ r.code = TradeStatusCodeSettled
          /\ r.requestTime = t.requestTime /\ r.expiryTime = 0
          /\ r.failed = t.failed /\ r.swapAccept = t.swapAccept
          /\ r.swapComplete = t.swapComplete /\ r.swapFail = t.swapFail
      BY <2>1, Zenon, SettledUpdate
    <2>3. WellFormed(r)
      BY <2>1, <2>2
      DEF TradeRecord, WellFormed, IsAccepted, IsCompleted, IsSettled
    <2> QED BY <2>1, <2>2, <2>3 DEF SettleMove, IsSettled
  <1> QED BY <1>1, <1>2

\* Expire only brings an Accepted or Completed trade whose deadline has been
\* reached to Expired (trade.go, Expire).
LEMMA ExpireFact ==
  ASSUME NEW t \in TradeRecord, WellFormed(t),
         NEW time \in Nat,
         NEW r, r = Expire(t, time).trade
  PROVE  /\ r \in TradeRecord
         /\ WellFormed(r)
         /\ r = t \/ ExpireMove(t, r, time)
  <1>1. CASE r = t
    BY <1>1
  <1>2. CASE r # t
    <2>1. /\ t.code # TradeStatusCodeExpired
          /\ t.expiryTime > 0 /\ t.expiryTime <= time
          /\ r = [t EXCEPT !.code = TradeStatusCodeExpired]
      BY <1>2 DEF Expire, Returns, TradeRecord
    <2>2. IsAccepted(t) \/ IsCompleted(t)
      BY <2>1 DEF WellFormed, IsAccepted, IsCompleted, IsSettled, TradeRecord
    <2> QED
      BY <2>1, <2>2
      DEF TradeRecord, WellFormed, IsAccepted, IsCompleted, IsSettled, ExpireMove
  <1> QED BY <1>1, <1>2

-----------------------------------------------------------------------------
(***************************************************************************)
(* A copy of a trade that can be dereferenced and, at a time, reported:    *)
(* a failure without a message is the one of a late Complete.              *)
(***************************************************************************)
Sound(t, time) ==
  /\ t \in TradeRecord
  /\ WellFormed(t)
  /\ SwapFailMessagePanics(t) => IsExpired(t, time)

\* A new trade is sound at any time (trade.go, NewTrade).
LEMMA NewTradeSound == \A time \in Nat : Sound(NewTrade, time)
  BY NewTradeFact DEF Sound, SwapFailMessagePanics, NewTrade

\* A deadline that has passed stays passed.
LEMMA SoundLater ==
  ASSUME NEW t, NEW time \in Nat, NEW later \in Nat, time <= later, Sound(t, time)
  PROVE  Sound(t, later)
  BY DEF Sound, IsExpired, TradeRecord

\* Fail adds the message, unless the trade has failed before (trade.go, Fail).
LEMMA FailSound ==
  ASSUME NEW t, NEW time \in Nat, Sound(t, time)
  PROVE  /\ Sound(Fail(t), time)
         /\ Fail(t).code = t.code
         /\ Fail(t).swapAccept = t.swapAccept
  <1>1. t \in TradeRecord /\ WellFormed(t)
    BY DEF Sound
  <1>2. Fail(t) \in TradeRecord /\ WellFormed(Fail(t))
    BY <1>1, FailFact
  <1>3. /\ Fail(t).code = t.code
        /\ Fail(t).swapAccept = t.swapAccept
        /\ Fail(t) # t => Fail(t).swapFail
    BY <1>1 DEF Fail, TradeRecord
  <1> QED BY <1>2, <1>3 DEF Sound, SwapFailMessagePanics

\* Propose on a new trade leaves a proposal, or an empty trade, that has not
\* been accepted (trade.go, Propose).
LEMMA ProposeSound ==
  ASSUME NEW valid \in BOOLEAN, NEW time \in Nat \ {0},
         NEW r, r = Propose(NewTrade, TRUE, valid, time).trade
  PROVE  Sound(r, time) /\ r.code = TradeStatusCodeProposal
  <1> DEFINE p == [NewTrade EXCEPT !.requestTime = time,
                                   !.code = TradeStatusCodeProposal]
  <1>1. r = p \/ r = Fail(p)
    BY DEF Propose, Returns, NewTrade
  <1>2. /\ p \in TradeRecord
        /\ p.code = TradeStatusCodeProposal /\ p.requestTime = time
        /\ p.expiryTime = 0 /\ ~p.failed /\ ~p.swapAccept /\ ~p.swapComplete
        /\ ~p.swapFail
    <2>1. /\ p \in TradeRecord
          /\ p.code = TradeStatusCodeProposal /\ p.requestTime = time
          /\ p.expiryTime = NewTrade.expiryTime /\ p.failed = NewTrade.failed
          /\ p.swapAccept = NewTrade.swapAccept
          /\ p.swapComplete = NewTrade.swapComplete
          /\ p.swapFail = NewTrade.swapFail
      BY Zenon, NewTradeFact, ProposalUpdate
    <2> HIDE DEF p
    <2> QED BY <2>1 DEF NewTrade
  <1> HIDE DEF p
  <1>3. Sound(p, time)
    BY <1>2 DEF Sound, WellFormed, IsCompleted, IsSettled, SwapFailMessagePanics
  <1> QED BY <1>1, <1>2, <1>3, FailSound

\* Accept leaves an accepted trade when it succeeds, and no further one
\* (trade.go, Accept).
LEMMA AcceptSound ==
  ASSUME NEW t, NEW time \in Nat, Sound(t, time),
         t.code <= TradeStatusCodeAccepted,
         NEW expiry \in Nat, NEW valid \in BOOLEAN
  PROVE  LET a == Accept(t, expiry, valid)
         IN  /\ Sound(a.trade, time)
             /\ a.trade.code <= TradeStatusCodeAccepted
             /\ a.ok => a.trade.swapAccept
  <1> DEFINE a == Accept(t, expiry, valid)
  <1>1. t \in TradeRecord /\ WellFormed(t) /\ t.code \in Nat
    BY DEF Sound, TradeRecord
  <1>2. CASE a = Returns(TRUE, t) /\ t.code >= TradeStatusCodeAccepted
    BY <1>1, <1>2 DEF Returns, WellFormed
  <1>3. CASE a = Returns(FALSE, t) \/ a = Returns(FALSE, Fail(t))
    BY <1>3, FailSound DEF Returns
  <1>4. CASE ~(t.code >= TradeStatusCodeAccepted) /\ a.ok
    <2> DEFINE r == [t EXCEPT !.expiryTime = expiry,
                              !.code = TradeStatusCodeAccepted,
                              !.swapAccept = TRUE]
    <2>1. a = Returns(TRUE, r)
      BY <1>4 DEF Accept, Returns
    <2>2. a.trade = r
      BY <2>1 DEF Returns
    <2>3. r \in TradeRecord /\ WellFormed(r)
      BY <1>1, <2>2, AcceptFact
    <2>4. /\ r.code = TradeStatusCodeAccepted /\ r.swapAccept = TRUE
          /\ r.failed = t.failed /\ r.swapFail = t.swapFail
      BY <1>1, AcceptedUpdate
    <2>5. ~IsExpired(t, time)
      BY <1>1, <1>4 DEF IsExpired, WellFormed, TradeRecord
    <2>6. ~SwapFailMessagePanics(r)
      BY <2>4, <2>5 DEF Sound, SwapFailMessagePanics
    <2> QED BY <2>2, <2>3, <2>4, <2>6 DEF Sound
  <1>5. \/ a = Returns(TRUE, t) /\ t.code >= TradeStatusCodeAccepted
        \/ a = Returns(FALSE, t) \/ a = Returns(FALSE, Fail(t))
        \/ ~(t.code >= TradeStatusCodeAccepted) /\ a.ok
    BY DEF Accept, Returns
  <1> QED BY <1>2, <1>3, <1>4, <1>5

\* Complete fails a trade without a message only if it is late
\* (trade.go, Complete).
LEMMA CompleteSound ==
  ASSUME NEW t, NEW time \in Nat, Sound(t, time), t.swapAccept,
         NEW valid \in BOOLEAN,
         NEW r, r = Complete(t, valid, time).trade
  PROVE  /\ Sound(r, time)
         /\ r.swapAccept
         /\ IsSettled(r) => IsSettled(t)
  <1>1. t \in TradeRecord /\ WellFormed(t)
    BY DEF Sound
  <1>2. /\ r \in TradeRecord /\ WellFormed(r)
        /\ r = t \/ FailMove(t, r) \/ CompleteMove(t, r, time)
    BY <1>1, CompleteFact
  <1>3. r.swapAccept /\ (IsSettled(r) => IsSettled(t))
    BY <1>1, <1>2 DEF FailMove, CompleteMove, WellFormed, IsAccepted, IsCompleted,
                      IsSettled, TradeRecord
  <1>4. SwapFailMessagePanics(r) => IsExpired(r, time)
    <2>1. CASE r = t \/ r = Fail(t)
      BY <2>1, FailSound DEF Sound
    <2>2. CASE IsAccepted(t) /\ IsExpired(t, time) /\ r = [t EXCEPT !.failed = TRUE]
      BY <1>1, <2>2 DEF IsExpired, TradeRecord
    <2>3. CASE /\ IsAccepted(t) /\ ~IsExpired(t, time)
               /\ r = [t EXCEPT !.code = TradeStatusCodeCompleted,
                                !.swapComplete = TRUE]
      <3>1. r.failed = t.failed /\ r.swapFail = t.swapFail
        BY <1>1, <2>3, Zenon, CompletedUpdate
      <3> QED BY <2>3, <3>1 DEF Sound, SwapFailMessagePanics
    <2> QED BY <2>1, <2>2, <2>3 DEF Complete, Returns
  <1> QED BY <1>2, <1>3, <1>4 DEF Sound

\* Settle changes only a trade that has not failed (trade.go, Settle).
LEMMA SettleSound ==
  ASSUME NEW t, NEW time \in Nat, Sound(t, time), t.swapAccept,
         NEW r, r = Settle(t).trade
  PROVE  Sound(r, time) /\ r.swapAccept
  <1>1. t \in TradeRecord /\ WellFormed(t)
    BY DEF Sound
  <1>2. r \in TradeRecord /\ WellFormed(r) /\ (r = t \/ SettleMove(t, r))
    BY <1>1, SettleFact
  <1>3. r.swapAccept
    BY <1>2 DEF SettleMove, IsSettled, WellFormed
  <1> QED BY <1>2, <1>3 DEF Sound, SettleMove, SwapFailMessagePanics

\* Expire leaves an expired trade when it succeeds and the trade otherwise; it
\* settles none (trade.go, Expire).
LEMMA ExpireSound ==
  ASSUME NEW t, NEW time \in Nat, Sound(t, time), t.swapAccept,
         NEW e, e = Expire(t, time)
  PROVE  /\ Sound(e.trade, time)
         /\ e.trade.swapAccept
         /\ e.ok => e.trade.code = TradeStatusCodeExpired
         /\ IsSettled(e.trade) => IsSettled(t)
  <1>1. t \in TradeRecord /\ WellFormed(t)
    BY DEF Sound
  <1>2. /\ e.trade \in TradeRecord /\ WellFormed(e.trade)
        /\ e.trade = t \/ ExpireMove(t, e.trade, time)
    BY <1>1, ExpireFact
  <1>3. e.ok => e.trade.code = TradeStatusCodeExpired
    BY <1>1 DEF Expire, Returns, TradeRecord
  <1>4. CASE e.trade = t
    BY <1>3, <1>4
  <1>5. CASE ExpireMove(t, e.trade, time)
    <2>1. e.trade.code = TradeStatusCodeExpired
      BY <1>5 DEF ExpireMove
    <2> QED BY <1>2, <1>3, <2>1 DEF Sound, IsExpired, IsSettled, WellFormed
  <1> QED BY <1>2, <1>4, <1>5
=============================================================================
