---------------------------- MODULE TradeService ----------------------------
(***************************************************************************)
(* The trade service of the daemon (internal/core/application/trade) over  *)
(* its repository, the wallet service and the ocean wallet: the RPCs       *)
(* TradePropose and TradeComplete, the handlers that settle or expire a    *)
(* trade when its coins change, and the check made at start-up.            *)
(*                                                                         *)
(* Everything that runs between two accesses to shared state (a repository *)
(* call, a wallet call, a queue operation) is one step; RPCs, the          *)
(* notification goroutine, the start-up check, the wallet and the trader   *)
(* interleave at these points.                                             *)
(***************************************************************************)
EXTENDS Trade, OceanWallet, NotificationQueue

CONSTANTS
  Calls,        \* TradeComplete RPCs that may be made
  NoTrade,      \* the absent trade of a failed lookup
  MaxTime,      \* last value of the clock
  MaxFaults     \* crashes and failed writes of the database

ASSUME ServiceAssumption ==
  /\ Handlers = Trades
  /\ NoTrade \notin TradeRecord
  /\ MaxTime \in Nat \ {0}
  /\ MaxFaults \in Nat

VARIABLES
  now,
  stored,       \* the trade repository
  proposals,    \* the TradePropose RPC that creates each trade
  inputs,       \* the coins selected for each trade
  calls,        \* the TradeComplete RPCs
  event,        \* the notification the goroutine is serving
  update,       \* the trade the running handler is about to write
  published,    \* settled events published for each trade
  daemon,       \* "up" or "down"
  check,        \* the start-up check: its pc and the trades it will write
  faults

dbVars == <<stored, faults>>
proposeVars == <<proposals, inputs>>
handlerVars == <<event, update, published>>
processVars == <<daemon, check>>
vars == <<now, oceanVars, queueVars, dbVars, proposeVars, calls, handlerVars,
          processVars>>

ProposalRecord ==
  [pc : {"idle", "selectMarket", "selectFee", "sign", "register",
         "addAccepted", "addRejected", "accepted", "rejected"},
   trade : TradeRecord,
   unlockTime : Nat]

NoEvent == [type |-> "LOCKED", utxos |-> {}]

Proposal(pc, trade, unlockTime) ==
  [pc |-> pc, trade |-> trade, unlockTime |-> unlockTime]
Call(pc, id, trade) == [pc |-> pc, id |-> id, trade |-> trade]

Init ==
  /\ now = 1
  /\ OceanInit
  /\ QueueInit
  /\ stored = [t \in Trades |-> NoTrade]
  /\ proposals = [t \in Trades |-> Proposal("idle", NewTrade, 0)]
  /\ inputs = [t \in Trades |-> {}]
  /\ calls = [c \in Calls |-> Call("idle", NoTrade, NewTrade)]
  /\ event = NoEvent
  /\ update = NoTrade
  /\ published = [t \in Trades |-> 0]
  /\ daemon = "up"
  /\ check = [pc |-> "scan", expired |-> <<>>]
  /\ faults = 0

Up == daemon = "up"

\* A write to the repository: the value is stored, or the database fails.
Write(t, trade) ==
  \/ stored' = [stored EXCEPT ![t] = trade] /\ UNCHANGED faults
  \/ faults < MaxFaults /\ faults' = faults + 1 /\ UNCHANGED stored

-----------------------------------------------------------------------------
(***************************************************************************)
(* TradePropose.  A market that is not found or not open, or a balance     *)
(* that cannot be fetched, ends the RPC before there is a trade.  From     *)
(* then on the deferred AddTrade is the last thing the RPC does.           *)
(***************************************************************************)
ProposalIs(t, pc) == Up /\ proposals[t].pc = pc

TradePropose(t) ==
  /\ ProposalIs(t, "idle")
  /\ \E priceInRange, valid \in BOOLEAN :
       LET proposed == IF priceInRange
                       THEN Propose(NewTrade, TRUE, valid, now)
                       ELSE Returns(FALSE, Fail(NewTrade))
           pc == IF proposed.ok THEN "selectMarket" ELSE "addRejected"
       IN  proposals' = [proposals EXCEPT ![t] = Proposal(pc, proposed.trade, 0)]
  /\ UNCHANGED <<now, oceanVars, queueVars, dbVars, inputs, calls,
                 handlerVars, processVars>>

\* Mutated form of CompleteSwapSelectFee: the deadline of the trade is the one
\* of the second selection.
SelectFeeSettingDeadline(t) ==
  /\ ProposalIs(t, "selectFee")
  /\ \E utxos \in SUBSET Spendable(FeeUtxos) \ {{}} :
       /\ SelectUtxos(utxos, now)
       /\ inputs' = [inputs EXCEPT ![t] = @ \cup utxos]
  /\ proposals' = [proposals EXCEPT
                     ![t] = Proposal("sign", @.trade, now + LockTime)]
  /\ UNCHANGED <<now, queueVars, dbVars, calls, handlerVars, processVars>>

\* CompleteSwap selects coins of the market, whose deadline becomes the one of
\* the trade, then coins of the fee account, whose deadline is discarded.
CompleteSwapSelectMarket(t) ==
  /\ ProposalIs(t, "selectMarket")
  /\ \E utxos \in SUBSET Spendable(MarketUtxos) \ {{}} :
       /\ SelectUtxos(utxos, now)
       /\ inputs' = [inputs EXCEPT ![t] = utxos]
  /\ proposals' = [proposals EXCEPT
                     ![t] = Proposal("selectFee", @.trade, now + LockTime)]
  /\ UNCHANGED <<now, queueVars, dbVars, calls, handlerVars, processVars>>

CompleteSwapSelectFee(t) ==
  /\ ProposalIs(t, "selectFee")
  /\ \E utxos \in SUBSET Spendable(FeeUtxos) \ {{}} :
       /\ SelectUtxos(utxos, now)
       /\ inputs' = [inputs EXCEPT ![t] = @ \cup utxos]
  /\ proposals' = [proposals EXCEPT
                     ![t] = Proposal("sign", @.trade, @.unlockTime)]
  /\ UNCHANGED <<now, queueVars, dbVars, calls, handlerVars, processVars>>

\* Any of the wallet calls of CompleteSwap fails: what is locked stays locked
\* and the trade stays a proposal.
CompleteSwapFails(t) ==
  /\ Up
  /\ proposals[t].pc \in {"selectMarket", "selectFee", "sign"}
  /\ proposals' = [proposals EXCEPT
                     ![t] = Proposal("addRejected", @.trade, @.unlockTime)]
  /\ UNCHANGED <<now, oceanVars, queueVars, dbVars, inputs, calls,
                 handlerVars, processVars>>

\* The transaction is updated, blinded and signed, and the trade accepted.
AcceptTrade(t) ==
  /\ ProposalIs(t, "sign")
  /\ \E valid \in BOOLEAN :
       LET accepted == Accept(proposals[t].trade, proposals[t].unlockTime, valid)
           pc == IF accepted.ok THEN "register" ELSE "addRejected"
       IN  proposals' = [proposals EXCEPT
                           ![t] = Proposal(pc, accepted.trade, @.unlockTime)]
  /\ UNCHANGED <<now, oceanVars, queueVars, dbVars, inputs, calls,
                 handlerVars, processVars>>

RegisterHandler(t) ==
  /\ ProposalIs(t, "register")
  /\ PushBack(t)
  /\ proposals' = [proposals EXCEPT
                     ![t] = Proposal("addAccepted", @.trade, @.unlockTime)]
  /\ UNCHANGED <<now, oceanVars, dbVars, inputs, calls, handlerVars,
                 processVars>>

\* The deferred AddTrade: an error is only logged, the reply is not changed.
AddTrade(t) ==
  /\ ProposalIs(t, "addAccepted") \/ ProposalIs(t, "addRejected")
  /\ Write(t, proposals[t].trade)
  /\ LET pc == IF ProposalIs(t, "addAccepted") THEN "accepted" ELSE "rejected"
     IN  proposals' = [proposals EXCEPT
                         ![t] = Proposal(pc, NewTrade, @.unlockTime)]
  /\ UNCHANGED <<now, oceanVars, queueVars, inputs, calls, handlerVars,
                 processVars>>

-----------------------------------------------------------------------------
(***************************************************************************)
(* TradeComplete, with a SwapComplete message or with a SwapFail one.  The *)
(* trade that is read at the start is what is written at the end.          *)
(***************************************************************************)
CanCall(c, t) ==
  /\ Up
  /\ calls[c].pc = "idle"
  /\ proposals[t].pc = "accepted"
  /\ stored[t] # NoTrade

TradeComplete(c, t) ==
  /\ CanCall(c, t)
  /\ ~IsExpired(stored[t], now)
  /\ calls' = [calls EXCEPT ![c] = Call("complete", t, stored[t])]
  /\ UNCHANGED <<now, oceanVars, queueVars, dbVars, proposeVars, handlerVars,
                 processVars>>

CompleteTrade(c) ==
  /\ Up
  /\ calls[c].pc = "complete"
  /\ \E valid \in BOOLEAN :
       LET completed == Complete(calls[c].trade, valid, now)
           pc == IF completed.ok THEN "broadcast" ELSE "update"
       IN  calls' = [calls EXCEPT ![c] = Call(pc, @.id, completed.trade)]
  /\ UNCHANGED <<now, oceanVars, queueVars, dbVars, proposeVars, handlerVars,
                 processVars>>

\* The wallet broadcasts the transaction of the trade (none, if the trade was
\* settled before it was completed).  An error may come back for a transaction
\* that did reach the chain.
BroadcastTransaction(c) ==
  /\ Up
  /\ calls[c].pc = "broadcast"
  /\ \E onChain, ok \in BOOLEAN :
       /\ onChain => calls[c].trade.swapComplete
       /\ ok => onChain
       /\ IF onChain THEN Spend(calls[c].id, inputs[calls[c].id])
                     ELSE UNCHANGED oceanVars
       /\ calls' = [calls EXCEPT
                      ![c] = Call("update", @.id,
                                  IF ok THEN @.trade ELSE Fail(@.trade))]
  /\ UNCHANGED <<now, queueVars, dbVars, proposeVars, handlerVars,
                 processVars>>

tradeFail(c, t) ==
  /\ CanCall(c, t)
  /\ calls' = [calls EXCEPT ![c] = Call("update", t, Fail(stored[t]))]
  /\ UNCHANGED <<now, oceanVars, queueVars, dbVars, proposeVars, handlerVars,
                 processVars>>

UpdateTrade(c) ==
  /\ Up
  /\ calls[c].pc = "update"
  /\ Write(calls[c].id, calls[c].trade)
  /\ calls' = [calls EXCEPT ![c] = Call("done", NoTrade, NewTrade)]
  /\ UNCHANGED <<now, oceanVars, queueVars, proposeVars, handlerVars,
                 processVars>>

-----------------------------------------------------------------------------
(***************************************************************************)
(* The notification goroutine.  The stream reader hands a notification     *)
(* over only if the goroutine is waiting for one, and drops it otherwise.  *)
(***************************************************************************)
ReceiveNotification ==
  /\ Up
  /\ stream # <<>>
  /\ stream' = Tail(stream)
  /\ \/ /\ Receive
        /\ event' = IF handlers = <<>> THEN event ELSE Head(stream)
     \/ /\ listener.pc # "recv"
        /\ UNCHANGED <<queueVars, event>>
  /\ UNCHANGED <<now, lockedUntil, spender, seen, confirmed, dbVars, proposeVars,
                 calls, update, published, processVars>>

PopHandler ==
  /\ Up
  /\ Pop
  /\ UNCHANGED <<now, oceanVars, dbVars, proposeVars, calls, handlerVars,
                 processVars>>

\* The event variable is meaningful only during a round.
EndOfRound == event' = IF listener'.pc = "recv" THEN NoEvent ELSE event

\* The daemon process ends: RPCs, handlers and the stream are gone.
Die ==
  /\ daemon' = "down"
  /\ stream' = <<>>
  /\ handlers' = <<>>
  /\ listener' = Listening
  /\ proposals' = [t \in Trades |->
                     IF proposals[t].pc \in {"idle", "accepted", "rejected"}
                     THEN proposals[t]
                     ELSE Proposal("rejected", NewTrade, 0)]
  /\ calls' = [c \in Calls |-> IF calls[c].pc = "idle" THEN calls[c]
                                ELSE Call("done", NoTrade, NewTrade)]
  /\ event' = NoEvent
  /\ update' = NoTrade
  /\ check' = [pc |-> "scan", expired |-> <<>>]
  /\ UNCHANGED <<now, lockedUntil, spender, seen, confirmed, stored, inputs,
                 published>>

\* The handler made by makeTradeSettledOrExpired for the trade it is popped for.
Concerned(t) == inputs[t] \cap event.utxos # {}

\* Mutated form of SettledOrExpired: whatever is not an unlock is a settlement.
SettledUnlessUnlocked(trade) ==
  IF event.type = "UNLOCKED" THEN Expire(trade, now).trade
                             ELSE Settle(trade).trade

SettledOrExpired(trade) ==
  CASE event.type = "SPENT"    -> Settle(trade).trade
    [] event.type = "UNLOCKED" -> Expire(trade, now).trade
    [] OTHER                   -> trade

HandlerRuns == Up /\ listener.pc = "call" /\ update = NoTrade

HandlerSkips ==
  /\ HandlerRuns
  /\ ~Concerned(listener.handler)
  /\ Return(FALSE)
  /\ EndOfRound
  /\ UNCHANGED <<now, oceanVars, dbVars, proposeVars, calls, update, published,
                 processVars>>

HandlerReads ==
  /\ HandlerRuns
  /\ Concerned(listener.handler)
  /\ stored[listener.handler] # NoTrade
  /\ update' = SettledOrExpired(stored[listener.handler])
  /\ UNCHANGED <<now, oceanVars, queueVars, dbVars, proposeVars, calls, event,
                 published, processVars>>

\* Mutated form of HandlerPanics: the handler goes on with an empty trade.
HandlerUsesEmptyTrade ==
  /\ HandlerRuns
  /\ Concerned(listener.handler)
  /\ stored[listener.handler] = NoTrade
  /\ update' = NewTrade
  /\ UNCHANGED <<now, oceanVars, queueVars, dbVars, proposeVars, calls, event,
                 published, processVars>>

\* The lookup fails, its error is ignored and the nil trade is dereferenced.
HandlerPanics ==
  /\ HandlerRuns
  /\ Concerned(listener.handler)
  /\ stored[listener.handler] = NoTrade
  /\ Die
  /\ UNCHANGED faults

\* The error of UpdateTrade is ignored.
HandlerWrites ==
  /\ Up
  /\ update # NoTrade
  /\ Write(listener.handler, update)
  /\ published' = [published EXCEPT
                     ![listener.handler] = @ + IF IsSettled(update) THEN 1 ELSE 0]
  /\ update' = NoTrade
  /\ Return(TRUE)
  /\ EndOfRound
  /\ UNCHANGED <<now, oceanVars, proposeVars, calls, processVars>>

RepeatHandler ==
  /\ Up
  /\ Repeat
  /\ EndOfRound
  /\ UNCHANGED <<now, oceanVars, dbVars, proposeVars, calls, update, published,
                 processVars>>

-----------------------------------------------------------------------------
(***************************************************************************)
(* Crash, restart and checkForPendingTrades, which runs beside the RPCs:   *)
(* it reads all the trades, then writes back the ones it found expired.    *)
(* The handlers it makes for the others are never registered.              *)
(***************************************************************************)
Crash ==
  /\ Up
  /\ faults < MaxFaults
  /\ faults' = faults + 1
  /\ Die

Restart ==
  /\ ~Up
  /\ daemon' = "up"
  /\ UNCHANGED <<now, oceanVars, queueVars, dbVars, proposeVars, calls,
                 handlerVars, check>>

Pending(t) ==
  stored[t] # NoTrade /\ (IsAccepted(stored[t]) \/ IsCompleted(stored[t]))

CheckScans ==
  /\ Up
  /\ check.pc = "scan"
  /\ LET late == {t \in Trades : Pending(t) /\ Expire(stored[t], now).ok}
     IN  check' = [pc |-> "write",
                   expired |-> [t \in late |-> Expire(stored[t], now).trade]]
  /\ UNCHANGED <<now, oceanVars, queueVars, dbVars, proposeVars, calls,
                 handlerVars, daemon>>

CheckWrites(t) ==
  /\ Up
  /\ t \in DOMAIN check.expired
  /\ Write(t, check.expired[t])
  /\ check' = [check EXCEPT
                 !.expired = [u \in DOMAIN @ \ {t} |-> check.expired[u]]]
  /\ UNCHANGED <<now, oceanVars, queueVars, proposeVars, calls, handlerVars,
                 daemon>>

-----------------------------------------------------------------------------
(***************************************************************************)
(* The environment: the trader, who holds a transaction only their own     *)
(* signature is missing from once the trade is accepted; the wallet; time. *)
(***************************************************************************)
TraderBroadcasts(t) ==
  /\ proposals[t].pc = "accepted"
  /\ \A u \in inputs[t] : spender[u] = Nobody
  /\ Spend(t, inputs[t])
  /\ UNCHANGED <<now, queueVars, dbVars, proposeVars, calls, handlerVars,
                 processVars>>

WalletUnlocks ==
  /\ UnlockExpired(now, Up)
  /\ UNCHANGED <<now, queueVars, dbVars, proposeVars, calls, handlerVars,
                 processVars>>

WalletSees(t) ==
  /\ SeeSpent(t, Up) \/ SeeConfirmed(t, Up)
  /\ UNCHANGED <<now, queueVars, dbVars, proposeVars, calls, handlerVars,
                 processVars>>

Tick ==
  /\ now < MaxTime
  /\ now' = now + 1
  /\ UNCHANGED <<oceanVars, queueVars, dbVars, proposeVars, calls, handlerVars,
                 processVars>>

Next ==
  \/ \E t \in Trades : TradePropose(t)
  \/ \E t \in Trades : CompleteSwapSelectMarket(t)
  \/ \E t \in Trades : CompleteSwapSelectFee(t)
  \/ \E t \in Trades : CompleteSwapFails(t)
  \/ \E t \in Trades : AcceptTrade(t)
  \/ \E t \in Trades : RegisterHandler(t)
  \/ \E t \in Trades : AddTrade(t)
  \/ \E c \in Calls, t \in Trades : TradeComplete(c, t)
  \/ \E c \in Calls : CompleteTrade(c)
  \/ \E c \in Calls : BroadcastTransaction(c)
  \/ \E c \in Calls, t \in Trades : tradeFail(c, t)
  \/ \E c \in Calls : UpdateTrade(c)
  \/ ReceiveNotification
  \/ PopHandler
  \/ HandlerSkips
  \/ HandlerReads
  \/ HandlerPanics
  \/ HandlerWrites
  \/ RepeatHandler
  \/ Crash
  \/ Restart
  \/ CheckScans
  \/ \E t \in Trades : CheckWrites(t)
  \/ \E t \in Trades : TraderBroadcasts(t)
  \/ WalletUnlocks
  \/ \E t \in Trades : WalletSees(t)
  \/ Tick

Spec == Init /\ [][Next]_vars

\* RPCs in progress, the notification goroutine, the stream reader, the wallet
\* and the clock keep going; nothing obliges anyone to start an RPC, to
\* broadcast or to crash.
FairSpec ==
  /\ Spec
  /\ \A t \in Trades : /\ WF_vars(AcceptTrade(t))
                       /\ WF_vars(RegisterHandler(t))
                       /\ WF_vars(AddTrade(t))
                       /\ WF_vars(WalletSees(t))
  /\ \A c \in Calls : /\ WF_vars(CompleteTrade(c))
                      /\ WF_vars(BroadcastTransaction(c))
                      /\ WF_vars(UpdateTrade(c))
  /\ WF_vars(ReceiveNotification)
  /\ WF_vars(PopHandler)
  /\ WF_vars(HandlerSkips)
  /\ WF_vars(HandlerReads)
  /\ WF_vars(HandlerWrites)
  /\ WF_vars(RepeatHandler)
  /\ WF_vars(Restart)
  /\ WF_vars(WalletUnlocks)
  /\ WF_vars(Tick)

-----------------------------------------------------------------------------
\* The deadline a selection of coins gave to a trade has not been reached.
Live(t) == proposals[t].unlockTime > now

\* Until the deadline of a trade is reached each of its coins is locked at least
\* until then, or the wallet knows it is spent: no coin outlives its lock while
\* the trader can still complete the trade, though the coins are locked by two
\* selections made at two times and only the first deadline is kept
\* (wallet/service.go, CompleteSwap; trade.go, Accept).
CoinsStayReserved ==
  \A t \in Trades : Live(t) =>
    \A u \in inputs[t] :
      lockedUntil[u] >= proposals[t].unlockTime \/ spender[u] \in seen

\* The coins reserved for a trade serve no other trade until its deadline, so
\* the daemon never promises the same coin to two traders at once
\* (wallet/service.go, CompleteSwap; config.go, TradeExpiryTimeKey).
LiveTradesDisjoint ==
  \A t, u \in Trades :
    t # u /\ Live(t) /\ Live(u) => inputs[t] \cap inputs[u] = {}

\* A trade is Settled, in the repository or in the hands of the handler, or is
\* announced as such, only if one of its coins is spent on the chain, whatever
\* the order in which notifications, RPCs, crashes and the start-up check come
\* (trading.go, makeTradeSettledOrExpired).
SettledMeansSpent ==
  \A t \in Trades :
    \/ stored[t] # NoTrade /\ IsSettled(stored[t])
    \/ update # NoTrade /\ IsSettled(update) /\ listener.handler = t
    \/ published[t] > 0
    => \E u \in inputs[t] : spender[u] # Nobody

\* Every copy of a trade, in the repository or in the hands of an RPC, of the
\* handler or of the start-up check, has the shape its status promises, so that
\* none of them dereferences a missing message (trade.go, trading.go).
CopiesWellFormed ==
  /\ \A t \in Trades : /\ WellFormed(proposals[t].trade)
                       /\ stored[t] # NoTrade => WellFormed(stored[t])
  /\ \A c \in Calls : WellFormed(calls[c].trade)
  /\ update # NoTrade => WellFormed(update)
  /\ \A t \in DOMAIN check.expired : WellFormed(check.expired[t])

\* A settled event is published at most once for a trade
\* (trading.go, makeTradeSettledOrExpired).
SettledEventOnce == \A t \in Trades : published[t] <= 1

\* The SwapFail message TradeComplete replies with can be read, unless the
\* deadline passed while the RPC was under way: only the expired branch of
\* Complete fails a trade without a message, which SwapFailMessage then reads
\* through a nil pointer (trade.go, Complete and SwapFailMessage).
FailureCanBeReported ==
  \A c \in Calls :
    calls[c].pc = "update" /\ SwapFailMessagePanics(calls[c].trade)
      => IsExpired(calls[c].trade, now)

\* An acceptance is never taken back: once a trade is stored with its
\* SwapAccept message it keeps it, though RPCs, handler and start-up check
\* overwrite the whole record with copies they read earlier (trading.go,
\* UpdateTrade callers).
AcceptanceIsKept ==
  [][\A t \in Trades :
       stored[t] # NoTrade /\ stored[t].swapAccept =>
         stored'[t] # NoTrade /\ stored'[t].swapAccept]_vars

-----------------------------------------------------------------------------
(***************************************************************************)
(* What the command line promises and the code does not keep.              *)
(***************************************************************************)

\* "triggers the webhook endpoint whenever a trade is settled" (webhook.go): a
\* trade whose transaction the wallet sees before the deadline, the daemon
\* being up, is announced.
SettlementIsAnnounced ==
  \A t \in Trades :
    (Up /\ t \in seen /\ stored[t] # NoTrade /\ Live(t)) ~> published[t] > 0
=============================================================================
