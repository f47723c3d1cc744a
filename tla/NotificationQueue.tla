------------------------- MODULE NotificationQueue -------------------------
(***************************************************************************)
(* The queue of notification handlers of the wallet service and the one    *)
(* goroutine that serves it (internal/core/application/wallet: pushBack,   *)
(* pop and len of the queue, listenToUtxoNotifications and its twin        *)
(* listenToTxNotifications).                                               *)
(*                                                                         *)
(* The queue is locked by pushBack and by pop, not by len, and not for the *)
(* length of a round: handlers are registered while the goroutine works.   *)
(***************************************************************************)
EXTENDS Naturals, Sequences, Functions

CONSTANTS Handlers,     \* the handlers that may be registered
          NoHandler     \* what pop returns when the queue is empty

ASSUME QueueAssumption == NoHandler \notin Handlers

VARIABLES
  handlers,     \* the list of the queue
  listener      \* pc, numHandlers minus i, the handler it runs, toRepeat

queueVars == <<handlers, listener>>

ListenerRecord ==
  [pc       : {"recv", "pop", "call", "repeat"},
   left     : Nat,
   handler  : Handlers \cup {NoHandler},
   toRepeat : Seq(Handlers)]

Listening ==
  [pc |-> "recv", left |-> 0, handler |-> NoHandler, toRepeat |-> <<>>]

QueueInit ==
  /\ handlers = <<>>
  /\ listener = Listening

\* Where the goroutine goes on with left pops to do and toRepeat collected.
GoOn(left, toRepeat) ==
  [pc       |-> IF left > 0 THEN "pop"
                ELSE IF toRepeat # <<>> THEN "repeat" ELSE "recv",
   left     |-> left,
   handler  |-> NoHandler,
   toRepeat |-> toRepeat]

\* Where a handler can be found until it is done.
InUse == Range(handlers) \cup Range(listener.toRepeat)
           \cup ({listener.handler} \ {NoHandler})

PushBack(h) ==
  /\ handlers' = Append(handlers, h)
  /\ UNCHANGED listener

\* Mutated form of Receive: one pop too many.
ReceiveOneMore ==
  /\ listener.pc = "recv"
  /\ listener' = GoOn(Len(handlers) + 1, <<>>)
  /\ UNCHANGED handlers

\* A notification is taken from the channel: numHandlers is read once.
Receive ==
  /\ listener.pc = "recv"
  /\ listener' = GoOn(Len(handlers), <<>>)
  /\ UNCHANGED handlers

Pop ==
  /\ listener.pc = "pop"
  /\ IF handlers = <<>>
     THEN /\ listener' = [listener EXCEPT !.pc = "call", !.handler = NoHandler]
          /\ UNCHANGED handlers
     ELSE /\ listener' = [listener EXCEPT !.pc = "call",
                                          !.handler = Head(handlers)]
          /\ handlers' = Tail(handlers)

\* Mutated forms of Return: a handler that is done is repeated; the handlers to
\* repeat are put back while the round goes on, until none is left.
ReturnAlwaysRepeat(done) ==
  /\ listener.pc = "call"
  /\ listener' = GoOn(listener.left - 1,
                      Append(listener.toRepeat, listener.handler))
  /\ UNCHANGED handlers
ReturnPuttingBack(done) ==
  /\ listener.pc = "call"
  /\ handlers' = IF done THEN handlers ELSE Append(handlers, listener.handler)
  /\ listener' = GoOn(Len(handlers'), <<>>)

Return(done) ==
  /\ listener.pc = "call"
  /\ listener' = GoOn(listener.left - 1,
                      IF done THEN listener.toRepeat
                      ELSE Append(listener.toRepeat, listener.handler))
  /\ UNCHANGED handlers

\* Mutated form of Repeat: a handler of toRepeat is skipped.
RepeatLosing ==
  /\ listener.pc = "repeat"
  /\ handlers' = handlers
  /\ listener' = GoOn(0, Tail(listener.toRepeat))

Repeat ==
  /\ listener.pc = "repeat"
  /\ handlers' = Append(handlers, Head(listener.toRepeat))
  /\ listener' = GoOn(0, Tail(listener.toRepeat))

-----------------------------------------------------------------------------
(***************************************************************************)
(* The queue on its own: any handler registers at any time, notifications  *)
(* keep arriving, a handler answers as it likes.                           *)
(***************************************************************************)
QueueNext ==
  \/ \E h \in Handlers \ InUse : PushBack(h)
  \/ Receive
  \/ Pop
  \/ \E done \in BOOLEAN : Return(done)
  \/ Repeat

QueueSpec == QueueInit /\ [][QueueNext]_queueVars

\* The goroutine takes every step of its loops and every handler returns.
QueueFairSpec ==
  /\ QueueSpec
  /\ WF_queueVars(Pop)
  /\ WF_queueVars(\E done \in BOOLEAN : Return(done))
  /\ WF_queueVars(Repeat)

\* The queue holds handlers and the listener is a listener record.
QueueTypeOK ==
  /\ handlers \in Seq(Handlers)
  /\ listener \in ListenerRecord

\* The goroutine never calls the nil that pop returns for an empty queue, even
\* though len is read without the lock and registrations go on meanwhile
\* (wallet/service.go, listenToUtxoNotifications; wallet/types.go, len, pop).
NeverCallsNil ==
  /\ listener.pc = "pop" => listener.left <= Len(handlers)
  /\ listener.pc = "call" => listener.handler # NoHandler

\* A round ends however many handlers are registered while it runs, because
\* the number of pops was fixed when it started
\* (wallet/service.go, listenToUtxoNotifications).
RoundEnds == listener.pc # "recv" ~> listener.pc = "recv"

-----------------------------------------------------------------------------
\* The handlers the current notification is still owed to.
Owed ==
  IF listener.pc \in {"pop", "call"}
  THEN LET popped == IF listener.pc = "call" THEN 1 ELSE 0
       IN  {handlers[i] : i \in 1..(listener.left - popped)}
             \cup ({listener.handler} \ {NoHandler})
  ELSE {}

H == INSTANCE NotificationHandlers WITH registered <- InUse, pending <- Owed

\* The queue gives every notification to every handler registered before it,
\* exactly once, and loses no handler that is not done
\* (wallet/service.go, listenToUtxoNotifications).
ImplementsHandlers == H!Spec
=============================================================================
