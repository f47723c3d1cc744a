------------------------- MODULE TradeServiceProofs -------------------------
(***************************************************************************)
(* Three things the trade service rests on, for any number of trades,      *)
(* coins, handlers and RPCs, any lock time and any number of faults: the   *)
(* queue of notification handlers never calls nil and implements the       *)
(* delivery of NotificationHandlers; the reservation of coins is sound, so *)
(* that no coin is promised to two traders at once; and every copy of a    *)
(* trade, wherever it is held, is one the service may write back.          *)
(***************************************************************************)
EXTENDS TradeService, TradeProofs

-----------------------------------------------------------------------------
(***************************************************************************)
(* The queue of notification handlers.                                     *)
(***************************************************************************)

\* What the goroutine knows at each point: the pops it has left are in the queue,
\* whatever is registered meanwhile.
Shape ==
  /\ listener.pc = "recv" =>
       listener.left = 0 /\ listener.handler = NoHandler /\ listener.toRepeat = <<>>
  /\ listener.pc = "pop" =>
       /\ listener.left > 0 /\ listener.left <= Len(handlers)
       /\ listener.handler = NoHandler
  /\ listener.pc = "call" =>
       /\ listener.left > 0 /\ listener.left - 1 <= Len(handlers)
       /\ listener.handler \in Handlers
  /\ listener.pc = "repeat" =>
       listener.left = 0 /\ listener.handler = NoHandler /\ listener.toRepeat # <<>>

\* A sequence without repetitions.
Distinct(s) == \A m, n \in 1..Len(s) : s[m] = s[n] => m = n

\* No handler is in two places.
Once ==
  /\ Distinct(handlers)
  /\ Distinct(listener.toRepeat)
  /\ \A m \in 1..Len(handlers), n \in 1..Len(listener.toRepeat) :
       handlers[m] # listener.toRepeat[n]
  /\ \A m \in 1..Len(handlers) : handlers[m] # listener.handler
  /\ \A n \in 1..Len(listener.toRepeat) : listener.toRepeat[n] # listener.handler

\* The inductive invariant.  NeverCallsNil alone says nothing of a round while a
\* handler runs; the refinement needs that no handler is in two places.
IInv == QueueTypeOK /\ Shape /\ Once

\* The range of a sequence, by its indices.
LEMMA RangeOfSeq ==
  ASSUME NEW S, NEW s \in Seq(S)
  PROVE  Range(s) = {s[i] : i \in 1..Len(s)}
  BY DEF Range

\* What follows the head.
LEMMA TailFacts ==
  ASSUME NEW S, NEW s \in Seq(S), s # <<>>
  PROVE  /\ Head(s) = s[1] /\ Head(s) \in S
         /\ Tail(s) \in Seq(S)
         /\ Len(Tail(s)) = Len(s) - 1 /\ Len(s) \in Nat \ {0}
         /\ \A i \in 1..Len(Tail(s)) : Tail(s)[i] = s[i + 1]
  OBVIOUS

\* The first k elements.
Firsts(s, k) == {s[i] : i \in 1..k}

\* A prefix is the head and a prefix of the tail t.
LEMMA TailRange ==
  ASSUME NEW s, NEW t, Len(s) \in Nat \ {0}, Len(t) = Len(s) - 1,
         \A i \in 1..Len(t) : t[i] = s[i + 1],
         NEW k \in 1..Len(s)
  PROVE  Firsts(s, k) = Firsts(t, k - 1) \cup {s[1]}
  <1>2. ASSUME NEW i \in 1..k PROVE s[i] \in {t[j] : j \in 1..(k - 1)} \cup {s[1]}
    <2>1. CASE i = 1
      BY Zenon, <2>1
    <2>2. CASE i # 1
      <3>1. i - 1 \in 1..(k - 1) /\ i - 1 \in 1..Len(t) /\ (i - 1) + 1 = i
        BY <2>2
      <3>2. t[i - 1] = s[i]
        BY Zenon, <3>1
      <3> QED BY Zenon, <3>1, <3>2
    <2> QED BY Zenon, <2>1, <2>2
  <1>3. ASSUME NEW j \in 1..(k - 1) PROVE t[j] \in {s[i] : i \in 1..k}
    <2>1. j + 1 \in 1..k /\ t[j] = s[j + 1]
      OBVIOUS
    <2> QED BY Zenon, <2>1
  <1>4. 1 \in 1..k
    OBVIOUS
  <1> QED BY <1>2, <1>3, <1>4 DEF Firsts

\* What comes before the new last element.
LEMMA AppendFacts ==
  ASSUME NEW S, NEW s \in Seq(S), NEW e \in S
  PROVE  /\ Append(s, e) \in Seq(S)
         /\ Len(Append(s, e)) = Len(s) + 1
         /\ Append(s, e)[Len(s) + 1] = e
         /\ \A i \in 1..Len(s) : Append(s, e)[i] = s[i]
         /\ Append(s, e) # <<>>
  OBVIOUS

\* The queue starts empty (wallet/types.go).
LEMMA InitIInv == QueueInit => IInv
  BY QueueAssumption
  DEF QueueInit, Listening, IInv, QueueTypeOK, ListenerRecord, Shape, Once, Distinct

\* A registration goes to the end of the queue (wallet/types.go, pushBack).
LEMMA PushBackIInv ==
  ASSUME IInv, NEW h \in Handlers \ InUse, PushBack(h)
  PROVE  IInv'
  <1>1. handlers \in Seq(Handlers) /\ listener \in ListenerRecord
    BY Zenon DEF IInv, QueueTypeOK
  <1>2. listener' = listener /\ handlers' = Append(handlers, h)
    BY Zenon DEF PushBack
  <1>3. /\ handlers' \in Seq(Handlers) /\ Len(handlers') = Len(handlers) + 1
        /\ handlers'[Len(handlers) + 1] = h
        /\ \A i \in 1..Len(handlers) : handlers'[i] = handlers[i]
    BY <1>1, <1>2, AppendFacts
  <1>4. /\ \A i \in 1..Len(handlers) : handlers[i] # h
        /\ \A i \in 1..Len(listener.toRepeat) : listener.toRepeat[i] # h
        /\ listener.handler # h
    BY <1>1, RangeOfSeq, QueueAssumption DEF InUse, ListenerRecord
  <1>5. Len(handlers) \in Nat
    BY <1>1
  <1>6. Shape'
    BY <1>1, <1>2, <1>3, <1>5 DEF IInv, Shape, ListenerRecord
  <1>7. Once'
    BY <1>1, <1>2, <1>3, <1>4, <1>5 DEF IInv, Once, Distinct
  <1> QED BY Zenon, <1>1, <1>2, <1>3, <1>6, <1>7 DEF IInv, QueueTypeOK

\* A round is as long as the queue is when it starts (wallet/service.go,
\* listenToUtxoNotifications).
LEMMA ReceiveIInv ==
  ASSUME IInv, Receive
  PROVE  IInv'
  <1>1. handlers \in Seq(Handlers) /\ Len(handlers) \in Nat /\ <<>> \in Seq(Handlers)
    BY DEF IInv, QueueTypeOK
  <1>2. handlers' = handlers /\ listener' = GoOn(Len(handlers), <<>>)
    BY Zenon DEF Receive
  <1>3. /\ listener' \in ListenerRecord
        /\ listener'.left = Len(handlers) /\ listener'.toRepeat = <<>>
        /\ listener'.handler = NoHandler
        /\ listener'.pc = "pop" <=> Len(handlers) > 0
        /\ listener'.pc = "recv" <=> Len(handlers) = 0
        /\ listener'.pc # "repeat" /\ listener'.pc # "call"
    BY <1>1, <1>2 DEF GoOn, ListenerRecord
  <1>4. QueueTypeOK' /\ Shape'
    BY <1>1, <1>2, <1>3 DEF QueueTypeOK, Shape
  <1>5. \A m \in 1..Len(handlers) : handlers[m] # NoHandler
    BY <1>1, QueueAssumption
  <1>6. Once'
    BY <1>2, <1>3, <1>5 DEF IInv, Once, Distinct
  <1> QED BY Zenon, <1>4, <1>6 DEF IInv

\* The queue is not empty when the goroutine pops (wallet/types.go, pop).
LEMMA PopFacts ==
  ASSUME IInv, Pop
  PROVE  /\ handlers \in Seq(Handlers) /\ handlers # <<>>
         /\ listener' = [listener EXCEPT !.pc = "call", !.handler = Head(handlers)]
         /\ handlers' = Tail(handlers)
  <1>1. handlers \in Seq(Handlers) /\ Len(handlers) > 0
    BY DEF IInv, QueueTypeOK, Shape, Pop, ListenerRecord
  <1>2. handlers # <<>>
    BY <1>1
  <1> QED BY Zenon, <1>1, <1>2 DEF Pop

\* Popping keeps the invariant (wallet/types.go, pop).
LEMMA PopIInv ==
  ASSUME IInv, Pop
  PROVE  IInv'
  <1>1. listener \in ListenerRecord /\ listener.pc = "pop"
    BY Zenon DEF IInv, QueueTypeOK, Pop
  <1>2. /\ Head(handlers) = handlers[1] /\ Head(handlers) \in Handlers
        /\ handlers' \in Seq(Handlers)
        /\ Len(handlers') = Len(handlers) - 1 /\ Len(handlers) \in Nat \ {0}
        /\ \A i \in 1..Len(handlers') : handlers'[i] = handlers[i + 1]
    BY PopFacts, TailFacts
  <1>3. /\ listener' \in ListenerRecord
        /\ listener'.pc = "call" /\ listener'.handler = handlers[1]
        /\ listener'.left = listener.left /\ listener'.toRepeat = listener.toRepeat
    BY Zenon, <1>1, <1>2, PopFacts DEF ListenerRecord
  <1>4. Shape'
    BY <1>1, <1>2, <1>3 DEF IInv, Shape, ListenerRecord
  <1>5. Once'
    <2>1. /\ Distinct(handlers) /\ Distinct(listener.toRepeat)
          /\ \A m \in 1..Len(handlers), n \in 1..Len(listener.toRepeat) :
               handlers[m] # listener.toRepeat[n]
      BY Zenon DEF IInv, Once
    <2>2. Distinct(handlers)'
      <3> SUFFICES ASSUME NEW m \in 1..Len(handlers'), NEW n \in 1..Len(handlers'), m # n
                   PROVE  handlers'[m] # handlers'[n]
        BY Zenon DEF Distinct
      <3>1. m + 1 \in 1..Len(handlers) /\ n + 1 \in 1..Len(handlers) /\ m + 1 # n + 1
        BY <1>2
      <3> QED BY <1>2, <2>1, <3>1 DEF Distinct
    <2>3. \A m \in 1..Len(handlers') : handlers'[m] # handlers[1]
      BY <1>2, <2>1 DEF Distinct
    <2>4. \A m \in 1..Len(handlers'), n \in 1..Len(listener.toRepeat) :
            handlers'[m] # listener.toRepeat[n]
      BY <1>2, <2>1
    <2>5. \A n \in 1..Len(listener.toRepeat) : listener.toRepeat[n] # handlers[1]
      BY <1>2, <2>1
    <2> QED BY <1>3, <2>1, <2>2, <2>3, <2>4, <2>5 DEF Once, Distinct
  <1> QED BY Zenon, <1>2, <1>3, <1>4, <1>5 DEF IInv, QueueTypeOK

\* A handler that is done is forgotten, one that is not is collected
\* (wallet/service.go, listenToUtxoNotifications).
LEMMA ReturnIInv ==
  ASSUME IInv, NEW done \in BOOLEAN, Return(done)
  PROVE  IInv'
  <1> DEFINE r == IF done THEN listener.toRepeat
                  ELSE Append(listener.toRepeat, listener.handler)
  <1>1. /\ handlers \in Seq(Handlers) /\ Len(handlers) \in Nat
        /\ listener \in ListenerRecord /\ listener.pc = "call"
        /\ listener.left - 1 \in Nat /\ listener.left - 1 <= Len(handlers)
        /\ listener.handler \in Handlers /\ listener.toRepeat \in Seq(Handlers)
    BY DEF IInv, QueueTypeOK, Shape, Return, ListenerRecord
  <1>2. handlers' = handlers /\ listener' = GoOn(listener.left - 1, r)
    BY Zenon DEF Return
  <1>3. r \in Seq(Handlers)
    BY Zenon, <1>1, AppendFacts
  <1>4. \A n \in 1..Len(r) : r[n] = listener.handler
                               \/ \E m \in 1..Len(listener.toRepeat) : r[n] = listener.toRepeat[m]
    BY <1>1, AppendFacts
  <1>5. Distinct(r)
    BY <1>1, AppendFacts DEF IInv, Once, Distinct
  <1> HIDE DEF r
  <1>6. /\ listener' \in ListenerRecord
        /\ listener'.left = listener.left - 1 /\ listener'.toRepeat = r
        /\ listener'.handler = NoHandler
        /\ listener'.pc = "pop" => listener'.left > 0
        /\ listener'.pc = "repeat" => listener'.left = 0 /\ r # <<>>
        /\ listener'.pc = "recv" => listener'.left = 0 /\ r = <<>>
        /\ listener'.pc # "call"
    BY <1>1, <1>2, <1>3 DEF GoOn, ListenerRecord
  <1>7. QueueTypeOK' /\ Shape'
    BY Zenon, <1>1, <1>2, <1>6 DEF QueueTypeOK, Shape
  <1>8. /\ \A m \in 1..Len(handlers), n \in 1..Len(r) : handlers[m] # r[n]
        /\ \A m \in 1..Len(handlers) : handlers[m] # NoHandler
        /\ \A n \in 1..Len(r) : r[n] # NoHandler
    <2>1. \A m \in 1..Len(handlers), n \in 1..Len(r) : handlers[m] # r[n]
      BY Zenon, <1>4 DEF IInv, Once
    <2>2. \A m \in 1..Len(handlers) : handlers[m] # NoHandler
      BY <1>1, QueueAssumption
    <2>3. \A n \in 1..Len(r) : r[n] # NoHandler
      BY <1>3, QueueAssumption
    <2> QED BY Zenon, <2>1, <2>2, <2>3
  <1>9. Once'
    BY <1>2, <1>5, <1>6, <1>8 DEF IInv, Once, Distinct
  <1> QED BY Zenon, <1>7, <1>9 DEF IInv

\* A handler to repeat moves from toRepeat to the queue (wallet/service.go,
\* listenToUtxoNotifications).
LEMMA RepeatIInv ==
  ASSUME IInv, Repeat
  PROVE  IInv'
  <1> DEFINE h == Head(listener.toRepeat)
             r == Tail(listener.toRepeat)
  <1>1. /\ handlers \in Seq(Handlers) /\ Len(handlers) \in Nat
        /\ listener \in ListenerRecord /\ listener.pc = "repeat"
        /\ listener.toRepeat \in Seq(Handlers) /\ listener.toRepeat # <<>>
    BY DEF IInv, QueueTypeOK, Shape, Repeat, ListenerRecord
  <1>2. handlers' = Append(handlers, h) /\ listener' = GoOn(0, r)
    BY Zenon DEF Repeat
  <1>3. /\ h = listener.toRepeat[1] /\ h \in Handlers /\ r \in Seq(Handlers)
        /\ Len(r) = Len(listener.toRepeat) - 1 /\ Len(listener.toRepeat) \in Nat \ {0}
        /\ \A i \in 1..Len(r) : r[i] = listener.toRepeat[i + 1]
    BY Zenon, <1>1, TailFacts
  <1>4. /\ handlers' \in Seq(Handlers) /\ Len(handlers') = Len(handlers) + 1
        /\ handlers'[Len(handlers) + 1] = h
        /\ \A i \in 1..Len(handlers) : handlers'[i] = handlers[i]
    BY <1>1, <1>2, <1>3, AppendFacts
  <1> HIDE DEF h, r
  <1>5. /\ listener' \in ListenerRecord
        /\ listener'.left = 0 /\ listener'.toRepeat = r
        /\ listener'.handler = NoHandler
        /\ listener'.pc = "repeat" => r # <<>>
        /\ listener'.pc = "recv" => r = <<>>
        /\ listener'.pc # "call" /\ listener'.pc # "pop"
    BY <1>2, <1>3 DEF GoOn, ListenerRecord
  <1>6. QueueTypeOK' /\ Shape'
    BY Zenon, <1>4, <1>5 DEF QueueTypeOK, Shape
  <1>7. Distinct(r) /\ \A n \in 1..Len(r) : r[n] # h
    <2>1. \A m, n \in 1..Len(listener.toRepeat) :
            listener.toRepeat[m] = listener.toRepeat[n] => m = n
      BY Zenon DEF IInv, Once, Distinct
    <2>2. ASSUME NEW m \in 1..Len(r), NEW n \in 1..Len(r), r[m] = r[n]
          PROVE  m = n
      <3>1. m + 1 \in 1..Len(listener.toRepeat) /\ n + 1 \in 1..Len(listener.toRepeat)
        BY <1>3
      <3>2. listener.toRepeat[m + 1] = listener.toRepeat[n + 1]
        BY Zenon, <1>3, <2>2
      <3>3. m + 1 = n + 1
        BY Zenon, <2>1, <3>1, <3>2
      <3> QED BY <3>3
    <2>3. \A n \in 1..Len(r) : r[n] # h
      BY <1>3, <2>1
    <2> QED BY Zenon, <2>2, <2>3 DEF Distinct
  <1>8. \A m \in 1..Len(handlers) : handlers[m] # h
    BY <1>3 DEF IInv, Once
  <1>9. Distinct(handlers)'
    BY <1>1, <1>4, <1>8 DEF IInv, Once, Distinct
  <1>10. \A m \in 1..Len(handlers'), n \in 1..Len(r) : handlers'[m] # r[n]
    <2>1. \A m \in 1..Len(handlers), n \in 1..Len(listener.toRepeat) :
            handlers[m] # listener.toRepeat[n]
      BY Zenon DEF IInv, Once
    <2> SUFFICES ASSUME NEW m \in 1..Len(handlers'), NEW n \in 1..Len(r)
                 PROVE  handlers'[m] # r[n]
      BY Zenon
    <2>2. CASE m = Len(handlers) + 1
      BY Zenon, <1>4, <1>7, <2>2
    <2>3. CASE m # Len(handlers) + 1
      <3>1. m \in 1..Len(handlers) /\ n + 1 \in 1..Len(listener.toRepeat)
        BY <1>1, <1>3, <1>4, <2>3
      <3>2. handlers[m] # listener.toRepeat[n + 1]
        BY Zenon, <2>1, <3>1
      <3> QED BY Zenon, <1>3, <1>4, <3>1, <3>2
    <2> QED BY Zenon, <2>2, <2>3
  <1>11. /\ \A m \in 1..Len(handlers') : handlers'[m] # NoHandler
         /\ \A n \in 1..Len(r) : r[n] # NoHandler
    BY <1>3, <1>4, QueueAssumption
  <1>12. Once'
    BY <1>5, <1>7, <1>9, <1>10, <1>11 DEF Once, Distinct
  <1> QED BY Zenon, <1>6, <1>12 DEF IInv

\* Every step of the queue keeps the invariant.
LEMMA NextIInv == IInv /\ [QueueNext]_queueVars => IInv'
  <1> SUFFICES ASSUME IInv, [QueueNext]_queueVars PROVE IInv'
    BY Zenon
  <1>1. CASE \E h \in Handlers \ InUse : PushBack(h)
    BY Zenon, <1>1, PushBackIInv
  <1>2. CASE Receive
    BY Zenon, <1>2, ReceiveIInv
  <1>3. CASE Pop
    BY Zenon, <1>3, PopIInv
  <1>4. CASE \E done \in BOOLEAN : Return(done)
    BY Zenon, <1>4, ReturnIInv
  <1>5. CASE Repeat
    BY Zenon, <1>5, RepeatIInv
  <1>6. CASE UNCHANGED queueVars
    BY <1>6 DEF queueVars, IInv, QueueTypeOK, Shape, Once, Distinct
  <1> QED BY Zenon, <1>1, <1>2, <1>3, <1>4, <1>5, <1>6 DEF QueueNext

\* The goroutine pops only handlers that are there and never calls nil, for any
\* number of handlers and rounds (wallet/service.go, listenToUtxoNotifications).
THEOREM NilIsNeverCalled == QueueSpec => []NeverCallsNil
  <1>1. IInv => NeverCallsNil
    BY Zenon, QueueAssumption DEF IInv, Shape, NeverCallsNil
  <1> QED BY <1>1, InitIInv, NextIInv, PTL DEF QueueSpec

-----------------------------------------------------------------------------
(***************************************************************************)
(* The queue implements the delivery of NotificationHandlers.              *)
(***************************************************************************)
\* What the mapped state is, by indices.
Mapped ==
  /\ InUse = {handlers[i] : i \in 1..Len(handlers)}
              \cup {listener.toRepeat[i] : i \in 1..Len(listener.toRepeat)}
              \cup ({listener.handler} \ {NoHandler})
  /\ listener.pc = "pop" => Owed = {handlers[i] : i \in 1..listener.left}
  /\ listener.pc = "call" =>
       Owed = {handlers[i] : i \in 1..(listener.left - 1)} \cup {listener.handler}
  /\ listener.pc \in {"recv", "repeat"} => Owed = {}

\* The invariant gives the mapped state this form.
LEMMA MappedState == IInv => Mapped
  <1> SUFFICES ASSUME IInv PROVE Mapped
    BY Zenon
  <1>1. handlers \in Seq(Handlers) /\ listener.toRepeat \in Seq(Handlers)
        /\ listener.left \in Nat
    BY Zenon DEF IInv, QueueTypeOK, ListenerRecord
  <1>2. InUse = {handlers[i] : i \in 1..Len(handlers)}
                  \cup {listener.toRepeat[i] : i \in 1..Len(listener.toRepeat)}
                  \cup ({listener.handler} \ {NoHandler})
    BY Zenon, <1>1, RangeOfSeq DEF InUse
  <1>3. ASSUME listener.pc = "pop" PROVE Owed = {handlers[i] : i \in 1..listener.left}
    BY <1>1, <1>3 DEF Owed, IInv, Shape
  <1>4. ASSUME listener.pc = "call"
        PROVE  Owed = {handlers[i] : i \in 1..(listener.left - 1)} \cup {listener.handler}
    BY Zenon, <1>1, <1>4, QueueAssumption DEF Owed, IInv, Shape
  <1>5. ASSUME listener.pc \in {"recv", "repeat"} PROVE Owed = {}
    BY Zenon, <1>5 DEF Owed
  <1> QED BY Zenon, <1>2, <1>3, <1>4, <1>5 DEF Mapped

\* So it does in the next state.
LEMMA MappedNext == IInv' => Mapped'
  BY MappedState, PTL

\* A registration (wallet/types.go, pushBack).
LEMMA PushBackRefines ==
  ASSUME IInv, IInv', NEW h \in Handlers \ InUse, PushBack(h)
  PROVE  H!Register(h)
  <1>1. /\ handlers \in Seq(Handlers) /\ Len(handlers) \in Nat
        /\ listener \in ListenerRecord
    BY DEF IInv, QueueTypeOK
  <1>2. /\ listener' = listener
        /\ Len(handlers') = Len(handlers) + 1
        /\ handlers'[Len(handlers) + 1] = h
        /\ \A i \in 1..Len(handlers) : handlers'[i] = handlers[i]
    BY <1>1, AppendFacts DEF PushBack
  <1>3. {handlers'[i] : i \in 1..Len(handlers')}
          = {handlers[i] : i \in 1..Len(handlers)} \cup {h}
    BY <1>1, <1>2
  <1>4. InUse' = InUse \cup {h}
    BY <1>2, <1>3, MappedState, MappedNext DEF Mapped
  <1>5. Owed' = Owed
    <2>1. \A k \in Nat : k <= Len(handlers) =>
            {handlers'[i] : i \in 1..k} = {handlers[i] : i \in 1..k}
      BY <1>1, <1>2
    <2>2. CASE listener.pc = "pop"
      <3>1. listener.left \in Nat /\ listener.left <= Len(handlers)
        BY Zenon, <1>1, <2>2 DEF IInv, Shape, ListenerRecord
      <3> QED BY Zenon, <1>2, <2>1, <2>2, <3>1, MappedState, MappedNext DEF Mapped
    <2>3. CASE listener.pc = "call"
      <3>1. listener.left - 1 \in Nat /\ listener.left - 1 <= Len(handlers)
        BY <1>1, <2>3 DEF IInv, Shape, ListenerRecord
      <3> QED BY Zenon, <1>2, <2>1, <2>3, <3>1, MappedState, MappedNext DEF Mapped
    <2>4. CASE listener.pc \in {"recv", "repeat"}
      BY Zenon, <1>2, <2>4, MappedState, MappedNext DEF Mapped
    <2> QED BY Zenon, <1>1, <2>2, <2>3, <2>4 DEF ListenerRecord
  <1> QED BY Zenon, <1>4, <1>5 DEF H!Register

\* A round owes the notification to all that are registered (wallet/service.go,
\* listenToUtxoNotifications).
LEMMA ReceiveRefines ==
  ASSUME IInv, IInv', Receive
  PROVE  H!Notify
  <1>1. /\ handlers \in Seq(Handlers) /\ Len(handlers) \in Nat
        /\ listener.pc = "recv" /\ listener.toRepeat = <<>> /\ listener.handler = NoHandler
    BY DEF IInv, QueueTypeOK, Shape, Receive
  <1>2. /\ handlers' = handlers
        /\ listener'.left = Len(handlers) /\ listener'.toRepeat = <<>>
        /\ listener'.handler = NoHandler
        /\ listener'.pc = "pop" \/ (listener'.pc = "recv" /\ Len(handlers) = 0)
    BY <1>1 DEF Receive, GoOn
  <1>3. InUse = {handlers[i] : i \in 1..Len(handlers)} /\ Owed = {}
    BY <1>1, MappedState DEF Mapped
  <1>4. InUse' = InUse
    <2>1. InUse' = {handlers[i] : i \in 1..Len(handlers)}
                     \cup {listener.toRepeat[i] : i \in 1..Len(listener.toRepeat)}
                     \cup ({listener.handler} \ {NoHandler})
      BY <1>1, <1>2, MappedNext DEF Mapped
    <2> QED BY Zenon, <2>1, MappedState DEF Mapped
  <1>5. Owed' = {handlers[i] : i \in 1..Len(handlers)}
    <2>1. CASE listener'.pc = "pop"
      BY Zenon, <1>2, <2>1, MappedNext DEF Mapped
    <2>2. CASE listener'.pc = "recv" /\ Len(handlers) = 0
      <3>1. Owed' = {}
        BY Zenon, <2>2, MappedNext DEF Mapped
      <3> QED BY <2>2, <3>1
    <2> QED BY Zenon, <1>2, <2>1, <2>2
  <1> QED BY Zenon, <1>3, <1>4, <1>5 DEF H!Notify

\* Popping a handler is not visible (wallet/types.go, pop).
LEMMA PopRefines ==
  ASSUME IInv, IInv', Pop
  PROVE  UNCHANGED <<InUse, Owed>>
  <1>1. listener \in ListenerRecord /\ listener.pc = "pop" /\ listener.handler = NoHandler
        /\ listener.left \in Nat \ {0} /\ listener.left <= Len(handlers)
    BY DEF IInv, QueueTypeOK, Shape, Pop, ListenerRecord
  <1>2. /\ Head(handlers) = handlers[1] /\ Head(handlers) \in Handlers
        /\ Len(handlers') = Len(handlers) - 1 /\ Len(handlers) \in Nat \ {0}
        /\ \A i \in 1..Len(handlers') : handlers'[i] = handlers[i + 1]
    BY PopFacts, TailFacts
  <1>3. /\ listener'.pc = "call" /\ listener'.handler = handlers[1]
        /\ listener'.left = listener.left /\ listener'.toRepeat = listener.toRepeat
    BY Zenon, <1>1, <1>2, PopFacts DEF ListenerRecord
  <1>4. \A k \in 1..Len(handlers) : {handlers[i] : i \in 1..k}
          = {handlers'[i] : i \in 1..(k - 1)} \cup {handlers[1]}
    <2>1. \A k \in 1..Len(handlers) : Firsts(handlers, k)
            = Firsts(handlers', k - 1) \cup {handlers[1]}
      BY Zenon, <1>2, TailRange
    <2> QED BY Zenon, <2>1 DEF Firsts
  <1>5. Owed' = Owed
    <2>1. Owed = {handlers[i] : i \in 1..listener.left}
      BY Zenon, <1>1, MappedState DEF Mapped
    <2>2. Owed' = {handlers'[i] : i \in 1..(listener.left - 1)} \cup {handlers[1]}
      BY Zenon, <1>3, MappedNext DEF Mapped
    <2>3. listener.left \in 1..Len(handlers)
      BY <1>1, <1>2
    <2> QED BY Zenon, <1>4, <2>1, <2>2, <2>3
  <1>6. InUse' = InUse
    <2>1. InUse = {handlers[i] : i \in 1..Len(handlers)}
                    \cup {listener.toRepeat[i] : i \in 1..Len(listener.toRepeat)}
      BY Zenon, <1>1, MappedState DEF Mapped
    <2>2. InUse' = {handlers'[i] : i \in 1..(Len(handlers) - 1)}
                    \cup {listener.toRepeat[i] : i \in 1..Len(listener.toRepeat)}
                    \cup ({handlers[1]} \ {NoHandler})
      BY <1>2, <1>3, MappedNext DEF Mapped
    <2>3. handlers[1] # NoHandler /\ Len(handlers) \in 1..Len(handlers)
      BY <1>2, QueueAssumption
    <2> QED BY Zenon, <1>4, <2>1, <2>2, <2>3
  <1> QED BY Zenon, <1>5, <1>6

\* Exactly the handler that says it is done is forgotten (wallet/service.go,
\* listenToUtxoNotifications).
LEMMA ReturnInUse ==
  ASSUME IInv, IInv', NEW done \in BOOLEAN, Return(done)
  PROVE  /\ listener.handler \in Handlers
         /\ listener.handler \in InUse
         /\ InUse' = IF done THEN InUse \ {listener.handler} ELSE InUse
  <1> DEFINE h == listener.handler
             toRepeat == listener.toRepeat
             r == IF done THEN toRepeat ELSE Append(toRepeat, h)
  <1>1. /\ listener.pc = "call" /\ h \in Handlers /\ toRepeat \in Seq(Handlers)
    BY Zenon DEF IInv, QueueTypeOK, Shape, Return, ListenerRecord
  <1>2. handlers' = handlers /\ listener' = GoOn(listener.left - 1, r)
    BY Zenon DEF Return
  <1>3. {r[i] : i \in 1..Len(r)} = {toRepeat[i] : i \in 1..Len(toRepeat)}
                                     \cup (IF done THEN {} ELSE {h})
    BY <1>1, AppendFacts
  <1>4. /\ \A i \in 1..Len(handlers) : handlers[i] # h
        /\ \A i \in 1..Len(toRepeat) : toRepeat[i] # h
    BY Zenon DEF IInv, Once
  <1>5. InUse = {handlers[i] : i \in 1..Len(handlers)}
                  \cup {toRepeat[i] : i \in 1..Len(toRepeat)} \cup {h}
    BY Zenon, <1>1, MappedState, QueueAssumption DEF Mapped
  <1> HIDE DEF h, toRepeat, r
  <1>6. listener'.toRepeat = r /\ listener'.handler = NoHandler
    BY Zenon, <1>2 DEF GoOn
  <1>7. InUse' = {handlers[i] : i \in 1..Len(handlers)}
                   \cup {toRepeat[i] : i \in 1..Len(toRepeat)}
                   \cup (IF done THEN {} ELSE {h})
    <2>1. InUse' = {handlers[i] : i \in 1..Len(handlers)} \cup {r[i] : i \in 1..Len(r)}
                     \cup ({NoHandler} \ {NoHandler})
      BY <1>2, <1>6, MappedNext DEF Mapped
    <2> QED BY Zenon, <1>3, <2>1
  <1>8. InUse' = IF done THEN InUse \ {h} ELSE InUse
    BY Zenon, <1>4, <1>5, <1>7
  <1> QED BY Zenon, <1>1, <1>5, <1>8 DEF h

\* A handler returns, done or not (wallet/service.go, listenToUtxoNotifications).
LEMMA ReturnRefines ==
  ASSUME IInv, IInv', NEW done \in BOOLEAN, Return(done)
  PROVE  \E h \in Handlers : H!Handle(h)
  <1> DEFINE h == listener.handler
             K == listener.left - 1
  <1>1. /\ listener.pc = "call" /\ K \in Nat /\ h \in Handlers
        /\ Len(handlers) \in Nat /\ K <= Len(handlers)
    BY DEF IInv, QueueTypeOK, Shape, Return, ListenerRecord
  <1>2. /\ handlers' = handlers /\ listener'.left = K
        /\ \/ listener'.pc = "pop"
           \/ listener'.pc \in {"recv", "repeat"} /\ K = 0
    <2>1. PICK r : listener' = GoOn(K, r) /\ handlers' = handlers
      BY Zenon DEF Return
    <2> HIDE DEF K
    <2> QED BY <1>1, <2>1 DEF GoOn
  <1>3. \A i \in 1..Len(handlers) : handlers[i] # h
    BY Zenon DEF IInv, Once
  <1>4. Owed = {handlers[i] : i \in 1..K} \cup {h}
    BY Zenon, <1>1, MappedState DEF Mapped
  <1>5. InUse' \in {InUse, InUse \ {h}}
    BY Zenon, ReturnInUse
  <1> HIDE DEF h, K
  <1>6. Owed' = {handlers[i] : i \in 1..K}
    <2>1. CASE listener'.pc = "pop"
      BY Zenon, <1>2, <2>1, MappedNext DEF Mapped
    <2>2. CASE listener'.pc \in {"recv", "repeat"} /\ K = 0
      <3>1. Owed' = {}
        BY Zenon, <2>2, MappedNext DEF Mapped
      <3> QED BY <2>2, <3>1
    <2> QED BY Zenon, <1>2, <2>1, <2>2
  <1>7. Owed' = Owed \ {h}
    BY <1>1, <1>3, <1>4, <1>6
  <1>8. h \in Owed
    BY Zenon, <1>4
  <1> QED BY Zenon, <1>1, <1>5, <1>7, <1>8 DEF H!Handle

\* Putting a handler back is not visible (wallet/service.go,
\* listenToUtxoNotifications).
LEMMA RepeatRefines ==
  ASSUME IInv, IInv', Repeat
  PROVE  UNCHANGED <<InUse, Owed>>
  <1> DEFINE toRepeat == listener.toRepeat
             h == Head(toRepeat)
             r == Tail(toRepeat)
  <1>1. /\ handlers \in Seq(Handlers) /\ Len(handlers) \in Nat
        /\ listener.pc = "repeat" /\ listener.handler = NoHandler
        /\ toRepeat \in Seq(Handlers) /\ toRepeat # <<>>
    BY DEF IInv, QueueTypeOK, Shape, Repeat, ListenerRecord
  <1>2. handlers' = Append(handlers, h) /\ listener' = GoOn(0, r)
    BY Zenon DEF Repeat
  <1>3. /\ h = toRepeat[1] /\ h \in Handlers
        /\ Len(r) = Len(toRepeat) - 1 /\ Len(toRepeat) \in Nat \ {0}
        /\ \A i \in 1..Len(r) : r[i] = toRepeat[i + 1]
    BY Zenon, <1>1, TailFacts
  <1>4. /\ Len(handlers') = Len(handlers) + 1
        /\ handlers'[Len(handlers) + 1] = h
        /\ \A i \in 1..Len(handlers) : handlers'[i] = handlers[i]
    BY <1>1, <1>2, <1>3, AppendFacts
  <1>5. {toRepeat[i] : i \in 1..Len(toRepeat)} = {r[i] : i \in 1..Len(r)} \cup {h}
    <2> HIDE DEF toRepeat, h, r
    <2>1. Len(toRepeat) \in 1..Len(toRepeat)
      BY <1>3
    <2>2. Firsts(toRepeat, Len(toRepeat)) = Firsts(r, Len(toRepeat) - 1) \cup {toRepeat[1]}
      BY Zenon, <1>3, <2>1, TailRange
    <2> QED BY Zenon, <1>3, <2>2 DEF Firsts
  <1> HIDE DEF toRepeat, h, r
  <1>6. {handlers'[i] : i \in 1..Len(handlers')}
          = {handlers[i] : i \in 1..Len(handlers)} \cup {h}
    BY <1>1, <1>4
  <1>7. /\ listener'.toRepeat = r /\ listener'.handler = NoHandler
        /\ listener'.pc \in {"recv", "repeat"}
    BY <1>2 DEF GoOn
  <1>8. Owed' = Owed
    BY Zenon, <1>1, <1>7, MappedState, MappedNext DEF Mapped
  <1>9. InUse = {handlers[i] : i \in 1..Len(handlers)}
                  \cup {toRepeat[i] : i \in 1..Len(toRepeat)}
    BY Zenon, <1>1, MappedState DEF Mapped, toRepeat
  <1>10. InUse' = {handlers'[i] : i \in 1..Len(handlers')} \cup {r[i] : i \in 1..Len(r)}
    BY Zenon, <1>7, MappedNext DEF Mapped
  <1> QED BY Zenon, <1>5, <1>6, <1>8, <1>9, <1>10

\* Every step of the queue is a step of the delivery, or none.
LEMMA StepRefines ==
  ASSUME IInv, IInv', [QueueNext]_queueVars
  PROVE  [H!Next]_<<InUse, Owed>>
  <1>1. CASE \E h \in Handlers \ InUse : PushBack(h)
    <2>1. PICK h \in Handlers \ InUse : PushBack(h)
      BY Zenon, <1>1
    <2>2. H!Register(h)
      BY Zenon, <2>1, PushBackRefines
    <2> QED BY Zenon, <2>2 DEF H!Next
  <1>2. CASE Receive
    BY Zenon, <1>2, ReceiveRefines DEF H!Next
  <1>3. CASE Pop
    BY Zenon, <1>3, PopRefines
  <1>4. CASE \E done \in BOOLEAN : Return(done)
    BY Zenon, <1>4, ReturnRefines DEF H!Next
  <1>5. CASE Repeat
    BY Zenon, <1>5, RepeatRefines
  <1>6. CASE UNCHANGED queueVars
    BY Zenon, <1>6 DEF queueVars, InUse, Owed
  <1> QED BY Zenon, <1>1, <1>2, <1>3, <1>4, <1>5, <1>6 DEF QueueNext

\* The queue implements the abstract delivery for any set of handlers: each
\* notification goes once to each handler registered before it, and no handler
\* that is not done is lost (wallet/service.go, listenToUtxoNotifications).
THEOREM QueueImplementsHandlers == QueueSpec => ImplementsHandlers
  <1>1. QueueInit => H!Init
    BY DEF QueueInit, Listening, H!Init, InUse, Owed, Range
  <1>2. IInv /\ IInv' /\ [QueueNext]_queueVars => [H!Next]_<<InUse, Owed>>
    BY Zenon, StepRefines
  <1> QED BY <1>1, <1>2, InitIInv, NextIInv, PTL DEF QueueSpec, ImplementsHandlers, H!Spec

-----------------------------------------------------------------------------
(***************************************************************************)
(* The reservation of coins.                                               *)
(***************************************************************************)

\* The part of the state the argument is about is well typed.
ReserveTypeOK ==
  /\ now \in Nat \ {0}
  /\ lockedUntil \in [Utxos -> Nat]
  /\ spender \in [Utxos -> Trades \cup {Nobody}]
  /\ seen \subseteq Trades
  /\ proposals \in [Trades -> ProposalRecord]
  /\ inputs \in [Trades -> SUBSET Utxos]

\* No deadline is farther away than a lock taken now would be.
DeadlinesAreNear == \A t \in Trades : proposals[t].unlockTime <= now + LockTime

\* The trade a TradePropose RPC is working on.
ProposalsWellFormed == \A t \in Trades : WellFormed(proposals[t].trade)

ReserveInv ==
  /\ ReserveTypeOK
  /\ ProposalsWellFormed
  /\ DeadlinesAreNear
  /\ CoinsStayReserved
  /\ LiveTradesDisjoint

\* Initially nothing is selected (wallet/service.go, NewService).
LEMMA ReserveInit == Init => ReserveInv
  <1> SUFFICES ASSUME Init PROVE ReserveInv
    BY Zenon
  <1> USE ServiceAssumption, OceanAssumption
  <1>1. NewTrade \in TradeRecord /\ WellFormed(NewTrade)
    BY Zenon, NewTradeFact
  <1>2. ReserveTypeOK
    BY <1>1 DEF Init, OceanInit, ReserveTypeOK, Proposal, ProposalRecord
  <1>3. \A t \in Trades : /\ proposals[t].unlockTime = 0
                          /\ proposals[t].trade = NewTrade
    BY Zenon DEF Init, Proposal
  <1> QED
    BY <1>1, <1>2, <1>3
    DEF ReserveInv, ReserveTypeOK, ProposalsWellFormed, DeadlinesAreNear,
        CoinsStayReserved, LiveTradesDisjoint, Live

-----------------------------------------------------------------------------
(***************************************************************************)
(* The three ways a step can touch the reservation.                        *)
(***************************************************************************)

\* The wallet and the selections stay as they are; time may pass; an RPC may go
\* on or end, with its deadline kept or dropped (trading.go, TradePropose).
LEMMA QuietStep ==
  ASSUME ReserveInv,
         UNCHANGED <<lockedUntil, spender, seen, inputs>>,
         now' \in Nat \ {0}, now <= now',
         proposals' \in [Trades -> ProposalRecord],
         \A t \in Trades : /\ WellFormed(proposals'[t].trade)
                           /\ proposals'[t].unlockTime
                                \in {0, proposals[t].unlockTime}
  PROVE  ReserveInv'
  <1> USE ServiceAssumption, OceanAssumption
  <1> USE DEF ReserveInv, ReserveTypeOK
  <1>1. ReserveTypeOK' /\ ProposalsWellFormed'
    BY Zenon DEF ProposalsWellFormed
  <1>2. \A t \in Trades : /\ proposals[t].unlockTime \in Nat
                          /\ proposals'[t].unlockTime \in Nat
    BY Zenon DEF ProposalRecord
  <1>3. DeadlinesAreNear'
    BY <1>2 DEF DeadlinesAreNear
  <1>4. ASSUME NEW t \in Trades, Live(t)'
        PROVE  Live(t) /\ proposals'[t].unlockTime = proposals[t].unlockTime
    BY <1>2, <1>4 DEF Live
  <1>5. CoinsStayReserved'
    BY Zenon, <1>4 DEF CoinsStayReserved
  <1>6. LiveTradesDisjoint'
    BY Zenon, <1>4 DEF LiveTradesDisjoint
  <1> QED BY Zenon, <1>1, <1>3, <1>5, <1>6

\* The wallet unlocks late coins, sees a transaction, or a transaction reaches
\* the chain: a coin of a live trade stays locked, or is spent for good.
LEMMA WalletStep ==
  ASSUME ReserveInv,
         UNCHANGED <<now, proposals, inputs>>,
         lockedUntil' \in [Utxos -> Nat],
         spender' \in [Utxos -> Trades \cup {Nobody}],
         seen' \subseteq Trades,
         \A u \in Utxos :
           \/ lockedUntil'[u] = lockedUntil[u]
           \/ lockedUntil[u] <= now
           \/ spender'[u] \in seen',
         \A u \in Utxos : spender[u] \in seen => spender'[u] \in seen'
  PROVE  ReserveInv'
  <1> USE DEF ReserveInv, ReserveTypeOK
  <1>1. ReserveTypeOK' /\ ProposalsWellFormed' /\ DeadlinesAreNear'
    BY Zenon DEF ProposalsWellFormed, DeadlinesAreNear
  <1>2. LiveTradesDisjoint'
    BY Zenon DEF LiveTradesDisjoint, Live
  <1>3. CoinsStayReserved'
    <2> SUFFICES ASSUME NEW t \in Trades, Live(t)', NEW u \in inputs[t]
                 PROVE  \/ lockedUntil'[u] >= proposals[t].unlockTime
                        \/ spender'[u] \in seen'
      BY Zenon DEF CoinsStayReserved
    <2>1. u \in Utxos /\ lockedUntil[u] \in Nat
      BY Zenon
    <2>2. now < proposals[t].unlockTime /\ proposals[t].unlockTime \in Nat
      BY Zenon DEF Live, ProposalRecord
    <2>3. lockedUntil[u] >= proposals[t].unlockTime \/ spender[u] \in seen
      BY Zenon, <2>2 DEF CoinsStayReserved, Live
    <2> QED BY <2>1, <2>2, <2>3
  <1> QED BY Zenon, <1>1, <1>2, <1>3

\* CompleteSwap selects coins for trade t: they were free, so no live trade has
\* them, and they are now locked until the deadline of t or later
\* (wallet/service.go, CompleteSwap).
LEMMA SelectStep ==
  ASSUME ReserveInv,
         NEW t \in Trades, NEW account \in SUBSET Utxos,
         NEW utxos \in SUBSET Spendable(account),
         SelectUtxos(utxos, now),
         UNCHANGED now,
         proposals' \in [Trades -> ProposalRecord],
         \A v \in Trades : WellFormed(proposals'[v].trade),
         \A v \in Trades \ {t} : proposals'[v] = proposals[v],
         inputs' \in [Trades -> SUBSET Utxos],
         \A v \in Trades \ {t} : inputs'[v] = inputs[v],
         \/ /\ proposals'[t].unlockTime = now + LockTime
            /\ inputs'[t] = utxos
         \/ /\ proposals'[t].unlockTime = proposals[t].unlockTime
            /\ inputs'[t] = inputs[t] \cup utxos
  PROVE  ReserveInv'
  <1> USE ServiceAssumption, OceanAssumption
  <1> USE DEF ReserveInv, ReserveTypeOK
  <1> DEFINE lock == now + LockTime
  <1>0. utxos \subseteq Utxos
    BY Zenon DEF Spendable
  <1>1. /\ lockedUntil' = [u \in Utxos |-> IF u \in utxos THEN lock
                                                          ELSE lockedUntil[u]]
        /\ UNCHANGED <<spender, seen>>
    BY Zenon DEF SelectUtxos
  <1>2. ReserveTypeOK' /\ ProposalsWellFormed'
    BY <1>1 DEF ProposalsWellFormed
  <1>3. \A v \in Trades : /\ proposals[v].unlockTime \in Nat
                          /\ proposals'[v].unlockTime \in Nat
                          /\ proposals[v].unlockTime <= lock
    BY Zenon DEF ProposalRecord, DeadlinesAreNear
  <1>4. DeadlinesAreNear'
    BY <1>3 DEF DeadlinesAreNear
  <1>5. \A v \in Trades : Live(v) => inputs[v] \cap utxos = {}
    <2> SUFFICES ASSUME NEW v \in Trades, Live(v),
                        NEW u \in inputs[v], u \in utxos
                 PROVE  FALSE
      BY Zenon
    <2>1. lockedUntil[u] = 0 /\ spender[u] \notin seen
      BY Zenon DEF Spendable
    <2>2. lockedUntil[u] >= proposals[v].unlockTime
      BY Zenon, <2>1 DEF CoinsStayReserved
    <2>3. proposals[v].unlockTime > 0
      BY <1>3 DEF Live
    <2> QED BY <1>3, <2>1, <2>2, <2>3
  <1>6. CoinsStayReserved'
    <2> SUFFICES ASSUME NEW v \in Trades, Live(v)', NEW u \in inputs'[v]
                 PROVE  \/ lockedUntil'[u] >= proposals'[v].unlockTime
                        \/ spender[u] \in seen
      BY Zenon, <1>1 DEF CoinsStayReserved
    <2>1. u \in Utxos
      BY Zenon
    <2>2. CASE u \in utxos
      <3>1. lockedUntil'[u] = lock
        BY Zenon, <1>1, <2>1, <2>2
      <3>2. proposals'[v].unlockTime <= lock
        BY <1>3
      <3> QED BY Zenon, <1>3, <3>1, <3>2
    <2>3. CASE u \notin utxos
      <3>1. u \in inputs[v] /\ proposals'[v].unlockTime = proposals[v].unlockTime
        BY Zenon, <2>3
      <3>2. Live(v)
        BY Zenon, <3>1 DEF Live
      <3>3. lockedUntil'[u] = lockedUntil[u]
        BY Zenon, <1>1, <2>1, <2>3
      <3> QED BY Zenon, <3>1, <3>2, <3>3 DEF CoinsStayReserved
    <2> QED BY Zenon, <2>2, <2>3
  <1>7. LiveTradesDisjoint'
    <2> SUFFICES ASSUME NEW v \in Trades, NEW w \in Trades, v # w,
                        Live(v)', Live(w)'
                 PROVE  inputs'[v] \cap inputs'[w] = {}
      BY Zenon DEF LiveTradesDisjoint
    <2>1. \A x \in Trades \ {t} : Live(x)' => Live(x)
      BY Zenon DEF Live
    <2>2. CASE v # t /\ w # t
      BY Zenon, <2>1, <2>2 DEF LiveTradesDisjoint
    <2>3. ASSUME NEW x \in Trades \ {t}, Live(x)', Live(t)'
          PROVE  inputs'[t] \cap inputs'[x] = {}
      <3>1. inputs[x] \cap utxos = {} /\ inputs'[x] = inputs[x] /\ Live(x)
        BY Zenon, <1>5, <2>1, <2>3
      <3>2. CASE inputs'[t] = utxos
        BY Zenon, <3>1, <3>2
      <3>3. CASE /\ proposals'[t].unlockTime = proposals[t].unlockTime
                 /\ inputs'[t] = inputs[t] \cup utxos
        <4>1. Live(t)
          BY Zenon, <2>3, <3>3 DEF Live
        <4>2. inputs[t] \cap inputs[x] = {}
          BY Zenon, <3>1, <4>1 DEF LiveTradesDisjoint
        <4> QED BY Zenon, <3>1, <3>3, <4>2
      <3> QED BY Zenon, <3>2, <3>3
    <2> QED BY Zenon, <2>2, <2>3
  <1> QED BY Zenon, <1>2, <1>4, <1>6, <1>7

-----------------------------------------------------------------------------
(***************************************************************************)
(* Every step is one of them.                                              *)
(***************************************************************************)

\* A step that changes neither the wallet, nor the RPCs that propose trades,
\* nor the clock.
reserveVars == <<now, lockedUntil, spender, seen, proposals, inputs>>

\* Steps of TradeComplete, of the handlers and of the start-up check leave the
\* reservation alone (trading.go, service.go).
LEMMA ElsewhereStep ==
  ASSUME ReserveInv, UNCHANGED reserveVars
  PROVE  ReserveInv'
  BY Zenon DEF ReserveInv, ReserveTypeOK, ProposalsWellFormed, DeadlinesAreNear,
         CoinsStayReserved, LiveTradesDisjoint, Live, reserveVars

\* The steps of TradePropose that do not select coins (trading.go,
\* TradePropose).
LEMMA ProposeSteps ==
  ASSUME ReserveInv, NEW t \in Trades,
         \/ TradePropose(t)
         \/ CompleteSwapFails(t)
         \/ AcceptTrade(t)
         \/ RegisterHandler(t)
         \/ AddTrade(t)
  PROVE  ReserveInv'
  <1>1. /\ proposals \in [Trades -> ProposalRecord]
        /\ proposals[t].trade \in TradeRecord
        /\ proposals[t].unlockTime \in Nat
        /\ \A v \in Trades : WellFormed(proposals[v].trade)
        /\ now \in Nat \ {0}
    <2>1. proposals \in [Trades -> ProposalRecord] /\ now \in Nat \ {0}
      BY Zenon DEF ReserveInv, ReserveTypeOK
    <2>2. proposals[t] \in ProposalRecord
      BY Zenon, <2>1
    <2>3. proposals[t].trade \in TradeRecord /\ proposals[t].unlockTime \in Nat
      BY Zenon, <2>2 DEF ProposalRecord
    <2> QED BY Zenon, <2>1, <2>3 DEF ReserveInv, ProposalsWellFormed
  <1>2. UNCHANGED <<now, lockedUntil, spender, seen, inputs>>
    BY Zenon DEF TradePropose, CompleteSwapFails, AcceptTrade, RegisterHandler,
           AddTrade, oceanVars, proposeVars
  <1>3. \E pc, trade, unlockTime :
          /\ proposals' = [proposals EXCEPT ![t] = Proposal(pc, trade, unlockTime)]
          /\ Proposal(pc, trade, unlockTime) \in ProposalRecord
          /\ WellFormed(trade)
          /\ unlockTime \in {0, proposals[t].unlockTime}
    <2>1. CASE TradePropose(t)
      <3>1. PICK priceInRange \in BOOLEAN, valid \in BOOLEAN :
              LET proposed == IF priceInRange
                              THEN Propose(NewTrade, TRUE, valid, now)
                              ELSE Returns(FALSE, Fail(NewTrade))
                  pc == IF proposed.ok THEN "selectMarket" ELSE "addRejected"
              IN  proposals' = [proposals EXCEPT
                                  ![t] = Proposal(pc, proposed.trade, 0)]
        BY Zenon, <2>1 DEF TradePropose
      <3> DEFINE proposed == IF priceInRange
                             THEN Propose(NewTrade, TRUE, valid, now)
                             ELSE Returns(FALSE, Fail(NewTrade))
                 pc == IF proposed.ok THEN "selectMarket" ELSE "addRejected"
      <3>2. proposed.trade \in TradeRecord /\ WellFormed(proposed.trade)
        <4>1. CASE priceInRange
          BY Zenon, <1>1, <4>1, NewTradeFact, ProposeFact
        <4>2. CASE ~priceInRange
          BY Zenon, <4>2, NewTradeFact, FailFact DEF Returns
        <4> QED BY Zenon, <4>1, <4>2
      <3>3. pc \in {"selectMarket", "addRejected"}
        BY Zenon
      <3>4. proposals' = [proposals EXCEPT ![t] = Proposal(pc, proposed.trade, 0)]
        BY Zenon, <3>1
      <3> HIDE DEF proposed, pc
      <3>5. Proposal(pc, proposed.trade, 0) \in ProposalRecord
        BY Zenon, <3>2, <3>3 DEF Proposal, ProposalRecord
      <3> QED BY Zenon, <3>2, <3>4, <3>5
    <2>2. CASE CompleteSwapFails(t)
      BY Zenon, <1>1, <2>2 DEF CompleteSwapFails, Proposal, ProposalRecord
    <2>3. CASE AcceptTrade(t)
      <3>1. PICK valid \in BOOLEAN :
              LET accepted == Accept(proposals[t].trade, proposals[t].unlockTime,
                                     valid)
                  pc == IF accepted.ok THEN "register" ELSE "addRejected"
              IN  proposals' = [proposals EXCEPT
                    ![t] = Proposal(pc, accepted.trade, @.unlockTime)]
        BY Zenon, <2>3 DEF AcceptTrade
      <3> DEFINE accepted == Accept(proposals[t].trade, proposals[t].unlockTime,
                                    valid)
                 pc == IF accepted.ok THEN "register" ELSE "addRejected"
      <3>2. accepted.trade \in TradeRecord /\ WellFormed(accepted.trade)
        BY Zenon, <1>1, AcceptFact
      <3>3. pc \in {"register", "addRejected"}
        BY Zenon
      <3>4. proposals' = [proposals EXCEPT
              ![t] = Proposal(pc, accepted.trade, proposals[t].unlockTime)]
        BY Zenon, <1>1, <3>1
      <3> HIDE DEF accepted, pc
      <3>5. Proposal(pc, accepted.trade, proposals[t].unlockTime)
              \in ProposalRecord
        BY Zenon, <1>1, <3>2, <3>3 DEF Proposal, ProposalRecord
      <3> QED BY Zenon, <3>2, <3>4, <3>5
    <2>4. CASE RegisterHandler(t)
      BY Zenon, <1>1, <2>4 DEF RegisterHandler, Proposal, ProposalRecord
    <2>5. CASE AddTrade(t)
      BY Zenon, <1>1, <2>5, NewTradeFact DEF AddTrade, Proposal, ProposalRecord
    <2> QED BY Zenon, <2>1, <2>2, <2>3, <2>4, <2>5
  <1>4. PICK pc, trade, unlockTime :
          /\ proposals' = [proposals EXCEPT ![t] = Proposal(pc, trade, unlockTime)]
          /\ Proposal(pc, trade, unlockTime) \in ProposalRecord
          /\ WellFormed(trade)
          /\ unlockTime \in {0, proposals[t].unlockTime}
    BY Zenon, <1>3
  <1>5. proposals' \in [Trades -> ProposalRecord]
    BY Zenon, <1>1, <1>4
  <1>6. \A v \in Trades :
          /\ WellFormed(proposals'[v].trade)
          /\ proposals'[v].unlockTime \in {0, proposals[v].unlockTime}
    BY Zenon, <1>1, <1>4 DEF Proposal
  <1> QED BY <1>1, <1>2, <1>5, <1>6, QuietStep

\* The two selections of CompleteSwap (wallet/service.go, CompleteSwap).
LEMMA SelectSteps ==
  ASSUME ReserveInv, NEW t \in Trades,
         CompleteSwapSelectMarket(t) \/ CompleteSwapSelectFee(t)
  PROVE  ReserveInv'
  <1> USE ServiceAssumption, OceanAssumption
  <1>1. /\ proposals \in [Trades -> ProposalRecord]
        /\ proposals[t].trade \in TradeRecord
        /\ proposals[t].unlockTime \in Nat
        /\ \A v \in Trades : WellFormed(proposals[v].trade)
        /\ inputs \in [Trades -> SUBSET Utxos]
        /\ now \in Nat \ {0}
    BY Zenon DEF ReserveInv, ReserveTypeOK, ProposalRecord, ProposalsWellFormed
  <1>2. CASE CompleteSwapSelectMarket(t)
    <2>1. PICK utxos \in SUBSET Spendable(MarketUtxos) :
            SelectUtxos(utxos, now) /\ inputs' = [inputs EXCEPT ![t] = utxos]
      BY Zenon, <1>2 DEF CompleteSwapSelectMarket
    <2>2. /\ UNCHANGED now
          /\ proposals' = [proposals EXCEPT ![t] =
               Proposal("selectFee", proposals[t].trade, now + LockTime)]
      BY Zenon, <1>1, <1>2 DEF CompleteSwapSelectMarket
    <2>3. Proposal("selectFee", proposals[t].trade, now + LockTime)
            \in ProposalRecord
      BY <1>1 DEF Proposal, ProposalRecord
    <2>4. /\ proposals' \in [Trades -> ProposalRecord]
          /\ \A v \in Trades \ {t} : proposals'[v] = proposals[v]
          /\ proposals'[t].trade = proposals[t].trade
          /\ proposals'[t].unlockTime = now + LockTime
      BY Zenon, <1>1, <2>2, <2>3 DEF Proposal
    <2>5. utxos \in SUBSET Utxos /\ MarketUtxos \in SUBSET Utxos
      BY Zenon DEF Spendable, Utxos
    <2>6. /\ inputs' \in [Trades -> SUBSET Utxos]
          /\ \A v \in Trades \ {t} : inputs'[v] = inputs[v]
          /\ inputs'[t] = utxos
      BY Zenon, <1>1, <2>1, <2>5
    <2>7. \A v \in Trades : WellFormed(proposals'[v].trade)
      BY Zenon, <1>1, <2>4
    <2> QED BY Zenon, <2>1, <2>2, <2>4, <2>5, <2>6, <2>7, SelectStep
  <1>3. CASE CompleteSwapSelectFee(t)
    <2>1. PICK utxos \in SUBSET Spendable(FeeUtxos) :
            /\ SelectUtxos(utxos, now)
            /\ inputs' = [inputs EXCEPT ![t] = @ \cup utxos]
      BY Zenon, <1>3 DEF CompleteSwapSelectFee
    <2>2. /\ UNCHANGED now
          /\ proposals' = [proposals EXCEPT ![t] =
               Proposal("sign", proposals[t].trade, proposals[t].unlockTime)]
      BY Zenon, <1>1, <1>3 DEF CompleteSwapSelectFee
    <2>3. Proposal("sign", proposals[t].trade, proposals[t].unlockTime)
            \in ProposalRecord
      BY Zenon, <1>1 DEF Proposal, ProposalRecord
    <2>4. /\ proposals' \in [Trades -> ProposalRecord]
          /\ \A v \in Trades \ {t} : proposals'[v] = proposals[v]
          /\ proposals'[t].trade = proposals[t].trade
          /\ proposals'[t].unlockTime = proposals[t].unlockTime
      BY Zenon, <1>1, <2>2, <2>3 DEF Proposal
    <2>5. utxos \in SUBSET Utxos /\ FeeUtxos \in SUBSET Utxos
      BY Zenon DEF Spendable, Utxos
    <2>6. /\ inputs' \in [Trades -> SUBSET Utxos]
          /\ \A v \in Trades \ {t} : inputs'[v] = inputs[v]
          /\ inputs'[t] = inputs[t] \cup utxos
      BY Zenon, <1>1, <2>1, <2>5
    <2>7. \A v \in Trades : WellFormed(proposals'[v].trade)
      BY Zenon, <1>1, <2>4
    <2> QED BY Zenon, <2>1, <2>2, <2>4, <2>5, <2>6, <2>7, SelectStep
  <1> QED BY Zenon, <1>2, <1>3

\* A transaction reaches the chain (trading.go, TradeComplete, or the trader).
LEMMA SpendStep ==
  ASSUME ReserveInv, NEW t \in Trades, NEW utxos, Spend(t, utxos),
         UNCHANGED <<now, proposals, inputs>>
  PROVE  ReserveInv'
  <1> USE OceanAssumption
  <1>1. /\ spender \in [Utxos -> Trades \cup {Nobody}] /\ seen \subseteq Trades
        /\ lockedUntil \in [Utxos -> Nat]
    BY Zenon DEF ReserveInv, ReserveTypeOK
  <1>2. /\ spender' = [u \in Utxos |-> IF u \in utxos THEN t ELSE spender[u]]
        /\ UNCHANGED <<lockedUntil, seen>>
        /\ \A u \in utxos : spender[u] \in {Nobody, t}
    BY Zenon DEF Spend, CanSpend
  <1>3. /\ spender' \in [Utxos -> Trades \cup {Nobody}]
        /\ \A u \in Utxos : spender[u] \in seen => spender'[u] \in seen'
    BY Zenon, <1>1, <1>2
  <1> QED BY Zenon, <1>1, <1>2, <1>3, WalletStep

\* The wallet releases the locks past their deadline.
LEMMA UnlockStep ==
  ASSUME ReserveInv, WalletUnlocks
  PROVE  ReserveInv'
  <1>1. /\ lockedUntil \in [Utxos -> Nat] /\ now \in Nat
        /\ spender \in [Utxos -> Trades \cup {Nobody}] /\ seen \subseteq Trades
    BY Zenon DEF ReserveInv, ReserveTypeOK
  <1>2. UNCHANGED <<now, proposals, inputs, spender, seen>>
    BY Zenon DEF WalletUnlocks, UnlockExpired, proposeVars
  <1>3. lockedUntil' = [u \in Utxos |-> IF lockedUntil[u] \in 1..now THEN 0
                                        ELSE lockedUntil[u]]
    BY Zenon DEF WalletUnlocks, UnlockExpired
  <1>4. /\ lockedUntil' \in [Utxos -> Nat]
        /\ \A u \in Utxos : lockedUntil'[u] = lockedUntil[u]
                              \/ lockedUntil[u] <= now
    BY <1>1, <1>3
  <1> QED BY Zenon, <1>1, <1>2, <1>4, WalletStep

\* The wallet learns of a transaction, or of its block.
LEMMA SeeStep ==
  ASSUME ReserveInv, NEW t \in Trades, WalletSees(t)
  PROVE  ReserveInv'
  <1>1. /\ lockedUntil \in [Utxos -> Nat] /\ now \in Nat
        /\ spender \in [Utxos -> Trades \cup {Nobody}] /\ seen \subseteq Trades
    BY Zenon DEF ReserveInv, ReserveTypeOK
  <1>2. UNCHANGED <<now, proposals, inputs, spender>>
    BY Zenon DEF WalletSees, SeeSpent, SeeConfirmed, proposeVars
  <1>3. CASE SeeConfirmed(t, Up)
    BY Zenon, <1>2, <1>3, ElsewhereStep DEF SeeConfirmed, reserveVars
  <1>4. CASE SeeSpent(t, Up)
    <2>1. /\ seen' = seen \cup {t}
          /\ lockedUntil' = [u \in Utxos |-> IF spender[u] = t THEN 0
                                             ELSE lockedUntil[u]]
      BY Zenon, <1>4 DEF SeeSpent
    <2>2. /\ lockedUntil' \in [Utxos -> Nat] /\ seen' \subseteq Trades
          /\ \A u \in Utxos : lockedUntil'[u] = lockedUntil[u]
                                \/ spender'[u] \in seen'
          /\ \A u \in Utxos : spender[u] \in seen => spender'[u] \in seen'
      BY Zenon, <1>1, <1>2, <2>1
    <2> QED BY Zenon, <1>1, <1>2, <2>2, WalletStep
  <1> QED BY Zenon, <1>3, <1>4 DEF WalletSees

\* The daemon dies: RPCs in progress are gone, with their deadlines.
LEMMA DieStep ==
  ASSUME ReserveInv, Die
  PROVE  ReserveInv'
  <1>1. /\ proposals \in [Trades -> ProposalRecord] /\ now \in Nat \ {0}
        /\ \A v \in Trades : WellFormed(proposals[v].trade)
    BY Zenon DEF ReserveInv, ReserveTypeOK, ProposalsWellFormed
  <1>2. UNCHANGED <<now, lockedUntil, spender, seen, inputs>>
    BY Zenon DEF Die
  <1>3. Proposal("rejected", NewTrade, 0) \in ProposalRecord
    BY Zenon, NewTradeFact DEF Proposal, ProposalRecord
  <1>4. /\ proposals' \in [Trades -> ProposalRecord]
        /\ \A v \in Trades : proposals'[v] = proposals[v]
                               \/ proposals'[v] = Proposal("rejected", NewTrade, 0)
    BY Zenon, <1>1, <1>3 DEF Die
  <1>5. ASSUME NEW v \in Trades
        PROVE  /\ WellFormed(proposals'[v].trade)
               /\ proposals'[v].unlockTime \in {0, proposals[v].unlockTime}
    <2>1. CASE proposals'[v] = proposals[v]
      BY Zenon, <1>1, <2>1
    <2>2. CASE proposals'[v] = Proposal("rejected", NewTrade, 0)
      <3>1. proposals'[v].trade = NewTrade /\ proposals'[v].unlockTime = 0
        BY <2>2 DEF Proposal
      <3> QED BY Zenon, <3>1, NewTradeFact
    <2> QED BY Zenon, <1>4, <2>1, <2>2
  <1> QED BY <1>1, <1>2, <1>4, <1>5, QuietStep

-----------------------------------------------------------------------------
(***************************************************************************)
(* A TradeComplete RPC in progress is about a trade.                       *)
(***************************************************************************)
CallsHaveTrade ==
  /\ calls = [c \in Calls |-> calls[c]]
  /\ \A c \in Calls :
       calls[c].pc \in {"complete", "broadcast", "update"} =>
         calls[c].id \in Trades

\* No RPC is in progress when the daemon is first started (trading.go,
\* TradeComplete).
LEMMA CallsInit == Init => CallsHaveTrade
  BY DEF Init, CallsHaveTrade, Call

\* An RPC keeps the trade it was made for until it ends (trading.go,
\* TradeComplete, tradeFail).
LEMMA CallsNext == CallsHaveTrade /\ [Next]_vars => CallsHaveTrade'
  <1> SUFFICES ASSUME CallsHaveTrade, [Next]_vars PROVE CallsHaveTrade'
    BY Zenon
  <1>1. ASSUME NEW c \in Calls, NEW pc, NEW id, NEW trade,
               calls' = [calls EXCEPT ![c] = Call(pc, id, trade)],
               pc \in {"complete", "broadcast", "update"} => id \in Trades
        PROVE  CallsHaveTrade'
    BY Zenon, <1>1 DEF CallsHaveTrade, Call
  <1>2. ASSUME UNCHANGED calls PROVE CallsHaveTrade'
    BY Zenon, <1>2 DEF CallsHaveTrade
  <1>3. ASSUME Die PROVE CallsHaveTrade'
    <2>1. calls' = [c \in Calls |-> IF calls[c].pc = "idle" THEN calls[c]
                                    ELSE Call("done", NoTrade, NewTrade)]
      BY Zenon, <1>3 DEF Die
    <2> QED BY Zenon, <2>1 DEF CallsHaveTrade, Call
  <1>4. ASSUME NEW c \in Calls, NEW t \in Trades,
               TradeComplete(c, t) \/ tradeFail(c, t)
        PROVE  CallsHaveTrade'
    BY Zenon, <1>1, <1>4 DEF TradeComplete, tradeFail
  <1>5. ASSUME NEW c \in Calls, CompleteTrade(c)
        PROVE  CallsHaveTrade'
    <2>1. PICK pc, trade :
            calls' = [calls EXCEPT ![c] = Call(pc, calls[c].id, trade)]
      BY Zenon, <1>5 DEF CompleteTrade, CallsHaveTrade
    <2>2. calls[c].id \in Trades
      BY Zenon, <1>5 DEF CompleteTrade, CallsHaveTrade
    <2> QED BY Zenon, <1>1, <2>1, <2>2
  <1>6. ASSUME NEW c \in Calls, BroadcastTransaction(c)
        PROVE  CallsHaveTrade'
    <2>1. PICK trade :
            calls' = [calls EXCEPT ![c] = Call("update", calls[c].id, trade)]
      BY Zenon, <1>6 DEF BroadcastTransaction, CallsHaveTrade
    <2>2. calls[c].id \in Trades
      BY Zenon, <1>6 DEF BroadcastTransaction, CallsHaveTrade
    <2> QED BY Zenon, <1>1, <2>1, <2>2
  <1>7. ASSUME NEW c \in Calls, UpdateTrade(c)
        PROVE  CallsHaveTrade'
    BY Zenon, <1>1, <1>7 DEF UpdateTrade
  <1>8. ASSUME NEW t \in Trades,
               \/ TradePropose(t) \/ CompleteSwapSelectMarket(t)
               \/ CompleteSwapSelectFee(t) \/ CompleteSwapFails(t)
               \/ AcceptTrade(t) \/ RegisterHandler(t) \/ AddTrade(t)
               \/ CheckWrites(t) \/ TraderBroadcasts(t) \/ WalletSees(t)
        PROVE  UNCHANGED calls
    BY Zenon, <1>8 DEF TradePropose, CompleteSwapSelectMarket, CompleteSwapSelectFee,
                CompleteSwapFails, AcceptTrade, RegisterHandler, AddTrade,
                CheckWrites, TraderBroadcasts, WalletSees
  <1>9. ASSUME \/ ReceiveNotification \/ PopHandler \/ HandlerSkips
               \/ HandlerReads \/ HandlerWrites \/ RepeatHandler
               \/ Restart \/ CheckScans \/ WalletUnlocks \/ Tick
               \/ UNCHANGED vars
        PROVE  UNCHANGED calls
    BY Zenon, <1>9 DEF ReceiveNotification, PopHandler, HandlerSkips, HandlerReads,
                HandlerWrites, RepeatHandler, Restart, CheckScans,
                WalletUnlocks, Tick, vars
  <1>10. CASE Crash \/ HandlerPanics
    BY Zenon, <1>3, <1>10 DEF Crash, HandlerPanics
  <1> QED
    BY Zenon, <1>2, <1>4, <1>5, <1>6, <1>7, <1>8, <1>9, <1>10 DEF Next

-----------------------------------------------------------------------------
\* Every step preserves the invariant: the steps of TradePropose, wallet and
\* chain by the lemmas above, the others since they leave the reservation alone.
LEMMA ReserveNext ==
  ReserveInv /\ CallsHaveTrade /\ [Next]_vars => ReserveInv'
  <1> SUFFICES ASSUME ReserveInv, CallsHaveTrade, [Next]_vars
               PROVE  ReserveInv'
    BY Zenon
  <1> USE DEF reserveVars, oceanVars, proposeVars
  <1>1. CASE UNCHANGED vars
    BY Zenon, <1>1, ElsewhereStep DEF vars
  <1>2. ASSUME NEW t \in Trades,
               \/ TradePropose(t) \/ CompleteSwapFails(t) \/ AcceptTrade(t)
               \/ RegisterHandler(t) \/ AddTrade(t)
        PROVE  ReserveInv'
    BY Zenon, <1>2, ProposeSteps
  <1>3. ASSUME NEW t \in Trades,
               CompleteSwapSelectMarket(t) \/ CompleteSwapSelectFee(t)
        PROVE  ReserveInv'
    BY Zenon, <1>3, SelectSteps
  <1>4. ASSUME NEW c \in Calls, NEW t \in Trades,
               TradeComplete(c, t) \/ tradeFail(c, t)
        PROVE  ReserveInv'
    BY Zenon, <1>4, ElsewhereStep DEF TradeComplete, tradeFail
  <1>5. ASSUME NEW c \in Calls, CompleteTrade(c) \/ UpdateTrade(c)
        PROVE  ReserveInv'
    <2>1. UNCHANGED <<now, oceanVars, proposeVars>>
      BY Zenon, <1>5 DEF CompleteTrade, UpdateTrade
    <2> QED BY Zenon, <2>1, ElsewhereStep DEF reserveVars, proposeVars, oceanVars
  <1>6. ASSUME NEW c \in Calls, BroadcastTransaction(c)
        PROVE  ReserveInv'
    <2>1. UNCHANGED <<now, proposals, inputs>> /\ calls[c].id \in Trades
      BY Zenon, <1>6 DEF BroadcastTransaction, CallsHaveTrade
    <2>2. CASE UNCHANGED oceanVars
      BY Zenon, <2>1, <2>2, ElsewhereStep
    <2>3. CASE Spend(calls[c].id, inputs[calls[c].id])
      BY Zenon, <2>1, <2>3, SpendStep
    <2> QED BY Zenon, <1>6, <2>2, <2>3 DEF BroadcastTransaction
  <1>7. ASSUME NEW t \in Trades, TraderBroadcasts(t)
        PROVE  ReserveInv'
    BY Zenon, <1>7, SpendStep DEF TraderBroadcasts
  <1>8. ASSUME NEW t \in Trades, WalletSees(t)
        PROVE  ReserveInv'
    BY Zenon, <1>8, SeeStep
  <1>9. ASSUME NEW t \in Trades, CheckWrites(t)
        PROVE  ReserveInv'
    <2>1. UNCHANGED <<now, oceanVars, proposeVars>>
      BY Zenon, <1>9 DEF CheckWrites
    <2> QED BY Zenon, <2>1, ElsewhereStep DEF reserveVars, proposeVars, oceanVars
  <1>10. CASE \/ PopHandler \/ HandlerSkips \/ HandlerReads \/ HandlerWrites
              \/ RepeatHandler \/ ReceiveNotification \/ Restart \/ CheckScans
    BY ZenonT(30), <1>10, ElsewhereStep
    DEF PopHandler, HandlerSkips, HandlerReads, HandlerWrites, RepeatHandler,
        ReceiveNotification, Restart, CheckScans
  <1>11. CASE Crash \/ HandlerPanics
    BY Zenon, <1>11, DieStep DEF Crash, HandlerPanics
  <1>12. CASE WalletUnlocks
    BY Zenon, <1>12, UnlockStep
  <1>13. CASE Tick
    <2>1. /\ now \in Nat \ {0} /\ proposals \in [Trades -> ProposalRecord]
          /\ \A t \in Trades : WellFormed(proposals[t].trade)
      BY Zenon DEF ReserveInv, ReserveTypeOK, ProposalsWellFormed
    <2>2. /\ now' = now + 1
          /\ UNCHANGED <<lockedUntil, spender, seen, proposals, inputs>>
      BY Zenon, <1>13 DEF Tick
    <2> QED BY <2>1, <2>2, QuietStep
  <1> QED
    BY Zenon, <1>1, <1>2, <1>3, <1>4, <1>5, <1>6, <1>7, <1>8, <1>9, <1>10, <1>11,
       <1>12, <1>13 DEF Next

\* The inductive invariant holds in every reachable state.
LEMMA ReserveInvariance == Spec => []ReserveInv
  <1>1. Init => ReserveInv /\ CallsHaveTrade
    BY Zenon, ReserveInit, CallsInit
  <1>2. ReserveInv /\ CallsHaveTrade /\ [Next]_vars
          => (ReserveInv /\ CallsHaveTrade)'
    BY Zenon, ReserveNext, CallsNext
  <1> QED BY <1>1, <1>2, PTL DEF Spec

\* A coin of a trade stays locked, or is known to be spent, until the deadline
\* of the trade, though it is kept for the first of two selections only
\* (wallet/service.go, CompleteSwap).
THEOREM CoinsReserved == Spec => []CoinsStayReserved
  <1>1. ReserveInv => CoinsStayReserved
    BY Zenon DEF ReserveInv
  <1> QED BY <1>1, ReserveInvariance, PTL

\* No coin is promised to two traders at once (wallet/service.go,
\* CompleteSwap).
THEOREM NoDoublePromise == Spec => []LiveTradesDisjoint
  <1>1. ReserveInv => LiveTradesDisjoint
    BY Zenon DEF ReserveInv
  <1> QED BY <1>1, ReserveInvariance, PTL

-----------------------------------------------------------------------------
(***************************************************************************)
(* The copies of a trade.  The RPCs, the handler and the start-up check of *)
(* the trade service each hold a copy of the record they read, and write   *)
(* all of it back.  The invariant says what every copy may be, wherever it *)
(* is; it follows that a settled trade is spent and is announced once,     *)
(* that no holder of a copy dereferences a missing message, and that an    *)
(* acceptance is never overwritten.                                        *)
(***************************************************************************)

CallRecord ==
  [pc : {"idle", "complete", "broadcast", "update", "done"},
   id : Trades \cup {NoTrade},
   trade : TradeRecord]

Notification ==
  [type : {"LOCKED", "UNLOCKED", "SPENT", "CONFIRMED_SPENT"},
   utxos : SUBSET Utxos]

\* Some coin of the trade is spent on the chain.
Spent(t) == \E u \in inputs[t] : spender[u] # Nobody

\* A spent notification tells the truth.
Truthful(n) == n.type = "SPENT" => \A u \in n.utxos : spender[u] # Nobody

InProgress(c) == calls[c].pc \in {"complete", "broadcast", "update"}

\* The queue is as its own proofs have it; a handler waits only for a trade that
\* was accepted.
RegisteredOK ==
  /\ IInv
  /\ \A t \in Trades :
       t \in InUse => proposals[t].pc \in {"addAccepted", "accepted"}

\* The copy of TradePropose.
ProposalsOK ==
  \A t \in Trades :
    /\ Sound(proposals[t].trade, now)
    /\ proposals[t].trade.code <= TradeStatusCodeAccepted
    /\ proposals[t].pc \in {"register", "addAccepted"} =>
         proposals[t].trade.swapAccept

\* The copy in the repository, there once TradePropose is over.
StoredOK ==
  /\ stored \in [Trades -> TradeRecord \cup {NoTrade}]
  /\ \A t \in Trades : stored[t] # NoTrade =>
       /\ Sound(stored[t], now)
       /\ proposals[t].pc \in {"accepted", "rejected"}
       /\ proposals[t].pc = "accepted" => stored[t].swapAccept
       /\ IsSettled(stored[t]) => Spent(t)

\* The copies of TradeComplete.
CallsOK ==
  /\ calls \in [Calls -> CallRecord]
  /\ \A c \in Calls :
       /\ Sound(calls[c].trade, now)
       /\ InProgress(c) =>
            /\ calls[c].id \in Trades
            /\ proposals[calls[c].id].pc = "accepted"
            /\ stored[calls[c].id] # NoTrade
            /\ calls[c].trade.swapAccept
            /\ IsSettled(calls[c].trade) => Spent(calls[c].id)

\* The copy of the handler.
HandlerOK ==
  /\ update \in TradeRecord \cup {NoTrade}
  /\ update # NoTrade =>
       /\ listener.pc = "call"
       /\ Sound(update, now)
       /\ update.swapAccept
       /\ stored[listener.handler] # NoTrade
       /\ IsSettled(update) => Spent(listener.handler)

\* The copies of checkForPendingTrades.
CheckOK ==
  /\ check = [pc |-> check.pc, expired |-> check.expired]
  /\ \A t \in DOMAIN check.expired :
       /\ t \in Trades
       /\ stored[t] # NoTrade
       /\ Sound(check.expired[t], now)
       /\ check.expired[t].code = TradeStatusCodeExpired

\* Notifications, on the stream or being served.
EventsOK ==
  /\ event \in Notification
  /\ Truthful(event)
  /\ stream \in Seq(Notification)
  /\ \A i \in 1..Len(stream) : Truthful(stream[i])

\* A trade that was announced has no handler any more.
PublishedOK ==
  /\ published \in [Trades -> 0..1]
  /\ \A t \in Trades : published[t] > 0 =>
       /\ proposals[t].pc = "accepted"
       /\ t \notin InUse
       /\ Spent(t)

CopiesInv ==
  /\ RegisteredOK
  /\ ProposalsOK
  /\ StoredOK
  /\ CallsOK
  /\ HandlerOK
  /\ CheckOK
  /\ EventsOK
  /\ PublishedOK

USE DEF TradeStatusCodeUndefined, TradeStatusCodeProposal,
        TradeStatusCodeAccepted, TradeStatusCodeCompleted,
        TradeStatusCodeSettled, TradeStatusCodeExpired

\* At the start there is no copy, no handler and no notification (trading.go,
\* service.go).
LEMMA CopiesInit == Init => CopiesInv
  <1> SUFFICES ASSUME Init PROVE CopiesInv
    BY Zenon
  <1> USE ServiceAssumption, OceanAssumption
  <1>1. NewTrade \in TradeRecord /\ Sound(NewTrade, now)
    BY Zenon, NewTradeFact, NewTradeSound DEF Init
  <1>2. NewTrade.code = TradeStatusCodeUndefined
    BY Zenon DEF NewTrade
  <1>3. /\ QueueInit
        /\ stored = [t \in Trades |-> NoTrade]
        /\ proposals = [t \in Trades |-> Proposal("idle", NewTrade, 0)]
        /\ calls = [c \in Calls |-> Call("idle", NoTrade, NewTrade)]
        /\ event = NoEvent /\ update = NoTrade
        /\ published = [t \in Trades |-> 0]
        /\ check = [pc |-> "scan", expired |-> <<>>]
        /\ stream = <<>>
    BY Zenon DEF Init, OceanInit
  <1>4. RegisteredOK
    <2>1. IInv
      BY Zenon, <1>3, InitIInv
    <2>2. InUse = {}
      BY <1>3 DEF QueueInit, Listening, InUse, Range
    <2> QED BY Zenon, <2>1, <2>2 DEF RegisteredOK
  <1>5. ProposalsOK
    BY <1>1, <1>2, <1>3 DEF ProposalsOK, Proposal
  <1>6. StoredOK
    BY Zenon, <1>3 DEF StoredOK
  <1>7. CallsOK
    BY Zenon, <1>1, <1>3 DEF CallsOK, Call, CallRecord, InProgress
  <1>8. HandlerOK
    BY Zenon, <1>3 DEF HandlerOK
  <1>9. CheckOK
    BY <1>3 DEF CheckOK
  <1>10. EventsOK
    BY <1>3 DEF EventsOK, NoEvent, Notification, Truthful
  <1>11. PublishedOK
    BY <1>3 DEF PublishedOK
  <1> QED
    BY Zenon, <1>4, <1>5, <1>6, <1>7, <1>8, <1>9, <1>10, <1>11 DEF CopiesInv

-----------------------------------------------------------------------------
(***************************************************************************)
(* The steps by the actor that takes them, and what each leaves alone.     *)
(***************************************************************************)
ProposeStep(t) ==
  \/ TradePropose(t) \/ CompleteSwapSelectMarket(t) \/ CompleteSwapSelectFee(t)
  \/ CompleteSwapFails(t) \/ AcceptTrade(t) \/ RegisterHandler(t) \/ AddTrade(t)

CompleteStep(c) ==
  \/ \E t \in Trades : TradeComplete(c, t) \/ tradeFail(c, t)
  \/ CompleteTrade(c) \/ BroadcastTransaction(c) \/ UpdateTrade(c)

ListenerStep ==
  \/ ReceiveNotification \/ PopHandler \/ HandlerSkips \/ HandlerReads
  \/ HandlerWrites \/ RepeatHandler

CheckStep == CheckScans \/ \E t \in Trades : CheckWrites(t)

OutsideStep ==
  \/ \E t \in Trades : TraderBroadcasts(t) \/ WalletSees(t)
  \/ WalletUnlocks \/ Tick \/ Restart \/ UNCHANGED vars

\* Every step is one of these.
LEMMA StepActors ==
  ASSUME [Next]_vars
  PROVE  \/ \E t \in Trades : ProposeStep(t)
         \/ \E c \in Calls : CompleteStep(c)
         \/ ListenerStep
         \/ CheckStep
         \/ OutsideStep
         \/ Die
  BY Zenon DEF Next, ProposeStep, CompleteStep, ListenerStep, CheckStep,
               OutsideStep, Crash, HandlerPanics

\* TradePropose leaves what the others hold.
LEMMA ProposeFrame ==
  ASSUME NEW t \in Trades, ProposeStep(t)
  PROVE  UNCHANGED <<now, spender, calls, event, update, published, check,
                     listener>>
  BY Zenon DEF ProposeStep, TradePropose, CompleteSwapSelectMarket,
               CompleteSwapSelectFee, CompleteSwapFails, AcceptTrade,
               RegisterHandler, AddTrade, SelectUtxos, PushBack,
               oceanVars, queueVars, handlerVars, processVars

\* TradeComplete leaves the queue and the notifications.
LEMMA CompleteFrame ==
  ASSUME NEW c \in Calls, CompleteStep(c)
  PROVE  UNCHANGED <<now, stream, handlers, listener, proposals, inputs, event,
                     update, published, check>>
  BY Zenon DEF CompleteStep, TradeComplete, tradeFail, CompleteTrade,
               BroadcastTransaction, UpdateTrade, Spend,
               oceanVars, queueVars, proposeVars, handlerVars, processVars

\* The notification goroutine leaves the chain and the RPCs.
LEMMA ListenerFrame ==
  ASSUME ListenerStep
  PROVE  UNCHANGED <<now, spender, proposals, inputs, calls, check>>
  BY Zenon DEF ListenerStep, ReceiveNotification, PopHandler, HandlerSkips,
               HandlerReads, HandlerWrites, RepeatHandler,
               oceanVars, proposeVars, processVars

\* The start-up check only writes trades.
LEMMA CheckFrame ==
  ASSUME CheckStep
  PROVE  UNCHANGED <<now, spender, stream, handlers, listener, proposals, inputs,
                     calls, event, update, published>>
  BY Zenon DEF CheckStep, CheckScans, CheckWrites,
               oceanVars, queueVars, proposeVars, handlerVars

\* The trader, the wallet and the clock are outside the daemon.
LEMMA OutsideFrame ==
  ASSUME OutsideStep
  PROVE  UNCHANGED <<handlers, listener, stored, proposals, inputs, calls, event,
                     update, published, check>>
  BY Zenon DEF OutsideStep, TraderBroadcasts, WalletSees, WalletUnlocks, Tick,
               Restart, vars, queueVars, dbVars, proposeVars, handlerVars,
               processVars

-----------------------------------------------------------------------------
(***************************************************************************)
(* What no step takes back.                                                *)
(***************************************************************************)
Final == {"accepted", "rejected"}

Onward ==
  /\ now \in Nat /\ now' \in Nat /\ now <= now'
  /\ \A t \in Trades : proposals[t].pc \in Final =>
       proposals'[t].pc = proposals[t].pc /\ inputs'[t] = inputs[t]
  /\ \A u \in Utxos : spender[u] # Nobody => spender'[u] # Nobody
  /\ \A t \in Trades : stored[t] # NoTrade => stored'[t] # NoTrade

\* Time passes (trade.go, time.Now).
LEMMA TimeOnward ==
  ASSUME ReserveInv, [Next]_vars
  PROVE  now \in Nat /\ now' \in Nat /\ now <= now'
  <1>1. now \in Nat
    BY Zenon DEF ReserveInv, ReserveTypeOK
  <1>2. CASE UNCHANGED now
    BY <1>1, <1>2
  <1>3. CASE Tick
    BY <1>1, <1>3 DEF Tick
  <1>4. \/ \E t \in Trades : TraderBroadcasts(t) \/ WalletSees(t)
        \/ WalletUnlocks \/ Restart \/ UNCHANGED vars \/ Die
        => UNCHANGED now
    BY Zenon DEF TraderBroadcasts, WalletSees, WalletUnlocks, Restart, vars, Die
  <1> QED
    BY Zenon, <1>2, <1>3, <1>4, StepActors, ProposeFrame, CompleteFrame, ListenerFrame,
       CheckFrame DEF OutsideStep

\* An RPC that is over stays over, and its coins are the ones it selected
\* (trading.go, TradePropose).
LEMMA ProposalsOnward ==
  ASSUME ReserveInv, [Next]_vars,
         NEW t \in Trades, proposals[t].pc \in Final
  PROVE  proposals'[t].pc = proposals[t].pc /\ inputs'[t] = inputs[t]
  <1>1. /\ proposals \in [Trades -> ProposalRecord]
        /\ inputs \in [Trades -> SUBSET Utxos]
    BY Zenon DEF ReserveInv, ReserveTypeOK
  <1>2. CASE UNCHANGED <<proposals, inputs>>
    BY Zenon, <1>2
  <1>3. CASE Die
    BY Zenon, <1>1, <1>3 DEF Die, Final
  <1>4. ASSUME NEW v \in Trades, ProposeStep(v)
        PROVE  /\ proposals[v].pc \notin Final
               /\ \E p : proposals' = [proposals EXCEPT ![v] = p]
               /\ \E s : inputs' = [inputs EXCEPT ![v] = s]
    <2>1. inputs = [inputs EXCEPT ![v] = inputs[v]]
      BY Zenon, <1>1
    <2>2. CASE CompleteSwapSelectMarket(v) \/ CompleteSwapSelectFee(v)
      BY Zenon, <1>1, <2>2 DEF CompleteSwapSelectMarket, CompleteSwapSelectFee,
                        ProposalIs, Final
    <2>3. CASE TradePropose(v) \/ AcceptTrade(v)
      BY Zenon, <1>1, <2>1, <2>3 DEF TradePropose, AcceptTrade, ProposalIs, Final
    <2>4. CASE CompleteSwapFails(v) \/ RegisterHandler(v) \/ AddTrade(v)
      BY Zenon, <1>1, <2>1, <2>4 DEF CompleteSwapFails, RegisterHandler, AddTrade,
                              ProposalIs, Final
    <2> QED BY Zenon, <1>4, <2>2, <2>3, <2>4 DEF ProposeStep
  <1>5. ASSUME NEW v \in Trades, ProposeStep(v)
        PROVE  proposals'[t].pc = proposals[t].pc /\ inputs'[t] = inputs[t]
    <2>1. v # t
      BY Zenon, <1>4, <1>5
    <2>2. PICK p, s : /\ proposals' = [proposals EXCEPT ![v] = p]
                      /\ inputs' = [inputs EXCEPT ![v] = s]
      BY Zenon, <1>4, <1>5
    <2> QED BY Zenon, <1>1, <2>1, <2>2
  <1> QED
    BY Zenon, <1>2, <1>3, <1>5, StepActors, CompleteFrame, ListenerFrame, CheckFrame,
       OutsideFrame

\* A coin that is spent stays spent.
LEMMA SpenderOnward ==
  ASSUME ReserveInv, CopiesInv, [Next]_vars,
         NEW u \in Utxos, spender[u] # Nobody
  PROVE  spender'[u] # Nobody
  <1>1. CASE UNCHANGED spender
    BY Zenon, <1>1
  <1>2. ASSUME NEW t \in Trades, NEW utxos, Spend(t, utxos)
        PROVE  spender'[u] # Nobody
    BY Zenon, <1>2, OceanAssumption DEF Spend
  <1>3. ASSUME NEW c \in Calls, CompleteStep(c)
        PROVE  spender'[u] # Nobody
    <2>1. CASE BroadcastTransaction(c)
      <3>1. calls[c].id \in Trades
        BY Zenon, <2>1 DEF BroadcastTransaction, CopiesInv, CallsOK, InProgress
      <3>2. UNCHANGED oceanVars \/ Spend(calls[c].id, inputs[calls[c].id])
        BY Zenon, <2>1 DEF BroadcastTransaction
      <3> QED BY Zenon, <1>1, <1>2, <3>1, <3>2 DEF oceanVars
    <2>2. CASE ~BroadcastTransaction(c)
      <3>1. UNCHANGED oceanVars
        BY Zenon, <1>3, <2>2 DEF CompleteStep, TradeComplete, tradeFail,
                                 CompleteTrade, UpdateTrade
      <3> QED BY Zenon, <1>1, <3>1 DEF oceanVars
    <2> QED BY Zenon, <2>1, <2>2
  <1>4. CASE OutsideStep
    <2>1. CASE \E t \in Trades : TraderBroadcasts(t)
      BY Zenon, <1>2, <2>1 DEF TraderBroadcasts
    <2>2. CASE ~\E t \in Trades : TraderBroadcasts(t)
      <3>1. UNCHANGED spender
        BY Zenon, <1>4, <2>2 DEF OutsideStep, WalletSees, SeeSpent, SeeConfirmed,
                                 WalletUnlocks, UnlockExpired, Tick, Restart,
                                 vars, oceanVars
      <3> QED BY Zenon, <1>1, <3>1
    <2> QED BY Zenon, <2>1, <2>2
  <1>5. CASE Die
    BY Zenon, <1>1, <1>5 DEF Die
  <1> QED
    BY Zenon, <1>1, <1>3, <1>4, <1>5, StepActors, ProposeFrame, ListenerFrame, CheckFrame

\* A write stores the copy, or nothing (trade repository).
LEMMA WriteCases ==
  ASSUME StoredOK, NEW t \in Trades, NEW x, Write(t, x)
  PROVE  \A v \in Trades : stored'[v] = stored[v] \/ (v = t /\ stored'[v] = x)
  <1>1. stored \in [Trades -> TradeRecord \cup {NoTrade}]
    BY Zenon DEF StoredOK
  <1> QED BY Zenon, <1>1 DEF Write

\* The copies that are written: the first one when TradePropose ends, and then
\* only copies of accepted trades (trading.go, AddTrade and UpdateTrade callers).
Writes(t, x) ==
  /\ Write(t, x)
  /\ Sound(x, now)
  /\ \/ /\ stored[t] = NoTrade
        /\ proposals'[t].pc \in Final
        /\ proposals'[t].pc = "accepted" => x.swapAccept
        /\ ~IsSettled(x)
     \/ /\ stored[t] # NoTrade
        /\ x.swapAccept
        /\ IsSettled(x) => Spent(t)

\* A step writes nothing, or one such copy.
LEMMA StepWrites ==
  ASSUME ReserveInv, CopiesInv, [Next]_vars
  PROVE  stored' = stored \/ \E t \in Trades, x \in TradeRecord : Writes(t, x)
  <1> USE ServiceAssumption
  <1>1. ASSUME NEW t \in Trades, AddTrade(t)
        PROVE  Writes(t, proposals[t].trade) /\ proposals[t].trade \in TradeRecord
    <2>1. /\ proposals \in [Trades -> ProposalRecord]
          /\ proposals[t].pc \in {"addAccepted", "addRejected"}
          /\ Write(t, proposals[t].trade)
      BY Zenon, <1>1 DEF AddTrade, ProposalIs, ReserveInv, ReserveTypeOK
    <2>2. /\ proposals'[t].pc \in Final
          /\ proposals'[t].pc = "accepted" => proposals[t].pc = "addAccepted"
      BY Zenon, <1>1, <2>1 DEF AddTrade, ProposalIs, Proposal, Final
    <2>3. /\ Sound(proposals[t].trade, now)
          /\ ~IsSettled(proposals[t].trade)
          /\ proposals[t].pc = "addAccepted" => proposals[t].trade.swapAccept
      BY DEF CopiesInv, ProposalsOK, IsSettled
    <2>4. stored[t] = NoTrade
      BY Zenon, <2>1 DEF CopiesInv, StoredOK
    <2> QED BY Zenon, <2>1, <2>2, <2>3, <2>4 DEF Writes, Sound
  <1>2. ASSUME NEW c \in Calls, UpdateTrade(c)
        PROVE  \E t \in Trades, x \in TradeRecord : Writes(t, x)
    <2>1. /\ calls[c].id \in Trades
          /\ stored[calls[c].id] # NoTrade
          /\ calls[c].trade.swapAccept
          /\ IsSettled(calls[c].trade) => Spent(calls[c].id)
          /\ Sound(calls[c].trade, now)
      BY Zenon, <1>2 DEF UpdateTrade, CopiesInv, CallsOK, InProgress
    <2>2. Write(calls[c].id, calls[c].trade)
      BY Zenon, <1>2 DEF UpdateTrade
    <2>3. Writes(calls[c].id, calls[c].trade)
      BY Zenon, <2>1, <2>2 DEF Writes
    <2> QED BY Zenon, <2>1, <2>3 DEF Sound
  <1>3. ASSUME HandlerWrites
        PROVE  \E t \in Trades, x \in TradeRecord : Writes(t, x)
    <2>1. /\ listener.pc = "call" /\ Sound(update, now) /\ update.swapAccept
          /\ stored[listener.handler] # NoTrade
          /\ IsSettled(update) => Spent(listener.handler)
      BY Zenon, <1>3 DEF HandlerWrites, CopiesInv, HandlerOK
    <2>2. listener.handler \in Trades
      BY Zenon, <2>1 DEF CopiesInv, RegisteredOK, IInv, Shape
    <2>3. Write(listener.handler, update)
      BY Zenon, <1>3 DEF HandlerWrites
    <2>4. Writes(listener.handler, update)
      BY Zenon, <2>1, <2>3 DEF Writes
    <2> QED BY Zenon, <2>1, <2>2, <2>4 DEF Sound
  <1>4. ASSUME NEW t \in Trades, CheckWrites(t)
        PROVE  \E x \in TradeRecord : Writes(t, x)
    <2>1. /\ stored[t] # NoTrade
          /\ Sound(check.expired[t], now)
          /\ check.expired[t].code = TradeStatusCodeExpired
          /\ Write(t, check.expired[t])
      BY Zenon, <1>4 DEF CheckWrites, CopiesInv, CheckOK
    <2>2. check.expired[t].swapAccept /\ ~IsSettled(check.expired[t])
      BY <2>1 DEF Sound, WellFormed, IsSettled
    <2>3. Writes(t, check.expired[t])
      BY Zenon, <2>1, <2>2 DEF Writes
    <2> QED BY Zenon, <2>1, <2>3 DEF Sound
  <1>5. ASSUME NEW t \in Trades, ProposeStep(t)
        PROVE  stored' = stored \/ AddTrade(t)
    BY Zenon, <1>5 DEF ProposeStep, TradePropose, CompleteSwapSelectMarket,
                       CompleteSwapSelectFee, CompleteSwapFails, AcceptTrade,
                       RegisterHandler, dbVars
  <1>6. ASSUME NEW c \in Calls, CompleteStep(c)
        PROVE  stored' = stored \/ UpdateTrade(c)
    BY Zenon, <1>6 DEF CompleteStep, TradeComplete, tradeFail, CompleteTrade,
                       BroadcastTransaction, dbVars
  <1>7. ListenerStep => stored' = stored \/ HandlerWrites
    BY Zenon DEF ListenerStep, ReceiveNotification, PopHandler, HandlerSkips,
                 HandlerReads, RepeatHandler, dbVars
  <1>8. CheckStep => stored' = stored \/ \E t \in Trades : CheckWrites(t)
    BY Zenon DEF CheckStep, CheckScans, dbVars
  <1>9. Die => stored' = stored
    BY Zenon DEF Die
  <1> QED
    BY Zenon, <1>1, <1>2, <1>3, <1>4, <1>5, <1>6, <1>7, <1>8, <1>9, StepActors,
       OutsideFrame

\* Nothing is taken back.
LEMMA StepOnward ==
  ASSUME ReserveInv, CopiesInv, [Next]_vars
  PROVE  Onward
  <1>1. now \in Nat /\ now' \in Nat /\ now <= now'
    BY Zenon, TimeOnward
  <1>2. \A t \in Trades : proposals[t].pc \in Final =>
          proposals'[t].pc = proposals[t].pc /\ inputs'[t] = inputs[t]
    BY Zenon, ProposalsOnward
  <1>3. \A u \in Utxos : spender[u] # Nobody => spender'[u] # Nobody
    BY Zenon, SpenderOnward
  <1>4. ASSUME NEW t \in Trades, stored[t] # NoTrade
        PROVE  stored'[t] # NoTrade
    <2>1. CASE stored' = stored
      BY Zenon, <1>4, <2>1
    <2>2. CASE \E v \in Trades, x \in TradeRecord : Writes(v, x)
      <3>1. PICK v \in Trades, x \in TradeRecord : Write(v, x)
        BY Zenon, <2>2 DEF Writes
      <3>2. x # NoTrade
        BY Zenon, ServiceAssumption
      <3> QED BY Zenon, <1>4, <3>1, <3>2, WriteCases DEF CopiesInv
    <2> QED BY Zenon, <2>1, <2>2, StepWrites
  <1> QED BY Zenon, <1>1, <1>2, <1>3, <1>4 DEF Onward

\* A trade whose RPC is over stays spent.
LEMMA SpentOnward ==
  ASSUME ReserveInv, Onward, NEW t \in Trades, proposals[t].pc \in Final, Spent(t)
  PROVE  Spent(t)'
  <1>1. inputs'[t] = inputs[t] /\ inputs[t] \subseteq Utxos
    BY Zenon DEF Onward, ReserveInv, ReserveTypeOK
  <1>2. PICK u \in inputs[t] : spender[u] # Nobody
    BY Zenon DEF Spent
  <1>3. u \in inputs'[t] /\ spender'[u] # Nobody
    BY Zenon, <1>1, <1>2 DEF Onward
  <1> QED BY Zenon, <1>3 DEF Spent

\* The repository keeps the invariant (trading.go, AddTrade, UpdateTrade).
LEMMA StoredNext ==
  ASSUME ReserveInv, CopiesInv, [Next]_vars
  PROVE  StoredOK'
  <1> USE ServiceAssumption
  <1>1. Onward
    BY Zenon, StepOnward
  <1>2. /\ stored \in [Trades -> TradeRecord \cup {NoTrade}]
        /\ now \in Nat /\ now' \in Nat /\ now <= now'
    BY Zenon, <1>1 DEF Onward, CopiesInv, StoredOK
  <1>3. ASSUME NEW t \in Trades, stored[t] # NoTrade
        PROVE  /\ Sound(stored[t], now')
               /\ proposals'[t].pc \in Final /\ proposals'[t].pc = proposals[t].pc
               /\ proposals'[t].pc = "accepted" => stored[t].swapAccept
               /\ IsSettled(stored[t]) => Spent(t)'
    <2>1. /\ Sound(stored[t], now)
          /\ proposals[t].pc \in Final
          /\ proposals[t].pc = "accepted" => stored[t].swapAccept
          /\ IsSettled(stored[t]) => Spent(t)
      BY Zenon, <1>3 DEF CopiesInv, StoredOK, Final
    <2>2. Sound(stored[t], now')
      BY Zenon, <1>2, <2>1, SoundLater
    <2>3. proposals'[t].pc = proposals[t].pc
      BY Zenon, <1>1, <2>1 DEF Onward
    <2>4. IsSettled(stored[t]) => Spent(t)'
      BY Zenon, <1>1, <2>1, SpentOnward
    <2> QED BY Zenon, <2>1, <2>2, <2>3, <2>4
  <1>4. CASE stored' = stored
    BY Zenon, <1>2, <1>3, <1>4 DEF StoredOK, Final
  <1>5. CASE \E v \in Trades, x \in TradeRecord : Writes(v, x)
    <2>1. PICK v \in Trades, x \in TradeRecord : Writes(v, x)
      BY Zenon, <1>5
    <2>2. stored' \in [Trades -> TradeRecord \cup {NoTrade}]
      BY Zenon, <1>2, <2>1 DEF Writes, Write
    <2>3. \A t \in Trades : stored'[t] = stored[t] \/ (t = v /\ stored'[t] = x)
      BY Zenon, <2>1, WriteCases DEF Writes, CopiesInv
    <2>4. /\ Sound(x, now')
          /\ proposals'[v].pc \in Final
          /\ proposals'[v].pc = "accepted" => x.swapAccept
          /\ IsSettled(x) => Spent(v)'
      <3>1. Sound(x, now')
        BY Zenon, <1>2, <2>1, SoundLater DEF Writes
      <3>2. CASE stored[v] = NoTrade
        BY Zenon, <2>1, <3>1, <3>2 DEF Writes
      <3>3. CASE stored[v] # NoTrade
        <4>1. x.swapAccept /\ (IsSettled(x) => Spent(v))
          BY Zenon, <2>1, <3>3 DEF Writes
        <4>2. proposals[v].pc \in Final /\ proposals'[v].pc \in Final
          BY Zenon, <1>3, <3>3
        <4> QED BY Zenon, <1>1, <3>1, <4>1, <4>2, SpentOnward
      <3> QED BY Zenon, <3>2, <3>3
    <2>5. ASSUME NEW t \in Trades, stored'[t] # NoTrade
          PROVE  /\ Sound(stored'[t], now')
                 /\ proposals'[t].pc \in Final
                 /\ proposals'[t].pc = "accepted" => stored'[t].swapAccept
                 /\ IsSettled(stored'[t]) => Spent(t)'
      <3>1. CASE stored'[t] = stored[t]
        BY Zenon, <1>3, <2>5, <3>1
      <3>2. CASE t = v /\ stored'[t] = x
        BY Zenon, <2>4, <3>2
      <3> QED BY Zenon, <2>3, <3>1, <3>2
    <2> QED BY Zenon, <2>2, <2>5 DEF StoredOK, Final
  <1> QED BY Zenon, <1>4, <1>5, StepWrites

\* A written copy keeps the acceptance (trading.go, UpdateTrade callers).
LEMMA AcceptanceStep ==
  ASSUME ReserveInv, CopiesInv, [Next]_vars,
         NEW t \in Trades, stored[t] # NoTrade, stored[t].swapAccept
  PROVE  stored'[t] # NoTrade /\ stored'[t].swapAccept
  <1>1. CASE stored' = stored
    BY Zenon, <1>1
  <1>2. CASE \E v \in Trades, x \in TradeRecord : Writes(v, x)
    <2>1. PICK v \in Trades, x \in TradeRecord : Writes(v, x)
      BY Zenon, <1>2
    <2>2. stored'[t] = stored[t] \/ (t = v /\ stored'[t] = x)
      BY Zenon, <2>1, WriteCases DEF Writes, CopiesInv
    <2> QED BY Zenon, <2>1, <2>2, ServiceAssumption DEF Writes
  <1> QED BY Zenon, <1>1, <1>2, StepWrites

-----------------------------------------------------------------------------
(***************************************************************************)
(* Each copy, step by step.                                                *)
(***************************************************************************)

\* TradePropose brings its copy to Accepted at most, and registers only an
\* accepted one (trading.go, TradePropose).
LEMMA ProposalsNext ==
  ASSUME ReserveInv, CopiesInv, [Next]_vars
  PROVE  ProposalsOK'
  <1>1. /\ proposals \in [Trades -> ProposalRecord]
        /\ now \in Nat \ {0} /\ now' \in Nat /\ now <= now'
    BY Zenon, TimeOnward DEF ReserveInv, ReserveTypeOK
  <1>2. \A t \in Trades :
          /\ Sound(proposals[t].trade, now')
          /\ proposals[t].trade.code <= TradeStatusCodeAccepted
          /\ proposals[t].pc \in {"register", "addAccepted"} =>
               proposals[t].trade.swapAccept
    BY Zenon, <1>1, SoundLater DEF CopiesInv, ProposalsOK
  <1>3. Sound(NewTrade, now) /\ Sound(NewTrade, now') /\ NewTrade.code = 0
    BY Zenon, <1>1, NewTradeSound DEF NewTrade
  <1>4. ASSUME NEW t \in Trades, NEW pc, NEW x, NEW unlockTime,
               now' = now,
               proposals' = [proposals EXCEPT ![t] = Proposal(pc, x, unlockTime)],
               Sound(x, now), x.code <= TradeStatusCodeAccepted,
               pc \in {"register", "addAccepted"} => x.swapAccept
        PROVE  ProposalsOK'
    BY Zenon, <1>1, <1>2, <1>4 DEF ProposalsOK, Proposal
  <1>5. ASSUME NEW t \in Trades, ProposeStep(t)
        PROVE  ProposalsOK'
    <2>0. now' = now
      BY Zenon, <1>5, ProposeFrame
    <2>1. CASE TradePropose(t)
      <3>1. PICK priceInRange \in BOOLEAN, valid \in BOOLEAN :
              LET proposed == IF priceInRange
                              THEN Propose(NewTrade, TRUE, valid, now)
                              ELSE Returns(FALSE, Fail(NewTrade))
                  pc == IF proposed.ok THEN "selectMarket" ELSE "addRejected"
              IN  proposals' = [proposals EXCEPT
                                  ![t] = Proposal(pc, proposed.trade, 0)]
        BY Zenon, <2>1 DEF TradePropose
      <3> DEFINE proposed == IF priceInRange
                             THEN Propose(NewTrade, TRUE, valid, now)
                             ELSE Returns(FALSE, Fail(NewTrade))
                 pc == IF proposed.ok THEN "selectMarket" ELSE "addRejected"
      <3>2. Sound(proposed.trade, now)
            /\ proposed.trade.code <= TradeStatusCodeAccepted
        <4>1. CASE priceInRange
          <5>1. proposed = Propose(NewTrade, TRUE, valid, now)
            BY Zenon, <4>1
          <5> HIDE DEF proposed
          <5>2. proposed.trade = Propose(NewTrade, TRUE, valid, now).trade
            BY Zenon, <5>1
          <5>3. Sound(proposed.trade, now) /\ proposed.trade.code = 1
            BY Zenon, <1>1, <5>2, ProposeSound
          <5> QED BY <5>3
        <4>2. CASE ~priceInRange
          BY <1>1, <1>3, <4>2, FailSound DEF Returns
        <4> QED BY Zenon, <4>1, <4>2
      <3>3. pc \notin {"register", "addAccepted"}
        BY Zenon
      <3>4. proposals' = [proposals EXCEPT ![t] = Proposal(pc, proposed.trade, 0)]
        BY Zenon, <3>1
      <3> HIDE DEF proposed, pc
      <3> QED BY Zenon, <1>4, <2>0, <3>2, <3>3, <3>4
    <2>2. CASE CompleteSwapSelectMarket(t)
      <3>1. proposals' = [proposals EXCEPT
              ![t] = Proposal("selectFee", proposals[t].trade, now + LockTime)]
        BY Zenon, <1>1, <2>2 DEF CompleteSwapSelectMarket
      <3> QED BY Zenon, <1>2, <1>4, <2>0, <3>1
    <2>3. CASE CompleteSwapSelectFee(t)
      <3>1. proposals' = [proposals EXCEPT
              ![t] = Proposal("sign", proposals[t].trade, proposals[t].unlockTime)]
        BY Zenon, <1>1, <2>3 DEF CompleteSwapSelectFee
      <3> QED BY Zenon, <1>2, <1>4, <2>0, <3>1
    <2>4. CASE CompleteSwapFails(t)
      <3>1. proposals' = [proposals EXCEPT
              ![t] = Proposal("addRejected", proposals[t].trade, proposals[t].unlockTime)]
        BY Zenon, <1>1, <2>4 DEF CompleteSwapFails
      <3> QED BY Zenon, <1>2, <1>4, <2>0, <3>1
    <2>5. CASE AcceptTrade(t)
      <3>1. PICK valid \in BOOLEAN :
              LET accepted == Accept(proposals[t].trade, proposals[t].unlockTime,
                                     valid)
                  pc == IF accepted.ok THEN "register" ELSE "addRejected"
              IN  proposals' = [proposals EXCEPT
                    ![t] = Proposal(pc, accepted.trade, @.unlockTime)]
        BY Zenon, <2>5 DEF AcceptTrade
      <3> DEFINE accepted == Accept(proposals[t].trade, proposals[t].unlockTime,
                                    valid)
                 pc == IF accepted.ok THEN "register" ELSE "addRejected"
      <3>2. proposals[t].unlockTime \in Nat
        BY Zenon, <1>1 DEF ProposalRecord
      <3>3. /\ Sound(accepted.trade, now)
            /\ accepted.trade.code <= TradeStatusCodeAccepted
            /\ accepted.ok => accepted.trade.swapAccept
        BY Zenon, <1>1, <1>2, <2>0, <3>2, AcceptSound
      <3>4. pc \in {"register", "addAccepted"} => accepted.ok
        BY Zenon
      <3>5. proposals' = [proposals EXCEPT
              ![t] = Proposal(pc, accepted.trade, proposals[t].unlockTime)]
        BY Zenon, <1>1, <3>1
      <3> HIDE DEF accepted, pc
      <3> QED BY Zenon, <1>4, <2>0, <3>3, <3>4, <3>5
    <2>6. CASE RegisterHandler(t)
      BY Zenon, <1>1, <1>2, <1>4, <2>0, <2>6 DEF RegisterHandler, ProposalIs
    <2>7. CASE AddTrade(t)
      <3>1. PICK pc \in Final :
              proposals' = [proposals EXCEPT
                              ![t] = Proposal(pc, NewTrade, proposals[t].unlockTime)]
        BY Zenon, <1>1, <2>7 DEF AddTrade, Final
      <3>2. pc \notin {"register", "addAccepted"}
        BY Zenon DEF Final
      <3>3. NewTrade.code <= TradeStatusCodeAccepted
        BY <1>3
      <3> QED BY Zenon, <1>3, <1>4, <2>0, <3>1, <3>2, <3>3
    <2> QED
      BY Zenon, <1>5, <2>1, <2>2, <2>3, <2>4, <2>5, <2>6, <2>7 DEF ProposeStep
  <1>6. CASE UNCHANGED proposals
    BY Zenon, <1>2, <1>6 DEF ProposalsOK
  <1>7. CASE Die
    <2>1. \A t \in Trades : proposals'[t] = proposals[t]
                              \/ proposals'[t] = Proposal("rejected", NewTrade, 0)
      BY Zenon, <1>7 DEF Die
    <2> QED BY <1>2, <1>3, <2>1 DEF ProposalsOK, Proposal
  <1> QED
    BY Zenon, <1>5, <1>6, <1>7, StepActors, CompleteFrame, ListenerFrame, CheckFrame,
       OutsideFrame

\* TradeComplete works on a copy of a stored trade that was accepted
\* (trading.go, TradeComplete, tradeFail).
LEMMA CompletionsNext ==
  ASSUME ReserveInv, CopiesInv, [Next]_vars
  PROVE  CallsOK'
  <1>1. Onward
    BY Zenon, StepOnward
  <1>2. /\ calls \in [Calls -> CallRecord]
        /\ now \in Nat /\ now' \in Nat /\ now <= now'
    BY Zenon, <1>1 DEF Onward, CopiesInv, CallsOK
  <1>3. Sound(NewTrade, now') /\ NewTrade \in TradeRecord
    BY Zenon, <1>2, NewTradeSound, NewTradeFact
  <1>4. ASSUME NEW t \in Trades, proposals[t].pc = "accepted", stored[t] # NoTrade
        PROVE  /\ proposals'[t].pc = "accepted" /\ stored'[t] # NoTrade
               /\ Spent(t) => Spent(t)'
    BY Zenon, <1>1, <1>4, SpentOnward DEF Onward, Final
  <1>5. ASSUME NEW c \in Calls
        PROVE  /\ Sound(calls[c].trade, now')
               /\ InProgress(c) =>
                    /\ calls[c].id \in Trades
                    /\ proposals'[calls[c].id].pc = "accepted"
                    /\ stored'[calls[c].id] # NoTrade
                    /\ calls[c].trade.swapAccept
                    /\ IsSettled(calls[c].trade) => Spent(calls[c].id)
    <2>1. Sound(calls[c].trade, now')
      BY Zenon, <1>2, SoundLater DEF CopiesInv, CallsOK
    <2> QED BY Zenon, <1>4, <2>1 DEF CopiesInv, CallsOK
  <1>6. ASSUME NEW c \in Calls, InProgress(c), IsSettled(calls[c].trade)
        PROVE  \E u \in inputs'[calls[c].id] : spender'[u] # Nobody
    <2>1. PICK t \in Trades : t = calls[c].id
      BY Zenon, <1>5, <1>6
    <2>2. proposals[t].pc = "accepted" /\ stored[t] # NoTrade /\ Spent(t)
      BY Zenon, <1>6, <2>1 DEF CopiesInv, CallsOK
    <2>3. Spent(t)'
      BY Zenon, <1>4, <2>2
    <2> QED BY Zenon, <2>1, <2>3 DEF Spent
  <1>7. ASSUME NEW c \in Calls, NEW pc, NEW id, NEW x,
               calls' = [calls EXCEPT ![c] = Call(pc, id, x)],
               pc \in {"idle", "complete", "broadcast", "update", "done"},
               id \in Trades \cup {NoTrade},
               Sound(x, now'),
               pc \in {"complete", "broadcast", "update"} =>
                 /\ id \in Trades
                 /\ proposals'[id].pc = "accepted"
                 /\ stored'[id] # NoTrade
                 /\ x.swapAccept
                 /\ IsSettled(x) => \E u \in inputs'[id] : spender'[u] # Nobody
        PROVE  CallsOK'
    <2>1. Call(pc, id, x) \in CallRecord
      BY Zenon, <1>7 DEF Call, CallRecord, Sound
    <2>2. calls' \in [Calls -> CallRecord]
      BY Zenon, <1>2, <1>7, <2>1
    <2>3. ASSUME NEW d \in Calls
          PROVE  /\ Sound(calls'[d].trade, now')
                 /\ calls'[d].pc \in {"complete", "broadcast", "update"} =>
                      /\ calls'[d].id \in Trades
                      /\ proposals'[calls'[d].id].pc = "accepted"
                      /\ stored'[calls'[d].id] # NoTrade
                      /\ calls'[d].trade.swapAccept
                      /\ IsSettled(calls'[d].trade) =>
                           \E u \in inputs'[calls'[d].id] : spender'[u] # Nobody
      <3>1. CASE d # c
        <4>1. calls'[d] = calls[d]
          BY Zenon, <1>2, <1>7, <3>1
        <4> QED BY Zenon, <1>5, <1>6, <4>1 DEF InProgress
      <3>2. CASE d = c
        <4>1. /\ calls'[d].pc = pc /\ calls'[d].id = id /\ calls'[d].trade = x
          BY Zenon, <1>2, <1>7, <3>2 DEF Call
        <4> QED BY Zenon, <1>7, <4>1
      <3> QED BY Zenon, <3>1, <3>2
    <2> QED BY Zenon, <2>2, <2>3 DEF CallsOK, InProgress, Spent
  <1>8. ASSUME NEW c \in Calls, CompleteStep(c)
        PROVE  CallsOK'
    <2>0. now' = now /\ UNCHANGED <<proposals, inputs>>
      BY Zenon, <1>8, CompleteFrame
    <2>1. ASSUME NEW t \in Trades, CanCall(c, t)
          PROVE  /\ Sound(stored[t], now') /\ stored[t].swapAccept
                 /\ proposals'[t].pc = "accepted" /\ stored'[t] # NoTrade
                 /\ IsSettled(stored[t]) => \E u \in inputs'[t] : spender'[u] # Nobody
      <3>1. /\ proposals[t].pc = "accepted" /\ stored[t] # NoTrade
            /\ Sound(stored[t], now') /\ stored[t].swapAccept
            /\ IsSettled(stored[t]) => Spent(t)
        BY Zenon, <2>0, <2>1 DEF CanCall, CopiesInv, StoredOK
      <3> QED BY Zenon, <1>4, <3>1 DEF Spent
    <2>2. ASSUME NEW t \in Trades, TradeComplete(c, t)
          PROVE  CallsOK'
      <3>1. CanCall(c, t) /\ calls' = [calls EXCEPT ![c] = Call("complete", t, stored[t])]
        BY Zenon, <2>2 DEF TradeComplete
      <3> QED BY Zenon, <1>7, <2>1, <3>1
    <2>3. ASSUME NEW t \in Trades, tradeFail(c, t)
          PROVE  CallsOK'
      <3>1. CanCall(c, t) /\ calls' = [calls EXCEPT ![c] = Call("update", t, Fail(stored[t]))]
        BY Zenon, <2>3 DEF tradeFail
      <3>2. /\ Sound(Fail(stored[t]), now') /\ Fail(stored[t]).swapAccept
            /\ IsSettled(Fail(stored[t])) => IsSettled(stored[t])
        BY Zenon, <1>2, <2>1, <3>1, FailSound DEF IsSettled
      <3> QED BY Zenon, <1>7, <2>1, <3>1, <3>2
    <2>4. CASE CompleteTrade(c)
      <3>1. InProgress(c)
        BY Zenon, <2>4 DEF CompleteTrade, InProgress
      <3>2. PICK valid \in BOOLEAN :
              LET completed == Complete(calls[c].trade, valid, now)
                  pc == IF completed.ok THEN "broadcast" ELSE "update"
              IN  calls' = [calls EXCEPT ![c] = Call(pc, @.id, completed.trade)]
        BY Zenon, <2>4 DEF CompleteTrade
      <3> DEFINE completed == Complete(calls[c].trade, valid, now)
                 pc == IF completed.ok THEN "broadcast" ELSE "update"
      <3>3. /\ Sound(completed.trade, now') /\ completed.trade.swapAccept
            /\ IsSettled(completed.trade) => IsSettled(calls[c].trade)
        <4>1. Sound(calls[c].trade, now) /\ calls[c].trade.swapAccept
          BY Zenon, <1>5, <2>0, <3>1
        <4> QED BY <1>2, <2>0, <4>1, CompleteSound
      <3>4. pc \in {"broadcast", "update"}
        BY Zenon
      <3>5. calls' = [calls EXCEPT ![c] = Call(pc, calls[c].id, completed.trade)]
        BY Zenon, <1>2, <3>2
      <3> HIDE DEF completed, pc
      <3> QED BY Zenon, <1>5, <1>6, <1>7, <3>1, <3>3, <3>4, <3>5
    <2>5. CASE BroadcastTransaction(c)
      <3>1. InProgress(c)
        BY Zenon, <2>5 DEF BroadcastTransaction, InProgress
      <3>2. PICK x \in {calls[c].trade, Fail(calls[c].trade)} :
              calls' = [calls EXCEPT ![c] = Call("update", calls[c].id, x)]
        BY Zenon, <1>2, <2>5 DEF BroadcastTransaction
      <3>3. Sound(x, now') /\ x.swapAccept
            /\ (IsSettled(x) => IsSettled(calls[c].trade))
        <4>1. Sound(calls[c].trade, now') /\ calls[c].trade.swapAccept
          BY Zenon, <1>5, <3>1
        <4>2. /\ Sound(Fail(calls[c].trade), now')
              /\ Fail(calls[c].trade).code = calls[c].trade.code
              /\ Fail(calls[c].trade).swapAccept = calls[c].trade.swapAccept
          BY Zenon, <1>2, <4>1, FailSound
        <4> QED BY Zenon, <3>2, <4>1, <4>2 DEF IsSettled
      <3> QED BY Zenon, <1>5, <1>6, <1>7, <3>1, <3>2, <3>3
    <2>6. CASE UpdateTrade(c)
      <3>1. calls' = [calls EXCEPT ![c] = Call("done", NoTrade, NewTrade)]
        BY Zenon, <2>6 DEF UpdateTrade
      <3> QED BY Zenon, <1>3, <1>7, <3>1
    <2> QED BY Zenon, <1>8, <2>2, <2>3, <2>4, <2>5, <2>6 DEF CompleteStep
  <1>9. CASE UNCHANGED calls
    BY Zenon, <1>2, <1>5, <1>6, <1>9 DEF CallsOK, InProgress, Spent
  <1>10. CASE Die
    <2>1. calls' = [c \in Calls |-> IF calls[c].pc = "idle" THEN calls[c]
                                    ELSE Call("done", NoTrade, NewTrade)]
      BY Zenon, <1>10 DEF Die
    <2>2. Call("done", NoTrade, NewTrade) \in CallRecord
      BY Zenon, <1>3 DEF Call, CallRecord
    <2>3. calls' \in [Calls -> CallRecord]
      BY Zenon, <1>2, <2>1, <2>2
    <2>4. \A c \in Calls : /\ calls'[c].pc \in {"idle", "done"}
                           /\ Sound(calls'[c].trade, now')
      BY Zenon, <1>3, <1>5, <2>1 DEF Call
    <2> QED BY Zenon, <2>3, <2>4 DEF CallsOK, InProgress
  <1> QED
    BY Zenon, <1>8, <1>9, <1>10, StepActors, ProposeFrame, ListenerFrame, CheckFrame,
       OutsideFrame

\* A handler waits only for a trade that was accepted, and leaves the queue only
\* when it is done (wallet/types.go, trading.go).
LEMMA RegisteredNext ==
  ASSUME ReserveInv, CopiesInv, [Next]_vars
  PROVE  /\ RegisteredOK'
         /\ InUse' \subseteq InUse
              \/ \E t \in Trades : RegisterHandler(t) /\ InUse' = InUse \cup {t}
         /\ HandlerWrites => /\ listener.handler \in InUse \cap Trades
                             /\ InUse' = InUse \ {listener.handler}
  <1> USE ServiceAssumption
  <1>1. /\ IInv
        /\ \A t \in Trades :
             t \in InUse => proposals[t].pc \in {"addAccepted", "accepted"}
    BY Zenon DEF CopiesInv, RegisteredOK
  <1>2. /\ proposals \in [Trades -> ProposalRecord]
        /\ update # NoTrade => listener.pc = "call"
    BY Zenon DEF ReserveInv, ReserveTypeOK, CopiesInv, HandlerOK
  <1> DEFINE Left == InUse' \subseteq InUse
             Kept == \A t \in Trades :
                       proposals[t].pc \in {"addAccepted", "accepted"} =>
                         proposals'[t].pc \in {"addAccepted", "accepted"}
  <1>3. ASSUME IInv', Left, Kept
        PROVE  RegisteredOK'
    BY Zenon, <1>1, <1>3 DEF RegisteredOK
  <1>4. ASSUME UNCHANGED <<handlers, listener>>
        PROVE  IInv' /\ InUse' = InUse
    <2>1. QueueTypeOK' /\ Shape' /\ Once'
      <3>1. QueueTypeOK'
        BY Zenon, <1>1, <1>4 DEF IInv, QueueTypeOK
      <3>2. Shape'
        BY Zenon, <1>1, <1>4 DEF IInv, Shape
      <3>3. Once'
        BY Zenon, <1>1, <1>4 DEF IInv, Once, Distinct
      <3> QED BY Zenon, <3>1, <3>2, <3>3
    <2>2. InUse' = InUse
      BY Zenon, <1>4 DEF InUse
    <2> QED BY Zenon, <2>1, <2>2 DEF IInv
  <1>5. ASSUME NEW t \in Trades, RegisterHandler(t)
        PROVE  /\ RegisteredOK'
               /\ InUse' = InUse \cup {t}
    <2>1. /\ proposals[t].pc = "register" /\ PushBack(t)
          /\ proposals' = [proposals EXCEPT
               ![t] = Proposal("addAccepted", proposals[t].trade,
                               proposals[t].unlockTime)]
      BY Zenon, <1>2, <1>5 DEF RegisterHandler, ProposalIs
    <2>2. t \in Handlers \ InUse
      BY Zenon, <1>1, <2>1
    <2>3. IInv'
      BY Zenon, <1>1, <2>1, <2>2, PushBackIInv
    <2>4. InUse' = InUse \cup {t}
      BY Zenon, <1>1, <2>1, <2>2, <2>3, PushBackRefines DEF H!Register
    <2> QED BY Zenon, <1>1, <1>2, <2>1, <2>3, <2>4 DEF RegisteredOK, Proposal
  <1>6. ASSUME NEW t \in Trades, ProposeStep(t), ~RegisterHandler(t)
        PROVE  IInv' /\ Left /\ Kept
    <2>1. UNCHANGED <<handlers, listener>>
      BY Zenon, <1>6 DEF ProposeStep, TradePropose, CompleteSwapSelectMarket,
                         CompleteSwapSelectFee, CompleteSwapFails, AcceptTrade,
                         AddTrade, queueVars
    <2>2. Kept
      <3>1. CASE AddTrade(t)
        BY Zenon, <1>2, <3>1 DEF AddTrade, Proposal, ProposalIs
      <3>2. CASE ~AddTrade(t)
        <4>1. /\ proposals[t].pc \in {"idle", "selectMarket", "selectFee", "sign"}
              /\ \A v \in Trades \ {t} : proposals'[v] = proposals[v]
          BY Zenon, <1>2, <1>6, <3>2
          DEF ProposeStep, TradePropose, CompleteSwapSelectMarket,
              CompleteSwapSelectFee, CompleteSwapFails, AcceptTrade, ProposalIs
        <4> QED BY Zenon, <4>1
      <3> QED BY Zenon, <3>1, <3>2
    <2> QED BY Zenon, <1>4, <2>1, <2>2
  <1>7. ASSUME UNCHANGED <<handlers, listener, proposals>>
        PROVE  IInv' /\ Left /\ Kept
    BY Zenon, <1>4, <1>7
  <1>8. ASSUME ListenerStep
        PROVE  /\ IInv' /\ Left /\ Kept
               /\ HandlerWrites => /\ listener.handler \in InUse \cap Trades
                                   /\ InUse' = InUse \ {listener.handler}
    <2>1. Kept
      BY Zenon, <1>8, ListenerFrame
    <2>2. CASE ReceiveNotification
      <3>0. CASE Receive
        <4>1. IInv'
          BY Zenon, <1>1, <3>0, ReceiveIInv
        <4>2. InUse' = InUse
          BY Zenon, <1>1, <3>0, <4>1, ReceiveRefines DEF H!Notify
        <4>3. ~HandlerWrites
          BY Zenon, <3>0, <1>2 DEF Receive, HandlerWrites
        <4> QED BY Zenon, <2>1, <4>1, <4>2, <4>3
      <3>1. CASE ~Receive
        <4>1. UNCHANGED <<handlers, listener>>
          BY Zenon, <2>2, <3>1 DEF ReceiveNotification, queueVars
        <4>2. ~HandlerWrites
          BY Zenon, <2>2, <1>2 DEF ReceiveNotification, HandlerWrites
        <4> QED BY Zenon, <1>4, <2>1, <4>1, <4>2
      <3> QED BY Zenon, <3>0, <3>1
    <2>3. CASE PopHandler
      <3>1. Pop /\ ~HandlerWrites
        BY Zenon, <1>2, <2>3 DEF PopHandler, Pop, HandlerWrites
      <3>2. IInv'
        BY Zenon, <1>1, <3>1, PopIInv
      <3> QED BY Zenon, <1>1, <2>1, <3>1, <3>2, PopRefines
    <2>4. CASE HandlerSkips
      <3>1. Return(FALSE) /\ ~HandlerWrites
        BY Zenon, <2>4 DEF HandlerSkips, HandlerRuns, HandlerWrites
      <3>2. IInv'
        BY Zenon, <1>1, <3>1, ReturnIInv
      <3> QED BY Zenon, <1>1, <2>1, <3>1, <3>2, ReturnInUse
    <2>5. CASE HandlerReads
      BY Zenon, <1>4, <2>1, <2>5 DEF HandlerReads, HandlerRuns, HandlerWrites, queueVars
    <2>6. CASE HandlerWrites
      <3>1. Return(TRUE)
        BY Zenon, <2>6 DEF HandlerWrites
      <3>2. IInv'
        BY Zenon, <1>1, <3>1, ReturnIInv
      <3>3. /\ listener.handler \in Handlers /\ listener.handler \in InUse
            /\ InUse' = InUse \ {listener.handler}
        BY Zenon, <1>1, <3>1, <3>2, ReturnInUse
      <3> QED BY Zenon, <2>1, <3>2, <3>3
    <2>7. CASE RepeatHandler
      <3>1. Repeat /\ ~HandlerWrites
        BY Zenon, <1>2, <2>7 DEF RepeatHandler, Repeat, HandlerWrites
      <3>2. IInv'
        BY Zenon, <1>1, <3>1, RepeatIInv
      <3> QED BY Zenon, <1>1, <2>1, <3>1, <3>2, RepeatRefines
    <2> QED BY Zenon, <1>8, <2>2, <2>3, <2>4, <2>5, <2>6, <2>7 DEF ListenerStep
  <1>9. ASSUME Die
        PROVE  RegisteredOK' /\ Left
    <2>1. QueueInit'
      BY Zenon, <1>9 DEF Die, QueueInit, Listening
    <2>2. QueueInit' => IInv'
      BY InitIInv, PTL
    <2>3. InUse' = {}
      BY <2>1 DEF QueueInit, Listening, InUse, Range
    <2> QED BY Zenon, <2>1, <2>2, <2>3 DEF RegisteredOK
  <1>10. HandlerWrites => ListenerStep
    BY Zenon DEF ListenerStep
  <1>11. \/ \E t \in Trades : RegisterHandler(t)
         \/ \E t \in Trades : ProposeStep(t) /\ ~RegisterHandler(t)
         \/ UNCHANGED <<handlers, listener, proposals>>
         \/ ListenerStep
         \/ Die
    BY Zenon, StepActors, CompleteFrame, CheckFrame, OutsideFrame DEF ProposeStep
  <1> HIDE DEF Kept
  <1>12. RegisteredOK'
    BY Zenon, <1>3, <1>5, <1>6, <1>7, <1>8, <1>9, <1>11
  <1>13. Left \/ \E t \in Trades : RegisterHandler(t) /\ InUse' = InUse \cup {t}
    BY Zenon, <1>5, <1>6, <1>7, <1>8, <1>9, <1>11
  <1> QED BY Zenon, <1>8, <1>10, <1>12, <1>13

\* The handler settles or expires an accepted trade, and settles it only for a
\* notification that its coins are spent (trading.go, makeTradeSettledOrExpired).
LEMMA HandlerNext ==
  ASSUME ReserveInv, CopiesInv, [Next]_vars
  PROVE  HandlerOK'
  <1> USE ServiceAssumption
  <1>1. Onward
    BY Zenon, StepOnward
  <1>2. /\ now \in Nat /\ now' \in Nat /\ now <= now'
        /\ IInv
        /\ inputs \in [Trades -> SUBSET Utxos]
    BY Zenon, <1>1 DEF Onward, CopiesInv, RegisteredOK, ReserveInv, ReserveTypeOK
  <1>3. listener.pc = "call" =>
          /\ listener.handler \in Trades
          /\ stored[listener.handler] # NoTrade =>
               /\ proposals[listener.handler].pc = "accepted"
               /\ stored'[listener.handler] # NoTrade
               /\ Spent(listener.handler) =>
                    \E u \in inputs'[listener.handler] : spender'[u] # Nobody
    <2> SUFFICES ASSUME listener.pc = "call"
                 PROVE  /\ listener.handler \in Trades
                        /\ stored[listener.handler] # NoTrade =>
                             /\ proposals[listener.handler].pc = "accepted"
                             /\ stored'[listener.handler] # NoTrade
                             /\ Spent(listener.handler) =>
                                  \E u \in inputs'[listener.handler] : spender'[u] # Nobody
      BY Zenon
    <2>1. listener.handler \in Trades
      BY Zenon, <1>2 DEF IInv, Shape, QueueTypeOK, ListenerRecord
    <2>2. listener.handler \in InUse
      BY Zenon, <1>2, <2>1, QueueAssumption DEF InUse
    <2>3. PICK t \in Trades : t = listener.handler
      BY Zenon, <2>1
    <2>4. ASSUME stored[t] # NoTrade
          PROVE  /\ proposals[t].pc = "accepted" /\ stored'[t] # NoTrade
                 /\ Spent(t) => Spent(t)'
      <3>1. proposals[t].pc = "accepted"
        BY Zenon, <2>2, <2>3, <2>4 DEF CopiesInv, RegisteredOK, StoredOK
      <3> QED BY Zenon, <1>1, <2>4, <3>1, SpentOnward DEF Onward, Final
    <2> QED BY Zenon, <2>1, <2>3, <2>4 DEF Spent
  <1>4. CASE HandlerReads
    <2>0. /\ now' = now /\ listener' = listener /\ listener.pc = "call"
          /\ stored[listener.handler] # NoTrade
          /\ Concerned(listener.handler)
          /\ update' = SettledOrExpired(stored[listener.handler])
      BY Zenon, <1>4 DEF HandlerReads, HandlerRuns, queueVars
    <2>1. PICK t \in Trades : t = listener.handler
      BY Zenon, <1>3, <2>0
    <2>2. /\ Sound(stored[t], now) /\ stored[t].swapAccept
          /\ IsSettled(stored[t]) => Spent(t)
      BY Zenon, <1>3, <2>0, <2>1 DEF CopiesInv, StoredOK
    <2>3. /\ Sound(update', now) /\ update'.swapAccept
          /\ IsSettled(update') => Spent(t)
      <3>1. CASE event.type = "SPENT"
        <4>1. update' = Settle(stored[t]).trade
          BY Zenon, <2>0, <2>1, <3>1 DEF SettledOrExpired
        <4>2. PICK u \in inputs[t] : u \in event.utxos
          BY Zenon, <2>0, <2>1 DEF Concerned
        <4>3. Spent(t)
          BY Zenon, <3>1, <4>2 DEF CopiesInv, EventsOK, Truthful, Spent
        <4> QED BY Zenon, <1>2, <2>2, <4>1, <4>3, SettleSound
      <3>2. CASE event.type = "UNLOCKED"
        <4>1. update' = Expire(stored[t], now).trade
          BY Zenon, <2>0, <2>1, <3>2 DEF SettledOrExpired
        <4>2. /\ Sound(Expire(stored[t], now).trade, now)
              /\ Expire(stored[t], now).trade.swapAccept
              /\ IsSettled(Expire(stored[t], now).trade) => IsSettled(stored[t])
          BY Zenon, <1>2, <2>2, ExpireSound
        <4> QED BY Zenon, <2>2, <4>1, <4>2
      <3>3. CASE event.type \notin {"SPENT", "UNLOCKED"}
        <4>1. update' = stored[t]
          BY Zenon, <2>0, <2>1, <3>3 DEF SettledOrExpired
        <4> QED BY Zenon, <2>2, <4>1
      <3> QED BY Zenon, <3>1, <3>2, <3>3
    <2> QED BY Zenon, <1>3, <2>0, <2>1, <2>3 DEF HandlerOK, Sound, Spent
  <1>5. CASE update' = NoTrade
    BY Zenon, <1>5 DEF HandlerOK
  <1>6. CASE UNCHANGED <<update, listener>>
    <2>1. CASE update = NoTrade
      BY Zenon, <1>5, <1>6, <2>1
    <2>2. CASE update # NoTrade
      <3>1. /\ listener.pc = "call" /\ update \in TradeRecord
            /\ Sound(update, now) /\ update.swapAccept
            /\ stored[listener.handler] # NoTrade
            /\ IsSettled(update) => Spent(listener.handler)
        BY Zenon, <2>2 DEF CopiesInv, HandlerOK
      <3>2. Sound(update, now')
        BY Zenon, <1>2, <3>1, SoundLater
      <3> QED BY Zenon, <1>3, <1>6, <3>1, <3>2 DEF HandlerOK, Spent
    <2> QED BY Zenon, <2>1, <2>2
  <1>7. CASE ListenerStep
    <2>1. update # NoTrade => listener.pc = "call"
      BY Zenon DEF CopiesInv, HandlerOK
    <2>2. CASE ReceiveNotification
      <3>1. UNCHANGED listener \/ listener.pc = "recv"
        BY Zenon, <2>2 DEF ReceiveNotification, Receive, queueVars
      <3>2. UNCHANGED update
        BY Zenon, <2>2 DEF ReceiveNotification
      <3> QED BY Zenon, <1>5, <1>6, <2>1, <3>1, <3>2
    <2>3. CASE PopHandler
      BY Zenon, <1>5, <2>1, <2>3 DEF PopHandler, Pop, handlerVars
    <2>4. CASE HandlerSkips
      BY Zenon, <1>5, <2>4 DEF HandlerSkips, HandlerRuns
    <2>5. CASE HandlerWrites
      BY Zenon, <1>5, <2>5 DEF HandlerWrites
    <2>6. CASE RepeatHandler
      BY Zenon, <1>5, <2>1, <2>6 DEF RepeatHandler, Repeat
    <2> QED BY Zenon, <1>4, <1>7, <2>2, <2>3, <2>4, <2>5, <2>6 DEF ListenerStep
  <1>8. CASE Die
    BY Zenon, <1>5, <1>8 DEF Die
  <1> QED
    BY Zenon, <1>6, <1>7, <1>8, StepActors, ProposeFrame, CompleteFrame, CheckFrame,
       OutsideFrame

\* The start-up check writes only trades it found expired (trading.go,
\* checkForPendingTrades).
LEMMA CheckNext ==
  ASSUME ReserveInv, CopiesInv, [Next]_vars
  PROVE  CheckOK'
  <1>1. Onward
    BY Zenon, StepOnward
  <1>2. /\ now \in Nat /\ now' \in Nat /\ now <= now'
        /\ \A t \in Trades : stored[t] # NoTrade => stored'[t] # NoTrade
    BY Zenon, <1>1 DEF Onward
  <1>3. \A t \in DOMAIN check.expired :
          /\ t \in Trades
          /\ stored'[t] # NoTrade
          /\ Sound(check.expired[t], now')
          /\ check.expired[t].code = TradeStatusCodeExpired
    BY Zenon, <1>2, SoundLater DEF CopiesInv, CheckOK
  <1>0. check = [pc |-> check.pc, expired |-> check.expired]
    BY Zenon DEF CopiesInv, CheckOK
  <1>4. CASE UNCHANGED check
    BY Zenon, <1>0, <1>3, <1>4 DEF CheckOK
  <1>5. CASE CheckScans
    <2> DEFINE late == {t \in Trades : Pending(t) /\ Expire(stored[t], now).ok}
    <2>1. check' = [pc |-> "write",
                    expired |-> [t \in late |-> Expire(stored[t], now).trade]]
      BY Zenon, <1>5 DEF CheckScans
    <2>2. now' = now
      BY Zenon, <1>5, CheckFrame DEF CheckStep
    <2>3. ASSUME NEW t \in late
          PROVE  /\ t \in Trades /\ stored'[t] # NoTrade
                 /\ Sound(Expire(stored[t], now).trade, now')
                 /\ Expire(stored[t], now).trade.code = TradeStatusCodeExpired
      <3>1. t \in Trades /\ Pending(t) /\ Expire(stored[t], now).ok
        BY Zenon
      <3> HIDE DEF late
      <3>2. stored[t] # NoTrade /\ Sound(stored[t], now)
        BY Zenon, <3>1 DEF Pending, CopiesInv, StoredOK
      <3>3. stored[t].swapAccept
        <4>1. IsAccepted(stored[t]) \/ IsCompleted(stored[t])
          BY Zenon, <3>1 DEF Pending
        <4>2. stored[t].code >= TradeStatusCodeAccepted
          BY <4>1 DEF IsAccepted, IsCompleted
        <4> QED BY Zenon, <3>2, <4>2 DEF Sound, WellFormed
      <3> QED BY Zenon, <1>2, <2>2, <3>1, <3>2, <3>3, ExpireSound
    <2>4. /\ check' = [pc |-> check'.pc, expired |-> check'.expired]
          /\ DOMAIN check'.expired = late
          /\ \A t \in late : check'.expired[t] = Expire(stored[t], now).trade
      BY Zenon, <2>1
    <2> HIDE DEF late
    <2> QED BY Zenon, <2>3, <2>4 DEF CheckOK
  <1>6. ASSUME NEW t \in Trades, CheckWrites(t)
        PROVE  CheckOK'
    <2>1. check' = [check EXCEPT
                      !.expired = [u \in DOMAIN check.expired \ {t} |-> check.expired[u]]]
      BY Zenon, <1>6 DEF CheckWrites
    <2>2. /\ check' = [pc |-> check'.pc, expired |-> check'.expired]
          /\ DOMAIN check'.expired = DOMAIN check.expired \ {t}
          /\ \A u \in DOMAIN check'.expired : check'.expired[u] = check.expired[u]
      BY Zenon, <1>0, <2>1
    <2> QED BY Zenon, <1>3, <2>2 DEF CheckOK
  <1>7. CASE Die
    <2>1. check' = [pc |-> "scan", expired |-> <<>>]
      BY Zenon, <1>7 DEF Die
    <2>2. check' = [pc |-> check'.pc, expired |-> check'.expired]
          /\ DOMAIN check'.expired = {}
      BY <2>1
    <2> QED BY Zenon, <2>2 DEF CheckOK
  <1> QED
    BY Zenon, <1>4, <1>5, <1>6, <1>7, StepActors, ProposeFrame, CompleteFrame,
       ListenerFrame, OutsideFrame DEF CheckStep

\* A notification on the stream or being served stays true: a coin that is
\* spent stays spent (ocean wallet notifications; service.go, getUtxosByTxid).
LEMMA EventsNext ==
  ASSUME ReserveInv, CopiesInv, [Next]_vars
  PROVE  EventsOK'
  <1>1. \A u \in Utxos : spender[u] # Nobody => spender'[u] # Nobody
    BY Zenon, StepOnward DEF Onward
  <1> DEFINE Told == {n \in Notification : n.type = "SPENT" =>
                        \A u \in n.utxos : spender'[u] # Nobody}
  <1>2. ASSUME NEW n \in Notification, Truthful(n)
        PROVE  n \in Told
    BY Zenon, <1>1, <1>2 DEF Notification, Truthful
  <1>3. event \in Told /\ stream \in Seq(Told)
    BY <1>2 DEF CopiesInv, EventsOK
  <1>4. ASSUME event' \in Told, stream' \in Seq(Told)
        PROVE  EventsOK'
    BY <1>4 DEF EventsOK, Truthful
  <1>5. NoEvent \in Told
    BY Zenon DEF NoEvent, Notification
  <1>6. ASSUME NEW type \in {"LOCKED", "UNLOCKED", "CONFIRMED_SPENT"},
               NEW utxos \in SUBSET Utxos, NEW listening,
               Notify(listening, type, utxos)
        PROVE  stream' \in Seq(Told)
    <2>1. [type |-> type, utxos |-> utxos] \in Told
      BY Zenon DEF Notification
    <2> HIDE DEF Told
    <2> QED BY <1>3, <1>6, <2>1 DEF Notify
  <1>7. ASSUME NEW t \in Trades, ProposeStep(t)
        PROVE  EventsOK'
    <2>1. event' = event
      BY Zenon, <1>7, ProposeFrame
    <2>2. CASE UNCHANGED stream
      BY Zenon, <1>3, <1>4, <2>1, <2>2
    <2>3. ASSUME NEW utxos \in SUBSET Utxos, SelectUtxos(utxos, now)
          PROVE  EventsOK'
      BY Zenon, <1>3, <1>4, <1>6, <2>1, <2>3 DEF SelectUtxos
    <2>4. CASE CompleteSwapSelectMarket(t)
      BY Zenon, <2>3, <2>4 DEF CompleteSwapSelectMarket, Spendable, Utxos
    <2>5. CASE CompleteSwapSelectFee(t)
      BY Zenon, <2>3, <2>5 DEF CompleteSwapSelectFee, Spendable, Utxos
    <2> QED
      BY Zenon, <1>7, <2>2, <2>4, <2>5
      DEF ProposeStep, TradePropose, CompleteSwapFails, AcceptTrade,
          RegisterHandler, AddTrade, oceanVars
  <1>8. CASE ListenerStep
    <2>1. CASE ReceiveNotification
      <3>1. /\ stream # <<>> /\ stream' = Tail(stream)
            /\ event' = event \/ event' = Head(stream)
        BY Zenon, <2>1 DEF ReceiveNotification
      <3> HIDE DEF Told
      <3> QED BY Zenon, <1>3, <1>4, <3>1, TailFacts
    <2>2. ASSUME UNCHANGED stream, event' = event \/ event' = NoEvent
          PROVE  EventsOK'
      BY Zenon, <1>3, <1>4, <1>5, <2>2
    <2>3. CASE PopHandler \/ HandlerReads
      BY Zenon, <2>2, <2>3 DEF PopHandler, HandlerReads, oceanVars, handlerVars
    <2>4. CASE HandlerSkips \/ HandlerWrites \/ RepeatHandler
      <3>1. UNCHANGED stream /\ EndOfRound
        BY Zenon, <2>4 DEF HandlerSkips, HandlerWrites, RepeatHandler, oceanVars
      <3> QED BY Zenon, <2>2, <3>1 DEF EndOfRound
    <2> QED BY Zenon, <1>8, <2>1, <2>3, <2>4 DEF ListenerStep
  <1>9. CASE OutsideStep
    <2>1. event' = event
      BY Zenon, <1>9, OutsideFrame
    <2>2. CASE UNCHANGED stream
      BY Zenon, <1>3, <1>4, <2>1, <2>2
    <2>3. CASE WalletUnlocks
      <3>1. \E utxos \in SUBSET Utxos : Notify(Up, "UNLOCKED", utxos)
        BY Zenon, <2>3 DEF WalletUnlocks, UnlockExpired
      <3> QED BY Zenon, <1>3, <1>4, <1>6, <2>1, <3>1
    <2>4. ASSUME NEW t \in Trades, SeeSpent(t, Up)
          PROVE  EventsOK'
      <3> DEFINE spent == {u \in Utxos : spender[u] = t}
      <3>1. Notify(Up, "SPENT", spent)
        BY Zenon, <2>4 DEF SeeSpent
      <3>2. [type |-> "SPENT", utxos |-> spent] \in Told
        BY Zenon, <1>1, OceanAssumption DEF Notification
      <3> HIDE DEF spent, Told
      <3>3. stream' \in Seq(Told)
        BY <1>3, <3>1, <3>2 DEF Notify
      <3> QED BY Zenon, <1>3, <1>4, <2>1, <3>3
    <2>5. ASSUME NEW t \in Trades, SeeConfirmed(t, Up)
          PROVE  EventsOK'
      <3>1. \E utxos \in SUBSET Utxos : Notify(Up, "CONFIRMED_SPENT", utxos)
        BY Zenon, <2>5 DEF SeeConfirmed
      <3> QED BY Zenon, <1>3, <1>4, <1>6, <2>1, <3>1
    <2>6. CASE \E t \in Trades : WalletSees(t)
      BY Zenon, <2>4, <2>5, <2>6 DEF WalletSees
    <2> QED
      BY Zenon, <1>9, <2>2, <2>3, <2>6
      DEF OutsideStep, TraderBroadcasts, Spend, Tick, Restart, vars, oceanVars
  <1>10. CASE Die
    <2>1. stream' = <<>> /\ event' = NoEvent
      BY Zenon, <1>10 DEF Die
    <2> HIDE DEF Told
    <2> QED BY <1>4, <1>5, <2>1
  <1>11. CASE UNCHANGED <<stream, event>>
    BY Zenon, <1>3, <1>4, <1>11
  <1> QED
    BY Zenon, <1>7, <1>8, <1>9, <1>10, <1>11, StepActors, CompleteFrame, CheckFrame

\* A settled trade is announced by the handler that then leaves the queue, and
\* no handler is made for it again (trading.go, makeTradeSettledOrExpired).
LEMMA PublishedNext ==
  ASSUME ReserveInv, CopiesInv, [Next]_vars
  PROVE  PublishedOK'
  <1> USE ServiceAssumption
  <1>1. Onward
    BY Zenon, StepOnward
  <1>2. /\ published \in [Trades -> 0..1]
        /\ \A t \in Trades : published[t] > 0 =>
             proposals[t].pc = "accepted" /\ t \notin InUse /\ Spent(t)
    BY Zenon DEF CopiesInv, PublishedOK
  <1>3. /\ InUse' \subseteq InUse
             \/ \E t \in Trades : RegisterHandler(t) /\ InUse' = InUse \cup {t}
        /\ HandlerWrites => /\ listener.handler \in InUse \cap Trades
                            /\ InUse' = InUse \ {listener.handler}
    BY Zenon, RegisteredNext
  <1>4. ASSUME NEW t \in Trades, published[t] > 0
        PROVE  proposals'[t].pc = "accepted" /\ t \notin InUse' /\ Spent(t)'
    <2>1. proposals[t].pc = "accepted" /\ t \notin InUse /\ Spent(t)
      BY Zenon, <1>2, <1>4
    <2>2. proposals'[t].pc = "accepted" /\ Spent(t)'
      BY Zenon, <1>1, <2>1, SpentOnward DEF Onward, Final
    <2>3. ~RegisterHandler(t)
      BY Zenon, <2>1 DEF RegisterHandler, ProposalIs
    <2> QED BY Zenon, <1>3, <2>1, <2>2, <2>3
  <1>5. CASE UNCHANGED published
    BY Zenon, <1>2, <1>4, <1>5 DEF PublishedOK
  <1>6. CASE HandlerWrites
    <2>1. PICK h \in Trades : h = listener.handler
      BY Zenon, <1>3, <1>6
    <2>2. /\ h \in InUse /\ h \notin InUse' /\ update # NoTrade
          /\ published' = [published EXCEPT
               ![h] = published[h] + IF IsSettled(update) THEN 1 ELSE 0]
      BY Zenon, <1>2, <1>3, <1>6, <2>1 DEF HandlerWrites
    <2>3. published[h] = 0
      BY <1>2, <2>2
    <2>4. /\ stored[h] # NoTrade
          /\ IsSettled(update) => Spent(h)
      BY Zenon, <2>1, <2>2 DEF CopiesInv, HandlerOK
    <2>5. proposals[h].pc = "accepted"
      BY Zenon, <2>2, <2>4 DEF CopiesInv, RegisteredOK, StoredOK
    <2>6. proposals'[h].pc = "accepted" /\ (IsSettled(update) => Spent(h)')
      BY Zenon, <1>1, <2>4, <2>5, SpentOnward DEF Onward, Final
    <2>7. /\ published' \in [Trades -> 0..1]
          /\ published'[h] > 0 => IsSettled(update)
          /\ \A t \in Trades \ {h} : published'[t] = published[t]
      <3>1. published' = [published EXCEPT ![h] = IF IsSettled(update) THEN 1 ELSE 0]
        BY <2>2, <2>3
      <3>2. /\ published'[h] = IF IsSettled(update) THEN 1 ELSE 0
            /\ \A t \in Trades \ {h} : published'[t] = published[t]
        BY Zenon, <1>2, <3>1
      <3>3. published' \in [Trades -> 0..1]
        BY <1>2, <3>1
      <3>4. published'[h] > 0 => IsSettled(update)
        BY <3>2
      <3> QED BY Zenon, <3>2, <3>3, <3>4
    <2>8. ASSUME NEW t \in Trades, published'[t] > 0
          PROVE  proposals'[t].pc = "accepted" /\ t \notin InUse' /\ Spent(t)'
      <3>1. CASE t = h
        BY Zenon, <2>2, <2>6, <2>7, <2>8, <3>1
      <3>2. CASE t # h
        BY Zenon, <1>4, <2>7, <2>8, <3>2
      <3> QED BY Zenon, <3>1, <3>2
    <2> QED BY Zenon, <2>7, <2>8 DEF PublishedOK
  <1>7. ListenerStep /\ ~HandlerWrites => UNCHANGED published
    BY Zenon DEF ListenerStep, ReceiveNotification, PopHandler, HandlerSkips,
                 HandlerReads, RepeatHandler, handlerVars
  <1>8. Die => UNCHANGED published
    BY Zenon DEF Die
  <1> QED
    BY Zenon, <1>5, <1>6, <1>7, <1>8, StepActors, ProposeFrame, CompleteFrame,
       CheckFrame, OutsideFrame

\* Every step keeps every copy as it should be.
LEMMA CopiesNext ==
  ASSUME ReserveInv, CopiesInv, [Next]_vars
  PROVE  CopiesInv'
  BY Zenon, RegisteredNext, ProposalsNext, StoredNext, CompletionsNext, HandlerNext,
     CheckNext, EventsNext, PublishedNext DEF CopiesInv

\* The copies are as they should be throughout.
LEMMA CopiesInvariance == Spec => [](ReserveInv /\ CopiesInv)
  <1>1. ReserveInv /\ CopiesInv /\ [Next]_vars => CopiesInv'
    BY Zenon, CopiesNext
  <1> QED BY <1>1, CopiesInit, ReserveInvariance, PTL DEF Spec

\* Settled means spent on the chain: for any number of trades, coins, calls,
\* crashes and failed writes, a trade the repository, the handler or a published
\* event says is settled has a coin spent (trading.go,
\* makeTradeSettledOrExpired).
THEOREM SettledIsSpent == Spec => []SettledMeansSpent
  <1>1. ReserveInv /\ CopiesInv => SettledMeansSpent
    <2> SUFFICES ASSUME CopiesInv, NEW t \in Trades,
                        \/ stored[t] # NoTrade /\ IsSettled(stored[t])
                        \/ update # NoTrade /\ IsSettled(update) /\ listener.handler = t
                        \/ published[t] > 0
                 PROVE  Spent(t)
      BY Zenon DEF SettledMeansSpent, Spent
    <2> QED BY Zenon DEF CopiesInv, StoredOK, HandlerOK, PublishedOK
  <1> QED BY <1>1, CopiesInvariance, PTL

\* No holder of a copy of a trade, RPC, handler or start-up check, dereferences
\* a message the trade lacks (trade.go; trading.go).
THEOREM AllCopiesWellFormed == Spec => []CopiesWellFormed
  <1>1. ReserveInv /\ CopiesInv => CopiesWellFormed
    BY Zenon DEF CopiesInv, ProposalsOK, StoredOK, CallsOK, HandlerOK, CheckOK, Sound,
           CopiesWellFormed
  <1> QED BY <1>1, CopiesInvariance, PTL

\* A trade is announced as settled at most once, whatever is notified twice,
\* crashes or fails to be written (trading.go, makeTradeSettledOrExpired).
THEOREM SettlementAnnouncedOnce == Spec => []SettledEventOnce
  <1>1. ReserveInv /\ CopiesInv => SettledEventOnce
    BY DEF CopiesInv, PublishedOK, SettledEventOnce
  <1> QED BY <1>1, CopiesInvariance, PTL

\* TradeComplete can report the failure of a trade unless the deadline passed
\* meanwhile (trade.go, SwapFailMessage).
THEOREM FailureIsReported == Spec => []FailureCanBeReported
  <1>1. ReserveInv /\ CopiesInv => FailureCanBeReported
    BY Zenon DEF CopiesInv, CallsOK, Sound, FailureCanBeReported
  <1> QED BY <1>1, CopiesInvariance, PTL

\* No stale copy written back over a trade takes its acceptance away
\* (trading.go, UpdateTrade callers).
THEOREM AcceptanceIsNeverLost == Spec => AcceptanceIsKept
  <1>1. ReserveInv /\ CopiesInv /\ [Next]_vars =>
          [\A t \in Trades :
             stored[t] # NoTrade /\ stored[t].swapAccept =>
               stored'[t] # NoTrade /\ stored'[t].swapAccept]_vars
    BY AcceptanceStep
  <1> QED BY <1>1, CopiesInvariance, PTL DEF Spec, AcceptanceIsKept
=============================================================================
