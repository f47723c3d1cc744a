----------------------- MODULE NotificationHandlers -----------------------
(***************************************************************************)
(* What the wallet service promises to those who register a handler: every *)
(* notification it takes from the wallet is given to every handler         *)
(* registered by then, exactly once, and a handler stays registered until  *)
(* it reports to be done.                                                  *)
(***************************************************************************)
CONSTANT Handlers

VARIABLES registered,   \* the handlers that are not done
          pending       \* those the current notification is still owed to

Init == registered = {} /\ pending = {}

Register(h) ==
  /\ h \notin registered
  /\ registered' = registered \cup {h}
  /\ UNCHANGED pending

Notify ==
  /\ pending = {}
  /\ pending' = registered
  /\ UNCHANGED registered

Handle(h) ==
  /\ h \in pending
  /\ pending' = pending \ {h}
  /\ registered' \in {registered, registered \ {h}}

Next ==
  \/ \E h \in Handlers : Register(h)
  \/ Notify
  \/ \E h \in Handlers : Handle(h)

Spec == Init /\ [][Next]_<<registered, pending>>
=============================================================================
