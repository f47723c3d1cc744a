--------------------------- MODULE TradeLifecycle ---------------------------
(***************************************************************************)
(* What the trade entity promises, whatever the order in which its methods *)
(* are called: the status moves forward only, Settled and Expired are      *)
(* final, a failed trade never settles and a failure is never taken back.  *)
(***************************************************************************)
VARIABLES phase, failed

lifecycle == <<phase, failed>>

Phases == {"Empty", "Proposal", "Accepted", "Completed", "Settled", "Expired"}

Init == phase = "Empty" /\ failed = FALSE

\* A proposal the parser refuses is failed in the same step.
BecomeProposal ==
  /\ phase = "Empty"
  /\ phase' = "Proposal"
  /\ failed' \in {failed, TRUE}

BecomeAccepted ==
  /\ phase = "Proposal"
  /\ phase' = "Accepted"
  /\ UNCHANGED failed

BecomeCompleted ==
  /\ phase = "Accepted"
  /\ phase' = "Completed"
  /\ UNCHANGED failed

BecomeSettled ==
  /\ phase \in {"Accepted", "Completed"}
  /\ ~failed
  /\ phase' = "Settled"
  /\ UNCHANGED failed

BecomeExpired ==
  /\ phase \in {"Accepted", "Completed"}
  /\ phase' = "Expired"
  /\ UNCHANGED failed

BecomeFailed ==
  /\ failed' = TRUE
  /\ UNCHANGED phase

Next ==
  \/ BecomeProposal
  \/ BecomeAccepted
  \/ BecomeCompleted
  \/ BecomeSettled
  \/ BecomeExpired
  \/ BecomeFailed

Spec == Init /\ [][Next]_lifecycle
=============================================================================
