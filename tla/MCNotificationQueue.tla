------------------------ MODULE MCNotificationQueue ------------------------
(***************************************************************************)
(* TLC instance of the queue of notification handlers.                     *)
(***************************************************************************)
EXTENDS NotificationQueue
=============================================================================
