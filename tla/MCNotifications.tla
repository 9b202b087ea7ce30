-------------------------- MODULE MCNotifications --------------------------
(***************************************************************************)
(* Small instances of Notifications for TLC.                               *)
(***************************************************************************)
EXTENDS Notifications

TheProduct == [s \in {Sku} |-> Product]
=============================================================================
