---------------------------- MODULE MCLifecycle ----------------------------
(* The commands that the instances use. *)
EXTENDS Lifecycle

AllCmds == {"start", "stop", "restart"}
StartStop == {"start", "stop"}

=============================================================================
