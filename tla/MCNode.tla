------------------------------- MODULE MCNode -------------------------------
(* The commands of the careful operator. *)
EXTENDS Node

AllCmds == {"start", "stop", "restart"}
AllKinds == {"add", "remove", "enable", "disable"}

=============================================================================
