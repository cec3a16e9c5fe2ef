---------------------------- MODULE MCPeerConfig ----------------------------
(* The commands that the instances use. *)
EXTENDS PeerConfig

AllKinds == {"add", "remove", "enable", "disable"}

=============================================================================
