---- MODULE MCPeerCalls ----
(* The instance of PeerCalls for TLC. *)
EXTENDS PeerCalls
====
