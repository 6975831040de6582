---- MODULE MCPeerRequests ----
(* The instance of PeerRequests for TLC. *)
EXTENDS PeerRequests
====
