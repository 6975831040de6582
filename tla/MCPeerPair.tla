---- MODULE MCPeerPair ----
(* The instance of PeerPair for TLC: each side calls the other, and the
   handler of each call may call back. *)
EXTENDS PeerPair
CONSTANTS c1, c2, n1, n2
MCCalls == {c1, c2, n1, n2}
MCFrom == [c \in MCCalls |-> IF c \in {c1, n2} THEN a ELSE b]
MCParent == [c \in MCCalls |-> CASE c = n1 -> c1 [] c = n2 -> c2 [] OTHER -> None]
====
