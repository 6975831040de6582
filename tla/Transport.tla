----------------------------- MODULE Transport -----------------------------
(* What the transports share (src/pkg/wmp/transport.go): a Peer is given one  *)
(* of them, and its Serve loop (peer.go 152-162) reads it until ReadMessage   *)
(* returns an error.                                                          *)
CONSTANT Kinds      \* the transports to consider

ASSUME KindsAssumption == Kinds \subseteq {"channel", "stdio", "ws"}

VARIABLES
    kind,       \* the transport that the Peer was given
    ctxDone,    \* is the context of Serve done?
    serve       \* "reading" or "stopped"

baseVars == <<kind, ctxDone, serve>>

TransportTypeOK ==
    kind \in Kinds /\ ctxDone \in BOOLEAN /\ serve \in {"reading", "stopped"}

TransportInit == kind \in Kinds /\ ctxDone = FALSE /\ serve = "reading"
=============================================================================
