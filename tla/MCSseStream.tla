---- MODULE MCSseStream ----
(* The instance of SseStream for TLC. *)
EXTENDS SseStream
====
