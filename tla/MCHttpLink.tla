---- MODULE MCHttpLink ----
(* The instance of HttpLink for TLC. *)
EXTENDS HttpLink
CONSTANTS p1, p2
\* A request beside a bad message, and beside one that gets no answer.
MCContents == {[p \in Posts |-> IF p = p1 THEN "request" ELSE k] : k \in {"bad", "silent"}}
====
