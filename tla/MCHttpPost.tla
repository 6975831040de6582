---- MODULE MCHttpPost ----
(* The instance of HttpPost for TLC. *)
EXTENDS HttpPost
\* Every POST carries a request.
MCContents == {[p \in Posts |-> "request"]}
====
