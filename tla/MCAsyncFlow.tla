---- MODULE MCAsyncFlow ----
(* The instance of AsyncFlow for TLC. *)
EXTENDS AsyncFlow
====
