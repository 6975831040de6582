---- MODULE MCInvitations ----
(* The instance of Invitations for TLC. *)
EXTENDS Invitations, TLC

Symmetry == Permutations(Attempts) \cup Permutations(Nonces) \cup Permutations(Invs)
====
