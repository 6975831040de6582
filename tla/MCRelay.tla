---- MODULE MCRelay ----
(* The instance of Relay for TLC. *)
EXTENDS Relay, SequencesExt

\* The loop over a queue is a filter: checked for all queues of up to four
\* messages and all times up to the last end of a life.
ASSUME AliveIsAFilter ==
    \A queue \in BoundedSeq([exp : 1 .. 4], 4), t \in 0 .. 4 :
        Alive(queue, t) = SelectSeq(queue, LAMBDA m : t < m.exp)
====
