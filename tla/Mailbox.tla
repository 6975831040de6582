------------------------------ MODULE Mailbox ------------------------------
(* What the relay promises about the messages it keeps for a participant: a   *)
(* bounded first-in first-out box per participant, in which messages vanish   *)
(* only by being taken, all at once, or by reaching the end of their life.    *)
EXTENDS Naturals, Sequences, Expiry

CONSTANTS Participants, Capacity, Lifetime

VARIABLES
    box,        \* box[p]: the messages that p would receive now
    taken,      \* taken[p]: all messages that p has received, in order
    clock

vars == <<box, taken, clock>>

Init ==
    /\ box = [p \in Participants |-> <<>>]
    /\ taken = [p \in Participants |-> <<>>]
    /\ clock = 1

\* A box with room takes a new message at its end.
Put(p) ==
    /\ Len(box[p]) < Capacity
    /\ Len(box'[p]) = Len(box[p]) + 1
    /\ box'[p][Len(box'[p])].exp = clock + Lifetime
    /\ box' = [box EXCEPT ![p] = Append(@, box'[p][Len(box'[p])])]
    /\ UNCHANGED <<taken, clock>>

\* The participant takes everything.
Take(p) ==
    /\ taken' = [taken EXCEPT ![p] = @ \o box[p]]
    /\ box' = [box EXCEPT ![p] = <<>>]
    /\ UNCHANGED clock

\* Time passes: the messages that reach their end vanish, and no others.
Age ==
    /\ clock' = clock + 1
    /\ box' = [p \in Participants |-> Alive(box[p], clock + 1)]
    /\ UNCHANGED taken

Next == (\E p \in Participants : Put(p) \/ Take(p)) \/ Age

Spec == Init /\ [][Next]_vars
=============================================================================
