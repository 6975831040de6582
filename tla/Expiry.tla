------------------------------- MODULE Expiry -------------------------------
(* The loop with which the relay passes over the expired messages of a queue  *)
(* (src/pkg/wmp/relay/relay.go 152-161, 184-193, 227-239): one pass over the  *)
(* queue that appends what is still alive. It is a recursive function, and    *)
(* not SelectSeq, which the provers have no definition of.                    *)
EXTENDS Naturals, Sequences

\* Kept(queue, t)[n]: what the loop has appended after n messages.
Kept(queue, t) ==
    LET filtered[n \in 0 .. Len(queue)] ==
            IF n = 0 THEN <<>>
            ELSE IF t < queue[n].exp THEN Append(filtered[n - 1], queue[n])
            ELSE filtered[n - 1]
    IN  filtered

\* The messages of a queue that are alive at time t: t.Before(m.ExpiresAt).
Alive(queue, t) == Kept(queue, t)[Len(queue)]
=============================================================================
