---------------------------- MODULE CallPromise ----------------------------
(* What Peer.Call and Peer.CallWithID promise their callers, with no word    *)
(* about the pending map, the response channels or the Serve loop: every     *)
(* call ends at most once, it ends with a response only if the remote side   *)
(* received that very call's request, with a context error only if its      *)
(* context is done, and a call whose context is done does end.              *)
CONSTANTS Calls

VARIABLES
    status,     \* status[c]: "new", "open" or "done"
    result,     \* result[c]: "none", "error", "ctxErr" or "response"
    reached,    \* the calls whose request the remote side has received
    expired     \* the calls whose context is done

vars == <<status, result, reached, expired>>

Init ==
    /\ status = [c \in Calls |-> "new"]
    /\ result = [c \in Calls |-> "none"]
    /\ reached = {}
    /\ expired = {}

Open(c) ==
    /\ status[c] = "new"
    /\ status' = [status EXCEPT ![c] = "open"]
    /\ UNCHANGED <<result, reached, expired>>

\* Bytes already handed to a transport may arrive after the call gave up.
Reach(c) ==
    /\ status[c] # "new"
    /\ reached' = reached \cup {c}
    /\ UNCHANGED <<status, result, expired>>

Expire(c) ==
    /\ expired' = expired \cup {c}
    /\ UNCHANGED <<status, result, reached>>

Finish(c, r) ==
    /\ status[c] # "done"
    /\ r = "response" => status[c] = "open" /\ c \in reached
    /\ r = "ctxErr"   => status[c] = "open" /\ c \in expired
    /\ status' = [status EXCEPT ![c] = "done"]
    /\ result' = [result EXCEPT ![c] = r]
    /\ UNCHANGED <<reached, expired>>

Outcomes == {"error", "ctxErr", "response"}

Next ==
    \E c \in Calls :
        \/ Open(c)
        \/ Reach(c)
        \/ Expire(c)
        \/ \E r \in Outcomes : Finish(c, r)

\* Only an open call whose context is done owes its caller a result.
FinishExpired(c) ==
    /\ status[c] = "open"
    /\ c \in expired
    /\ \E r \in Outcomes : Finish(c, r)

Spec == Init /\ [][Next]_vars /\ \A c \in Calls : WF_vars(FinishExpired(c))
=============================================================================
