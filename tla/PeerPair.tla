------------------------------ MODULE PeerPair ------------------------------
(* Two Peers that call each other over a pair of bounded links: Call          *)
(* (src/pkg/wmp/peer.go 527-572), the Serve loops that answer what they       *)
(* cannot read themselves (154-205), the goroutine of each request (225-298)  *)
(* with handlers that call back, and transports whose writes block while the  *)
(* link is full, whatever the context (httpsse.go 424-427). These transports  *)
(* do not fail: the paths after a write error (peer.go 297, 550-555), such as  *)
(* a response that a ChannelTransport drops, are left out here; PeerCalls has  *)
(* the failed write of a Call. The parts that PeerCalls and PeerRequests show  *)
(* in detail are single steps.                                                *)
EXTENDS Naturals, Sequences, FiniteSets

CONSTANTS
    a, b,           \* the two peers
    Calls,          \* the calls that may be made
    From,           \* From[c]: the peer that makes call c
    Parent,         \* Parent[c]: the request whose handler makes it, or None
    Cap,            \* the capacity of a link
    MaxBad,         \* bound on messages that are too large or do not decode
    None

Peers == {a, b}
Other(p) == IF p = a THEN b ELSE a

ASSUME PairConstantsAssumption ==
    /\ a # b /\ None \notin Calls
    /\ From \in [Calls -> Peers] /\ Parent \in [Calls -> Calls \cup {None}]
    /\ \A c \in Calls : Parent[c] # None => From[c] = Other(From[Parent[c]])
    /\ Cap \in Nat \ {0} /\ MaxBad \in Nat

VARIABLES
    link,       \* link[p]: what p has written and the other has not read
    serve,      \* the Serve loop of p: "reading" or "answering"
    cpc,        \* the caller: "idle", "writing", "waiting", "ok", "failed"
    hpc,        \* the goroutine that handles the request: "none", "running",
                \* "calling", "writing" or "over"
    bad         \* how many bad messages were sent

vars == <<link, serve, cpc, hpc, bad>>

MessageTypes == {"request", "response", "bad", "error"}
Messages == [type : MessageTypes, call : Calls \cup {None}]
TypeOK ==
    /\ link \in [Peers -> Seq(Messages)]
    /\ \A p \in Peers : Len(link[p]) <= Cap
    /\ serve \in [Peers -> {"reading", "answering"}]
    /\ cpc \in [Calls -> {"idle", "writing", "waiting", "ok", "failed"}]
    /\ hpc \in [Calls -> {"none", "running", "calling", "writing", "over"}]
    /\ bad \in 0 .. MaxBad

Init ==
    /\ link = [p \in Peers |-> <<>>]
    /\ serve = [p \in Peers |-> "reading"]
    /\ cpc = [c \in Calls |-> "idle"]
    /\ hpc = [c \in Calls |-> "none"]
    /\ bad = 0

\* WriteMessage of p: waits for room.
Write(p, type, c) ==
    /\ Len(link[p]) < Cap
    /\ link' = [link EXCEPT ![p] = Append(@, [type |-> type, call |-> c])]

\* ReadMessage of p: a message of the given type comes from the other side.
ReadBy(p, type, c) ==
    /\ serve[p] = "reading" /\ link[Other(p)] # <<>>
    /\ Head(link[Other(p)]) = [type |-> type, call |-> c]
    /\ link' = [link EXCEPT ![Other(p)] = Tail(@)]

-----------------------------------------------------------------------------
(* Call *)

\* The application calls; the id is entered in pending.
Start(c) ==
    /\ Parent[c] = None /\ cpc[c] = "idle"
    /\ cpc' = [cpc EXCEPT ![c] = "writing"]
    /\ UNCHANGED <<link, serve, hpc, bad>>

SendRequest(c) ==
    /\ cpc[c] = "writing" /\ Write(From[c], "request", c)
    /\ cpc' = [cpc EXCEPT ![c] = "waiting"]
    /\ UNCHANGED <<serve, hpc, bad>>

\* The context of the call ends: seen while the caller waits for the response,
\* not while it writes.
GiveUp(c) ==
    /\ cpc[c] = "waiting"
    /\ cpc' = [cpc EXCEPT ![c] = "failed"]
    /\ UNCHANGED <<link, serve, hpc, bad>>

-----------------------------------------------------------------------------
(* Serve *)

\* A defect: requests are handled one at a time.
ServeRequestInTurn(p, c) ==
    /\ \A d \in Calls : From[d] = From[c] => hpc[d] \in {"none", "over"}
    /\ ReadBy(p, "request", c)
    /\ hpc' = [hpc EXCEPT ![c] = "running"]
    /\ UNCHANGED <<serve, cpc, bad>>

\* A request gets a goroutine of its own.
ServeRequest(p, c) ==
    /\ ReadBy(p, "request", c)
    /\ hpc' = [hpc EXCEPT ![c] = "running"]
    /\ UNCHANGED <<serve, cpc, bad>>

\* A response goes to the call that waits for it, if it still does.
ServeResponse(p, c) ==
    /\ ReadBy(p, "response", c)
    /\ cpc' = [cpc EXCEPT ![c] = IF cpc[c] = "waiting" THEN "ok" ELSE @]
    /\ UNCHANGED <<serve, hpc, bad>>

\* A message that is too large or does not decode: Serve answers itself.
ServeBad(p) ==
    /\ ReadBy(p, "bad", None)
    /\ serve' = [serve EXCEPT ![p] = "answering"]
    /\ UNCHANGED <<cpc, hpc, bad>>

ServeAnswers(p) ==
    /\ serve[p] = "answering" /\ Write(p, "error", None)
    /\ serve' = [serve EXCEPT ![p] = "reading"]
    /\ UNCHANGED <<cpc, hpc, bad>>

\* The null id of such an answer is nobody's.
ServeError(p) ==
    /\ ReadBy(p, "error", None)
    /\ UNCHANGED <<serve, cpc, hpc, bad>>

\* SendRaw, or a message that exceeds the other side's limit.
SendBad(p) ==
    /\ bad < MaxBad /\ Write(p, "bad", None)
    /\ bad' = bad + 1
    /\ UNCHANGED <<serve, cpc, hpc>>

-----------------------------------------------------------------------------
(* handleRequest *)

\* The handler calls back ...
CallBack(c, d) ==
    /\ hpc[c] = "running" /\ Parent[d] = c /\ cpc[d] = "idle"
    /\ hpc' = [hpc EXCEPT ![c] = "calling"]
    /\ cpc' = [cpc EXCEPT ![d] = "writing"]
    /\ UNCHANGED <<link, serve, bad>>

\* ... and goes on when the call returns.
CallBackReturns(c) ==
    /\ hpc[c] = "calling"
    /\ \A d \in Calls : Parent[d] = c => cpc[d] \in {"idle", "ok", "failed"}
    /\ hpc' = [hpc EXCEPT ![c] = "running"]
    /\ UNCHANGED <<link, serve, cpc, bad>>

\* A defect: the response is sent while the handler still runs.
RespondEarly(c) ==
    /\ hpc[c] \in {"running", "calling"}
    /\ hpc' = [hpc EXCEPT ![c] = "writing"]
    /\ UNCHANGED <<link, serve, cpc, bad>>

\* The handler returns.
Respond(c) ==
    /\ hpc[c] = "running"
    /\ hpc' = [hpc EXCEPT ![c] = "writing"]
    /\ UNCHANGED <<link, serve, cpc, bad>>

\* The write of the response, which waits for room.
SendResponse(c) ==
    /\ hpc[c] = "writing" /\ Write(Other(From[c]), "response", c)
    /\ hpc' = [hpc EXCEPT ![c] = "over"]
    /\ UNCHANGED <<serve, cpc, bad>>

\* Nothing is left to do.
Quiet ==
    /\ \A c \in Calls : cpc[c] \in {"idle", "ok", "failed"}
    /\ UNCHANGED vars

Next ==
    \/ \E c \in Calls :
        \/ Start(c) \/ SendRequest(c) \/ GiveUp(c)
        \/ CallBackReturns(c) \/ Respond(c) \/ SendResponse(c)
        \/ \E d \in Calls : CallBack(c, d)
        \/ \E p \in Peers : ServeRequest(p, c) \/ ServeResponse(p, c)
    \/ \E p \in Peers : ServeBad(p) \/ ServeAnswers(p) \/ ServeError(p) \/ SendBad(p)
    \/ Quiet

\* The steps that the two peers owe: not those of the application, which need
\* not call, call back or give up, nor those of whoever sends a bad message.
Progress ==
    \/ \E c \in Calls :
        \/ SendRequest(c) \/ CallBackReturns(c) \/ Respond(c) \/ SendResponse(c)
        \/ \E p \in Peers : ServeRequest(p, c) \/ ServeResponse(p, c)
    \/ \E p \in Peers : ServeBad(p) \/ ServeAnswers(p) \/ ServeError(p)

\* Goroutines run and handlers return: while some goroutine can go on, one does.
Fairness == WF_vars(Progress)

Spec == Init /\ [][Next]_vars /\ Fairness

-----------------------------------------------------------------------------
(* Properties *)

\* A call returns, though both sides call each other, their handlers call back
\* and every write may have to wait for room: the Serve loops never wait for a
\* handler, so they go on reading (peer.go 195-205). It holds as long as both
\* loops run, and while at most one message has to be answered by a loop itself.
CallReturns ==
    \A c \in Calls :
        cpc[c] = "writing" ~> cpc[c] \in {"ok", "failed"}

\* A call that returns successfully has been handled, and whatever its handler
\* called back for has come to its end before (peer.go 225-298, 539-572).
OkMeansHandled ==
    \A c \in Calls : cpc[c] = "ok" =>
        /\ hpc[c] = "over"
        /\ \A d \in Calls : Parent[d] = c => cpc[d] \in {"idle", "ok", "failed"}
=============================================================================
