------------------------------ MODULE HttpLink ------------------------------
(* A client over HTTPS+SSE (src/pkg/wmp/httpsse/httpsse.go 116-203) and the   *)
(* server of HttpPost: each POST is a WriteMessage of the client, made by a   *)
(* Call that then waits for its response. The body of a POST and the events   *)
(* of the stream go to one channel, incoming, which the client's Serve loop   *)
(* reads to route each response by its id. Close closes this channel; a send  *)
(* to it that is under way or comes later panics and ends the process. The    *)
(* event stream does not break before that: SseStream is about broken ones.   *)
EXTENDS HttpPost

CONSTANTS
    ClientCap,      \* the capacity of the client's incoming, 64 in the code
    MaxEvents       \* bound: how many messages the server sends of its own accord, POSTs
                    \* that are given up and Closes there may be

ASSUME LinkConstantsAssumption == ClientCap \in Nat \ {0} /\ MaxEvents \in Nat

VARIABLES
    cpc,        \* where WriteMessage is: "posting", "pushing" or "returned"
    sse,        \* the events on their way to readSSE
    cin,        \* the client's incoming channel
    routed,     \* the messages that the client's Serve loop has read
    cserve,     \* the loop: "reading" or "stopped"
    client      \* "open", "closed" or "crashed"

clientVars == <<cpc, sse, cin, routed, cserve, client>>
linkVars == <<postVars, clientVars>>

LinkTypeOK ==
    /\ PostTypeOK
    /\ cpc \in [Posts -> {"posting", "pushing", "returned"}]
    /\ sse \in Seq(Messages) /\ cin \in Seq(Messages) /\ Len(cin) <= ClientCap
    /\ routed \subseteq Messages
    /\ cserve \in {"reading", "stopped"}
    /\ client \in {"open", "closed", "crashed"}

LinkInit ==
    /\ PostInit
    /\ cpc = [p \in Posts |-> "posting"]
    /\ sse = <<>> /\ cin = <<>> /\ routed = {}
    /\ cserve = "reading" /\ client = "open"

-----------------------------------------------------------------------------
(* WriteMessage of the client, from the answer to its POST *)

\* The server's answer arrives: its body goes to incoming, whatever it is.
BodyArrives(p) ==
    /\ Reply(p)
    /\ cpc' = [cpc EXCEPT ![p] = IF cpc[p] = "posting" THEN "pushing" ELSE @]
    /\ UNCHANGED <<sse, cin, routed, cserve, client>>

\* The context of the Call ends during the POST; httpClient.Do returns.
PostAbandoned(p) ==
    /\ ClientGone(p) /\ cpc[p] = "posting"
    /\ cpc' = [cpc EXCEPT ![p] = "returned"]
    /\ UNCHANGED <<sse, cin, routed, cserve, client>>

\* A defect: a body that finds incoming full is dropped.
BodyPushDrops(p) ==
    /\ cpc[p] = "pushing" /\ client = "open"
    /\ cin' = IF Len(cin) < ClientCap THEN Append(cin, body[p]) ELSE cin
    /\ cpc' = [cpc EXCEPT ![p] = "returned"]
    /\ UNCHANGED <<postVars, sse, routed, cserve, client>>

\* t.incoming <- body: blocks while it is full, whatever the context.
BodyPush(p) ==
    /\ cpc[p] = "pushing" /\ client = "open" /\ Len(cin) < ClientCap
    /\ cin' = Append(cin, body[p])
    /\ cpc' = [cpc EXCEPT ![p] = "returned"]
    /\ UNCHANGED <<postVars, sse, routed, cserve, client>>

-----------------------------------------------------------------------------
(* The event stream *)

\* The GET handler takes a message and writes it as an event.
EventArrives ==
    /\ StreamTakes
    /\ sse' = Append(sse, Head(outgoing[stream]))
    /\ UNCHANGED <<cpc, cin, routed, cserve, client>>

\* readSSE: t.incoming <- data.
EventPush ==
    /\ sse # <<>> /\ client = "open" /\ Len(cin) < ClientCap
    /\ cin' = Append(cin, Head(sse))
    /\ sse' = Tail(sse)
    /\ UNCHANGED <<postVars, cpc, routed, cserve, client>>

-----------------------------------------------------------------------------
(* The Serve loop and Close *)

\* ReadMessage returns a message: a response is routed to its Call, a request or
\* notification is handled. A closed channel still gives out what it holds.
ClientRead ==
    /\ cserve = "reading" /\ client # "crashed" /\ cin # <<>>
    /\ routed' = routed \cup {Head(cin)}
    /\ cin' = Tail(cin)
    /\ UNCHANGED <<postVars, cpc, sse, cserve, client>>

\* A defect: the loop takes the zero value of a closed channel for a message.
ClientEofIgnored == FALSE /\ UNCHANGED linkVars

\* ReadMessage returns io.EOF: the channel is closed and empty.
ClientEof ==
    /\ cserve = "reading" /\ client = "closed" /\ cin = <<>>
    /\ cserve' = "stopped"
    /\ UNCHANGED <<postVars, cpc, sse, cin, routed, client>>

\* Close: a second one does nothing.
ClientClose ==
    /\ client = "open"
    /\ client' = "closed"
    /\ UNCHANGED <<postVars, cpc, sse, cin, routed, cserve>>

\* A send to the closed channel, by readSSE or by WriteMessage.
ClientCrash ==
    /\ client = "closed"
    /\ sse # <<>> \/ \E p \in Posts : cpc[p] = "pushing"
    /\ client' = "crashed"
    /\ UNCHANGED <<postVars, cpc, sse, cin, routed, cserve>>

-----------------------------------------------------------------------------
\* The bound on what happens of itself.
MoreEvents ==
    Cardinality(own) + Cardinality(gone) + (IF client = "open" THEN 0 ELSE 1) < MaxEvents

Server(A) == A /\ UNCHANGED clientVars

\* All requests have come to their end or will not be made, or their handlers wait
\* for an answer that there may never be or for room that nobody makes.
LinkOver ==
    /\ \A p \in Posts :
        \/ ppc[p] \in {"waiting", "replied", "timeout"} \/ Stranded(p)
        \/ ppc[p] = "pushing" /\ sess[p] = peer /\ Jammed
        \/ ppc[p] = "idle" /\ client = "crashed"
    /\ UNCHANGED linkVars

\* What goroutines do: the handlers, the Peer and its handlers, the client.
LinkProgress ==
    \/ \E p \in Posts :
        \/ client # "crashed" /\ Server(Lookup(p))
        \/ Server(Create(p)) \/ Server(Push(p)) \/ Server(Timeout(p))
        \/ Server(PeerAnswer(p)) \/ BodyArrives(p) \/ BodyPush(p)
    \/ Server(PeerRead) \/ Server(ServeAnswers)
    \/ EventArrives
    \/ client # "open" /\ Server(StreamEnds)
    \/ EventPush \/ ClientRead \/ ClientEof \/ ClientCrash

\* What happens of itself: the application asks for its transport or sends, the
\* client connects, gives up or closes.
LinkEvent ==
    \/ Server(Transport)
    \/ client = "open" /\ Server(StreamConnect)
    \/ MoreEvents /\ \E n \in Notes : Server(PeerSends(n))
    \/ MoreEvents /\ \E p \in Posts : PostAbandoned(p)
    \/ MoreEvents /\ ClientClose

LinkNext == LinkProgress \/ LinkEvent \/ LinkOver

\* While some goroutine can go on, one does. Every message is sent and every
\* handler runs once, so that nobody can be overtaken for ever and no more is
\* needed. Nobody has to connect, send, give up or close.
LinkFairness == WF_linkVars(LinkProgress)

LinkSpec == LinkInit /\ [][LinkNext]_linkVars /\ LinkFairness

-----------------------------------------------------------------------------
(* Properties *)

\* A message pushed to the serverSession that the Peer serves is read by it,
\* however the session came about (by Transport, or by a POST that was there
\* first and whose placeholder Transport has found), unless the Serve loop stays
\* in an error answer of its own that nobody takes (httpsse.go 343-344, 411-427,
\* peer.go 163-190).
PostedIsRead ==
    \A p \in Posts :
        [](ppc[p] = "waiting" /\ sess[p] = peer => <>(p \in seen \/ []Jammed))

\* The handler of a client that has gone away ends once it is past its push,
\* or if the Peer serves its session and reads: even if incoming was full and the
\* Peer never has an answer for it (httpsse.go 344-353).
GoneClientReleased ==
    \A p \in Posts :
        [](p \in gone /\ (ppc[p] = "waiting" \/ sess[p] = peer) =>
             <>(ppc[p] \in {"replied", "timeout"} \/ []Jammed))

\* Every request that the Peer has read is answered to the client, which routes
\* the response to its caller: in the body of some POST or in an event, though
\* not always in the answer to its own POST. A message that the server has sent of
\* its own accord may take the place of the response in a POST's answer; then it
\* takes an event stream from the Peer's session to bring it. A client that gives up a
\* POST, or closes its transport, may lose responses (httpsse.go 116-203, 343-427).
AnswerReachesClient ==
    \A p \in Posts :
        [](p \in seen /\ content[p] = "request" =>
             <>(\/ p \in routed \/ gone # {} \/ client # "open"
                \/ [](own # {} /\ stream # peer)))

\* Close ends the client's Serve loop, unless a message that is still being
\* delivered meets the closed channel (httpsse.go 137-149, 192-203).
CloseEndsClient == client = "closed" ~> (cserve = "stopped" \/ client = "crashed")
=============================================================================
