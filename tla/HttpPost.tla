------------------------------ MODULE HttpPost ------------------------------
(* The request side of the HTTPS+SSE server                                   *)
(* (src/pkg/wmp/httpsse/httpsse.go 205-241, 286-354, 411-430): POST handlers   *)
(* of one session id, the serverSession they find or create, and the Peer     *)
(* that reads and writes through ServerTransport. All handlers of a session   *)
(* share the incoming and outgoing channels; a GET handler may take from      *)
(* outgoing as well. Outgoing carries all that the Peer writes: responses,     *)
(* the Serve loop's own error answers, and the notifications and calls that   *)
(* the server's application makes.                                           *)
(*                                                                          *)
(* A serverSession is named by the handler that has made it, or by App for    *)
(* the one that ServerHandler.Transport makes.                               *)
EXTENDS Naturals, Sequences, FiniteSets, SequencesExt

CONSTANTS
    Posts,      \* POST requests to one session id
    Notes,      \* messages that the server's application sends of its own accord
    Contents,   \* what the POSTs may carry
    App, None,
    IncomingCap,      \* the capacity of incoming, 64 in the code
    OutgoingCap      \* the capacity of outgoing, 64 in the code

\* A request, a message that gets no answer (a notification, or the response to a
\* call of the server), or a body that is too large or does not decode.
PostKinds == {"request", "silent", "bad"}

ASSUME PostConstantsAssumption ==
    /\ Contents \subseteq [Posts -> PostKinds]
    /\ Posts \cap Notes = {}
    /\ App \notin Posts /\ None \notin Posts \cup Notes /\ App # None
    /\ IncomingCap \in Nat \ {0}
    /\ OutgoingCap \in Nat \ {0}

VARIABLES
    session,    \* h.sessions[sessionID]
    content,    \* what each POST carries
    peer,       \* the serverSession behind the Peer's ServerTransport
    ppc,        \* where each POST handler is
    sess,       \* the serverSession it uses
    incoming,   \* the incoming channel of each serverSession
    stream,     \* the serverSession that the GET handler takes from, if there is one
    outgoing,   \* the outgoing channel of each: the POSTs that are answered, and Notes
    answering,  \* the bad POST whose error answer the Serve loop is writing
    handling,   \* the messages in the goroutines of the Peer
    seen,       \* the messages that the Peer has read
    own,        \* the Notes that the Peer has written
    gone,       \* the clients that have given up
    body        \* what a POST was answered with

serverVars == <<content, session, peer>>
peerVars == <<answering, handling, seen, own>>
postVars == <<serverVars, ppc, sess, incoming, stream, outgoing, peerVars, gone, body>>
Makers == Posts \cup {App}
Messages == Posts \cup Notes

\* The type invariant: neither channel exceeds its capacity.
PostTypeOK ==
    /\ content \in Contents
    /\ session \in Makers \cup {None}
    /\ peer \in Makers \cup {None}
    /\ ppc \in [Posts -> {"idle", "missing", "pushing", "waiting", "replied", "timeout"}]
    /\ sess \in [Posts -> Makers \cup {None}]
    /\ incoming \in [Makers -> Seq(Posts)]
    /\ stream \in Makers \cup {None}
    /\ outgoing \in [Makers -> Seq(Messages)]
    /\ answering \in Posts \cup {None}
    /\ handling \subseteq Posts /\ seen \subseteq Posts /\ gone \subseteq Posts
    /\ own \subseteq Notes
    /\ body \in [Posts -> Messages \cup {None}]
    /\ \A m \in Makers : Len(incoming[m]) <= IncomingCap /\ Len(outgoing[m]) <= OutgoingCap

PostInit ==
    /\ content \in Contents
    /\ session = None
    /\ peer = None
    /\ ppc = [p \in Posts |-> "idle"]
    /\ sess = [p \in Posts |-> None]
    /\ incoming = [m \in Makers |-> <<>>]
    /\ stream = None
    /\ outgoing = [m \in Makers |-> <<>>]
    /\ answering = None
    /\ handling = {}
    /\ seen = {}
    /\ own = {}
    /\ gone = {}
    /\ body = [p \in Posts |-> None]

-----------------------------------------------------------------------------
(* POST handlers *)

\* The lookup under the read lock.
Lookup(p) ==
    /\ ppc[p] = "idle"
    /\ sess' = [sess EXCEPT ![p] = session]
    /\ ppc' = [ppc EXCEPT ![p] = IF session = None THEN "missing" ELSE "pushing"]
    /\ UNCHANGED <<serverVars, incoming, stream, outgoing, peerVars, gone, body>>

\* The placeholder, stored under the write lock without a second look.
Create(p) ==
    /\ ppc[p] = "missing"
    /\ session' = p
    /\ sess' = [sess EXCEPT ![p] = p]
    /\ ppc' = [ppc EXCEPT ![p] = "pushing"]
    /\ UNCHANGED <<content, peer, incoming, stream, outgoing, peerVars, gone, body>>

\* A defect: a message that finds the channel full is dropped.
PushOrDrop(p) ==
    /\ ppc[p] = "pushing"
    /\ incoming' = [incoming EXCEPT ![sess[p]] = IF Len(@) < IncomingCap THEN Append(@, p) ELSE @]
    /\ ppc' = [ppc EXCEPT ![p] = "waiting"]
    /\ UNCHANGED <<serverVars, sess, stream, outgoing, peerVars, gone, body>>

\* sess.incoming <- body: blocks while it is full, whatever the client does.
Push(p) ==
    /\ ppc[p] = "pushing" /\ Len(incoming[sess[p]]) < IncomingCap
    /\ incoming' = [incoming EXCEPT ![sess[p]] = Append(@, p)]
    /\ ppc' = [ppc EXCEPT ![p] = "waiting"]
    /\ UNCHANGED <<serverVars, sess, stream, outgoing, peerVars, gone, body>>

\* case resp := <-sess.outgoing: the oldest message, whoever it answers.
Reply(p) ==
    /\ ppc[p] = "waiting" /\ outgoing[sess[p]] # <<>>
    /\ body' = [body EXCEPT ![p] = Head(outgoing[sess[p]])]
    /\ outgoing' = [outgoing EXCEPT ![sess[p]] = Tail(@)]
    /\ ppc' = [ppc EXCEPT ![p] = "replied"]
    /\ UNCHANGED <<serverVars, sess, incoming, stream, peerVars, gone>>

\* A defect: the handler waits for a response only.
TimeoutNever(p) == FALSE /\ UNCHANGED postVars

\* case <-r.Context().Done().
Timeout(p) ==
    /\ ppc[p] = "waiting" /\ p \in gone
    /\ ppc' = [ppc EXCEPT ![p] = "timeout"]
    /\ UNCHANGED <<serverVars, sess, incoming, stream, outgoing, peerVars, gone, body>>

ClientGone(p) ==
    /\ ppc[p] \in {"pushing", "waiting"} /\ p \notin gone
    /\ gone' = gone \cup {p}
    /\ UNCHANGED <<serverVars, ppc, sess, incoming, stream, outgoing, peerVars, body>>

-----------------------------------------------------------------------------
(* The Peer, and the event stream *)

\* ServerHandler.Transport: the session under the id, or a new one.
Transport ==
    /\ peer = None
    /\ peer' = IF session = None THEN App ELSE session
    /\ session' = peer'
    /\ UNCHANGED <<content, ppc, sess, incoming, stream, outgoing, peerVars, gone, body>>

\* Serve reads a message and starts a goroutine for it, or turns to its own answer
\* if the message is too large or does not decode.
PeerRead ==
    /\ peer # None /\ answering = None /\ incoming[peer] # <<>>
    /\ LET p == Head(incoming[peer]) IN
         /\ answering' = IF content[p] = "bad" THEN p ELSE None
         /\ handling' = IF content[p] = "bad" THEN handling ELSE handling \cup {p}
         /\ seen' = seen \cup {p}
    /\ incoming' = [incoming EXCEPT ![peer] = Tail(@)]
    /\ UNCHANGED <<serverVars, ppc, sess, stream, outgoing, own, gone, body>>

\* t.sess.outgoing <- data: blocks while it is full, whatever the context.
Write(x) ==
    /\ Len(outgoing[peer]) < OutgoingCap
    /\ outgoing' = [outgoing EXCEPT ![peer] = Append(@, x)]

\* The write of the Serve loop, which reads nothing meanwhile.
ServeAnswers ==
    /\ answering # None /\ Write(answering)
    /\ answering' = None
    /\ UNCHANGED <<serverVars, ppc, sess, incoming, stream, handling, seen, own, gone, body>>

\* The goroutine of a message ends: silently, or with the write of a response.
PeerAnswer(p) ==
    /\ p \in handling
    /\ \/ content[p] = "silent" /\ UNCHANGED outgoing
       \/ content[p] = "request" /\ Write(p)
    /\ handling' = handling \ {p}
    /\ UNCHANGED <<serverVars, ppc, sess, incoming, stream, answering, seen, own, gone, body>>

\* Notify, Call or a FlowContext of the server's application.
PeerSends(n) ==
    /\ peer # None /\ n \notin own /\ Write(n)
    /\ own' = own \cup {n}
    /\ UNCHANGED <<serverVars, ppc, sess, incoming, stream, answering, handling, seen, gone, body>>

\* A GET request finds the session.
StreamConnect ==
    /\ stream = None /\ session # None
    /\ stream' = session
    /\ UNCHANGED <<serverVars, ppc, sess, incoming, outgoing, peerVars, gone, body>>

\* Its handler takes a message; the client gets it as an event.
StreamTakes ==
    /\ stream # None /\ outgoing[stream] # <<>>
    /\ outgoing' = [outgoing EXCEPT ![stream] = Tail(@)]
    /\ UNCHANGED <<serverVars, ppc, sess, incoming, stream, peerVars, gone, body>>

\* The end of the request's context ends the handler.
StreamEnds ==
    /\ stream # None
    /\ stream' = None
    /\ UNCHANGED <<serverVars, ppc, sess, incoming, outgoing, peerVars, gone, body>>

\* The handler waits for room in a serverSession that was replaced before the
\* application asked for its transport: nobody will ever make any.
Stranded(p) ==
    /\ ppc[p] = "pushing" /\ Len(incoming[sess[p]]) = IncomingCap
    /\ peer \notin {None, sess[p]}

\* The Serve loop waits for room in an outgoing from which nobody takes: no POST
\* waits for an answer and the event stream is not connected.
Jammed ==
    /\ answering # None /\ Len(outgoing[peer]) = OutgoingCap /\ stream # peer
    /\ \A p \in Posts : ~(ppc[p] = "waiting" /\ sess[p] = peer)

\* All requests have come to their end, or wait for room that nobody makes.
Over ==
    /\ \A p \in Posts :
        \/ ppc[p] \in {"replied", "timeout"} \/ Stranded(p)
        \/ ppc[p] = "pushing" /\ sess[p] = peer /\ Jammed
    /\ UNCHANGED postVars

PostNext ==
    \/ \E p \in Posts :
         \/ Lookup(p) \/ Create(p) \/ Push(p) \/ Reply(p) \/ Timeout(p)
         \/ ClientGone(p) \/ PeerAnswer(p)
    \/ \E n \in Notes : PeerSends(n)
    \/ Transport \/ PeerRead \/ ServeAnswers
    \/ StreamConnect \/ StreamTakes \/ StreamEnds \/ Over

PostSpec == PostInit /\ [][PostNext]_postVars

-----------------------------------------------------------------------------
(* Properties; the liveness of the handlers is stated in HttpLink *)

\* A POST is answered with the response to its own request.
OwnBody == \A p \in Posts : body[p] \in {p, None}
=============================================================================
