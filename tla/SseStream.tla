----------------------------- MODULE SseStream -----------------------------
(* The event stream of one session of the HTTPS+SSE transport                 *)
(* (src/pkg/wmp/httpsse/httpsse.go): the messages that the server's Peer      *)
(* writes to the outgoing channel, the GET handlers that number, buffer and   *)
(* write them, and a client that reads them, loses its connection and         *)
(* connects again with the id of the last event it has received.             *)
(*                                                                          *)
(* A message is known by the number of its event. The client connects anew   *)
(* only when its former reader has ended: ConnectSSE replaces the response   *)
(* and the reader that a running readSSE uses.                               *)
EXTENDS Naturals, Sequences, FiniteSets, SequencesExt

CONSTANTS
    Conns,      \* the GET requests of the client
    None,
    OutCap,     \* the capacity of outgoing, 64 in the code
    MaxEvents,  \* maxEvents, 200 in the code
    MaxMsgs     \* bound on the messages written by the Peer

ASSUME SseConstantsAssumption ==
    /\ None \notin Conns
    /\ OutCap \in Nat \ {0}
    /\ MaxEvents \in Nat \ {0}
    /\ MaxMsgs \in Nat

VARIABLES
    written,    \* how many messages the Peer has written
    outgoing,   \* how many of them are in the outgoing channel
    nextID,     \* sess.nextID
    events,     \* sess.events: the ids of the buffered events, oldest first
    hpc,        \* where the handler of each connection is
    hdr,        \* the Last-Event-ID header of each connection, 0 if empty
    hid,        \* the id of the event that the handler is writing
    wire,       \* the events on their way to the client
    broken,     \* the connections that have failed
    cur,        \* the connection the client reads from
    lastID,     \* t.lastEventID, 0 for ""
    received,   \* the ids of the events pushed to the client's incoming
    orphaned    \* the events taken by the handler of a lost connection when
                \* the current one had done its replay already

serverVars == <<written, outgoing, nextID, events>>
clientVars == <<cur, lastID, received, orphaned>>
vars == <<written, outgoing, nextID, events, hpc, hdr, hid, wire, broken,
          cur, lastID, received, orphaned>>

EventIds == 1 .. MaxMsgs

\* The type invariant: the event buffer never exceeds maxEvents, and no message
\* is counted twice between the channel, the handlers and the buffer.
TypeOK ==
    /\ written \in 0 .. MaxMsgs
    /\ outgoing \in 0 .. OutCap
    /\ nextID \in 0 .. MaxMsgs
    /\ events \in Seq(EventIds)
    /\ hpc \in [Conns -> {"idle", "replay", "serving", "holding", "writing", "ended"}]
    /\ hdr \in [Conns -> 0 .. MaxMsgs]
    /\ hid \in [Conns -> 0 .. MaxMsgs]
    /\ wire \in [Conns -> Seq(EventIds)]
    /\ broken \subseteq Conns
    /\ cur \in Conns \cup {None}
    /\ lastID \in 0 .. MaxMsgs
    /\ received \in Seq(EventIds)
    /\ orphaned \subseteq EventIds
    /\ Len(events) <= MaxEvents
    /\ written = outgoing + nextID + Cardinality({c \in Conns : hpc[c] = "holding"})

Init ==
    /\ written = 0
    /\ outgoing = 0
    /\ nextID = 0
    /\ events = <<>>
    /\ hpc = [c \in Conns |-> "idle"]
    /\ hdr = [c \in Conns |-> 0]
    /\ hid = [c \in Conns |-> 0]
    /\ wire = [c \in Conns |-> <<>>]
    /\ broken = {}
    /\ cur = None
    /\ lastID = 0
    /\ received = <<>>
    /\ orphaned = {}

-----------------------------------------------------------------------------
(* The server *)

\* ServerTransport.WriteMessage: blocks while the channel is full.
PeerWrite ==
    /\ written < MaxMsgs /\ outgoing < OutCap
    /\ written' = written + 1
    /\ outgoing' = outgoing + 1
    /\ UNCHANGED <<nextID, events, hpc, hdr, hid, wire, broken, clientVars>>

\* The place of the event with the given id in the buffer, or the buffer's end
\* if there is none.
Place(last) ==
    IF \E i \in 1 .. Len(events) : events[i] = last
    THEN CHOOSE i \in 1 .. Len(events) : events[i] = last
    ELSE Len(events)

\* A defect: the event that the client already has is replayed again.
ReplayFrom(last) == IF last = 0 THEN <<>> ELSE SubSeq(events, Place(last), Len(events))

\* A defect: nothing is replayed.
ReplayNothing(last) == SubSeq(events, Len(events) + 1, Len(events))

\* replayAfter: what is buffered after the given id, and nothing at all for an
\* empty id or for one that has been evicted.
ReplayAfter(last) == SubSeq(events, Place(last) + 1, Len(events))

\* handleSSE up to its loop.
Replay(c) ==
    /\ hpc[c] = "replay"
    /\ wire' = [wire EXCEPT ![c] = IF c \in broken THEN @ ELSE ReplayAfter(hdr[c])]
    /\ hpc' = [hpc EXCEPT ![c] = "serving"]
    /\ UNCHANGED <<serverVars, hdr, hid, broken, clientVars>>

\* The select takes a message from outgoing, also if the client is gone.
Take(c) ==
    /\ hpc[c] = "serving" /\ outgoing > 0
    /\ outgoing' = outgoing - 1
    /\ hpc' = [hpc EXCEPT ![c] = "holding"]
    /\ UNCHANGED <<written, nextID, events, hdr, hid, wire, broken, clientVars>>

\* A defect: the oldest event is evicted before the buffer is over its cap.
BufferedEarlyEvict(id) ==
    LET all == Append(events, id) IN
    IF Len(all) >= MaxEvents THEN Tail(all) ELSE all

\* The event buffer after bufferEvent: the oldest event goes if it is over cap.
Buffered(id) ==
    LET all == Append(events, id) IN
    SubSeq(all, IF Len(all) > MaxEvents THEN Len(all) - MaxEvents + 1 ELSE 1, Len(all))

\* bufferEvent: the next id, and the event in the buffer, under bufMu.
BufferEvent(c) ==
    /\ hpc[c] = "holding"
    /\ nextID' = nextID + 1
    /\ events' = Buffered(nextID + 1)
    /\ hid' = [hid EXCEPT ![c] = nextID + 1]
    /\ hpc' = [hpc EXCEPT ![c] = "writing"]
    /\ orphaned' = orphaned \cup
         {id \in {nextID + 1} : cur \notin {None, c} /\ hpc[cur] # "replay"}
    /\ UNCHANGED <<written, outgoing, hdr, wire, broken, cur, lastID, received>>

\* The event is written; the error of a write to a lost connection is ignored.
WriteEvent(c) ==
    /\ hpc[c] = "writing"
    /\ wire' = [wire EXCEPT ![c] = IF c \in broken THEN @ ELSE Append(@, hid[c])]
    /\ hpc' = [hpc EXCEPT ![c] = "serving"]
    /\ UNCHANGED <<serverVars, hdr, hid, broken, clientVars>>

\* case <-r.Context().Done().
HandlerEnds(c) ==
    /\ hpc[c] = "serving" /\ c \in broken
    /\ hpc' = [hpc EXCEPT ![c] = "ended"]
    /\ UNCHANGED <<serverVars, hdr, hid, wire, broken, clientVars>>

-----------------------------------------------------------------------------
(* The client and the network *)

\* ConnectSSE with the Last-Event-ID header. The handlers of former, broken
\* connections may still run.
ConnectSSE(c) ==
    /\ cur = None /\ hpc[c] = "idle"
    /\ cur' = c
    /\ hdr' = [hdr EXCEPT ![c] = lastID]
    /\ hpc' = [hpc EXCEPT ![c] = "replay"]
    /\ UNCHANGED <<serverVars, hid, wire, broken, lastID, received, orphaned>>

\* readSSE: the event goes to incoming, then its id becomes lastEventID.
ReadSSE(c) ==
    /\ cur = c /\ wire[c] # <<>>
    /\ received' = Append(received, Head(wire[c]))
    /\ lastID' = Head(wire[c])
    /\ wire' = [wire EXCEPT ![c] = Tail(@)]
    /\ UNCHANGED <<serverVars, hpc, hdr, hid, broken, cur, orphaned>>

\* The connection fails with what is on the wire, and readSSE returns.
Break(c) ==
    /\ cur = c
    /\ cur' = None
    /\ broken' = broken \cup {c}
    /\ wire' = [wire EXCEPT ![c] = <<>>]
    /\ UNCHANGED <<serverVars, hpc, hdr, hid, lastID, received, orphaned>>

\* All messages are written and no connection is left.
Over ==
    /\ cur = None
    /\ \A c \in Conns : hpc[c] = "ended"
    /\ UNCHANGED vars

HandlerStep(c) ==
    Replay(c) \/ Take(c) \/ BufferEvent(c) \/ WriteEvent(c) \/ HandlerEnds(c)

Next ==
    \/ PeerWrite
    \/ \E c \in Conns : HandlerStep(c) \/ ConnectSSE(c) \/ ReadSSE(c) \/ Break(c)
    \/ Over

\* Handlers run, and the client reads what arrives. Nobody has to connect.
Fairness == \A c \in Conns : WF_vars(HandlerStep(c)) /\ WF_vars(ReadSSE(c))

Spec == Init /\ [][Next]_vars /\ Fairness

-----------------------------------------------------------------------------
(* Properties *)

\* The client receives no event twice and none out of order, over any number of
\* connections, even if their handlers overlap (httpsse.go 258-272, 384-403).
EventsInOrder ==
    \A i \in 1 .. Len(received) - 1 : received[i] < received[i + 1]

\* From its first event on, and until the buffer has overflowed, the client
\* misses only what the handler of a lost connection takes after the replay:
\* all else that the broken connection swallowed is replayed (httpsse.go 65-68,
\* 258-272, 384-403).
NoGap ==
    nextID <= MaxEvents =>
        \A i \in 1 .. Len(received) - 1 :
            received[i] + 1 .. received[i + 1] - 1 \subseteq orphaned

\* The events since its first one that the client has not received, orphaned
\* ones apart.
Missing ==
    {n \in 1 .. nextID :
        (\E i \in 1 .. Len(received) : received[i] < n) /\ ~Contains(received, n)} \ orphaned

\* Until the buffer has overflowed, a client that stays connected catches up,
\* again and again, with all events since its first one, those sent while it
\* was away included (httpsse.go 384-403).
CatchesUp ==
    (received # <<>>) ~> (Missing = {} \/ cur = None \/ nextID > MaxEvents)
=============================================================================
