----------------------------- MODULE PeerCalls -----------------------------
(* The calling side of a wmp.Peer (src/pkg/wmp/peer.go): goroutines inside    *)
(* Call / CallWithID, the pending map guarded by p.mu, the response channel  *)
(* of capacity one that each call makes, and the goroutines that route the   *)
(* responses they read: the Serve loop, and those in HandleRequestSync, which *)
(* may be many and end after one message.                                    *)
(*                                                                          *)
(* Every critical section under p.mu is one step, every channel operation   *)
(* and every transport call is one step. A response is named by the call    *)
(* whose request the remote side answered, since the answer echoes that     *)
(* request's id. Answers may be late, repeated, reordered or missing: a      *)
(* router may read, at any time, an answer to any request that has           *)
(* reached the remote side. Stray is a response with a null id, which the   *)
(* remote Serve sends for a message that it cannot parse or that is too     *)
(* large (peer.go 165-189).                                                 *)
CONSTANTS
    Calls,      \* the invocations of Call / CallWithID
    Ids,        \* request ids
    Routers,    \* the goroutines that read responses
    NoId,       \* the key "" that a null id decodes to
    Stray,      \* a response that answers no call
    None,       \* an absent map entry, an empty channel, no message
    FreshIds    \* TRUE: ids are never used twice (generateRequestID, Call);
                \* FALSE: CallWithID's contract, unique in the pending set

ASSUME ConstantsAssumption ==
    /\ NoId \notin Ids
    /\ Stray \notin Calls
    /\ None \notin Calls \cup {Stray}
    /\ FreshIds \in BOOLEAN

VARIABLES
    pc,         \* where each call is
    reqId,      \* the id of each call's request
    pending,    \* p.pending: the call that owns the channel stored under a key
    ch,         \* the content of the response channel of each call
    result,     \* how each call ended
    got,        \* the message that a call took from its channel
    ctxDone,    \* the calls whose context is done
    delivered,  \* the calls whose request has reached the remote side
    serve,      \* where each router is
    sresp,      \* the response that it is handling
    sto         \* the call whose channel its handleResponse has looked up

callVars == <<pc, result, got, ctxDone, delivered>>
serveVars == <<serve, sresp, sto>>
vars == <<pc, reqId, pending, ch, result, got, ctxDone, delivered, serve, sresp, sto>>

Messages == Calls \cup {Stray}
Keys == Ids \cup {NoId}

\* The type invariant; the last conjunct says that no router sends to a
\* nil channel (peer.go 214-222).
TypeOK ==
    /\ pc \in [Calls -> {"idle", "sending", "waiting", "failed", "cancelled", "returned"}]
    /\ reqId \in [Calls -> Keys]
    /\ pending \in [Keys -> Calls \cup {None}]
    /\ ch \in [Calls -> Messages \cup {None}]
    /\ result \in [Calls -> {"none", "error", "ctxErr", "response"}]
    /\ got \in [Calls -> Messages \cup {None}]
    /\ ctxDone \subseteq Calls
    /\ delivered \subseteq Calls
    /\ serve \in [Routers -> {"stopped", "reading", "routing", "delivering"}]
    /\ sresp \in [Routers -> Messages \cup {None}]
    /\ sto \in [Routers -> Calls \cup {None}]
    /\ \A r \in Routers :
         /\ serve[r] \in {"routing", "delivering"} => sresp[r] # None
         /\ serve[r] = "delivering" => sto[r] # None

Init ==
    /\ pc = [c \in Calls |-> "idle"]
    /\ reqId = [c \in Calls |-> NoId]
    /\ pending = [k \in Keys |-> None]
    /\ ch = [c \in Calls |-> None]
    /\ result = [c \in Calls |-> "none"]
    /\ got = [c \in Calls |-> None]
    /\ ctxDone = {}
    /\ delivered = {}
    /\ serve = [r \in Routers |-> "stopped"]
    /\ sresp = [r \in Routers |-> None]
    /\ sto = [r \in Routers |-> None]

-----------------------------------------------------------------------------
(* The calling goroutines *)

\* A defect: the id is only required to be new among the calls still running.
IdFreeReused(i) == pending[i] = None

\* The id that a new request may carry.
IdFree(i) ==
    IF FreshIds THEN \A d \in Calls : reqId[d] # i ELSE pending[i] = None

\* generateRequestID or NewRequest fails: the call returns before registering.
Refuse(c) ==
    /\ pc[c] = "idle"
    /\ pc' = [pc EXCEPT ![c] = "returned"]
    /\ result' = [result EXCEPT ![c] = "error"]
    /\ UNCHANGED <<reqId, pending, ch, got, ctxDone, delivered, serveVars>>

\* ch := make(chan *Response, 1); p.pending[id] = ch under the lock.
Register(c) ==
    /\ pc[c] = "idle"
    /\ \E i \in Ids :
         /\ IdFree(i)
         /\ reqId' = [reqId EXCEPT ![c] = i]
         /\ pending' = [pending EXCEPT ![i] = c]
    /\ pc' = [pc EXCEPT ![c] = "sending"]
    /\ UNCHANGED <<ch, result, got, ctxDone, delivered, serveVars>>

\* The remote side receives the request: while the write is under way or,
\* on a buffered transport, long after it.
Transmit(c) ==
    /\ pc[c] # "idle" /\ reqId[c] # NoId
    /\ delivered' = delivered \cup {c}
    /\ UNCHANGED <<pc, reqId, pending, ch, result, got, ctxDone, serveVars>>

\* sendJSON returns; a nil error is no promise that the request arrives.
SendOk(c) ==
    /\ pc[c] = "sending"
    /\ pc' = [pc EXCEPT ![c] = "waiting"]
    /\ UNCHANGED <<reqId, pending, ch, result, got, ctxDone, delivered, serveVars>>

SendErr(c) ==
    /\ pc[c] = "sending"
    /\ pc' = [pc EXCEPT ![c] = "failed"]
    /\ UNCHANGED <<reqId, pending, ch, result, got, ctxDone, delivered, serveVars>>

\* A defect: the error path returns without deleting the pending entry.
UnregisterSendErrLeaks(c) ==
    /\ pc[c] \in {"failed", "cancelled"}
    /\ pending' = IF pc[c] = "failed" THEN pending
                  ELSE [pending EXCEPT ![reqId[c]] = None]
    /\ result' = [result EXCEPT ![c] = IF pc[c] = "failed" THEN "error" ELSE "ctxErr"]
    /\ pc' = [pc EXCEPT ![c] = "returned"]
    /\ UNCHANGED <<reqId, ch, got, ctxDone, delivered, serveVars>>

\* A defect: a failed call clears the whole pending map.
UnregisterAll(c) ==
    /\ pc[c] \in {"failed", "cancelled"}
    /\ pending' = [k \in Keys |-> None]
    /\ result' = [result EXCEPT ![c] = IF pc[c] = "failed" THEN "error" ELSE "ctxErr"]
    /\ pc' = [pc EXCEPT ![c] = "returned"]
    /\ UNCHANGED <<reqId, ch, got, ctxDone, delivered, serveVars>>

\* delete(p.pending, id) under the lock, whoever owns the entry by then, and
\* the return of the send error or of ctx.Err().
Unregister(c) ==
    /\ pc[c] \in {"failed", "cancelled"}
    /\ pending' = [pending EXCEPT ![reqId[c]] = None]
    /\ result' = [result EXCEPT ![c] = IF pc[c] = "failed" THEN "error" ELSE "ctxErr"]
    /\ pc' = [pc EXCEPT ![c] = "returned"]
    /\ UNCHANGED <<reqId, ch, got, ctxDone, delivered, serveVars>>

\* The caller's context is cancelled or times out.
CtxCancel(c) ==
    /\ c \notin ctxDone
    /\ ctxDone' = ctxDone \cup {c}
    /\ UNCHANGED <<pc, reqId, pending, ch, result, got, delivered, serveVars>>

\* The select takes <-ctx.Done(), even if a response is also there.
SelectCtx(c) ==
    /\ pc[c] = "waiting" /\ c \in ctxDone
    /\ pc' = [pc EXCEPT ![c] = "cancelled"]
    /\ UNCHANGED <<reqId, pending, ch, result, got, ctxDone, delivered, serveVars>>

\* The select takes resp := <-ch and the call returns what it says.
SelectResp(c) ==
    /\ pc[c] = "waiting" /\ ch[c] # None
    /\ got' = [got EXCEPT ![c] = ch[c]]
    /\ ch' = [ch EXCEPT ![c] = None]
    /\ result' = [result EXCEPT ![c] = "response"]
    /\ pc' = [pc EXCEPT ![c] = "returned"]
    /\ UNCHANGED <<reqId, pending, ctxDone, delivered, serveVars>>

-----------------------------------------------------------------------------
(* The routers: Serve, HandleRequestSync and handleResponse *)

ServeStart(r) ==
    /\ serve[r] = "stopped"
    /\ serve' = [serve EXCEPT ![r] = "reading"]
    /\ UNCHANGED <<reqId, pending, ch, sresp, sto, callVars>>

\* ReadMessage fails, because the context is done or the transport is closed,
\* or HandleRequestSync returns. The calls that wait are not told.
ServeStop(r) ==
    /\ serve[r] = "reading"
    /\ serve' = [serve EXCEPT ![r] = "stopped"]
    /\ UNCHANGED <<reqId, pending, ch, sresp, sto, callVars>>

\* The message is a response, and handleResponse is called in the same goroutine.
ReadResponse(r) ==
    /\ serve[r] = "reading"
    /\ \E m \in delivered \cup {Stray} : sresp' = [sresp EXCEPT ![r] = m]
    /\ serve' = [serve EXCEPT ![r] = "routing"]
    /\ UNCHANGED <<reqId, pending, ch, sto, callVars>>

\* The id of a response: an answer echoes the id of its request, and the
\* null id of a stray one decodes to the empty key.
IdOf(m) == IF m = Stray THEN NoId ELSE reqId[m]

\* A router is done with its response.
Rest(r) ==
    /\ serve' = [serve EXCEPT ![r] = "reading"]
    /\ sresp' = [sresp EXCEPT ![r] = None]
    /\ sto' = [sto EXCEPT ![r] = None]

\* A router has looked up the channel of call c.
Hold(r, c) ==
    /\ serve' = [serve EXCEPT ![r] = "delivering"]
    /\ sto' = [sto EXCEPT ![r] = c]
    /\ UNCHANGED sresp

\* A defect: the entry is looked up but left in the map.
RouteKeeps(r) ==
    /\ serve[r] = "routing"
    /\ LET c == pending[IdOf(sresp[r])] IN IF c = None THEN Rest(r) ELSE Hold(r, c)
    /\ UNCHANGED <<reqId, pending, ch, callVars>>

\* A defect: the send is not guarded by the result of the lookup.
RouteUnchecked(r) ==
    /\ serve[r] = "routing"
    /\ Hold(r, pending[IdOf(sresp[r])])
    /\ pending' = [pending EXCEPT ![IdOf(sresp[r])] = None]
    /\ UNCHANGED <<reqId, ch, callVars>>

\* Lookup and delete in one critical section; an unknown id is dropped.
Route(r) ==
    /\ serve[r] = "routing"
    /\ LET c == pending[IdOf(sresp[r])] IN IF c = None THEN Rest(r) ELSE Hold(r, c)
    /\ pending' = [pending EXCEPT ![IdOf(sresp[r])] = None]
    /\ UNCHANGED <<reqId, ch, callVars>>

\* A defect: a non-blocking send that drops the response unless the caller
\* is already in its select.
DeliverOrDrop(r) ==
    /\ serve[r] = "delivering"
    /\ ch[sto[r]] = None
    /\ ch' = IF pc[sto[r]] = "waiting" THEN [ch EXCEPT ![sto[r]] = sresp[r]] ELSE ch
    /\ Rest(r)
    /\ UNCHANGED <<reqId, pending, callVars>>

\* ch <- resp, which blocks while the channel's one slot is taken.
Deliver(r) ==
    /\ serve[r] = "delivering"
    /\ ch[sto[r]] = None
    /\ ch' = [ch EXCEPT ![sto[r]] = sresp[r]]
    /\ Rest(r)
    /\ UNCHANGED <<reqId, pending, callVars>>

-----------------------------------------------------------------------------
CallStep(c) ==
    \/ Refuse(c) \/ Register(c) \/ Transmit(c)
    \/ SendOk(c) \/ SendErr(c) \/ Unregister(c)
    \/ CtxCancel(c) \/ SelectCtx(c) \/ SelectResp(c)

ServeStep(r) ==
    ServeStart(r) \/ ServeStop(r) \/ ReadResponse(r) \/ Route(r) \/ Deliver(r)

Next == (\E c \in Calls : CallStep(c)) \/ (\E r \in Routers : ServeStep(r))

\* The Go scheduler runs every runnable goroutine: a call whose select has a
\* ready case takes one and the few steps between two blocking points are
\* taken. That a transport write ends is an assumption about the transport: it
\* holds for ChannelTransport, which never blocks, and fails for
\* httpsse.ServerTransport while nobody takes its messages. Nothing makes the
\* remote side answer or the reader read.
Fairness ==
    /\ \A c \in Calls :
         /\ WF_vars(SendOk(c) \/ SendErr(c))
         /\ WF_vars(Unregister(c))
         /\ WF_vars(SelectCtx(c) \/ SelectResp(c))
    /\ \A r \in Routers : WF_vars(Route(r)) /\ WF_vars(Deliver(r))

Spec == Init /\ [][Next]_vars /\ Fairness

-----------------------------------------------------------------------------
(* Properties *)

\* A call that returns a response returns the one that answers its own
\* request, however late or repeated answers are (peer.go 207-223, 563-570).
OwnResponse == \A c \in Calls : result[c] = "response" => got[c] = c

\* Neither the Serve loop nor HandleRequestSync ever blocks in ch <- resp
\* (peer.go 221): the slot of the channel it is about to fill is free, also
\* when the caller is gone, when the remote side answers twice and when two
\* answers are routed at a time.
ServeNeverBlocks == \A r \in Routers : serve[r] = "delivering" => ch[sto[r]] = None

\* A call that waits can still be woken by its answer: it is registered, or
\* a router holds its channel, or the response is already there
\* (peer.go 546, 214-222, 557).
WaiterReachable ==
    \A c \in Calls : pc[c] = "waiting" =>
        \/ pending[reqId[c]] = c
        \/ \E r \in Routers : serve[r] = "delivering" /\ sto[r] = c
        \/ ch[c] # None

\* No call that has returned stays in the pending map, whichever way it ended
\* (peer.go 551-553, 559-561, 215-217).
NoLeak ==
    \A c \in Calls : pc[c] = "returned" => \A k \in Keys : pending[k] # c

\* Once a router has read an answer to a call, that call returns, even
\* if the answer overtakes the return of the write (peer.go 213-222, 563).
AnsweredCallReturns ==
    \A c \in Calls, r \in Routers :
        (serve[r] = "routing" /\ sresp[r] = c) ~> (pc[c] = "returned")

Promise == INSTANCE CallPromise WITH
    status <- [c \in Calls |->
                 IF pc[c] = "idle" THEN "new"
                 ELSE IF pc[c] = "returned" THEN "done" ELSE "open"],
    result <- [c \in Calls |->
                 IF result[c] = "response" /\ got[c] # c THEN "foreign" ELSE result[c]],
    reached <- delivered,
    expired <- ctxDone

\* The pending map, the channels and the Serve loop implement the promise
\* that CallPromise states (peer.go 527-572 with 154-223).
ImplementsPromise == Promise!Spec
=============================================================================
