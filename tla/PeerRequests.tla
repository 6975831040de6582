---------------------------- MODULE PeerRequests ----------------------------
(* The answering side of a wmp.Peer: how one incoming request or             *)
(* notification passes the size and parse checks, the authorizer, the        *)
(* validator, context enrichment, the middleware chain and the dispatch, and *)
(* how it is answered; and what wmp.session.create does to the session       *)
(* store on its way (src/pkg/wmp/peer.go 154-331, 586-670, session.go,       *)
(* registry.go 134-171).                                                     *)
(*                                                                          *)
(* The same pipeline exists twice in the code: handleRequest runs as a       *)
(* goroutine per message of Serve, HandleRequestSync in the goroutine of an  *)
(* HTTP handler. SyncRequests names the messages that take the second way.   *)
(* What the application decides (authorizer, validator, middleware, handler, *)
(* hooks) is a free choice.                                                  *)
EXTENDS Naturals

CONSTANTS
    Requests,       \* messages with a method
    Notifications,  \* those without an id
    SyncRequests,   \* those handed to HandleRequestSync
    Creates,        \* those with the method wmp.session.create
    SessionIds,
    None,
    TTL,            \* the lifetime the application gives a session
    MaxTime,        \* bound on the clock
    Casts           \* bound: the sets of messages that may come together

ASSUME RequestConstantsAssumption ==
    /\ Notifications \subseteq Requests
    /\ SyncRequests \subseteq Requests
    /\ Creates \subseteq Requests
    /\ None \notin SessionIds
    /\ TTL \in Nat \ {0}
    /\ MaxTime \in Nat \ {0}
    /\ Casts \subseteq SUBSET Requests

VARIABLES
    pc,         \* the stage of each message
    carries,    \* the session id in its wmp metadata
    made,       \* the id of the session that its SessionCreate has made
    draft,      \* the expiry of the Session value that the peer builds
    outcome,    \* what dispatch came to: "none", "ok" or "err"
    reply,      \* what the remote side got: "none", "ok", "err", an error with
                \* a null id ("nullErr"), or "lost" when the write failed
    store,      \* the session store: the ExpiresAt of the session, 0 for none
    kept,       \* the ids of sessions that a handler has put there itself
    removed,    \* the ids deleted by the application or by Cleanup
    rejected,   \* the ids of sessions that a hook has rejected
    now         \* the clock

vars == <<pc, carries, made, draft, outcome, reply, store, kept, removed,
          rejected, now>>
storeVars == <<store, kept, removed, rejected, now>>

Stages == {"new", "authorize", "validate", "enrich", "dispatch", "hooks", "put",
           "answer", "finished"}
Absent == MaxTime + TTL + 1     \* store[k] for an id without an entry
Expiries == 0 .. MaxTime + TTL

\* The type invariant: a message past its handler is about a session if and
\* only if the handler has made one (peer.go 318).
TypeOK ==
    /\ pc \in [Requests -> Stages]
    /\ carries \in [Requests -> SessionIds \cup {None}]
    /\ made \in [Requests -> SessionIds \cup {None}]
    /\ draft \in [Requests -> Expiries]
    /\ outcome \in [Requests -> {"none", "ok", "err"}]
    /\ reply \in [Requests -> {"none", "ok", "err", "nullErr", "lost"}]
    /\ store \in [SessionIds -> Expiries \cup {Absent}]
    /\ kept \subseteq SessionIds
    /\ removed \subseteq SessionIds
    /\ rejected \subseteq SessionIds
    /\ now \in 1 .. MaxTime
    /\ \A r \in Requests : pc[r] \in {"hooks", "put"} => made[r] # None

Init ==
    /\ pc = [r \in Requests |-> "new"]
    /\ carries = [r \in Requests |-> None]
    /\ made = [r \in Requests |-> None]
    /\ draft = [r \in Requests |-> 0]
    /\ outcome = [r \in Requests |-> "none"]
    /\ reply = [r \in Requests |-> "none"]
    /\ store = [k \in SessionIds |-> Absent]
    /\ kept = {}
    /\ removed = {}
    /\ rejected = {}
    /\ now = 1

\* Session.IsExpired: the zero time never expires.
IsExpired(exp) == exp # 0 /\ now > exp

\* MemorySessionStore.Get, without a look at the expiry; Create, over what is
\* there; Delete.
Get(k) == store[k] # Absent
Create(k, exp) == [store EXCEPT ![k] = exp]
Delete(k) == [store EXCEPT ![k] = Absent]

Used == {k \in SessionIds : \E r \in Requests : made[r] = k}

\* The ids that the remote side has learnt from an answer.
Announced == {k \in SessionIds : \E r \in Requests : made[r] = k /\ reply[r] = "ok"}

\* The bound on what may come: r and all that have come are in one cast.
MayCome(r) == \E c \in Casts : {q \in Requests : pc[q] # "new"} \cup {r} \subseteq c

-----------------------------------------------------------------------------
(* The checks *)

\* The reply of a message that does not reach the dispatch. The sync path
\* builds one for notifications too, the Serve path does not.
RefusalReply(r) == IF r \in Notifications \ SyncRequests THEN "none" ELSE "err"

\* Too large, or not decodable: an error with a null id, which on the Serve
\* path is written to the transport.
Reject(r) ==
    /\ pc[r] = "new" /\ MayCome(r)
    /\ pc' = [pc EXCEPT ![r] = "finished"]
    /\ \/ reply' = [reply EXCEPT ![r] = "nullErr"]
       \/ r \notin SyncRequests /\ reply' = [reply EXCEPT ![r] = "lost"]
    /\ UNCHANGED <<carries, made, draft, outcome, storeVars>>

\* DecodeMessage yields a request; its metadata may name a session.
Decode(r) ==
    /\ pc[r] = "new" /\ MayCome(r)
    /\ \E k \in Announced \cup {None} : carries' = [carries EXCEPT ![r] = k]
    /\ pc' = [pc EXCEPT ![r] = "authorize"]
    /\ UNCHANGED <<made, draft, outcome, reply, storeVars>>

\* The authorizer, then the validator, lets the message pass.
Pass(r) ==
    /\ pc[r] \in {"authorize", "validate"}
    /\ pc' = [pc EXCEPT ![r] = IF pc[r] = "authorize" THEN "validate" ELSE "enrich"]
    /\ UNCHANGED <<carries, made, draft, outcome, reply, storeVars>>

\* One of them refuses it. On the Serve path the reply is written to the
\* transport, which may fail; the error of sendJSON is dropped.
Refuse(r) ==
    /\ pc[r] \in {"authorize", "validate"}
    /\ pc' = [pc EXCEPT ![r] = "finished"]
    /\ \/ reply' = [reply EXCEPT ![r] = RefusalReply(r)]
       \/ /\ r \notin Notifications \cup SyncRequests
          /\ reply' = [reply EXCEPT ![r] = "lost"]
    /\ UNCHANGED <<carries, made, draft, outcome, storeVars>>

\* sessions.Get(meta.WMP.SessionID): the session goes into the context, or the
\* message is handled without one; expiry is not looked at.
Enrich(r) ==
    /\ pc[r] = "enrich"
    /\ carries' = [carries EXCEPT ![r] =
                     IF @ # None /\ Get(@) THEN @ ELSE None]
    /\ pc' = [pc EXCEPT ![r] = "dispatch"]
    /\ UNCHANGED <<made, draft, outcome, reply, storeVars>>

-----------------------------------------------------------------------------
(* Middleware and dispatch *)

\* A middleware answers without calling next, with a result or an error.
Middleware(r) ==
    /\ pc[r] = "dispatch"
    /\ \E how \in {"ok", "err"} : outcome' = [outcome EXCEPT ![r] = how]
    /\ pc' = [pc EXCEPT ![r] = "answer"]
    /\ UNCHANGED <<carries, made, draft, reply, storeVars>>

\* Nobody handles the method, its parameters do not decode, the version is not
\* supported, or the handler fails.
DispatchFails(r) ==
    /\ pc[r] = "dispatch"
    /\ outcome' = [outcome EXCEPT ![r] = "err"]
    /\ pc' = [pc EXCEPT ![r] = "answer"]
    /\ UNCHANGED <<carries, made, draft, reply, storeVars>>

\* Any other method: the handler returns a result, or nil, which is answered
\* as an empty success. A handler with the same store may delete the session.
DispatchOther(r) ==
    /\ pc[r] = "dispatch" /\ r \notin Creates
    /\ outcome' = [outcome EXCEPT ![r] = "ok"]
    /\ pc' = [pc EXCEPT ![r] = "answer"]
    /\ \/ UNCHANGED <<store, removed>>
       \/ /\ carries[r] # None
          /\ store' = Delete(carries[r])
          /\ removed' = removed \cup {carries[r]}
    /\ UNCHANGED <<carries, made, draft, reply, kept, rejected, now>>

\* handler.SessionCreate returns a result without a session id, or the peer has
\* no store.
CreateNothing(r) ==
    /\ pc[r] = "dispatch" /\ r \in Creates
    /\ outcome' = [outcome EXCEPT ![r] = "ok"]
    /\ pc' = [pc EXCEPT ![r] = "answer"]
    /\ UNCHANGED <<carries, made, draft, reply, storeVars>>

\* handler.SessionCreate makes a session under a new id. If it keeps its
\* sessions in the store that the peer was given, it puts its own Session
\* there, with or without a lifetime.
SessionCreate(r) ==
    /\ pc[r] = "dispatch" /\ r \in Creates
    /\ \E k \in SessionIds \ Used :
         /\ made' = [made EXCEPT ![r] = k]
         /\ \/ UNCHANGED <<store, kept>>
            \/ /\ \E exp \in {0, now + TTL} : store' = Create(k, exp)
               /\ kept' = kept \cup {k}
    /\ pc' = [pc EXCEPT ![r] = "hooks"]
    /\ UNCHANGED <<carries, draft, outcome, reply, removed, rejected, now>>

\* A defect: the session is answered for and only then put into the store.
HooksThenAnswer(r) ==
    /\ pc[r] = "hooks"
    /\ pc' = [pc EXCEPT ![r] = "answer"]
    /\ outcome' = [outcome EXCEPT ![r] = "ok"]
    /\ UNCHANGED <<carries, made, draft, reply, storeVars>>

\* runSessionCreateHooks: all hooks agree; they may give the session a lifetime.
HooksAccept(r) ==
    /\ pc[r] = "hooks"
    /\ \E exp \in {0, now + TTL} : draft' = [draft EXCEPT ![r] = exp]
    /\ pc' = [pc EXCEPT ![r] = "put"]
    /\ UNCHANGED <<carries, made, outcome, reply, storeVars>>

\* A defect: a rejected session goes the way of an accepted one.
HooksIgnored(r) ==
    /\ pc[r] = "hooks"
    /\ rejected' = rejected \cup {made[r]}
    /\ pc' = [pc EXCEPT ![r] = "put"]
    /\ UNCHANGED <<carries, made, draft, outcome, reply, store, kept, removed, now>>

\* runSessionCreateHooks: one hook returns an error.
HooksReject(r) ==
    /\ pc[r] = "hooks"
    /\ rejected' = rejected \cup {made[r]}
    /\ outcome' = [outcome EXCEPT ![r] = "err"]
    /\ pc' = [pc EXCEPT ![r] = "answer"]
    /\ UNCHANGED <<carries, made, draft, reply, store, kept, removed, now>>

\* p.sessions.Create(sess): over the entry of the handler, if there is one.
PutSession(r) ==
    /\ pc[r] = "put"
    /\ store' = Create(made[r], draft[r])
    /\ outcome' = [outcome EXCEPT ![r] = "ok"]
    /\ pc' = [pc EXCEPT ![r] = "answer"]
    /\ UNCHANGED <<carries, made, draft, reply, kept, removed, rejected, now>>

\* A defect: an error of the dispatch ends the message without an answer.
AnswerOnlySuccess(r) ==
    /\ pc[r] = "answer" /\ r \notin SyncRequests
    /\ reply' = [reply EXCEPT ![r] =
                   IF r \in Notifications \/ outcome[r] = "err" THEN "none" ELSE outcome[r]]
    /\ pc' = [pc EXCEPT ![r] = "finished"]
    /\ UNCHANGED <<carries, made, draft, outcome, storeVars>>

\* handleRequest: a notification gets no response; a request gets its result
\* or its error, unless the write fails.
Answer(r) ==
    /\ pc[r] = "answer" /\ r \notin SyncRequests
    /\ \/ reply' = [reply EXCEPT ![r] = IF r \in Notifications THEN "none" ELSE outcome[r]]
       \/ r \notin Notifications /\ reply' = [reply EXCEPT ![r] = "lost"]
    /\ pc' = [pc EXCEPT ![r] = "finished"]
    /\ UNCHANGED <<carries, made, draft, outcome, storeVars>>

\* A defect: the copy of the pipeline has no test for a notification.
AnswerSyncAll(r) ==
    /\ pc[r] = "answer" /\ r \in SyncRequests
    /\ reply' = [reply EXCEPT ![r] = outcome[r]]
    /\ pc' = [pc EXCEPT ![r] = "finished"]
    /\ UNCHANGED <<carries, made, draft, outcome, storeVars>>

\* HandleRequestSync: the same, as bytes that it returns.
AnswerSync(r) ==
    /\ pc[r] = "answer" /\ r \in SyncRequests
    /\ reply' = [reply EXCEPT ![r] = IF r \in Notifications THEN "none" ELSE outcome[r]]
    /\ pc' = [pc EXCEPT ![r] = "finished"]
    /\ UNCHANGED <<carries, made, draft, outcome, storeVars>>

-----------------------------------------------------------------------------
(* The store and the clock *)

\* MemorySessionStore.Cleanup.
Cleanup ==
    LET old == {k \in SessionIds : store[k] # Absent /\ IsExpired(store[k])} IN
    /\ old # {}
    /\ store' = [k \in SessionIds |-> IF k \in old THEN Absent ELSE store[k]]
    /\ removed' = removed \cup old
    /\ UNCHANGED <<pc, carries, made, draft, outcome, reply, kept, rejected, now>>

Tick ==
    /\ now < MaxTime
    /\ now' = now + 1
    /\ UNCHANGED <<pc, carries, made, draft, outcome, reply, store, kept, removed, rejected>>

\* Every message that has come has been dealt with.
AllFinished ==
    /\ \A r \in Requests : pc[r] \in {"new", "finished"}
    /\ UNCHANGED vars

RequestStep(r) ==
    \/ Pass(r) \/ Refuse(r) \/ Enrich(r) \/ Middleware(r) \/ DispatchFails(r)
    \/ DispatchOther(r)
    \/ CreateNothing(r) \/ SessionCreate(r) \/ HooksAccept(r) \/ HooksReject(r)
    \/ PutSession(r) \/ Answer(r) \/ AnswerSync(r)

Next ==
    \/ \E r \in Requests : Reject(r) \/ Decode(r) \/ RequestStep(r)
    \/ Cleanup
    \/ Tick
    \/ AllFinished

\* The goroutine of a message runs to its end: handlers, hooks and transport
\* writes return.
Spec == Init /\ [][Next]_vars /\ \A r \in Requests : WF_vars(RequestStep(r))

-----------------------------------------------------------------------------
(* Properties *)

\* Once the remote side has read a successful answer to wmp.session.create,
\* the session is in the store, unless it was deleted or has expired: the
\* next request finds it (peer.go 317-331, 283-297).
SessionBeforeReply ==
    \A r \in Requests : reply[r] = "ok" /\ made[r] # None =>
        Get(made[r]) \/ made[r] \in removed

\* A session that a hook rejects is not in the store, unless the handler has
\* put it there itself (peer.go 326-328).
RejectedNotStored == \A k \in rejected \ kept : ~Get(k)

\* A notification that was processed is not answered on either of the two ways,
\* whatever came of it: by a middleware, a handler, the hooks or an error (peer.go
\* 276, 650). One that the authorizer or the validator refuses is not answered on
\* the Serve path; HandleRequestSync, whose comment says of notifications that they
\* "are processed but return nil bytes", has an error for it (peer.go 228, 238, 585,
\* 609-624).
NotificationSilent ==
    \A r \in Notifications :
        /\ outcome[r] # "none" => reply[r] = "none"
        /\ r \notin SyncRequests => reply[r] # "err"

\* Every request with an id that was decoded is answered, or the write of its
\* answer fails (peer.go 225-298).
RequestAnswered ==
    \A r \in Requests \ Notifications :
        (pc[r] = "authorize") ~> (reply[r] # "none")
=============================================================================
