-------------------------- MODULE PeerCallsProofs --------------------------
(* Theorems about PeerCalls for any set of calls, ids and routers.           *)
EXTENDS PeerCalls, TLAPS

Running(c) == pc[c] \notin {"idle", "returned"}

\* Router r holds the channel of call c.
HeldBy(r, c) == serve[r] = "delivering" /\ sto[r] = c

\* A call has an id from its registration on; the null id is no one's.
IdInv ==
    /\ \A c \in Calls : Running(c) => reqId[c] \in Ids
    /\ \A c \in Calls : pc[c] = "idle" => reqId[c] = NoId

\* An entry of the pending map stands under its owner's id, and its owner runs.
OwnerInv ==
    \A c \in Calls, k \in Keys : pending[k] = c => k = reqId[c] /\ Running(c)

\* The right to send to a call's channel exists once: as the entry of the
\* pending map, as the channel that one router holds, or used up as the content
\* of the channel. This is what the delete in handleResponse is for.
TokenInv ==
    \A c \in Calls :
        /\ pending[reqId[c]] = c => ch[c] = None
        /\ pc[c] = "idle" => ch[c] = None
        /\ \A r \in Routers : HeldBy(r, c) =>
             /\ ch[c] = None /\ pending[reqId[c]] # c /\ pc[c] # "idle"
             /\ \A q \in Routers : HeldBy(q, c) => q = r

\* What holds whatever the discipline on ids.
CoreInv == TypeOK /\ IdInv /\ OwnerInv /\ TokenInv

\* With fresh ids no two requests share one.
UniqueInv ==
    \A c, d \in Calls : reqId[c] = reqId[d] /\ reqId[c] # NoId => c = d

\* Only requests that carry an id are answered, and a response that is on its
\* way to a call, or has been taken by it, answers that call.
AnswerInv ==
    /\ \A c \in delivered : reqId[c] # NoId
    /\ \A r \in Routers :
         /\ serve[r] \in {"routing", "delivering"} => sresp[r] \in delivered \cup {Stray}
         /\ serve[r] = "delivering" => sresp[r] = sto[r]
    /\ \A c \in Calls : ch[c] # None => ch[c] = c /\ c \in delivered
    /\ OwnResponse

\* A call that is sending already can be reached by its answer.
ReachInv ==
    \A c \in Calls : pc[c] \in {"sending", "waiting"} =>
        pending[reqId[c]] = c \/ (\E r \in Routers : HeldBy(r, c)) \/ ch[c] # None

\* A call gives up on its context only when it is done.
CtxInv == \A c \in Calls : pc[c] = "cancelled" => c \in ctxDone

FreshInv == CoreInv /\ UniqueInv /\ AnswerInv /\ ReachInv /\ CtxInv

-----------------------------------------------------------------------------
\* The core invariant holds before the first call.
LEMMA CoreInit == Init => CoreInv
  BY ConstantsAssumption
  DEF Init, CoreInv, TypeOK, IdInv, OwnerInv, TokenInv, Running, HeldBy, Keys, Messages

\* Each step of a call or of a router keeps the core invariant.
LEMMA CoreStep ==
  ASSUME CoreInv, [Next]_vars
  PROVE  CoreInv'
<1> USE ConstantsAssumption
      DEF CoreInv, TypeOK, IdInv, OwnerInv, TokenInv, Running, HeldBy, Keys, Messages
<1>1. ASSUME NEW c \in Calls, Refuse(c) PROVE CoreInv'
  BY <1>1 DEF Refuse, serveVars
<1>2. ASSUME NEW c \in Calls, Register(c) PROVE CoreInv'
  BY <1>2 DEF Register, serveVars, IdFree
<1>3. ASSUME NEW c \in Calls, Transmit(c) PROVE CoreInv'
  BY <1>3 DEF Transmit, serveVars
<1>4. ASSUME NEW c \in Calls, SendOk(c) PROVE CoreInv'
  BY <1>4 DEF SendOk, serveVars
<1>5. ASSUME NEW c \in Calls, SendErr(c) PROVE CoreInv'
  BY <1>5 DEF SendErr, serveVars
<1>6. ASSUME NEW c \in Calls, Unregister(c) PROVE CoreInv'
  BY <1>6 DEF Unregister, serveVars
<1>7. ASSUME NEW c \in Calls, CtxCancel(c) PROVE CoreInv'
  BY <1>7 DEF CtxCancel, serveVars
<1>8. ASSUME NEW c \in Calls, SelectCtx(c) PROVE CoreInv'
  BY <1>8 DEF SelectCtx, serveVars
<1>9. ASSUME NEW c \in Calls, SelectResp(c) PROVE CoreInv'
  BY <1>9 DEF SelectResp, serveVars
<1>10. ASSUME NEW r \in Routers, ServeStart(r) PROVE CoreInv'
  BY <1>10 DEF ServeStart, callVars
<1>11. ASSUME NEW r \in Routers, ServeStop(r) PROVE CoreInv'
  BY <1>11 DEF ServeStop, callVars
<1>12. ASSUME NEW r \in Routers, ReadResponse(r) PROVE CoreInv'
  BY <1>12 DEF ReadResponse, callVars
<1>13. ASSUME NEW r \in Routers, Route(r) PROVE CoreInv'
  BY <1>13 DEF Route, Rest, Hold, IdOf, callVars
<1>14. ASSUME NEW r \in Routers, Deliver(r) PROVE CoreInv'
  BY <1>14 DEF Deliver, Rest, callVars
<1>15. CASE UNCHANGED vars
  BY <1>15 DEF vars
<1>16. QED
  BY <1>1, <1>2, <1>3, <1>4, <1>5, <1>6, <1>7, <1>8, <1>9, <1>10, <1>11,
     <1>12, <1>13, <1>14, <1>15 DEF Next, CallStep, ServeStep

\* The type invariant holds under either discipline on ids; with it, no
\* router ever sends to a channel that its lookup did not find.
THEOREM Typing == Spec => []TypeOK
<1>1. CoreInv => TypeOK
  BY DEF CoreInv
<1>2. QED
  BY CoreInit, CoreStep, <1>1, PTL DEF Spec

\* No router ever blocks on a response channel: at most one response is
\* ever routed to a call, since handleResponse deletes the entry it found.
THEOREM ServeIsNeverBlocked == Spec => []ServeNeverBlocks
<1>1. CoreInv => ServeNeverBlocks
  BY DEF CoreInv, TypeOK, TokenInv, HeldBy, ServeNeverBlocks
<1>2. QED
  BY CoreInit, CoreStep, <1>1, PTL DEF Spec

\* No returned call is left in the pending map, even if ids are reused.
THEOREM PendingNeverLeaks == Spec => []NoLeak
<1>1. CoreInv => NoLeak
  BY DEF CoreInv, TypeOK, OwnerInv, Running, NoLeak
<1>2. QED
  BY CoreInit, CoreStep, <1>1, PTL DEF Spec

-----------------------------------------------------------------------------
\* So does the stronger one for fresh ids.
LEMMA FreshInit == Init => FreshInv
<1>1. Init => UniqueInv /\ AnswerInv /\ ReachInv /\ CtxInv
  BY ConstantsAssumption
  DEF Init, UniqueInv, AnswerInv, ReachInv, CtxInv, OwnResponse, HeldBy
<1>2. QED
  BY <1>1, CoreInit DEF FreshInv

\* With fresh ids each step keeps the answers matched and the waiters reachable.
LEMMA FreshStep ==
  ASSUME FreshIds, FreshInv, [Next]_vars
  PROVE  FreshInv'
<1>0. CoreInv /\ CoreInv'
  BY CoreStep DEF FreshInv
<1> DEFINE Others == UniqueInv /\ AnswerInv /\ ReachInv /\ CtxInv
<1> USE ConstantsAssumption, <1>0
      DEF FreshInv, CoreInv, TypeOK, IdInv, OwnerInv, TokenInv, UniqueInv, AnswerInv,
          ReachInv, CtxInv, OwnResponse, Running, HeldBy, Keys, Messages
<1>1. ASSUME NEW c \in Calls, Refuse(c) PROVE Others'
  BY <1>1 DEF Refuse, serveVars
<1>2. ASSUME NEW c \in Calls, Register(c) PROVE Others'
  BY <1>2 DEF Register, serveVars, IdFree
<1>3. ASSUME NEW c \in Calls, Transmit(c) PROVE Others'
  BY <1>3 DEF Transmit, serveVars
<1>4. ASSUME NEW c \in Calls, SendOk(c) PROVE Others'
  BY <1>4 DEF SendOk, serveVars
<1>5. ASSUME NEW c \in Calls, SendErr(c) PROVE Others'
  BY <1>5 DEF SendErr, serveVars
<1>6. ASSUME NEW c \in Calls, Unregister(c) PROVE Others'
  BY <1>6 DEF Unregister, serveVars
<1>7. ASSUME NEW c \in Calls, CtxCancel(c) PROVE Others'
  BY <1>7 DEF CtxCancel, serveVars
<1>8. ASSUME NEW c \in Calls, SelectCtx(c) PROVE Others'
  BY <1>8 DEF SelectCtx, serveVars
<1>9. ASSUME NEW c \in Calls, SelectResp(c) PROVE Others'
  BY <1>9 DEF SelectResp, serveVars
<1>10. ASSUME NEW r \in Routers, ServeStart(r) PROVE Others'
  BY <1>10 DEF ServeStart, callVars
<1>11. ASSUME NEW r \in Routers, ServeStop(r) PROVE Others'
  BY <1>11 DEF ServeStop, callVars
<1>12. ASSUME NEW r \in Routers, ReadResponse(r) PROVE Others'
  BY <1>12 DEF ReadResponse, callVars
<1>13. ASSUME NEW r \in Routers, Route(r) PROVE Others'
  BY <1>13 DEF Route, Rest, Hold, IdOf, callVars
<1>14. ASSUME NEW r \in Routers, Deliver(r) PROVE Others'
  BY <1>14 DEF Deliver, Rest, callVars
<1>15. CASE UNCHANGED vars
  BY <1>15 DEF vars
<1>16. Others'
  BY <1>1, <1>2, <1>3, <1>4, <1>5, <1>6, <1>7, <1>8, <1>9, <1>10, <1>11,
     <1>12, <1>13, <1>14, <1>15 DEF Next, CallStep, ServeStep
<1>17. QED
  BY <1>0, <1>16 DEF FreshInv

\* With ids that are never reused, a call never returns another call's answer.
THEOREM ResponsesMatch == ASSUME FreshIds PROVE Spec => []OwnResponse
<1>1. FreshInv => OwnResponse
  BY DEF FreshInv, AnswerInv
<1>2. FreshInv /\ [Next]_vars => FreshInv'
  BY FreshStep
<1>3. QED
  BY FreshInit, <1>1, <1>2, PTL DEF Spec

\* With ids that are never reused, a waiting call can always be woken.
THEOREM WaitersReachable == ASSUME FreshIds PROVE Spec => []WaiterReachable
<1>1. FreshInv => WaiterReachable
  BY DEF FreshInv, ReachInv, WaiterReachable, HeldBy
<1>2. FreshInv /\ [Next]_vars => FreshInv'
  BY FreshStep
<1>3. QED
  BY FreshInit, <1>1, <1>2, PTL DEF Spec

-----------------------------------------------------------------------------
\* A peer without calls is an initial state of the promise.
LEMMA PromiseInit == Init => Promise!Init
  BY DEF Init, Promise!Init

\* Each step is a step of the promise or leaves what the caller sees alone.
LEMMA PromiseStep ==
  ASSUME FreshIds, FreshInv, [Next]_vars
  PROVE  [Promise!Next]_(Promise!vars)
<1> USE ConstantsAssumption
<1> USE DEF FreshInv, CoreInv, TypeOK, Promise!vars
<1>1. ASSUME NEW c \in Calls, Refuse(c) PROVE Promise!Finish(c, "error")
  BY <1>1 DEF Refuse, serveVars, Promise!Finish
<1>2. ASSUME NEW c \in Calls, Register(c) PROVE Promise!Open(c)
  BY <1>2 DEF Register, serveVars, Promise!Open
<1>3. ASSUME NEW c \in Calls, Transmit(c) PROVE Promise!Reach(c)
  BY <1>3 DEF Transmit, serveVars, Promise!Reach
<1>4. ASSUME NEW c \in Calls, SendOk(c) \/ SendErr(c) PROVE UNCHANGED Promise!vars
  BY <1>4 DEF SendOk, SendErr, serveVars
<1>5. ASSUME NEW c \in Calls, Unregister(c)
      PROVE Promise!Finish(c, "error") \/ Promise!Finish(c, "ctxErr")
  BY <1>5 DEF Unregister, serveVars, Promise!Finish, CtxInv
<1>6. ASSUME NEW c \in Calls, CtxCancel(c) PROVE Promise!Expire(c)
  BY <1>6 DEF CtxCancel, serveVars, Promise!Expire
<1>7. ASSUME NEW c \in Calls, SelectCtx(c) PROVE UNCHANGED Promise!vars
  BY <1>7 DEF SelectCtx, serveVars
<1>8. ASSUME NEW c \in Calls, SelectResp(c) PROVE Promise!Finish(c, "response")
  <2>1. ch[c] = c /\ c \in delivered
    BY <1>8 DEF SelectResp, AnswerInv
  <2> DEFINE
        status == [d \in Calls |->
                     IF pc[d] = "idle" THEN "new"
                     ELSE IF pc[d] = "returned" THEN "done" ELSE "open"]
        outcome == [d \in Calls |->
                      IF result[d] = "response" /\ got[d] # d THEN "foreign" ELSE result[d]]
  <2>2. status[c] = "open" /\ status' = [status EXCEPT ![c] = "done"]
    BY <1>8 DEF SelectResp
  <2>3. /\ result'[c] = "response" /\ got'[c] = c
        /\ \A d \in Calls : d # c => result'[d] = result[d] /\ got'[d] = got[d]
    BY <1>8, <2>1 DEF SelectResp
  <2>4. outcome' = [outcome EXCEPT ![c] = "response"]
    BY <2>3
  <2>5. UNCHANGED <<delivered, ctxDone>>
    BY <1>8 DEF SelectResp
  <2>6. QED
    BY <2>1, <2>2, <2>4, <2>5 DEF Promise!Finish
<1>9. ASSUME NEW r \in Routers, ServeStep(r) PROVE UNCHANGED Promise!vars
  BY <1>9 DEF ServeStep, ServeStart, ServeStop, ReadResponse, Route, Deliver, callVars
<1>10. ASSUME UNCHANGED vars PROVE UNCHANGED Promise!vars
  BY <1>10 DEF vars
<1> HIDE DEF FreshInv, CoreInv, TypeOK, Promise!vars
<1>11. ASSUME NEW c \in Calls, CallStep(c) PROVE Promise!Next \/ UNCHANGED Promise!vars
  BY <1>1, <1>2, <1>3, <1>4, <1>5, <1>6, <1>7, <1>8, <1>11
  DEF CallStep, Promise!Next, Promise!Outcomes
<1>12. QED
  BY <1>9, <1>10, <1>11 DEF Next

\* With ids that are never reused, Call and CallWithID keep the safety part
\* of what CallPromise says: one end per call, a response only to a request
\* that was received, a context error only when the context is done.
THEOREM PromiseKept ==
  ASSUME FreshIds PROVE Spec => Promise!Init /\ [][Promise!Next]_(Promise!vars)
<1>1. FreshInv /\ [Next]_vars => FreshInv'
  BY FreshStep
<1>2. FreshInv /\ [Next]_vars => [Promise!Next]_(Promise!vars)
  BY PromiseStep
<1>3. QED
  BY FreshInit, PromiseInit, <1>1, <1>2, PTL DEF Spec
=============================================================================
