---------------------------- MODULE SessionProofs ----------------------------
(* Theorems about how sessions come about: PeerRequests, for any number of    *)
(* messages, sessions and clock values, and Invitations, which the handlers   *)
(* of wmp.session.create present, for any number of invitations, nonces and   *)
(* attempts.                                                                  *)
EXTENDS PeerRequests, Invitations, TLAPS

-----------------------------------------------------------------------------
(* Incoming requests and the session store *)

\* A session id belongs to the one message whose handler has made it, and that
\* message is past its handler.
MakerInv ==
    /\ \A r, q \in Requests : made[r] # None /\ made[r] = made[q] => r = q
    /\ \A r \in Requests : made[r] # None =>
         pc[r] \in {"hooks", "put", "answer", "finished"}

\* The outcome is there when the dispatch is over, not before, and an answer is
\* the last that happens to a message.
OutcomeInv ==
    \A r \in Requests :
        /\ pc[r] \notin {"answer", "finished"} => outcome[r] = "none"
        /\ reply[r] # "none" => pc[r] = "finished"
        /\ reply[r] = "ok" => outcome[r] = "ok"

\* A request that has been dealt with was answered, unless the write failed, and
\* with what its dispatch came to if it got that far (peer.go 225-298, 586-670).
FinishedAnswered ==
    \A r \in Requests \ Notifications : pc[r] = "finished" =>
        /\ reply[r] # "none"
        /\ outcome[r] # "none" => reply[r] \in {outcome[r], "lost"}

\* What is about to be answered has an outcome.
AnswerInv ==
    /\ \A r \in Requests : pc[r] = "answer" => outcome[r] # "none"
    /\ FinishedAnswered

\* The entries of the store are the handlers' own and those of sessions whose
\* creation has succeeded; the latter leave it by deletion or expiry only.
EntryInv ==
    /\ \A r \in Requests : made[r] # None /\ outcome[r] = "ok" =>
         Get(made[r]) \/ made[r] \in removed
    /\ \A k \in SessionIds \ kept : Get(k) =>
         \E r \in Requests : made[r] = k /\ outcome[r] = "ok"
    /\ \A k \in rejected : \E r \in Requests : made[r] = k /\ outcome[r] = "err"

RequestInv ==
    TypeOK /\ MakerInv /\ OutcomeInv /\ AnswerInv /\ EntryInv /\ NotificationSilent

\* The invariant holds before the first message.
LEMMA RequestInit == Init => RequestInv
  BY RequestConstantsAssumption, SMTT(40)
  DEF Init, RequestInv, TypeOK, MakerInv, OutcomeInv, AnswerInv, FinishedAnswered, EntryInv,
      NotificationSilent, Get, Stages, Expiries, Absent

\* Each stage of a message, the cleanup and the clock keep the invariant.
LEMMA RequestStepKeeps ==
  ASSUME RequestInv, [Next]_vars
  PROVE  RequestInv'
<1> USE RequestConstantsAssumption
      DEF RequestInv, TypeOK, MakerInv, OutcomeInv, AnswerInv, FinishedAnswered, EntryInv,
          NotificationSilent, Get, Stages, Expiries, Absent, storeVars
<1>1. ASSUME NEW r \in Requests, Reject(r) PROVE RequestInv'
  BY <1>1 DEF Reject
<1>2. ASSUME NEW r \in Requests, Decode(r) PROVE RequestInv'
  BY <1>2 DEF Decode, Announced
<1>3. ASSUME NEW r \in Requests, Pass(r) PROVE RequestInv'
  BY <1>3 DEF Pass
<1>4. ASSUME NEW r \in Requests, Refuse(r) PROVE RequestInv'
  BY <1>4 DEF Refuse, RefusalReply
<1>5. ASSUME NEW r \in Requests, Enrich(r) PROVE RequestInv'
  BY <1>5 DEF Enrich
<1>6. ASSUME NEW r \in Requests, Middleware(r) PROVE RequestInv'
  BY <1>6 DEF Middleware
<1>7. ASSUME NEW r \in Requests, DispatchFails(r) PROVE RequestInv'
  BY <1>7 DEF DispatchFails
<1>8. ASSUME NEW r \in Requests, DispatchOther(r) PROVE RequestInv'
  BY <1>8 DEF DispatchOther, Delete
<1>9. ASSUME NEW r \in Requests, CreateNothing(r) PROVE RequestInv'
  BY <1>9 DEF CreateNothing
<1>10. ASSUME NEW r \in Requests, SessionCreate(r) PROVE RequestInv'
  BY <1>10 DEF SessionCreate, Create, Used
<1>11. ASSUME NEW r \in Requests, HooksAccept(r) PROVE RequestInv'
  BY <1>11 DEF HooksAccept
<1>12. ASSUME NEW r \in Requests, HooksReject(r) PROVE RequestInv'
  BY <1>12 DEF HooksReject
<1>13. ASSUME NEW r \in Requests, PutSession(r) PROVE RequestInv'
  BY <1>13 DEF PutSession, Create
<1>14. ASSUME NEW r \in Requests, Answer(r) PROVE RequestInv'
  BY <1>14 DEF Answer
<1>15. ASSUME NEW r \in Requests, AnswerSync(r) PROVE RequestInv'
  BY <1>15 DEF AnswerSync
<1>16. CASE Cleanup
  BY <1>16 DEF Cleanup
<1>17. CASE Tick
  BY <1>17 DEF Tick
<1>18. CASE UNCHANGED vars
  BY <1>18 DEF vars
<1>19. QED
  BY <1>1, <1>2, <1>3, <1>4, <1>5, <1>6, <1>7, <1>8, <1>9, <1>10, <1>11, <1>12,
     <1>13, <1>14, <1>15, <1>16, <1>17, <1>18 DEF Next, RequestStep, AllFinished

\* The pipeline keeps its types; a session that is offered to the hooks or put
\* into the store has an id.
THEOREM RequestTyping == Spec => []TypeOK
<1>1. RequestInv => TypeOK
  BY DEF RequestInv
<1>2. QED
  BY RequestInit, RequestStepKeeps, <1>1, PTL DEF Spec

\* Whoever has read the success of wmp.session.create finds the session in the
\* store, as long as nobody deletes it and it does not expire, however many
\* messages are handled at the same time.
THEOREM StoredBeforeReply == Spec => []SessionBeforeReply
<1>1. RequestInv => SessionBeforeReply
  BY DEF RequestInv, OutcomeInv, EntryInv, SessionBeforeReply
<1>2. QED
  BY RequestInit, RequestStepKeeps, <1>1, PTL DEF Spec

\* A session that a hook has rejected is not in the store, unless by the hand of
\* the handler: no other message puts a session under its id.
THEOREM RejectedStaysOut == Spec => []RejectedNotStored
<1>1. RequestInv => RejectedNotStored
  <2> SUFFICES ASSUME RequestInv, NEW k \in rejected \ kept, Get(k) PROVE FALSE
    BY DEF RejectedNotStored
  <2>1. k \in SessionIds /\ k # None
    BY RequestConstantsAssumption DEF RequestInv, TypeOK
  <2>2. PICK r \in Requests : made[r] = k /\ outcome[r] = "err"
    BY DEF RequestInv, EntryInv
  <2>3. PICK q \in Requests : made[q] = k /\ outcome[q] = "ok"
    BY <2>1 DEF RequestInv, EntryInv
  <2>4. QED
    BY <2>1, <2>2, <2>3 DEF RequestInv, MakerInv
<1>2. QED
  BY RequestInit, RequestStepKeeps, <1>1, PTL DEF Spec

\* No notification that was processed is answered on either way, and none of the
\* Serve path with an error.
THEOREM NotificationsSilent == Spec => []NotificationSilent
<1>1. RequestInv => NotificationSilent
  BY DEF RequestInv
<1>2. QED
  BY RequestInit, RequestStepKeeps, <1>1, PTL DEF Spec

\* No request with an id goes unanswered: whichever way it takes and wherever it
\* is turned away, it is answered before its goroutine ends or the write fails,
\* and its answer is the outcome of its own dispatch.
THEOREM RequestsAreAnswered == Spec => []FinishedAnswered
<1>1. RequestInv => FinishedAnswered
  BY DEF RequestInv, AnswerInv
<1>2. QED
  BY RequestInit, RequestStepKeeps, <1>1, PTL DEF Spec

\* A message that has been answered is not answered again: neither the checks
\* nor the dispatch are run a second time for it (peer.go 225-298, 586-670).
AnsweredOnce ==
    [][\A r \in Requests : reply[r] # "none" => reply'[r] = reply[r]]_vars

\* The answer of a message is final, whatever the other messages do.
THEOREM AnswersAreFinal == Spec => AnsweredOnce
<1> DEFINE Final == \A r \in Requests : reply[r] # "none" => reply'[r] = reply[r]
<1>1. ASSUME RequestInv, [Next]_vars PROVE [Final]_vars
  <2> SUFFICES ASSUME Next PROVE Final
    BY <1>1
  <2> USE <1>1 DEF RequestInv, TypeOK, OutcomeInv
  <2>1. ASSUME NEW r \in Requests, Reject(r) \/ Decode(r) PROVE Final
    BY <2>1 DEF Reject, Decode
  <2>2. ASSUME NEW r \in Requests, RequestStep(r) PROVE Final
    BY <2>2 DEF RequestStep, Pass, Refuse, Enrich, Middleware, DispatchFails, DispatchOther,
       CreateNothing, SessionCreate, HooksAccept, HooksReject, PutSession, Answer,
       AnswerSync
  <2>3. CASE Cleanup \/ Tick \/ AllFinished
    BY <2>3 DEF Cleanup, Tick, AllFinished, vars
  <2>4. QED
    BY <2>1, <2>2, <2>3 DEF Next
<1>2. QED
  BY RequestInit, RequestStepKeeps, <1>1, PTL DEF Spec, AnsweredOnce

-----------------------------------------------------------------------------
(* Invitations *)

\* An entry of the store stands under its own nonce and was put there; an
\* attempt has only what was stored once.
StoreInv ==
    /\ \A n \in Nonces : nonces[n] # NoInv => nonce[nonces[n]] = n /\ nonces[n] \in issued
    /\ \A a \in Attempts : inv[a] # NoInv => inv[a] \in issued
    /\ \A a \in Attempts : apc[a] = "idle" => inv[a] = NoInv

NonceInv == NonceTypeOK /\ StoreInv /\ UsedOnce /\ NoneVanishes

\* The invariant holds for an empty store.
LEMMA NonceStart == NonceInit => NonceInv
  BY InvitationConstantsAssumption
  DEF NonceInit, NonceInv, NonceTypeOK, StoreInv, UsedOnce, NoneVanishes

\* Each operation of the store and each step of an attempt keeps it.
LEMMA NonceStep ==
  ASSUME NonceInv, [NonceNext]_nonceVars
  PROVE  NonceInv'
<1> USE InvitationConstantsAssumption
      DEF NonceInv, NonceTypeOK, StoreInv, UsedOnce, NoneVanishes, InvExpired
<1>1. ASSUME NEW i \in Invs, Put(i) PROVE NonceInv'
  BY <1>1 DEF Put
<1>2. ASSUME NEW a \in Attempts, NEW n \in Nonces, Consume(a, n) PROVE NonceInv'
  BY <1>2 DEF Consume
<1>3. ASSUME NEW a \in Attempts, NEW n \in Nonces, ConsumeFails(a, n) PROVE NonceInv'
  BY <1>3 DEF ConsumeFails
<1>4. ASSUME NEW a \in Attempts, CheckExpiry(a) PROVE NonceInv'
  BY <1>4 DEF CheckExpiry
<1>5. ASSUME NEW a \in Attempts, Verify(a) PROVE NonceInv'
  BY <1>5 DEF Verify
<1>6. CASE NonceCleanup
  BY <1>6 DEF NonceCleanup
<1>7. CASE NonceTick
  BY <1>7 DEF NonceTick
<1>8. CASE UNCHANGED nonceVars
  BY <1>8 DEF nonceVars
<1>9. QED
  BY <1>1, <1>2, <1>3, <1>4, <1>5, <1>6, <1>7, <1>8 DEF NonceNext

\* ValidateInvitationNonce never goes on without an invitation.
THEOREM NonceTyping == NonceSpec => []NonceTypeOK
<1>1. NonceInv => NonceTypeOK
  BY DEF NonceInv
<1>2. QED
  BY NonceStart, NonceStep, <1>1, PTL DEF NonceSpec

\* At most one of any number of concurrent attempts gets an invitation.
THEOREM NonceUsedOnce == NonceSpec => []UsedOnce
<1>1. NonceInv => UsedOnce
  BY DEF NonceInv
<1>2. QED
  BY NonceStart, NonceStep, <1>1, PTL DEF NonceSpec

\* A stored invitation leaves the store only to an attempt or by its expiry.
THEOREM NonceNeverVanishes == NonceSpec => []NoneVanishes
<1>1. NonceInv => NoneVanishes
  BY DEF NonceInv
<1>2. QED
  BY NonceStart, NonceStep, <1>1, PTL DEF NonceSpec
=============================================================================
