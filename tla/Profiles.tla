------------------------------ MODULE Profiles ------------------------------
(* A Peer with the OpenID4x profile, the MLS profile and a rival profile of   *)
(* the application: registration (Registry), then concurrent requests that    *)
(* dispatchMethodInternal gives to them (src/pkg/wmp/peer.go 400-511). Each   *)
(* critical section of the registry's or of a profile's mutex is one step;    *)
(* lookups in the registry's static maps go with the step that follows them.  *)
(* A request is what one handler goroutine does.                              *)
EXTENDS OpenID4x, NoopMLS

CONSTANTS openid, mls, rival, Requests

ASSUME ProfilesConstantsAssumption ==
    /\ Profiles = {openid, mls, rival}
    /\ openid # mls /\ openid # rival /\ mls # rival
    /\ NoGroupId \in GroupIds

VARIABLES
    pc,         \* where the goroutine of a request is
    req,        \* the request: method and flow id, and the flow type of a start
    owner,      \* the profile that StartFlow or lookupFlowOwner has named
    answer,     \* what has become of the request
    alone       \* for ends and cancels: no start of the same flow has run
                \* since lookupFlowOwner

vars == <<registryVars, flowOwners, flowTypes, mlsVars, pc, req, owner, answer, alone>>
requestVars == <<pc, req, owner, answer, alone>>
profileVars == <<registryVars, flowOwners, flowTypes, mlsVars>>

FlowKinds == {VCI, VP}
NoReq == [method |-> "none", flow |-> None, type |-> None]

TypeOK ==
    /\ RegistryTypeOK /\ OpenID4xTypeOK /\ NoopMLSTypeOK
    /\ pc \in [Requests -> {"new", "starting", "action", "progress", "end", "untrack", "done"}]
    /\ req \in [Requests -> [method : {"none", "start", "action", "progress", "end",
                                       "cancel", "method"},
                             flow : FlowIds \cup {None}, type : FlowKinds \cup {None}]]
    /\ owner \in [Requests -> Profiles \cup {None}]
    /\ answer \in [Requests -> {"none", "app", "profile", "refused", "started", "ended",
                                "cancelled", "not found"} \cup FlowKinds]
    /\ alone \in [Requests -> BOOLEAN]

Init ==
    /\ RegistryInit /\ OpenID4xInit /\ NoopMLSInit
    /\ pc = [r \in Requests |-> "new"]
    /\ req = [r \in Requests |-> NoReq]
    /\ owner = [r \in Requests |-> None]
    /\ answer = [r \in Requests |-> "none"]
    /\ alone = [r \in Requests |-> FALSE]

\* Init of the two profiles of this repository does not fail.
Register ==
    /\ \E p \in Profiles, initOk \in BOOLEAN : (p # rival => initOk) /\ Use(p, initOk)
    /\ UNCHANGED <<flowTypes, mlsVars, requestVars>>

Goto(r, label, a) ==
    /\ pc' = [pc EXCEPT ![r] = label]
    /\ answer' = [answer EXCEPT ![r] = a]

Arrives(r, method, f, t) ==
    /\ Serving /\ pc[r] = "new"
    /\ req' = [req EXCEPT ![r] = [method |-> method, flow |-> f, type |-> t]]

-----------------------------------------------------------------------------
(* wmp.flow.start *)

\* No profile serves the flow type: the application's FlowStart answers.
FlowStartApp(r, f, t) ==
    /\ Arrives(r, "start", f, t) /\ handlers[t] = None
    /\ Goto(r, "done", "app")
    /\ UNCHANGED <<profileVars, owner, alone>>

\* StartFlow refuses the parameters.
FlowStartInvalid(r, f, t) ==
    /\ Arrives(r, "start", f, t) /\ handlers[t] = openid
    /\ \E params \in StartParams : ~ValidStart(t, params)
    /\ Goto(r, "done", "refused")
    /\ UNCHANGED <<profileVars, owner, alone>>

\* StartFlow enters the flow type and calls the application.
FlowStartOpenID4x(r, f, t) ==
    /\ Arrives(r, "start", f, t) /\ handlers[t] = openid
    /\ \E params \in StartParams : ValidStart(t, params)
    /\ StartFlow(f, t)
    /\ owner' = [owner EXCEPT ![r] = openid]
    /\ alone' = [e \in Requests |-> alone[e] /\ req[e].flow # f]
    /\ Goto(r, "starting", "none")
    /\ UNCHANGED <<registryVars, flowOwners, mlsVars>>

\* StartFlow of another profile.
FlowStartRival(r, f, t) ==
    /\ Arrives(r, "start", f, t) /\ handlers[t] = rival
    /\ owner' = [owner EXCEPT ![r] = rival]
    /\ alone' = [e \in Requests |-> alone[e] /\ req[e].flow # f]
    /\ Goto(r, "starting", "none")
    /\ UNCHANGED profileVars

\* StartFlow returns a result: the flow is tracked.
FlowStarted(r) ==
    /\ pc[r] = "starting"
    /\ trackFlow(req[r].flow, owner[r])
    /\ Goto(r, "done", "started")
    /\ UNCHANGED <<registryVars, flowTypes, mlsVars, req, owner, alone>>

\* A defect: a start that fails takes its flow type back.
FlowStartFailsForgets(r) ==
    /\ pc[r] = "starting"
    /\ Goto(r, "done", "refused")
    /\ IF owner[r] = openid THEN HandleEnd(req[r].flow) ELSE UNCHANGED flowTypes
    /\ UNCHANGED <<registryVars, flowOwners, mlsVars, req, owner, alone>>

\* StartFlow returns an error or no result, and what it has entered stays.
FlowStartFails(r) ==
    /\ pc[r] = "starting"
    /\ Goto(r, "done", "refused")
    /\ UNCHANGED <<profileVars, req, owner, alone>>

-----------------------------------------------------------------------------
(* wmp.flow.progress, action, complete, error and cancel *)

\* lookupFlowOwner finds nothing: the application's handler answers.
FlowUntracked(r, method, f) ==
    /\ Arrives(r, method, f, None) /\ flowOwners[f] = None
    /\ Goto(r, "done", "app")
    /\ UNCHANGED <<profileVars, owner, alone>>

\* lookupFlowOwner finds the owner. A cancel goes on to untrack the flow,
\* without a call of its owner.
FlowTracked(r, method, f) ==
    /\ Arrives(r, method, f, None) /\ flowOwners[f] # None
    /\ owner' = [owner EXCEPT ![r] = flowOwners[f]]
    /\ alone' = [alone EXCEPT ![r] =
                    ~\E s \in Requests : pc[s] = "starting" /\ req[s].flow = f]
    /\ Goto(r, IF method = "cancel" THEN "untrack" ELSE method, "none")
    /\ UNCHANGED profileVars

\* HandleAction of the owner.
FlowAction(r) ==
    /\ pc[r] = "action"
    /\ Goto(r, "done", IF owner[r] = openid /\ ActionCallback(req[r].flow) # None
                       THEN ActionCallback(req[r].flow) ELSE "profile")
    /\ UNCHANGED <<profileVars, req, owner, alone>>

\* HandleProgress, which has no effect on the profile.
FlowProgress(r) ==
    /\ pc[r] = "progress"
    /\ Goto(r, "done", "profile")
    /\ UNCHANGED <<profileVars, req, owner, alone>>

\* HandleComplete or HandleError of the owner.
FlowEnd(r) ==
    /\ pc[r] = "end"
    /\ IF owner[r] = openid THEN HandleEnd(req[r].flow) ELSE UNCHANGED flowTypes
    /\ Goto(r, "untrack", "none")
    /\ UNCHANGED <<registryVars, flowOwners, mlsVars, req, owner, alone>>

\* untrackFlow, after an end or a cancel.
FlowUntrack(r) ==
    /\ pc[r] = "untrack"
    /\ untrackFlow(req[r].flow)
    /\ Goto(r, "done", IF req[r].method = "end" THEN "ended" ELSE "cancelled")
    /\ UNCHANGED <<registryVars, flowTypes, mlsVars, req, owner, alone>>

-----------------------------------------------------------------------------
(* The methods of the MLS profile *)

MlsCall(r, method, a) ==
    /\ Arrives(r, "method", None, None) /\ handlers[method] = mls
    /\ Goto(r, "done", a)
    /\ UNCHANGED <<registryVars, flowOwners, flowTypes, owner, alone>>

MlsCreate(r) ==
    \E g \in GroupIds, who \in SUBSET Members :
        \/ GroupCreateOk(g, who) /\ MlsCall(r, "mls.create", "profile")
        \/ GroupCreateErr(g) /\ MlsCall(r, "mls.create", "refused")

MlsAdd(r) ==
    \/ \E g \in DOMAIN groups, who \in {{}} \cup {{m} : m \in Members} :
          GroupAdd(g, who) /\ MlsCall(r, "mls.add", "profile")
    \/ groups = <<>> /\ NoEffect /\ MlsCall(r, "mls.add", "refused")

MlsRemove(r) ==
    \/ \E g \in DOMAIN groups, m \in Members :
          GroupRemove(g, {m}) /\ MlsCall(r, "mls.remove", "profile")
    \/ groups = <<>> /\ NoEffect /\ MlsCall(r, "mls.remove", "refused")

MlsOther(r) ==
    \E method \in {"mls.join", "mls.update", "message.fetch"} :
        NoEffect /\ MlsCall(r, method, "profile")

\* A method that another profile or nobody serves.
MethodElsewhere(r, method) ==
    /\ Arrives(r, "method", None, None) /\ handlers[method] # mls
    /\ Goto(r, "done", IF handlers[method] = None THEN "not found" ELSE "profile")
    /\ UNCHANGED <<profileVars, owner, alone>>

\* wmp.resolve: the profile of the type or the application answers; the
\* OpenID4x profile's HandleResolve refuses every request.
Resolve(r, type) ==
    /\ Arrives(r, "method", None, None)
    /\ Goto(r, "done", CASE handlers[type] = None -> "app"
                         [] handlers[type] = openid -> "refused"
                         [] OTHER -> "profile")
    /\ UNCHANGED <<profileVars, owner, alone>>

\* The parameters do not decode.
InvalidParams(r) ==
    /\ Arrives(r, "method", None, None)
    /\ Goto(r, "done", "refused")
    /\ UNCHANGED <<profileVars, owner, alone>>

AllDone ==
    /\ \A r \in Requests : pc[r] = "done"
    /\ UNCHANGED vars

Next ==
    \/ Register
    \/ \E r \in Requests :
        \/ \E f \in FlowIds, t \in FlowKinds :
            \/ FlowStartApp(r, f, t) \/ FlowStartInvalid(r, f, t)
            \/ FlowStartOpenID4x(r, f, t) \/ FlowStartRival(r, f, t)
        \/ FlowStarted(r) \/ FlowStartFails(r)
        \/ \E f \in FlowIds, method \in {"action", "progress", "end", "cancel"} :
            FlowUntracked(r, method, f) \/ FlowTracked(r, method, f)
        \/ FlowAction(r) \/ FlowProgress(r) \/ FlowEnd(r) \/ FlowUntrack(r)
        \/ MlsCreate(r) \/ MlsAdd(r) \/ MlsRemove(r) \/ MlsOther(r)
        \/ \E method \in Range(MlsMethods) : MethodElsewhere(r, method)
        \/ \E type \in Range(ResolveTypes) : Resolve(r, type)
        \/ InvalidParams(r)
    \/ AllDone

Spec == Init /\ [][Next]_vars

-----------------------------------------------------------------------------
(* Properties *)

\* A flow that the OpenID4x profile has started keeps its owner and its type,
\* so that an action reaches the callback of this type, as long as no end or
\* cancel comes in and the id is not started again with the other type; starts
\* that are repeated or fail do not disturb it (peer.go 405-418, openid4x.go
\* 323-367).
StartedFlowIsServed ==
    \A s \in Requests :
        LET f == req[s].flow
            others == {r \in Requests : req[r].flow = f /\ r # s} IN
        /\ answer[s] = "started" /\ owner[s] = openid
        /\ \A r \in others : \/ req[r].method \in {"action", "progress"}
                             \/ req[r].method = "start" /\ req[r].type = req[s].type
        => flowOwners[f] = openid /\ flowTypes[f] = req[s].type

\* After the end of a flow, neither the registry nor the profile keeps anything
\* under its id, and after a cancel the registry does not, unless a start of
\* the same id has run meanwhile. What a cancel leaves in the profile's table
\* is not taken back (peer.go 442-477, openid4x.go 395-405).
EndedFlowForgotten ==
    \A e \in Requests :
        LET f == req[e].flow IN
        alone[e] =>
            /\ answer[e] \in {"ended", "cancelled"} => flowOwners[f] = None
            /\ answer[e] = "ended" /\ owner[e] = openid => flowTypes[f] = None
=============================================================================
