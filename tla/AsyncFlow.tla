----------------------------- MODULE AsyncFlow -----------------------------
(* Asynchronous flows: AsyncFlowProfile and FlowContext                       *)
(* (src/pkg/wmp/flowcontext.go), the flow owners kept by the registry         *)
(* (registry.go) and the flow methods of Peer.dispatchMethodInternal         *)
(* (peer.go 405-477).                                                        *)
(*                                                                          *)
(* Every incoming message is handled by a goroutine of its own (peer.go      *)
(* 203), so handlers interleave at every lock and channel operation. A       *)
(* start is a wmp.flow.start and also names the FlowContext and the flow     *)
(* goroutine that it creates. The other handlers are split by method, for    *)
(* they share nothing but the two maps and the FlowContext:                  *)
(*   Actions  wmp.flow.action                                               *)
(*   Ends     wmp.flow.complete and wmp.flow.error (one and the same code)   *)
(*   Cancels  wmp.flow.cancel                                               *)
(*   Drops    calls of AsyncFlowProfile.CancelFlow by the application        *)
(* The flow function is application code: it may request actions, complete   *)
(* and return in any order, and it is assumed to return.                     *)
EXTENDS Naturals, Sequences

CONSTANTS
    FlowIds, Starts, Actions, Ends, Cancels, Drops,
    None,
    ReuseIds,   \* may a flow id be used again once its flow has ended?
    ActionCap,  \* the capacity of actionCh, 10 in the code
    MaxAsks,    \* bound: how often a flow function waits for an action
    Casts       \* bound: the sets of starts and handlers that may come together

ASSUME FlowConstantsAssumption ==
    /\ None \notin Starts
    /\ None \notin FlowIds
    /\ ReuseIds \in BOOLEAN
    /\ ActionCap \in Nat \ {0}
    /\ MaxAsks \in Nat
    /\ Casts \subseteq SUBSET (Starts \cup Actions \cup Ends \cup Cancels \cup Drops)
    /\ Actions \cap Ends = {} /\ Actions \cap Cancels = {} /\ Actions \cap Drops = {}
    /\ Ends \cap Cancels = {} /\ Ends \cap Drops = {} /\ Cancels \cap Drops = {}

VARIABLES
    flows,      \* p.flows: the start whose FlowContext is stored under an id
    owners,     \* registry.flowOwners: the ids tracked for the profile
    sid,        \* the flow id of each start
    spc,        \* where the wmp.flow.start handler is
    run,        \* where the flow goroutine is
    asked,      \* how many actions the flow function has waited for
    queue,      \* fc.actionCh
    closes,     \* how often close(fc.doneCh) has been executed
    mismatched, \* the starts that took an action meant for another request
    hpc,        \* where each action, end, cancel and drop handler is
    hflow,      \* the flow id in its parameters
    hrun,       \* the FlowContext it has looked up
    answers     \* the request <<start, ask>> that an action answers

flowVars == <<sid, run, asked, mismatched>>
vars == <<flows, owners, sid, spc, run, asked, queue, closes,
          mismatched, hpc, hflow, hrun, answers>>

Handlers == Actions \cup Ends \cup Cancels \cup Drops
Answers == Starts \X (0 .. MaxAsks)
Done(s) == closes[s] > 0
Live(s) == run[s] \in {"working", "waiting"}

\* The type invariant; actionCh never exceeds its capacity, and a handler that
\* is about to use a FlowContext has one (flowcontext.go 221-231, 245-252).
TypeOK ==
    /\ flows \in [FlowIds -> Starts \cup {None}]
    /\ owners \subseteq FlowIds
    /\ sid \in [Starts -> FlowIds \cup {None}]
    /\ spc \in [Starts -> {"idle", "tracking", "replied"}]
    /\ run \in [Starts -> {"none", "working", "waiting", "leaving", "removed", "exited"}]
    /\ asked \in [Starts -> 0 .. MaxAsks]
    /\ queue \in [Starts -> Seq(Answers)]
    /\ closes \in [Starts -> Nat]
    /\ mismatched \subseteq Starts
    /\ hpc \in [Handlers -> {"idle", "lookup", "find", "deliver", "signal", "untrack",
                             "accepted", "notFound", "base", "done"}]
    /\ hflow \in [Handlers -> FlowIds \cup {None}]
    /\ hrun \in [Handlers -> Starts \cup {None}]
    /\ answers \in [Actions -> Answers \cup {None}]
    /\ \A s \in Starts : Len(queue[s]) <= ActionCap
    /\ \A h \in Handlers : hpc[h] \in {"deliver", "signal"} => hrun[h] # None

Init ==
    /\ flows = [f \in FlowIds |-> None]
    /\ owners = {}
    /\ sid = [s \in Starts |-> None]
    /\ spc = [s \in Starts |-> "idle"]
    /\ run = [s \in Starts |-> "none"]
    /\ asked = [s \in Starts |-> 0]
    /\ queue = [s \in Starts |-> <<>>]
    /\ closes = [s \in Starts |-> 0]
    /\ mismatched = {}
    /\ hpc = [h \in Handlers |-> "idle"]
    /\ hflow = [h \in Handlers |-> None]
    /\ hrun = [h \in Handlers |-> None]
    /\ answers = [h \in Actions |-> None]

\* The bound on who may come: x and all that have come are in one cast.
Begun == {s \in Starts : spc[s] # "idle"} \cup {h \in Handlers : hpc[h] # "idle"}
MayCome(x) == \E c \in Casts : Begun \cup {x} \subseteq c

-----------------------------------------------------------------------------
(* wmp.flow.start *)

\* The ids that the remote side may give a new flow. When it reuses one, every
\* earlier flow with that id is over, which the remote side knows from
\* fc.Complete or fc.Error, or has been stopped.
IdFree(f) ==
    \A s \in Starts : sid[s] = f =>
        ReuseIds /\ (~Live(s) \/ Done(s))

\* StartFlow: a new FlowContext is stored under the id, over what was there,
\* and the flow goroutine is started.
StartFlow(s) ==
    /\ spc[s] = "idle" /\ MayCome(s)
    /\ \E f \in FlowIds :
         /\ IdFree(f)
         /\ sid' = [sid EXCEPT ![s] = f]
         /\ flows' = [flows EXCEPT ![f] = s]
    /\ spc' = [spc EXCEPT ![s] = "tracking"]
    /\ run' = [run EXCEPT ![s] = "working"]
    /\ UNCHANGED <<owners, asked, queue, closes, mismatched, hpc, hflow, hrun, answers>>

\* trackFlow, then the reply.
TrackFlow(s) ==
    /\ spc[s] = "tracking"
    /\ owners' = owners \cup {sid[s]}
    /\ spc' = [spc EXCEPT ![s] = "replied"]
    /\ UNCHANGED <<flows, flowVars, queue, closes, hpc, hflow, hrun, answers>>

-----------------------------------------------------------------------------
(* The flow goroutine *)

\* RequestAction: the progress notification is sent and WaitForAction entered.
RequestAction(s) ==
    /\ run[s] = "working" /\ asked[s] < MaxAsks
    /\ asked' = [asked EXCEPT ![s] = @ + 1]
    /\ run' = [run EXCEPT ![s] = "waiting"]
    /\ UNCHANGED <<flows, owners, sid, spc, queue, closes, mismatched,
                   hpc, hflow, hrun, answers>>

\* case action := <-fc.actionCh: the oldest action, whatever it answers. It is
\* mismatched if it answers another request than the last one.
TakeAction(s) ==
    /\ run[s] = "waiting" /\ queue[s] # <<>>
    /\ queue' = [queue EXCEPT ![s] = Tail(@)]
    /\ mismatched' = mismatched \cup
         {x \in {s} : Head(queue[s])[2] # 0 /\ Head(queue[s]) # <<s, asked[s]>>}
    /\ run' = [run EXCEPT ![s] = "working"]
    /\ UNCHANGED <<flows, owners, sid, spc, asked, closes,
                   hpc, hflow, hrun, answers>>

\* A defect: WaitForAction does not look at doneCh.
WaitCancelledIgnored(s) == FALSE /\ UNCHANGED vars

\* case <-fc.doneCh.
WaitCancelled(s) ==
    /\ run[s] = "waiting" /\ Done(s)
    /\ run' = [run EXCEPT ![s] = "working"]
    /\ UNCHANGED <<flows, owners, sid, spc, asked, queue, closes, mismatched,
                   hpc, hflow, hrun, answers>>

\* case <-timer.C or <-ctx.Done().
WaitTimeout(s) ==
    /\ run[s] = "waiting"
    /\ run' = [run EXCEPT ![s] = "working"]
    /\ UNCHANGED <<flows, owners, sid, spc, asked, queue, closes, mismatched,
                   hpc, hflow, hrun, answers>>

\* The flow function returns; for an error fc.Error sends its notification.
\* fc.Complete, which it may have called, is a notification and nothing else.
Return(s) ==
    /\ run[s] = "working"
    /\ run' = [run EXCEPT ![s] = "leaving"]
    /\ UNCHANGED <<flows, owners, sid, spc, asked, queue, closes, mismatched,
                   hpc, hflow, hrun, answers>>

\* A defect: the deferred function untracks the flow as well, by its id.
RemoveAndUntrack(s) ==
    /\ run[s] = "leaving"
    /\ flows' = [flows EXCEPT ![sid[s]] = None]
    /\ owners' = owners \ {sid[s]}
    /\ run' = [run EXCEPT ![s] = "removed"]
    /\ UNCHANGED <<sid, spc, asked, queue, closes, mismatched, hpc, hflow, hrun, answers>>

\* The deferred delete(p.flows, id), whose ever the entry is by then.
Remove(s) ==
    /\ run[s] = "leaving"
    /\ flows' = [flows EXCEPT ![sid[s]] = None]
    /\ run' = [run EXCEPT ![s] = "removed"]
    /\ UNCHANGED <<owners, sid, spc, asked, queue, closes, mismatched,
                   hpc, hflow, hrun, answers>>

\* A defect: close without the test that it has not been done.
ClosesBlindly(s) == closes[s] + 1

\* fc.cancel under fc.mu: doneCh is closed unless it is closed already.
ClosesAfterCancel(s) == IF Done(s) THEN closes[s] ELSE closes[s] + 1

\* A defect: the deferred function only deletes the map entry.
ExitSilently(s) ==
    /\ run[s] = "removed"
    /\ run' = [run EXCEPT ![s] = "exited"]
    /\ UNCHANGED <<flows, owners, sid, spc, asked, queue, closes, mismatched,
                   hpc, hflow, hrun, answers>>

\* The deferred fc.cancel().
Exit(s) ==
    /\ run[s] = "removed"
    /\ closes' = [closes EXCEPT ![s] = ClosesAfterCancel(s)]
    /\ run' = [run EXCEPT ![s] = "exited"]
    /\ UNCHANGED <<flows, owners, sid, spc, asked, queue, mismatched,
                   hpc, hflow, hrun, answers>>

-----------------------------------------------------------------------------
(* The other handlers *)

\* A message about a flow that was started, or the application's CancelFlow.
\* The remote side answers a request the flow has made, or sends an action
\* of its own accord (ask 0).
Arrive(h) ==
    /\ hpc[h] = "idle" /\ MayCome(h)
    /\ \E s \in Starts :
         /\ sid[s] # None
         /\ hflow' = [hflow EXCEPT ![h] = sid[s]]
         /\ IF h \in Actions
              THEN \E k \in 0 .. asked[s] : answers' = [answers EXCEPT ![h] = <<s, k>>]
              ELSE UNCHANGED answers
    /\ hpc' = [hpc EXCEPT ![h] = IF h \in Drops THEN "find" ELSE "lookup"]
    /\ UNCHANGED <<flows, owners, flowVars, spc, queue, closes, hrun>>

\* lookupFlowOwner: a flow without an owner goes to the base handler.
LookupOwner(h) ==
    /\ hpc[h] = "lookup"
    /\ hpc' = [hpc EXCEPT ![h] =
                 IF hflow[h] \notin owners THEN "base"
                 ELSE IF h \in Cancels THEN "untrack" ELSE "find"]
    /\ UNCHANGED <<flows, owners, flowVars, spc, queue, closes, hflow, hrun, answers>>

\* HandleAction: the FlowContext under p.mu.RLock, or the error "flow not found".
FindFlow(h) ==
    /\ h \in Actions /\ hpc[h] = "find"
    /\ hrun' = [hrun EXCEPT ![h] = flows[hflow[h]]]
    /\ hpc' = [hpc EXCEPT ![h] = IF flows[hflow[h]] = None THEN "notFound" ELSE "deliver"]
    /\ UNCHANGED <<flows, owners, flowVars, spc, queue, closes, hflow, answers>>

\* deliverAction, case fc.actionCh <- params.
Deliver(h) ==
    /\ h \in Actions /\ hpc[h] = "deliver"
    /\ Len(queue[hrun[h]]) < ActionCap
    /\ queue' = [queue EXCEPT ![hrun[h]] = Append(@, answers[h])]
    /\ hpc' = [hpc EXCEPT ![h] = "accepted"]
    /\ UNCHANGED <<flows, owners, flowVars, spc, closes, hflow, hrun, answers>>

\* deliverAction, case <-fc.doneCh: the action is dropped and still accepted.
Discard(h) ==
    /\ h \in Actions /\ hpc[h] = "deliver"
    /\ Done(hrun[h])
    /\ hpc' = [hpc EXCEPT ![h] = "accepted"]
    /\ UNCHANGED <<flows, owners, flowVars, spc, queue, closes, hflow, hrun, answers>>

\* Where HandleComplete, HandleError and CancelFlow go once fc is dealt with.
AfterSignal(h) == IF h \in Ends THEN "untrack" ELSE "done"

\* A defect: fc is used though the lookup did not find one.
TakeUnchecked(h) ==
    /\ h \in Ends \cup Drops /\ hpc[h] = "find"
    /\ hrun' = [hrun EXCEPT ![h] = flows[hflow[h]]]
    /\ flows' = [flows EXCEPT ![hflow[h]] = None]
    /\ hpc' = [hpc EXCEPT ![h] = "signal"]
    /\ UNCHANGED <<owners, flowVars, spc, queue, closes, hflow, answers>>

\* HandleComplete, HandleError, CancelFlow: lookup and delete under the lock.
TakeFlow(h) ==
    /\ h \in Ends \cup Drops /\ hpc[h] = "find"
    /\ hrun' = [hrun EXCEPT ![h] = flows[hflow[h]]]
    /\ flows' = [flows EXCEPT ![hflow[h]] = None]
    /\ hpc' = [hpc EXCEPT ![h] =
                 IF flows[hflow[h]] = None THEN AfterSignal(h) ELSE "signal"]
    /\ UNCHANGED <<owners, flowVars, spc, queue, closes, hflow, answers>>

\* A defect: the entry is deleted but the goroutine is not told.
SignalNothing(h) ==
    /\ hpc[h] = "signal"
    /\ hpc' = [hpc EXCEPT ![h] = AfterSignal(h)]
    /\ UNCHANGED <<flows, owners, flowVars, spc, queue, closes, hflow, hrun, answers>>

\* Their fc.cancel().
Signal(h) ==
    /\ hpc[h] = "signal"
    /\ closes' = [closes EXCEPT ![hrun[h]] = ClosesAfterCancel(hrun[h])]
    /\ hpc' = [hpc EXCEPT ![h] = AfterSignal(h)]
    /\ UNCHANGED <<flows, owners, flowVars, spc, queue, hflow, hrun, answers>>

\* untrackFlow: the last step for an end; a cancel goes on to the base handler.
UntrackFlow(h) ==
    /\ hpc[h] = "untrack"
    /\ owners' = owners \ {hflow[h]}
    /\ hpc' = [hpc EXCEPT ![h] = IF h \in Cancels THEN "base" ELSE "done"]
    /\ UNCHANGED <<flows, flowVars, spc, queue, closes, hflow, hrun, answers>>

-----------------------------------------------------------------------------
StartStep(s) == StartFlow(s) \/ TrackFlow(s)
FlowStep(s) ==
    \/ RequestAction(s) \/ TakeAction(s) \/ WaitCancelled(s) \/ WaitTimeout(s)
    \/ Return(s) \/ Remove(s) \/ Exit(s)
HandlerStep(h) ==
    \/ Arrive(h) \/ LookupOwner(h) \/ FindFlow(h) \/ Deliver(h) \/ Discard(h)
    \/ TakeFlow(h) \/ Signal(h) \/ UntrackFlow(h)

\* Nothing is under way: no flow runs and no handler is between two steps.
Replied == {"accepted", "notFound", "base", "done"}
Quiescent ==
    /\ \A s \in Starts : spc[s] # "tracking" /\ run[s] \in {"none", "exited"}
    /\ \A h \in Handlers : hpc[h] \in Replied \cup {"idle"}
    /\ UNCHANGED vars

Next ==
    \/ \E s \in Starts : StartStep(s) \/ FlowStep(s)
    \/ \E h \in Handlers : HandlerStep(h)
    \/ Quiescent

\* Runnable goroutines run and a ready select proceeds. The flow function is
\* assumed to return (its waits are bounded by MaxAsks); that a wait times out
\* in time is not assumed, and no message has to arrive.
Fairness ==
    /\ \A s \in Starts :
         /\ WF_vars(TakeAction(s) \/ WaitCancelled(s))
         /\ WF_vars(Return(s)) /\ WF_vars(Remove(s)) /\ WF_vars(Exit(s))
    /\ \A h \in Handlers :
         WF_vars(LookupOwner(h) \/ FindFlow(h) \/ Deliver(h) \/ Discard(h)
                 \/ TakeFlow(h) \/ Signal(h) \/ UntrackFlow(h))

Spec == Init /\ [][Next]_vars /\ Fairness

-----------------------------------------------------------------------------
(* Properties *)

\* doneCh is closed at most once, though the flow goroutine, any number of
\* end handlers and CancelFlow all close it: a second close would panic
\* (flowcontext.go 124-132).
ClosedOnce == \A s \in Starts : closes[s] <= 1

\* A flow that still runs and that nobody is stopping is in the map: it is
\* counted by ActiveFlows and reached by actions, ends and CancelFlow. Only the
\* deferred delete of an earlier flow with the same id, which is done by id, can
\* take it out unnoticed (flowcontext.go 195-207, 268-285).
RegisteredWhileLive ==
    \A s \in Starts :
        Live(s) =>
            \/ flows[sid[s]] = s
            \/ Done(s)
            \/ \E h \in Handlers : hpc[h] = "signal" /\ hrun[h] = s
            \/ \E t \in Starts \ {s} : sid[t] = sid[s] /\ run[t] \in {"removed", "exited"}

\* Handler h has untracked the flows with its id.
HasUntracked(h) ==
    \/ h \in Ends /\ hpc[h] = "done"
    \/ h \in Cancels /\ hpc[h] = "base"

\* From the reply to its wmp.flow.start on, the messages about a running flow go
\* to its profile, until an end or a cancel with its id has come: an earlier flow
\* that is still leaving, or CancelFlow, does not divert them to the base handler
\* (peer.go 405-477, flowcontext.go 195-207, 256-266).
OwnedAfterReply ==
    \A s \in Starts :
        spc[s] = "replied" /\ Live(s) =>
            \/ sid[s] \in owners
            \/ \E h \in Ends \cup Cancels : hflow[h] = sid[s] /\ HasUntracked(h)

\* Whoever removes a flow from the map makes its goroutine stop: the flow is
\* never left running, unreachable and unaware (flowcontext.go 243-252).
StoppedFlowExits ==
    \A s \in Starts :
        (\E h \in Handlers : hpc[h] = "signal" /\ hrun[h] = s) ~> (run[s] = "exited")

\* No action handler stays blocked on a full actionCh: the flow takes an
\* action or the end of the flow releases the handler (flowcontext.go 135-140).
DelivererReleased ==
    \A h \in Actions : (hpc[h] = "deliver") ~> (hpc[h] = "accepted")

\* RequestAction returns the action that answers its own request.
MatchingAction == mismatched = {}
=============================================================================
