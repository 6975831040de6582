-------------------------- MODULE AsyncFlowProofs --------------------------
(* Theorems about AsyncFlow for any number of flows, ids and handlers, any    *)
(* capacity of actionCh and any number of requests per flow.                 *)
EXTENDS AsyncFlow, TLAPS

\* A start has an id and a goroutine from StartFlow on.
StartInv ==
    \A s \in Starts :
        /\ spc[s] = "idle" <=> run[s] = "none"
        /\ run[s] # "none" => sid[s] \in FlowIds
        /\ sid[s] # None => run[s] # "none"

\* A handler under way knows its flow id and, for an action, what it answers; only
\* ends and cancels untrack a flow.
HandlerInv ==
    /\ \A h \in Handlers : hpc[h] # "idle" => hflow[h] \in FlowIds
    /\ \A h \in Actions : hpc[h] # "idle" => answers[h] \in Answers
    /\ \A h \in Handlers : hpc[h] = "untrack" => h \in Ends \cup Cancels

\* An entry of the map belongs to a goroutine that has not yet deleted it.
EntryInv ==
    \A f \in FlowIds, s \in Starts :
        flows[f] = s => sid[s] = f /\ run[s] \in {"working", "waiting", "leaving"}

FlowInv == TypeOK /\ StartInv /\ HandlerInv /\ EntryInv /\ ClosedOnce

-----------------------------------------------------------------------------
\* The invariant holds before the first flow.
LEMMA FlowInit == Init => FlowInv
  BY FlowConstantsAssumption
  DEF Init, FlowInv, TypeOK, StartInv, HandlerInv, EntryInv, ClosedOnce, Answers, Handlers

\* Each step of a flow or of a handler keeps it, whatever ids are used.
LEMMA FlowInvStep ==
  ASSUME FlowInv, [Next]_vars
  PROVE  FlowInv'
<1> USE FlowConstantsAssumption
      DEF FlowInv, TypeOK, StartInv, HandlerInv, EntryInv, ClosedOnce, Done,
          flowVars
<1>1. ASSUME NEW s \in Starts, StartFlow(s) PROVE FlowInv'
  BY <1>1 DEF StartFlow
<1>2. ASSUME NEW s \in Starts, TrackFlow(s) PROVE FlowInv'
  BY <1>2 DEF TrackFlow
<1>3. ASSUME NEW s \in Starts, RequestAction(s) PROVE FlowInv'
  BY <1>3 DEF RequestAction
<1>4. ASSUME NEW s \in Starts, TakeAction(s) PROVE FlowInv'
  BY <1>4 DEF TakeAction
<1>5. ASSUME NEW s \in Starts, WaitCancelled(s) PROVE FlowInv'
  BY <1>5 DEF WaitCancelled
<1>5a. ASSUME NEW s \in Starts, WaitTimeout(s) PROVE FlowInv'
  BY <1>5a DEF WaitTimeout
<1>7. ASSUME NEW s \in Starts, Return(s) PROVE FlowInv'
  <2>1. TypeOK'
    BY <1>7 DEF Return
  <2>2. StartInv'
    BY <1>7 DEF Return
  <2>3. HandlerInv'
    BY <1>7 DEF Return
  <2>4. EntryInv'
    BY <1>7 DEF Return
  <2>5. ClosedOnce'
    BY <1>7 DEF Return
  <2>6. QED
    BY <2>1, <2>2, <2>3, <2>4, <2>5 DEF FlowInv
<1>8. ASSUME NEW s \in Starts, Remove(s) PROVE FlowInv'
  BY <1>8 DEF Remove
<1>9. ASSUME NEW s \in Starts, Exit(s) PROVE FlowInv'
  BY <1>9 DEF Exit, ClosesAfterCancel
<1>10. ASSUME NEW h \in Handlers, Arrive(h) PROVE FlowInv'
  <2>0. PICK s \in Starts :
          /\ sid[s] # None
          /\ hflow' = [hflow EXCEPT ![h] = sid[s]]
          /\ IF h \in Actions
               THEN \E k \in 0 .. asked[s] : answers' = [answers EXCEPT ![h] = <<s, k>>]
               ELSE UNCHANGED answers
    BY <1>10 DEF Arrive
  <2>a. ASSUME h \in Actions
        PROVE  \E a \in Answers : answers' = [answers EXCEPT ![h] = a]
    <3>1. PICK k \in 0 .. asked[s] : answers' = [answers EXCEPT ![h] = <<s, k>>]
      BY <2>0, <2>a
    <3>2. k \in 0 .. MaxAsks
      BY FlowConstantsAssumption
    <3>3. <<s, k>> \in Answers
      BY <3>2 DEF Answers
    <3>4. QED
      BY <3>1, <3>3
  <2>b. answers' \in [Actions -> Answers \cup {None}]
    <3>1. CASE h \in Actions
      <4>1. PICK a \in Answers : answers' = [answers EXCEPT ![h] = a]
        BY <2>a, <3>1
      <4>2. QED
        BY <4>1
    <3>2. CASE h \notin Actions
      BY <2>0, <3>2
    <3>3. QED
      BY <3>1, <3>2
  <2>1. TypeOK'
    BY <1>10, <2>0, <2>b DEF Arrive, Handlers
  <2>2. StartInv'
    BY <1>10 DEF Arrive, Handlers
  <2>3. HandlerInv'
    BY <1>10, <2>0, <2>a DEF Arrive, Handlers
  <2>4. EntryInv'
    BY <1>10 DEF Arrive, Handlers
  <2>5. ClosedOnce'
    BY <1>10 DEF Arrive, Handlers
  <2>6. QED
    BY <2>1, <2>2, <2>3, <2>4, <2>5 DEF FlowInv
<1>11. ASSUME NEW h \in Handlers, LookupOwner(h) PROVE FlowInv'
  BY <1>11 DEF LookupOwner
<1>12. ASSUME NEW h \in Handlers, FindFlow(h) PROVE FlowInv'
  <2>1. TypeOK'
    BY <1>12 DEF FindFlow, Handlers
  <2>2. StartInv'
    BY <1>12 DEF FindFlow, Handlers
  <2>3. HandlerInv'
    BY <1>12 DEF FindFlow, Handlers
  <2>4. EntryInv'
    BY <1>12 DEF FindFlow, Handlers
  <2>5. ClosedOnce'
    BY <1>12 DEF FindFlow, Handlers
  <2>6. QED
    BY <2>1, <2>2, <2>3, <2>4, <2>5 DEF FlowInv
<1>13. ASSUME NEW h \in Handlers, Deliver(h) PROVE FlowInv'
  <2>1. TypeOK'
    BY <1>13 DEF Deliver, Handlers
  <2>2. StartInv'
    BY <1>13 DEF Deliver, Handlers
  <2>3. HandlerInv'
    BY <1>13 DEF Deliver, Handlers
  <2>4. EntryInv'
    BY <1>13 DEF Deliver, Handlers
  <2>5. ClosedOnce'
    BY <1>13 DEF Deliver, Handlers
  <2>6. QED
    BY <2>1, <2>2, <2>3, <2>4, <2>5 DEF FlowInv
<1>14. ASSUME NEW h \in Handlers, Discard(h) PROVE FlowInv'
  BY <1>14 DEF Discard
<1>15. ASSUME NEW h \in Handlers, TakeFlow(h) PROVE FlowInv'
  BY <1>15 DEF TakeFlow, AfterSignal
<1>16. ASSUME NEW h \in Handlers, Signal(h) PROVE FlowInv'
  <2>1. TypeOK'
    BY <1>16 DEF Signal, ClosesAfterCancel, AfterSignal
  <2>2. StartInv'
    BY <1>16 DEF Signal, ClosesAfterCancel, AfterSignal
  <2>3. HandlerInv'
    BY <1>16 DEF Signal, ClosesAfterCancel, AfterSignal
  <2>4. EntryInv'
    BY <1>16 DEF Signal, ClosesAfterCancel, AfterSignal
  <2>5. ClosedOnce'
    BY <1>16 DEF Signal, ClosesAfterCancel, AfterSignal
  <2>6. QED
    BY <2>1, <2>2, <2>3, <2>4, <2>5 DEF FlowInv
<1>17. ASSUME NEW h \in Handlers, UntrackFlow(h) PROVE FlowInv'
  BY <1>17 DEF UntrackFlow
<1>18. CASE UNCHANGED vars
  BY <1>18 DEF vars
<1> HIDE DEF FlowInv
<1>19. QED
  BY <1>1, <1>2, <1>3, <1>4, <1>5, <1>7, <1>8, <1>9, <1>10, <1>11, <1>12,
     <1>13, <1>14, <1>15, <1>16, <1>17, <1>18, <1>5a
  DEF Next, StartStep, FlowStep, HandlerStep, Quiescent

\* The type invariant of AsyncFlow: no handler uses a FlowContext it did not
\* find, and actionCh never exceeds its capacity.
THEOREM FlowTyping == Spec => []TypeOK
<1>1. FlowInv => TypeOK
  BY DEF FlowInv
<1>2. QED
  BY FlowInit, FlowInvStep, <1>1, PTL DEF Spec

\* doneCh is closed at most once, by however many goroutines cancel the flow
\* (FlowContext.cancel).
THEOREM DoneClosedOnce == Spec => []ClosedOnce
<1>1. FlowInv => ClosedOnce
  BY DEF FlowInv
<1>2. QED
  BY FlowInit, FlowInvStep, <1>1, PTL DEF Spec

\* The map holds no FlowContext whose goroutine has run its deferred delete
\* (flowcontext.go 202-207).
NoDeadEntry ==
    \A f \in FlowIds, s \in Starts :
        flows[f] = s => sid[s] = f /\ run[s] \notin {"removed", "exited"}

\* No entry of AsyncFlowProfile.flows outlives its goroutine, even if flow ids
\* are reused.
THEOREM EntriesAreAlive == Spec => []NoDeadEntry
<1>1. FlowInv => NoDeadEntry
  BY DEF FlowInv, EntryInv, NoDeadEntry
<1>2. QED
  BY FlowInit, FlowInvStep, <1>1, PTL DEF Spec

-----------------------------------------------------------------------------
\* Handler h has taken the FlowContext of s and is about to cancel it.
Stopping(h, s) == hpc[h] = "signal" /\ hrun[h] = s

\* A live flow is in the map, or done, or in the hands of a handler that is about
\* to cancel it, or an earlier flow with its id has done its deferred delete.
LiveInv ==
    \A s \in Starts :
        Live(s) =>
            \/ flows[sid[s]] = s \/ Done(s)
            \/ \E h \in Handlers : Stopping(h, s)
            \/ \E t \in Starts \ {s} : sid[t] = sid[s] /\ run[t] \in {"removed", "exited"}

RegInv == FlowInv /\ LiveInv /\ OwnedAfterReply

\* So does the stronger invariant about both maps.
LEMMA RegInit == Init => RegInv
<1>1. Init => LiveInv /\ OwnedAfterReply
  BY DEF Init, LiveInv, OwnedAfterReply, Live
<1>2. QED
  BY <1>1, FlowInit DEF RegInv

\* What LiveInv depends on: a step that adds no live flow, leaves map and ids
\* alone and takes back no signal, removal or intent to signal.
LiveFrame ==
    /\ flows' = flows /\ sid' = sid
    /\ \A s \in Starts :
        /\ Live(s)' => Live(s)
        /\ Done(s) => Done(s)'
        /\ run[s] \in {"removed", "exited"} => run'[s] \in {"removed", "exited"}
        /\ \A h \in Handlers : Stopping(h, s) => Stopping(h, s)' \/ Done(s)'

\* Such a step keeps it.
LEMMA LiveFrameKeeps ==
  ASSUME LiveInv, LiveFrame
  PROVE  LiveInv'
<1> SUFFICES ASSUME NEW s \in Starts, Live(s)'
             PROVE  \/ flows'[sid'[s]] = s \/ Done(s)'
                    \/ \E h \in Handlers : Stopping(h, s)'
                    \/ \E t \in Starts \ {s} :
                         sid'[t] = sid'[s] /\ run'[t] \in {"removed", "exited"}
  BY DEF LiveInv
<1>1. Live(s)
  BY DEF LiveFrame
<1>2. CASE flows[sid[s]] = s \/ Done(s)
  BY <1>2 DEF LiveFrame
<1>3. CASE \E h \in Handlers : Stopping(h, s)
  BY <1>3 DEF LiveFrame
<1>4. CASE \E t \in Starts \ {s} : sid[t] = sid[s] /\ run[t] \in {"removed", "exited"}
  BY <1>4 DEF LiveFrame
<1>5. QED
  BY <1>1, <1>2, <1>3, <1>4 DEF LiveInv

\* No other step takes a live flow's entry away and leaves it unaware.
LEMMA LiveInvStep ==
  ASSUME FlowInv, LiveInv, [Next]_vars
  PROVE  LiveInv'
<1>0. /\ sid \in [Starts -> FlowIds \cup {None}]
      /\ run \in [Starts -> {"none", "working", "waiting", "leaving", "removed", "exited"}]
      /\ closes \in [Starts -> Nat] /\ hrun \in [Handlers -> Starts \cup {None}]
      /\ hpc \in [Handlers -> {"idle", "lookup", "find", "deliver", "signal", "untrack",
                                "accepted", "notFound", "base", "done"}]
      /\ flows \in [FlowIds -> Starts \cup {None}]
      /\ \A h \in Handlers : hpc[h] = "signal" => hrun[h] \in Starts
      /\ \A h \in Handlers : hpc[h] # "idle" => hflow[h] \in FlowIds
      /\ \A s \in Starts : run[s] # "none" => sid[s] \in FlowIds
      /\ \A s \in Starts : spc[s] = "idle" <=> run[s] = "none"
  BY DEF FlowInv, TypeOK, HandlerInv, StartInv
<1> USE <1>0, FlowConstantsAssumption
<1>1. ASSUME NEW t \in Starts, TrackFlow(t) PROVE LiveFrame
  BY <1>1 DEF TrackFlow, LiveFrame, Live, Done, Stopping, flowVars
<1>2. ASSUME NEW t \in Starts, RequestAction(t) PROVE LiveFrame
  BY <1>2 DEF RequestAction, LiveFrame, Live, Done, Stopping, flowVars
<1>3. ASSUME NEW t \in Starts, TakeAction(t) PROVE LiveFrame
  BY <1>3 DEF TakeAction, LiveFrame, Live, Done, Stopping, flowVars
<1>4. ASSUME NEW t \in Starts, WaitCancelled(t) PROVE LiveFrame
  BY <1>4 DEF WaitCancelled, LiveFrame, Live, Done, Stopping, flowVars
<1>5. ASSUME NEW t \in Starts, WaitTimeout(t) PROVE LiveFrame
  BY <1>5 DEF WaitTimeout, LiveFrame, Live, Done, Stopping, flowVars
<1>6. ASSUME NEW t \in Starts, Return(t) PROVE LiveFrame
  BY <1>6 DEF Return, LiveFrame, Live, Done, Stopping, flowVars
<1>7. ASSUME NEW t \in Starts, Exit(t) PROVE LiveFrame
  BY <1>7 DEF Exit, LiveFrame, Live, Done, Stopping, flowVars, ClosesAfterCancel
<1>8. ASSUME NEW h \in Handlers, Arrive(h) PROVE LiveFrame
  BY <1>8 DEF Arrive, LiveFrame, Live, Done, Stopping, flowVars
<1>9. ASSUME NEW h \in Handlers, LookupOwner(h) PROVE LiveFrame
  BY <1>9 DEF LookupOwner, LiveFrame, Live, Done, Stopping, flowVars
<1>10. ASSUME NEW h \in Handlers, FindFlow(h) PROVE LiveFrame
  BY <1>10 DEF FindFlow, LiveFrame, Live, Done, Stopping, flowVars
<1>11. ASSUME NEW h \in Handlers, Deliver(h) PROVE LiveFrame
  BY <1>11 DEF Deliver, LiveFrame, Live, Done, Stopping, flowVars
<1>12. ASSUME NEW h \in Handlers, Discard(h) PROVE LiveFrame
  BY <1>12 DEF Discard, LiveFrame, Live, Done, Stopping, flowVars
<1>13. ASSUME NEW h \in Handlers, Signal(h) PROVE LiveFrame
  BY <1>13 DEF Signal, LiveFrame, Live, Done, Stopping, flowVars, ClosesAfterCancel, AfterSignal
<1>14. ASSUME NEW h \in Handlers, UntrackFlow(h) PROVE LiveFrame
  BY <1>14 DEF UntrackFlow, LiveFrame, Live, Done, Stopping, flowVars
<1>15. CASE UNCHANGED vars
  <2>1. LiveFrame
    BY <1>15 DEF vars, LiveFrame, Live, Done, Stopping
  <2>2. QED
    BY <2>1, LiveFrameKeeps
<1>16. ASSUME NEW t \in Starts, StartFlow(t) PROVE LiveInv'
  <2>1. PICK f \in FlowIds : IdFree(f) /\ sid' = [sid EXCEPT ![t] = f]
                                    /\ flows' = [flows EXCEPT ![f] = t]
    BY <1>16 DEF StartFlow
  <2>2. run' = [run EXCEPT ![t] = "working"] /\ UNCHANGED <<closes, hpc, hrun>> /\ run[t] = "none"
    BY <1>16 DEF StartFlow
  <2> SUFFICES ASSUME NEW s \in Starts, Live(s)'
               PROVE  \/ flows'[sid'[s]] = s \/ Done(s)'
                      \/ \E h \in Handlers : Stopping(h, s)'
                      \/ \E u \in Starts \ {s} :
                           sid'[u] = sid'[s] /\ run'[u] \in {"removed", "exited"}
    BY DEF LiveInv
  <2>3. CASE s = t
    BY <2>1, <2>3
  <2>4. CASE s # t /\ sid[s] = f
    BY <2>1, <2>2, <2>4 DEF IdFree, Live, Done
  <2>5. CASE s # t /\ sid[s] # f
    <3>1. Live(s) /\ sid'[s] = sid[s] /\ flows'[sid[s]] = flows[sid[s]]
      BY <2>1, <2>2, <2>5 DEF Live
    <3>2. CASE \E u \in Starts \ {s} : sid[u] = sid[s] /\ run[u] \in {"removed", "exited"}
      BY <2>1, <2>2, <2>5, <3>1, <3>2
    <3>3. QED
      BY <2>2, <3>1, <3>2 DEF LiveInv, Done, Stopping
  <2>6. QED
    BY <2>3, <2>4, <2>5
<1>17. ASSUME NEW t \in Starts, Remove(t) PROVE LiveInv'
  <2>1. /\ flows' = [flows EXCEPT ![sid[t]] = None] /\ run' = [run EXCEPT ![t] = "removed"]
        /\ run[t] = "leaving" /\ UNCHANGED <<sid, closes, hpc, hrun>>
    BY <1>17 DEF Remove
  <2> SUFFICES ASSUME NEW s \in Starts, Live(s)'
               PROVE  \/ flows'[sid'[s]] = s \/ Done(s)'
                      \/ \E h \in Handlers : Stopping(h, s)'
                      \/ \E u \in Starts \ {s} :
                           sid'[u] = sid'[s] /\ run'[u] \in {"removed", "exited"}
    BY DEF LiveInv
  <2>2. s # t /\ Live(s)
    BY <2>1 DEF Live
  <2>3. CASE sid[s] = sid[t]
    BY <2>1, <2>2, <2>3
  <2>4. CASE sid[s] # sid[t]
    <3>1. flows'[sid[s]] = flows[sid[s]]
      BY <2>1, <2>2, <2>4 DEF Live
    <3>2. CASE \E u \in Starts \ {s} : sid[u] = sid[s] /\ run[u] \in {"removed", "exited"}
      BY <2>1, <2>2, <3>2
    <3>3. QED
      BY <2>1, <2>2, <3>1, <3>2 DEF LiveInv, Done, Stopping
  <2>5. QED
    BY <2>3, <2>4
<1>18. ASSUME NEW h \in Handlers, TakeFlow(h) PROVE LiveInv'
  <2>1. /\ hpc[h] = "find" /\ hrun' = [hrun EXCEPT ![h] = flows[hflow[h]]]
        /\ flows' = [flows EXCEPT ![hflow[h]] = None]
        /\ flows[hflow[h]] # None => hpc' = [hpc EXCEPT ![h] = "signal"]
        /\ \A g \in Handlers : g # h => hpc'[g] = hpc[g]
        /\ UNCHANGED <<sid, run, closes>>
    BY <1>18 DEF TakeFlow, flowVars
  <2> SUFFICES ASSUME NEW s \in Starts, Live(s)'
               PROVE  \/ flows'[sid'[s]] = s \/ Done(s)'
                      \/ \E g \in Handlers : Stopping(g, s)'
                      \/ \E u \in Starts \ {s} :
                           sid'[u] = sid'[s] /\ run'[u] \in {"removed", "exited"}
    BY DEF LiveInv
  <2>2. Live(s)
    BY <2>1 DEF Live
  <2>3. CASE flows[sid[s]] = s
    <3>1. CASE hflow[h] = sid[s]
      <4>1. Stopping(h, s)'
        BY <2>1, <2>3, <3>1 DEF Stopping
      <4>2. QED
        BY <4>1
    <3>2. CASE hflow[h] # sid[s]
      BY <2>1, <2>2, <2>3, <3>2 DEF Live
    <3>3. QED
      BY <3>1, <3>2
  <2>4. CASE \E g \in Handlers : Stopping(g, s)
    <3>1. PICK g \in Handlers : Stopping(g, s)
      BY <2>4
    <3>2. g # h
      BY <2>1, <3>1 DEF Stopping
    <3>3. Stopping(g, s)'
      BY <2>1, <3>1, <3>2 DEF Stopping
    <3>4. QED
      BY <3>3
  <2>5. CASE Done(s) \/ \E u \in Starts \ {s} : sid[u] = sid[s] /\ run[u] \in {"removed", "exited"}
    BY <2>1, <2>5 DEF Done
  <2>6. QED
    BY <2>2, <2>3, <2>4, <2>5 DEF LiveInv
<1>19. QED
  BY LiveFrameKeeps, <1>1, <1>2, <1>3, <1>4, <1>5, <1>6, <1>7, <1>8,
     <1>9, <1>10, <1>11, <1>12, <1>13, <1>14, <1>15, <1>16, <1>17, <1>18
  DEF Next, StartStep, FlowStep, HandlerStep, Quiescent

\* Only an end or a cancel takes a running flow's owner away.
LEMMA OwnedStep ==
  ASSUME FlowInv, OwnedAfterReply, [Next]_vars
  PROVE  OwnedAfterReply'
<1>0. \A h \in Handlers : hpc[h] = "untrack" => h \in Ends \cup Cancels
  BY DEF FlowInv, HandlerInv
<1> USE FlowConstantsAssumption
      DEF FlowInv, TypeOK, StartInv, HandlerInv, OwnedAfterReply, HasUntracked,
          Handlers, Live, flowVars
<1>1. ASSUME NEW t \in Starts, StartFlow(t) PROVE OwnedAfterReply'
  BY <1>1 DEF StartFlow, IdFree
<1>2. ASSUME NEW t \in Starts, TrackFlow(t) PROVE OwnedAfterReply'
  BY <1>2 DEF TrackFlow
<1>3. ASSUME NEW t \in Starts, RequestAction(t) PROVE OwnedAfterReply'
  BY <1>3 DEF RequestAction
<1>4. ASSUME NEW t \in Starts, TakeAction(t) PROVE OwnedAfterReply'
  BY <1>4 DEF TakeAction
<1>5. ASSUME NEW t \in Starts, WaitCancelled(t) PROVE OwnedAfterReply'
  BY <1>5 DEF WaitCancelled
<1>6. ASSUME NEW t \in Starts, WaitTimeout(t) PROVE OwnedAfterReply'
  BY <1>6 DEF WaitTimeout
<1>7. ASSUME NEW t \in Starts, Return(t) PROVE OwnedAfterReply'
  BY <1>7 DEF Return
<1>8. ASSUME NEW t \in Starts, Remove(t) PROVE OwnedAfterReply'
  BY <1>8 DEF Remove
<1>9. ASSUME NEW t \in Starts, Exit(t) PROVE OwnedAfterReply'
  BY <1>9 DEF Exit, ClosesAfterCancel
<1>10. ASSUME NEW h \in Handlers, Arrive(h) PROVE OwnedAfterReply'
  <2>1. /\ hpc[h] = "idle" /\ UNCHANGED <<owners, sid, spc, run>>
        /\ \A g \in Handlers \ {h} : hflow'[g] = hflow[g] /\ hpc'[g] = hpc[g]
    BY <1>10 DEF Arrive
  <2>2. \A g \in Ends \cup Cancels :
           HasUntracked(g) => HasUntracked(g)' /\ hflow'[g] = hflow[g]
    BY <2>1
  <2> SUFFICES ASSUME NEW s \in Starts, spc'[s] = "replied", Live(s)', sid'[s] \notin owners'
               PROVE  \E g \in Ends \cup Cancels : hflow'[g] = sid'[s] /\ HasUntracked(g)'
    OBVIOUS
  <2>3. PICK g \in Ends \cup Cancels : hflow[g] = sid[s] /\ HasUntracked(g)
    BY <2>1
  <2>4. hflow'[g] = sid'[s] /\ HasUntracked(g)'
    BY <2>1, <2>2, <2>3
  <2>5. QED
    BY <2>4
<1>11. ASSUME NEW h \in Handlers, LookupOwner(h) PROVE OwnedAfterReply'
  BY <1>11 DEF LookupOwner
<1>12. ASSUME NEW h \in Handlers, FindFlow(h) PROVE OwnedAfterReply'
  BY <1>12 DEF FindFlow
<1>13. ASSUME NEW h \in Handlers, Deliver(h) PROVE OwnedAfterReply'
  BY <1>13 DEF Deliver
<1>14. ASSUME NEW h \in Handlers, Discard(h) PROVE OwnedAfterReply'
  BY <1>14 DEF Discard
<1>15. ASSUME NEW h \in Handlers, TakeFlow(h) PROVE OwnedAfterReply'
  BY <1>15 DEF TakeFlow, AfterSignal
<1>16. ASSUME NEW h \in Handlers, Signal(h) PROVE OwnedAfterReply'
  BY <1>16 DEF Signal, ClosesAfterCancel, AfterSignal
<1>17. ASSUME NEW h \in Handlers, UntrackFlow(h) PROVE OwnedAfterReply'
  <2>1. /\ hpc[h] = "untrack" /\ owners' = owners \ {hflow[h]} /\ hflow' = hflow
        /\ UNCHANGED <<sid, spc, run>>
        /\ hpc' = [hpc EXCEPT ![h] = IF h \in Cancels THEN "base" ELSE "done"]
    BY <1>17 DEF UntrackFlow
  <2>2. h \in Ends \cup Cancels /\ HasUntracked(h)'
    BY <2>1, <1>0
  <2>3. \A g \in Ends \cup Cancels : HasUntracked(g) => HasUntracked(g)'
    BY <2>1
  <2>4. QED
    BY <2>1, <2>2, <2>3
<1>18. CASE UNCHANGED vars
  BY <1>18 DEF vars
<1>19. QED
  BY <1>1, <1>2, <1>3, <1>4, <1>5, <1>6, <1>7, <1>8, <1>9,
     <1>10, <1>11, <1>12, <1>13, <1>14, <1>15, <1>16, <1>17, <1>18
  DEF Next, StartStep, FlowStep, HandlerStep, Quiescent

\* Together they are kept by every step.
LEMMA RegInvStep ==
  ASSUME RegInv, [Next]_vars
  PROVE  RegInv'
  BY FlowInvStep, LiveInvStep, OwnedStep DEF RegInv

\* A running flow that nobody is stopping is in the map of AsyncFlowProfile,
\* unless an earlier flow with its id has deleted the entry on its way out.
THEOREM LiveFlowsRegistered == Spec => []RegisteredWhileLive
<1>1. RegInv => RegisteredWhileLive
  BY DEF RegInv, LiveInv, RegisteredWhileLive, Stopping
<1>2. RegInv /\ [Next]_vars => RegInv'
  BY RegInvStep
<1>3. QED
  BY RegInit, <1>1, <1>2, PTL DEF Spec

\* From the reply to its start on a running flow has its owner in the registry
\* until an end or a cancel with its id has come, with reused ids too.
THEOREM FlowsOwnedAfterReply == Spec => []OwnedAfterReply
<1>1. RegInv => OwnedAfterReply
  BY DEF RegInv
<1>2. RegInv /\ [Next]_vars => RegInv'
  BY RegInvStep
<1>3. QED
  BY RegInit, <1>1, <1>2, PTL DEF Spec

-----------------------------------------------------------------------------
\* An action handler that cannot go on, since actionCh is full and doneCh open,
\* waits for a flow goroutine that can: it has an action to take, or is on its
\* way to close doneCh (flowcontext.go 124-140, 195-207).
DelivererNotStranded ==
    \A h \in Actions :
        hpc[h] = "deliver" /\ Len(queue[hrun[h]]) >= ActionCap /\ ~Done(hrun[h]) =>
            \/ run[hrun[h]] \in {"working", "leaving", "removed"}
            \/ run[hrun[h]] = "waiting" /\ queue[hrun[h]] # <<>>

\* A goroutine closes doneCh before it is gone, and handlers know only flows
\* that were started.
EndInv ==
    /\ \A s \in Starts : run[s] = "exited" => Done(s)
    /\ \A h \in Handlers : hpc[h] = "deliver" => run[hrun[h]] # "none"

\* Each step keeps it.
LEMMA EndInvStep ==
  ASSUME FlowInv, EndInv, [Next]_vars
  PROVE  EndInv'
<1>1. /\ run \in [Starts -> {"none", "working", "waiting", "leaving", "removed", "exited"}]
      /\ closes \in [Starts -> Nat] /\ hrun \in [Handlers -> Starts \cup {None}]
      /\ hpc \in [Handlers -> {"idle", "lookup", "find", "deliver", "signal", "untrack",
                                "accepted", "notFound", "base", "done"}]
      /\ \A h \in Handlers : hpc[h] \in {"deliver", "signal"} => hrun[h] \in Starts
      /\ \A f \in FlowIds, s \in Starts : flows[f] = s => run[s] # "none"
  <2>1. TypeOK /\ EntryInv
    BY DEF FlowInv
  <2>2. \A f \in FlowIds, s \in Starts : flows[f] = s => run[s] # "none"
    BY <2>1 DEF EntryInv
  <2>3. \A h \in Handlers : hpc[h] \in {"deliver", "signal"} => hrun[h] \in Starts
    BY <2>1 DEF TypeOK
  <2>4. QED
    BY <2>1, <2>2, <2>3 DEF TypeOK
<1>2. ASSUME \A s \in Starts : closes[s] > 0 => closes'[s] > 0,
             \A s \in Starts : run[s] # "none" => run'[s] # "none",
             \A s \in Starts : run'[s] = "exited" => run[s] = "exited" \/ closes'[s] > 0,
             \A h \in Handlers : hpc'[h] = "deliver" => hpc[h] = "deliver" /\ hrun'[h] = hrun[h]
      PROVE  EndInv'
  BY <1>1, <1>2 DEF EndInv, Done
<1>3. ASSUME NEW s \in Starts,
             \/ StartFlow(s) \/ TrackFlow(s) \/ RequestAction(s) \/ TakeAction(s)
             \/ WaitCancelled(s) \/ WaitTimeout(s) \/ Return(s) \/ Remove(s)
      PROVE  EndInv'
  <2>1. UNCHANGED <<closes, hpc, hrun>>
    BY <1>3 DEF StartFlow, TrackFlow, RequestAction, TakeAction, WaitCancelled, WaitTimeout,
       Return, Remove
  <2>2. \E r \in {"working", "waiting", "leaving", "removed"} :
          run' = run \/ run' = [run EXCEPT ![s] = r]
    BY <1>3 DEF StartFlow, TrackFlow, flowVars, RequestAction, TakeAction, WaitCancelled,
       WaitTimeout, Return, Remove
  <2>3. QED
    BY <1>1, <1>2, <2>1, <2>2
<1>4. ASSUME NEW s \in Starts, Exit(s) PROVE EndInv'
  BY <1>1, <1>2, <1>4 DEF Exit, ClosesAfterCancel, Done
<1>5. ASSUME NEW h \in Handlers,
             \/ Arrive(h) \/ LookupOwner(h) \/ Deliver(h) \/ Discard(h) \/ UntrackFlow(h)
      PROVE  EndInv'
  BY <1>1, <1>2, <1>5 DEF Arrive, LookupOwner, Deliver, Discard, UntrackFlow, flowVars
<1>6. ASSUME NEW h \in Handlers, FindFlow(h) PROVE EndInv'
  <2>1. UNCHANGED <<closes, run>>
    BY <1>6 DEF FindFlow, flowVars
  <2>2. hflow[h] \in FlowIds /\ flows[hflow[h]] \in Starts \cup {None}
    BY <1>6 DEF FindFlow, FlowInv, HandlerInv, TypeOK
  <2>3. hpc'[h] = "deliver" => run[hrun'[h]] # "none"
    BY <1>1, <1>6, <2>2 DEF FindFlow
  <2>4. \A g \in Handlers : g # h => hpc'[g] = hpc[g] /\ hrun'[g] = hrun[g]
    BY <1>1, <1>6 DEF FindFlow
  <2>5. QED
    BY <2>1, <2>3, <2>4 DEF EndInv, Done
<1>7. ASSUME NEW h \in Handlers, TakeFlow(h) PROVE EndInv'
  BY <1>1, <1>2, <1>7 DEF TakeFlow, AfterSignal, flowVars
<1>8. ASSUME NEW h \in Handlers, Signal(h) PROVE EndInv'
  BY <1>1, <1>2, <1>8 DEF Signal, AfterSignal, ClosesAfterCancel, Done, flowVars
<1>9. CASE UNCHANGED vars
  BY <1>1, <1>2, <1>9 DEF vars
<1>10. QED
  BY <1>3, <1>4, <1>5, <1>6, <1>7, <1>8, <1>9
  DEF Next, StartStep, FlowStep, HandlerStep, Quiescent

\* No action handler is left behind by a flow that ends, whoever ends it and
\* however full actionCh is, even if flow ids are reused.
THEOREM DeliverersAreReleased == Spec => []DelivererNotStranded
<1>1. Init => EndInv
  BY DEF Init, EndInv
<1>2. FlowInv /\ EndInv => DelivererNotStranded
  <2> SUFFICES ASSUME FlowInv, EndInv, NEW h \in Actions, hpc[h] = "deliver",
                      Len(queue[hrun[h]]) >= ActionCap, ~Done(hrun[h])
               PROVE  \/ run[hrun[h]] \in {"working", "leaving", "removed"}
                      \/ run[hrun[h]] = "waiting" /\ queue[hrun[h]] # <<>>
    BY DEF DelivererNotStranded
  <2>1. h \in Handlers /\ hrun[h] \in Starts
    BY DEF Handlers, FlowInv, TypeOK
  <2>2. run[hrun[h]] \in {"working", "waiting", "leaving", "removed"}
    BY <2>1 DEF EndInv, FlowInv, TypeOK
  <2>3. queue[hrun[h]] # <<>>
    BY FlowConstantsAssumption
  <2>4. QED
    BY <2>2, <2>3
<1>3. FlowInv /\ EndInv /\ [Next]_vars => EndInv'
  BY EndInvStep
<1>4. QED
  BY FlowInit, FlowInvStep, <1>1, <1>2, <1>3, PTL DEF Spec
=============================================================================
