--------------------------- MODULE PeerPairProofs ---------------------------
(* Theorems about PeerPair for any calls, nested to any depth, and any        *)
(* capacity of the links; all but the last for any number of bad messages.    *)
EXTENDS PeerPair, WellFoundedInduction, TLAPS

Request(c) == [type |-> "request", call |-> c]
Response(c) == [type |-> "response", call |-> c]
Own == {[type |-> t, call |-> None] : t \in {"bad", "error"}}
CallOver(c) == cpc[c] \in {"idle", "ok", "failed"}

\* A request is in transit at most once, after it was written and before it is
\* handled.
RequestInv ==
    /\ \A c \in Calls : cpc[c] \in {"idle", "writing"} => hpc[c] = "none"
    /\ \A p \in Peers, c \in Calls : \A i \in 1 .. Len(link[p]) :
         link[p][i] = Request(c) =>
            /\ hpc[c] = "none" /\ cpc[c] \notin {"idle", "writing"}
            /\ \A q \in Peers : \A j \in 1 .. Len(link[q]) :
                 link[q][j] = Request(c) => p = q /\ i = j

\* A response in transit is of a handler that is over.
ResponseInv ==
    /\ \A c \in Calls : cpc[c] = "ok" => hpc[c] = "over"
    /\ \A p \in Peers, c \in Calls : \A i \in 1 .. Len(link[p]) :
         link[p][i] = Response(c) => hpc[c] = "over"

\* A handler that has calls of its own under way waits for them.
HandlerInv ==
    \A c, d \in Calls : hpc[c] # "calling" /\ Parent[d] = c => CallOver(d)

PairInv == TypeOK /\ RequestInv /\ ResponseInv /\ HandlerInv

\* Nothing is under way at the start.
LEMMA PairInit == Init => PairInv
  BY PairConstantsAssumption
  DEF Init, PairInv, TypeOK, RequestInv, ResponseInv, HandlerInv, CallOver

\* Messages differ by their type or their call.
LEMMA MessageKinds ==
  /\ \A c \in Calls : {Request(c), Response(c)} \subseteq Messages
  /\ \A c, d \in Calls :
       /\ Request(c) # Response(d) /\ Request(c) \notin Own /\ Response(c) \notin Own
       /\ Request(c) = Request(d) => c = d
       /\ Response(c) = Response(d) => c = d
  /\ Own \subseteq Messages
  BY DEF Messages, MessageTypes, Request, Response, Own

\* What a write of m does to a link: one message more, at its end.
LEMMA WriteAppends ==
  ASSUME TypeOK, NEW p \in Peers, NEW m \in Messages, Len(link[p]) < Cap,
         link' = [link EXCEPT ![p] = Append(@, m)]
  PROVE  /\ link' \in [Peers -> Seq(Messages)]
         /\ \A q \in Peers : Len(link'[q]) <= Cap
         /\ \A q \in Peers : q # p => link'[q] = link[q]
         /\ Len(link'[p]) = Len(link[p]) + 1
         /\ link'[p][Len(link[p]) + 1] = m
         /\ \A i \in 1 .. Len(link[p]) : link'[p][i] = link[p][i]
<1>1. link[p] \in Seq(Messages)
  BY DEF TypeOK
<1>2. /\ Append(link[p], m) \in Seq(Messages)
      /\ Len(Append(link[p], m)) = Len(link[p]) + 1
      /\ Append(link[p], m)[Len(link[p]) + 1] = m
      /\ \A i \in 1 .. Len(link[p]) : Append(link[p], m)[i] = link[p][i]
  BY <1>1
<1>3. link'[p] = Append(link[p], m) /\ \A q \in Peers : q # p => link'[q] = link[q]
  BY DEF TypeOK
<1>4. link' \in [Peers -> Seq(Messages)]
  BY <1>2 DEF TypeOK
<1>5. \A q \in Peers : Len(link'[q]) <= Cap
  BY <1>1, <1>2, <1>3, PairConstantsAssumption DEF TypeOK
<1>6. QED
  BY <1>2, <1>3, <1>4, <1>5

\* What a read of m does to a link: its first message is gone, the others move
\* up.
LEMMA ReadTakesHead ==
  ASSUME TypeOK, NEW p \in Peers, NEW m, link[p] # <<>>, Head(link[p]) = m,
         link' = [link EXCEPT ![p] = Tail(@)]
  PROVE  /\ link' \in [Peers -> Seq(Messages)]
         /\ \A q \in Peers : Len(link'[q]) <= Cap
         /\ \A q \in Peers : q # p => link'[q] = link[q]
         /\ Len(link[p]) >= 1 /\ Len(link'[p]) = Len(link[p]) - 1
         /\ link[p][1] = m
         /\ \A i \in 1 .. Len(link'[p]) : link'[p][i] = link[p][i + 1]
<1>1. link[p] \in Seq(Messages) /\ Len(link[p]) <= Cap
  BY DEF TypeOK
<1>2. /\ Tail(link[p]) \in Seq(Messages) /\ Len(link[p]) >= 1
      /\ Len(Tail(link[p])) = Len(link[p]) - 1
      /\ Head(link[p]) = link[p][1]
      /\ \A i \in 1 .. Len(Tail(link[p])) : Tail(link[p])[i] = link[p][i + 1]
  BY <1>1
<1>3. link'[p] = Tail(link[p]) /\ \A q \in Peers : q # p => link'[q] = link[q]
  BY DEF TypeOK
<1>4. link' \in [Peers -> Seq(Messages)]
  BY <1>2 DEF TypeOK
<1>5. \A q \in Peers : Len(link'[q]) <= Cap
  BY <1>1, <1>2, <1>3, PairConstantsAssumption DEF TypeOK
<1>6. QED
  BY <1>2, <1>3, <1>4, <1>5

\* Each step of the callers, the Serve loops and the handlers keeps the
\* invariant.
LEMMA PairStep ==
  ASSUME PairInv, [Next]_vars
  PROVE  PairInv'
<1> USE PairConstantsAssumption
      DEF PairInv, TypeOK, RequestInv, ResponseInv, HandlerInv, CallOver
<1>1. ASSUME NEW c \in Calls, Start(c) PROVE PairInv'
  BY <1>1 DEF Start
<1>2. ASSUME NEW c \in Calls, SendRequest(c) PROVE PairInv'
  <2>1. /\ From[c] \in Peers /\ Len(link[From[c]]) < Cap
        /\ link' = [link EXCEPT ![From[c]] = Append(@, Request(c))]
    BY <1>2 DEF SendRequest, Write, Request
  <2>2. TypeOK'
    BY <1>2, <2>1, WriteAppends, MessageKinds DEF SendRequest
  <2>3. RequestInv'
    BY <1>2, <2>1, WriteAppends, MessageKinds DEF SendRequest
  <2>4. ResponseInv' /\ HandlerInv'
    BY <1>2, <2>1, WriteAppends, MessageKinds DEF SendRequest
  <2>5. QED
    BY <2>2, <2>3, <2>4
<1>3. ASSUME NEW c \in Calls, GiveUp(c) PROVE PairInv'
  BY <1>3 DEF GiveUp
<1>4. ASSUME NEW c \in Calls, CallBackReturns(c) PROVE PairInv'
  BY <1>4 DEF CallBackReturns
<1>5. ASSUME NEW c \in Calls, Respond(c) PROVE PairInv'
  BY <1>5 DEF Respond
<1>6. ASSUME NEW c \in Calls, SendResponse(c) PROVE PairInv'
  <2> DEFINE p == Other(From[c])
  <2>1. /\ p \in Peers /\ Len(link[p]) < Cap
        /\ link' = [link EXCEPT ![p] = Append(@, Response(c))]
    BY <1>6 DEF SendResponse, Write, Response, Peers, Other
  <2> HIDE DEF p
  <2>2. TypeOK'
    BY <1>6, <2>1, WriteAppends, MessageKinds DEF SendResponse
  <2>3. RequestInv'
    BY <1>6, <2>1, WriteAppends, MessageKinds DEF SendResponse
  <2>4. ResponseInv' /\ HandlerInv'
    BY <1>6, <2>1, WriteAppends, MessageKinds DEF SendResponse
  <2>5. QED
    BY <2>2, <2>3, <2>4
<1>7. ASSUME NEW c \in Calls, NEW d \in Calls, CallBack(c, d) PROVE PairInv'
  BY <1>7 DEF CallBack
<1>8. ASSUME NEW c \in Calls, NEW p \in Peers, ServeRequest(p, c) PROVE PairInv'
  <2> DEFINE q == Other(p)
  <2>1. /\ q \in Peers /\ link[q] # <<>> /\ Head(link[q]) = Request(c)
        /\ link' = [link EXCEPT ![q] = Tail(@)]
    BY <1>8 DEF ServeRequest, ReadBy, Request, Peers, Other
  <2> HIDE DEF q
  <2>2. TypeOK'
    BY <1>8, <2>1, ReadTakesHead DEF ServeRequest
  <2>3. RequestInv'
    BY <1>8, <2>1, ReadTakesHead, MessageKinds DEF ServeRequest
  <2>4. ResponseInv' /\ HandlerInv'
    BY <1>8, <2>1, ReadTakesHead, MessageKinds DEF ServeRequest
  <2>5. QED
    BY <2>2, <2>3, <2>4
<1>9. ASSUME NEW c \in Calls, NEW p \in Peers, ServeResponse(p, c) PROVE PairInv'
  <2> DEFINE q == Other(p)
  <2>1. /\ q \in Peers /\ link[q] # <<>> /\ Head(link[q]) = Response(c)
        /\ link' = [link EXCEPT ![q] = Tail(@)]
    BY <1>9 DEF ServeResponse, ReadBy, Response, Peers, Other
  <2> HIDE DEF q
  <2>2. TypeOK'
    BY <1>9, <2>1, ReadTakesHead DEF ServeResponse
  <2>3. RequestInv'
    BY <1>9, <2>1, ReadTakesHead DEF ServeResponse
  <2>4. ResponseInv' /\ HandlerInv'
    BY <1>9, <2>1, ReadTakesHead DEF ServeResponse
  <2>5. QED
    BY <2>2, <2>3, <2>4
<1>10. ASSUME NEW p \in Peers, ServeBad(p) \/ ServeError(p) PROVE PairInv'
  <2> DEFINE q == Other(p)
  <2>1. /\ q \in Peers /\ link[q] # <<>>
        /\ link' = [link EXCEPT ![q] = Tail(@)]
    BY <1>10 DEF ServeBad, ServeError, ReadBy, Peers, Other
  <2> HIDE DEF q
  <2>2. TypeOK'
    BY <1>10, <2>1, ReadTakesHead DEF ServeBad, ServeError
  <2>3. RequestInv' /\ ResponseInv' /\ HandlerInv'
    BY <1>10, <2>1, ReadTakesHead DEF ServeBad, ServeError
  <2>4. QED
    BY <2>2, <2>3
<1>11. ASSUME NEW p \in Peers, ServeAnswers(p) \/ SendBad(p) PROVE PairInv'
  <2>1. PICK m \in Own : Len(link[p]) < Cap /\ link' = [link EXCEPT ![p] = Append(@, m)]
    BY <1>11 DEF ServeAnswers, SendBad, Write, Own
  <2>2. link' \in [Peers -> Seq(Messages)] /\ \A q \in Peers : Len(link'[q]) <= Cap
    BY <2>1, WriteAppends, MessageKinds
  <2>3. CASE ServeAnswers(p)
    BY <2>1, <2>2, <2>3, WriteAppends, MessageKinds DEF ServeAnswers
  <2>4. CASE SendBad(p)
    <3>1. bad' \in 0 .. MaxBad /\ UNCHANGED <<serve, cpc, hpc>>
      BY <2>4 DEF SendBad
    <3>2. TypeOK'
      BY <2>2, <3>1
    <3>3. RequestInv' /\ ResponseInv' /\ HandlerInv'
      BY <2>1, <3>1, WriteAppends, MessageKinds
    <3>4. QED
      BY <3>2, <3>3
  <2>5. QED
    BY <1>11, <2>3, <2>4
<1>12. CASE UNCHANGED vars
  BY <1>12 DEF vars
<1>13. QED
  BY <1>1, <1>2, <1>3, <1>4, <1>5, <1>6, <1>7, <1>8, <1>9, <1>10, <1>11, <1>12
  DEF Next, Quiet

\* The links never hold more than their capacity: a write waits for room.
THEOREM PairTyping == Spec => []TypeOK
<1>1. PairInv => TypeOK
  BY DEF PairInv
<1>2. QED
  BY PairInit, PairStep, <1>1, PTL DEF Spec

\* Whatever calls are under way in both directions, one that succeeds was
\* handled, and nothing that its handler called back for is still open.
THEOREM OkWasHandled == Spec => []OkMeansHandled
<1>1. PairInv => OkMeansHandled
  BY DEF PairInv, ResponseInv, HandlerInv, CallOver, OkMeansHandled
<1>2. QED
  BY PairInit, PairStep, <1>1, PTL DEF Spec

\* The handler of a call that is over stays over: no request is delivered to
\* handlers twice (peer.go 195-205).
HandledOnce == [][\A c \in Calls : hpc[c] = "over" => hpc'[c] = "over"]_vars

\* A handler runs at most once for each call.
THEOREM HandlersRunOnce == Spec => HandledOnce
<1> DEFINE Once == \A c \in Calls : hpc[c] = "over" => hpc'[c] = "over"
<1>1. ASSUME PairInv, [Next]_vars PROVE [Once]_vars
  <2> SUFFICES ASSUME Next PROVE Once
    BY <1>1
  <2> USE <1>1 DEF PairInv, TypeOK
  <2>1. ASSUME NEW c \in Calls, NEW p \in Peers, ServeRequest(p, c) PROVE Once
    <3>1. Other(p) \in Peers /\ link[Other(p)] # <<>> /\ Head(link[Other(p)]) = Request(c)
      BY <2>1 DEF ServeRequest, ReadBy, Request, Peers, Other
    <3>2. link[Other(p)] \in Seq(Messages) /\ Len(link[Other(p)]) >= 1
          /\ link[Other(p)][1] = Request(c)
      BY <3>1
    <3>3. hpc[c] = "none"
      BY <3>1, <3>2 DEF RequestInv
    <3>4. QED
      BY <2>1, <3>3 DEF ServeRequest
  <2>2. ASSUME NEW c \in Calls, NEW d \in Calls, CallBack(c, d) PROVE Once
    BY <2>2 DEF CallBack
  <2>3. ASSUME NEW c \in Calls, CallBackReturns(c) \/ Respond(c) \/ SendResponse(c) PROVE Once
    BY <2>3 DEF CallBackReturns, Respond, SendResponse
  <2>4. ASSUME UNCHANGED hpc PROVE Once
    BY <2>4
  <2>5. QED
    BY <2>1, <2>2, <2>3, <2>4 DEF Next, Start, SendRequest, GiveUp, ServeResponse, ServeBad,
       ServeAnswers, ServeError, SendBad, Quiet, vars
<1>2. QED
  BY PairInit, PairStep, <1>1, PTL DEF Spec, HandledOnce

-----------------------------------------------------------------------------
(* The two peers do not wait for each other *)

\* Something is not over yet: a call, the goroutine of a request, an answer of a
\* Serve loop or a message.
UnderWay ==
    \/ \E c \in Calls : cpc[c] \in {"writing", "waiting"}
                        \/ hpc[c] \in {"running", "calling", "writing"}
    \/ \E p \in Peers : serve[p] = "answering" \/ link[p] # <<>>

Readable(m) == m \in Own \/ \E c \in Calls : m \in {Request(c), Response(c)}

\* Some goroutine of the two peers can take its next step: the guards of
\* Progress.
CanGoOn ==
    \/ \E c \in Calls :
         \/ cpc[c] = "writing" /\ Len(link[From[c]]) < Cap
         \/ hpc[c] = "calling" /\ \A d \in Calls : Parent[d] = c => CallOver(d)
         \/ hpc[c] = "running"
         \/ hpc[c] = "writing" /\ Len(link[Other(From[c])]) < Cap
    \/ \E p \in Peers :
         \/ serve[p] = "reading" /\ link[Other(p)] # <<>> /\ Readable(Head(link[Other(p)]))
         \/ serve[p] = "answering" /\ Len(link[p]) < Cap

\* While anything is under way, some goroutine can go on: the callers, the
\* handlers and the Serve loops of the two peers never all wait for room or for
\* each other (peer.go 154-205, 225-298, 527-572).
NeverStuck == UnderWay => CanGoOn

Bad == [type |-> "bad", call |-> None]
OnLink(m) == \E p \in Peers : \E i \in 1 .. Len(link[p]) : link[p][i] = m

\* Serve knows what to do with every message.
ReadableInv == \A p \in Peers : \A i \in 1 .. Len(link[p]) : Readable(link[p][i])

\* The request of a call that waits, or the response to it, is not lost.
WaitInv ==
    \A c \in Calls : cpc[c] = "waiting" =>
        /\ hpc[c] = "none" => OnLink(Request(c))
        /\ hpc[c] = "over" => OnLink(Response(c))

\* One Serve loop at most has an answer to write, to the one message that it
\* could not read.
OneBad ==
    \A p, q \in Peers : \A i \in 1 .. Len(link[p]), j \in 1 .. Len(link[q]) :
        link[p][i] = Bad /\ link[q][j] = Bad => p = q /\ i = j
BadInv ==
    /\ bad = 0 => ~OnLink(Bad) /\ \A p \in Peers : serve[p] = "reading"
    /\ \A p \in Peers : serve[p] = "answering" =>
         ~OnLink(Bad) /\ serve[Other(p)] = "reading"
    /\ OneBad

\* Calls are numbered in the order in which they start: one that a handler makes
\* starts after the call that is handled.
Numbered(n, r) ==
    /\ n \in Nat /\ r \in [Calls -> 0 .. n]
    /\ \A d \in Calls : cpc[d] # "idle" /\ Parent[d] # None =>
         cpc[Parent[d]] # "idle" /\ r[Parent[d]] < r[d]

WaitsInv == ReadableInv /\ WaitInv /\ BadInv /\ \E n, r : Numbered(n, r)

\* A write puts one message on the links ...
LEMMA WritePutsOn ==
  ASSUME TypeOK, NEW p \in Peers, NEW m \in Messages, Len(link[p]) < Cap,
         link' = [link EXCEPT ![p] = Append(@, m)]
  PROVE  \A x : OnLink(x)' <=> OnLink(x) \/ x = m
<1>1. /\ \A q \in Peers : q # p => link'[q] = link[q]
      /\ Len(link[p]) \in Nat /\ Len(link'[p]) = Len(link[p]) + 1
      /\ link'[p][Len(link[p]) + 1] = m
      /\ \A i \in 1 .. Len(link[p]) : link'[p][i] = link[p][i]
  BY WriteAppends DEF TypeOK
<1>2. \A i \in 1 .. Len(link'[p]) : i \in 1 .. Len(link[p]) \/ i = Len(link[p]) + 1
  BY <1>1
<1>3. Len(link[p]) + 1 \in 1 .. Len(link'[p]) /\ 1 .. Len(link[p]) \subseteq 1 .. Len(link'[p])
  BY <1>1
<1>4. QED
  BY <1>1, <1>2, <1>3 DEF OnLink

\* ... and a read takes one off.
LEMMA ReadTakesOff ==
  ASSUME TypeOK, NEW p \in Peers, NEW m, link[p] # <<>>, Head(link[p]) = m,
         link' = [link EXCEPT ![p] = Tail(@)]
  PROVE  /\ OnLink(m)
         /\ \A x : OnLink(x)' => OnLink(x)
         /\ \A x : OnLink(x) /\ x # m => OnLink(x)'
<1>1. /\ \A q \in Peers : q # p => link'[q] = link[q]
      /\ Len(link[p]) \in Nat /\ Len(link[p]) >= 1 /\ Len(link'[p]) = Len(link[p]) - 1
      /\ link[p][1] = m
      /\ \A i \in 1 .. Len(link'[p]) : link'[p][i] = link[p][i + 1]
  BY ReadTakesHead DEF TypeOK
<1>2. \A i \in 1 .. Len(link'[p]) : i + 1 \in 1 .. Len(link[p])
  BY <1>1
<1>3. \A i \in 1 .. Len(link[p]) : i = 1 \/ (i - 1 \in 1 .. Len(link'[p]) /\ (i - 1) + 1 = i)
  BY <1>1
<1>4. 1 \in 1 .. Len(link[p])
  BY <1>1
<1>5. OnLink(m)
  BY <1>1, <1>4 DEF OnLink
<1>6. ASSUME NEW x, OnLink(x)' PROVE OnLink(x)
  BY <1>1, <1>2, <1>6 DEF OnLink
<1>7. ASSUME NEW x, OnLink(x), x # m PROVE OnLink(x)'
  <2>1. PICK q \in Peers : \E i \in 1 .. Len(link[q]) : link[q][i] = x
    BY <1>7 DEF OnLink
  <2>2. CASE q # p
    BY <1>1, <2>1, <2>2 DEF OnLink
  <2>3. CASE q = p
    <3>1. PICK i \in 1 .. Len(link[p]) : link[p][i] = x
      BY <2>1, <2>3
    <3>2. i - 1 \in 1 .. Len(link'[p]) /\ (i - 1) + 1 = i
      BY <1>1, <1>3, <1>7, <3>1
    <3>3. link'[p][i - 1] = x
      BY <1>1, <3>1, <3>2
    <3>4. QED
      BY <3>2, <3>3 DEF OnLink
  <2>4. QED
    BY <2>2, <2>3
<1>8. QED
  BY <1>5, <1>6, <1>7

\* A step writes one message, reads one or leaves the links alone.
LEMMA LinkSteps ==
  ASSUME PairInv, Next
  PROVE  \/ UNCHANGED link
         \/ \E p \in Peers, m \in Messages :
              /\ Readable(m) /\ Len(link[p]) < Cap
              /\ link' = [link EXCEPT ![p] = Append(@, m)]
         \/ \E p \in Peers : link[p] # <<>> /\ link' = [link EXCEPT ![p] = Tail(@)]
<1>1. ASSUME NEW c \in Calls, SendRequest(c) \/ SendResponse(c)
      PROVE  \E p \in Peers, m \in Messages :
               /\ Readable(m) /\ Len(link[p]) < Cap
               /\ link' = [link EXCEPT ![p] = Append(@, m)]
  <2>1. From[c] \in Peers /\ Other(From[c]) \in Peers
    BY PairConstantsAssumption DEF Peers, Other
  <2>2. Request(c) \in Messages /\ Response(c) \in Messages
    BY MessageKinds
  <2>3. Readable(Request(c)) /\ Readable(Response(c))
    BY DEF Readable
  <2>4. QED
    BY <1>1, <2>1, <2>2, <2>3 DEF SendRequest, SendResponse, Write, Request, Response
<1>2. ASSUME NEW p \in Peers, ServeAnswers(p) \/ SendBad(p)
      PROVE  \E m \in Messages :
               /\ Readable(m) /\ Len(link[p]) < Cap
               /\ link' = [link EXCEPT ![p] = Append(@, m)]
  <2>1. PICK m \in Own : Len(link[p]) < Cap /\ link' = [link EXCEPT ![p] = Append(@, m)]
    BY <1>2 DEF ServeAnswers, SendBad, Write, Own
  <2>2. QED
    BY <2>1, MessageKinds DEF Readable
<1>3. ASSUME NEW q \in Peers, NEW type, NEW c, ReadBy(q, type, c)
      PROVE  \E p \in Peers : link[p] # <<>> /\ link' = [link EXCEPT ![p] = Tail(@)]
  BY <1>3 DEF ReadBy, Peers, Other
<1>4. QED
  BY <1>1, <1>2, <1>3 DEF Next, Start, GiveUp, CallBackReturns, Respond, CallBack, ServeRequest,
     ServeResponse, ServeBad, ServeError, Quiet, vars

\* Only such messages are written.
LEMMA ReadableStep ==
  ASSUME PairInv, ReadableInv, Next
  PROVE  ReadableInv'
<1>1. TypeOK
  BY DEF PairInv
<1>2. \A x : OnLink(x) => Readable(x)
  BY DEF ReadableInv, OnLink
<1>3. ASSUME \A x : OnLink(x)' => Readable(x) PROVE ReadableInv'
  BY <1>3 DEF ReadableInv, OnLink, Readable
<1>4. CASE UNCHANGED link
  BY <1>2, <1>3, <1>4 DEF OnLink
<1>5. ASSUME NEW p \in Peers, NEW m \in Messages, Readable(m), Len(link[p]) < Cap,
             link' = [link EXCEPT ![p] = Append(@, m)]
      PROVE  ReadableInv'
  <2>1. \A x : OnLink(x)' <=> OnLink(x) \/ x = m
    BY <1>1, <1>5, WritePutsOn
  <2>2. QED
    BY <1>2, <1>3, <1>5, <2>1
<1>6. ASSUME NEW p \in Peers, link[p] # <<>>, link' = [link EXCEPT ![p] = Tail(@)]
      PROVE  ReadableInv'
  <2>1. \A x : OnLink(x)' => OnLink(x)
    BY <1>1, <1>6, ReadTakesOff
  <2>2. QED
    BY <1>2, <1>3, <2>1
<1>7. QED
  BY <1>4, <1>5, <1>6, LinkSteps

\* A call that waits keeps its request or its response.
LEMMA WaitStep ==
  ASSUME PairInv, WaitInv, Next
  PROVE  WaitInv'
<1>1. /\ TypeOK /\ cpc \in [Calls -> {"idle", "writing", "waiting", "ok", "failed"}]
      /\ hpc \in [Calls -> {"none", "running", "calling", "writing", "over"}]
  BY DEF PairInv, TypeOK
<1>2. ASSUME UNCHANGED link, \A c \in Calls : cpc'[c] = "waiting" => cpc[c] = "waiting",
             \A c \in Calls : hpc'[c] \in {"none", "over"} => hpc'[c] = hpc[c]
      PROVE  WaitInv'
  BY <1>2 DEF WaitInv, OnLink
<1>3. ASSUME NEW c \in Calls, \/ Start(c) \/ GiveUp(c) \/ CallBackReturns(c) \/ Respond(c)
                              \/ \E d \in Calls : CallBack(c, d)
      PROVE  WaitInv'
  BY <1>1, <1>2, <1>3 DEF Start, GiveUp, CallBackReturns, Respond, CallBack
<1>4. ASSUME NEW c \in Calls, SendRequest(c) PROVE WaitInv'
  <2>1. /\ From[c] \in Peers /\ Request(c) \in Messages /\ Len(link[From[c]]) < Cap
        /\ link' = [link EXCEPT ![From[c]] = Append(@, Request(c))]
    BY <1>4, PairConstantsAssumption, MessageKinds DEF SendRequest, Write, Request
  <2>2. \A x : OnLink(x)' <=> OnLink(x) \/ x = Request(c)
    BY <1>1, <2>1, WritePutsOn
  <2>3. hpc' = hpc /\ hpc[c] = "none" /\ cpc' = [cpc EXCEPT ![c] = "waiting"]
    BY <1>4 DEF SendRequest, PairInv, RequestInv
  <2>4. QED
    BY <1>1, <2>2, <2>3 DEF WaitInv
<1>5. ASSUME NEW c \in Calls, SendResponse(c) PROVE WaitInv'
  <2> DEFINE q == Other(From[c])
  <2>1. /\ q \in Peers /\ Response(c) \in Messages /\ Len(link[q]) < Cap
        /\ link' = [link EXCEPT ![q] = Append(@, Response(c))]
    BY <1>5, MessageKinds DEF SendResponse, Write, Response, Peers, Other
  <2>2. \A x : OnLink(x)' <=> OnLink(x) \/ x = Response(c)
    BY <1>1, <2>1, WritePutsOn
  <2>3. cpc' = cpc /\ hpc' = [hpc EXCEPT ![c] = "over"]
    BY <1>5 DEF SendResponse
  <2>4. QED
    BY <1>1, <2>2, <2>3 DEF WaitInv
<1>6. ASSUME NEW c \in Calls, NEW p \in Peers, ServeRequest(p, c) PROVE WaitInv'
  <2> DEFINE q == Other(p)
  <2>1. /\ q \in Peers /\ link[q] # <<>> /\ Head(link[q]) = Request(c)
        /\ link' = [link EXCEPT ![q] = Tail(@)]
    BY <1>6 DEF ServeRequest, ReadBy, Request, Peers, Other
  <2>2. \A x : OnLink(x) /\ x # Request(c) => OnLink(x)'
    BY <1>1, <2>1, ReadTakesOff
  <2>3. cpc' = cpc /\ hpc' = [hpc EXCEPT ![c] = "running"]
    BY <1>6 DEF ServeRequest
  <2>4. QED
    BY <1>1, <2>2, <2>3, MessageKinds DEF WaitInv
<1>7. ASSUME NEW c \in Calls, NEW p \in Peers, ServeResponse(p, c) PROVE WaitInv'
  <2> DEFINE q == Other(p)
  <2>1. /\ q \in Peers /\ link[q] # <<>> /\ Head(link[q]) = Response(c)
        /\ link' = [link EXCEPT ![q] = Tail(@)]
    BY <1>7 DEF ServeResponse, ReadBy, Response, Peers, Other
  <2>2. \A x : OnLink(x) /\ x # Response(c) => OnLink(x)'
    BY <1>1, <2>1, ReadTakesOff
  <2>3. /\ hpc' = hpc /\ cpc'[c] # "waiting"
        /\ \A d \in Calls : d # c => cpc'[d] = cpc[d]
    BY <1>1, <1>7 DEF ServeResponse
  <2>4. QED
    BY <1>1, <2>2, <2>3, MessageKinds DEF WaitInv
<1>8. ASSUME NEW p \in Peers, ServeBad(p) \/ ServeError(p) PROVE WaitInv'
  <2> DEFINE q == Other(p)
  <2>1. PICK m \in Own : /\ q \in Peers /\ link[q] # <<>> /\ Head(link[q]) = m
                         /\ link' = [link EXCEPT ![q] = Tail(@)]
    BY <1>8 DEF ServeBad, ServeError, ReadBy, Own, Peers, Other
  <2>2. \A x : OnLink(x) /\ x # m => OnLink(x)'
    BY <1>1, <2>1, ReadTakesOff
  <2>3. cpc' = cpc /\ hpc' = hpc
    BY <1>8 DEF ServeBad, ServeError
  <2>4. QED
    BY <2>2, <2>3, MessageKinds DEF WaitInv
<1>9. ASSUME NEW p \in Peers, ServeAnswers(p) \/ SendBad(p) PROVE WaitInv'
  <2>1. PICK m \in Own : Len(link[p]) < Cap /\ link' = [link EXCEPT ![p] = Append(@, m)]
    BY <1>9 DEF ServeAnswers, SendBad, Write, Own
  <2>2. \A x : OnLink(x) => OnLink(x)'
    BY <1>1, <2>1, WritePutsOn, MessageKinds
  <2>3. cpc' = cpc /\ hpc' = hpc
    BY <1>9 DEF ServeAnswers, SendBad
  <2>4. QED
    BY <2>2, <2>3 DEF WaitInv
<1>10. CASE Quiet
  BY <1>2, <1>10 DEF Quiet, vars
<1>11. QED
  BY <1>3, <1>4, <1>5, <1>6, <1>7, <1>8, <1>9, <1>10 DEF Next

\* A bad message that is written is the only one, if none was on the links ...
LEMMA BadWritten ==
  ASSUME TypeOK, OneBad, NEW p \in Peers, NEW m \in Messages, Len(link[p]) < Cap,
         link' = [link EXCEPT ![p] = Append(@, m)], m = Bad => ~OnLink(Bad)
  PROVE  OneBad'
<1>1. /\ \A q \in Peers : q # p => link'[q] = link[q]
      /\ Len(link[p]) \in Nat /\ Len(link'[p]) = Len(link[p]) + 1
      /\ link'[p][Len(link[p]) + 1] = m
      /\ \A i \in 1 .. Len(link[p]) : link'[p][i] = link[p][i]
  BY WriteAppends DEF TypeOK
<1>2. \A i \in 1 .. Len(link'[p]) : i \in 1 .. Len(link[p]) \/ i = Len(link[p]) + 1
  BY <1>1
<1>3. CASE m = Bad
  <2>1. \A q \in Peers : \A i \in 1 .. Len(link'[q]) :
           link'[q][i] = Bad => q = p /\ i = Len(link[p]) + 1
    BY <1>1, <1>2, <1>3 DEF OnLink
  <2>2. QED
    BY <2>1 DEF OneBad
<1>4. CASE m # Bad
  <2>1. \A q \in Peers : \A i \in 1 .. Len(link'[q]) :
           link'[q][i] = Bad => i \in 1 .. Len(link[q]) /\ link[q][i] = Bad
    BY <1>1, <1>2, <1>4
  <2>2. QED
    BY <2>1 DEF OneBad
<1>5. QED
  BY <1>3, <1>4

\* ... and none is left once it was read.
LEMMA BadRead ==
  ASSUME TypeOK, OneBad, NEW p \in Peers, NEW m, link[p] # <<>>, Head(link[p]) = m,
         link' = [link EXCEPT ![p] = Tail(@)]
  PROVE  OneBad' /\ (m = Bad => ~OnLink(Bad)')
<1>1. /\ \A q \in Peers : q # p => link'[q] = link[q]
      /\ Len(link[p]) \in Nat /\ Len(link[p]) >= 1 /\ Len(link'[p]) = Len(link[p]) - 1
      /\ link[p][1] = m
      /\ \A i \in 1 .. Len(link'[p]) : link'[p][i] = link[p][i + 1]
  BY ReadTakesHead DEF TypeOK
<1>2. \A i \in 1 .. Len(link'[p]) : i \in Nat /\ i + 1 \in 1 .. Len(link[p]) /\ i + 1 # 1
  BY <1>1
<1>3. 1 \in 1 .. Len(link[p])
  BY <1>1
<1>4. ASSUME NEW q \in Peers, NEW r \in Peers, NEW i \in 1 .. Len(link'[q]),
             NEW j \in 1 .. Len(link'[r]), link'[q][i] = Bad, link'[r][j] = Bad
      PROVE  q = r /\ i = j
  <2>1. PICK k \in 1 .. Len(link[q]) : link[q][k] = Bad /\ k = IF q = p THEN i + 1 ELSE i
    BY <1>1, <1>2, <1>4
  <2>2. PICK l \in 1 .. Len(link[r]) : link[r][l] = Bad /\ l = IF r = p THEN j + 1 ELSE j
    BY <1>1, <1>2, <1>4
  <2>3. q = r /\ k = l
    BY <2>1, <2>2 DEF OneBad
  <2>4. QED
    BY <2>1, <2>2, <2>3
<1>5. ASSUME m = Bad, NEW q \in Peers, NEW i \in 1 .. Len(link'[q]), link'[q][i] = Bad
      PROVE  FALSE
  <2>1. PICK k \in 1 .. Len(link[q]) : link[q][k] = Bad /\ k = IF q = p THEN i + 1 ELSE i
    BY <1>1, <1>2, <1>5
  <2>2. q = p /\ k = 1
    BY <1>1, <1>3, <1>5, <2>1 DEF OneBad
  <2>3. QED
    BY <1>2, <2>1, <2>2
<1>6. QED
  BY <1>4, <1>5 DEF OneBad, OnLink

\* With one bad message at most, one loop at most has to answer.
LEMMA BadStep ==
  ASSUME MaxBad <= 1, PairInv, BadInv, Next
  PROVE  BadInv'
<1>1. /\ TypeOK /\ serve \in [Peers -> {"reading", "answering"}] /\ bad \in 0 .. MaxBad
      /\ \A p \in Peers : Other(p) \in Peers /\ Other(p) # p
  BY PairConstantsAssumption DEF PairInv, TypeOK, Peers, Other
<1>2. \A c \in Calls : Request(c) # Bad /\ Response(c) # Bad
  BY DEF Request, Response, Bad
<1>3. ASSUME UNCHANGED <<link, serve, bad>> PROVE BadInv'
  BY <1>3 DEF BadInv, OneBad, OnLink
<1>4. ASSUME NEW c \in Calls, \/ Start(c) \/ GiveUp(c) \/ CallBackReturns(c) \/ Respond(c)
                              \/ \E d \in Calls : CallBack(c, d)
      PROVE  BadInv'
  BY <1>3, <1>4 DEF Start, GiveUp, CallBackReturns, Respond, CallBack
<1>5. ASSUME NEW c \in Calls, SendRequest(c) \/ SendResponse(c) PROVE BadInv'
  <2>1. PICK q \in Peers, m \in Messages :
           /\ m # Bad /\ Len(link[q]) < Cap /\ link' = [link EXCEPT ![q] = Append(@, m)]
    <3>1. From[c] \in Peers /\ Other(From[c]) \in Peers
      BY PairConstantsAssumption DEF Peers, Other
    <3>2. QED
      BY <1>2, <1>5, <3>1, MessageKinds
      DEF SendRequest, SendResponse, Write, Request, Response
  <2>2. OnLink(Bad)' <=> OnLink(Bad)
    BY <1>1, <2>1, WritePutsOn
  <2>3. OneBad'
    BY <1>1, <2>1, BadWritten DEF BadInv
  <2>4. UNCHANGED <<serve, bad>>
    BY <1>5 DEF SendRequest, SendResponse
  <2>5. QED
    BY <2>2, <2>3, <2>4 DEF BadInv
<1>6. ASSUME NEW c \in Calls, NEW p \in Peers, ServeRequest(p, c) \/ ServeResponse(p, c)
      PROVE  BadInv'
  <2>1. PICK q \in Peers : link[q] # <<>> /\ link' = [link EXCEPT ![q] = Tail(@)]
    BY <1>1, <1>6 DEF ServeRequest, ServeResponse, ReadBy
  <2>2. OnLink(Bad)' => OnLink(Bad)
    BY <1>1, <2>1, ReadTakesOff
  <2>3. OneBad'
    BY <1>1, <2>1, BadRead DEF BadInv
  <2>4. UNCHANGED <<serve, bad>>
    BY <1>6 DEF ServeRequest, ServeResponse
  <2>5. QED
    BY <2>2, <2>3, <2>4 DEF BadInv
<1>7. ASSUME NEW p \in Peers, ServeError(p) PROVE BadInv'
  <2>1. PICK q \in Peers : link[q] # <<>> /\ link' = [link EXCEPT ![q] = Tail(@)]
    BY <1>1, <1>7 DEF ServeError, ReadBy
  <2>2. OnLink(Bad)' => OnLink(Bad)
    BY <1>1, <2>1, ReadTakesOff
  <2>3. OneBad'
    BY <1>1, <2>1, BadRead DEF BadInv
  <2>4. UNCHANGED <<serve, bad>>
    BY <1>7 DEF ServeError
  <2>5. QED
    BY <2>2, <2>3, <2>4 DEF BadInv
<1>8. ASSUME NEW p \in Peers, ServeBad(p) PROVE BadInv'
  <2> DEFINE q == Other(p)
  <2>1. /\ q \in Peers /\ link[q] # <<>> /\ Head(link[q]) = Bad
        /\ link' = [link EXCEPT ![q] = Tail(@)]
    BY <1>1, <1>8 DEF ServeBad, ReadBy, Bad
  <2>2. OnLink(Bad)
    BY <1>1, <2>1, ReadTakesOff
  <2>3. OneBad' /\ ~OnLink(Bad)'
    BY <1>1, <2>1, BadRead DEF BadInv
  <2>4. bad # 0 /\ \A r \in Peers : serve[r] = "reading"
    BY <1>1, <2>2 DEF BadInv
  <2>5. bad' = bad /\ serve' = [serve EXCEPT ![p] = "answering"]
    BY <1>8 DEF ServeBad
  <2>6. QED
    BY <1>1, <2>3, <2>4, <2>5 DEF BadInv
<1>9. ASSUME NEW p \in Peers, ServeAnswers(p) PROVE BadInv'
  <2> DEFINE m == [type |-> "error", call |-> None]
  <2>1. m # Bad /\ m \in Messages
    BY DEF Bad, Messages, MessageTypes
  <2>2. Len(link[p]) < Cap /\ link' = [link EXCEPT ![p] = Append(@, m)]
    BY <1>9 DEF ServeAnswers, Write
  <2> HIDE DEF m
  <2>3. OnLink(Bad)' <=> OnLink(Bad)
    BY <1>1, <2>1, <2>2, WritePutsOn
  <2>4. OneBad'
    BY <1>1, <2>1, <2>2, BadWritten DEF BadInv
  <2>5. bad' = bad /\ serve[p] = "answering" /\ serve' = [serve EXCEPT ![p] = "reading"]
    BY <1>9 DEF ServeAnswers
  <2>6. QED
    BY <1>1, <2>3, <2>4, <2>5 DEF BadInv
<1>10. ASSUME NEW p \in Peers, SendBad(p) PROVE BadInv'
  <2>1. Bad \in Messages
    BY DEF Bad, Messages, MessageTypes
  <2>2. Len(link[p]) < Cap /\ link' = [link EXCEPT ![p] = Append(@, Bad)]
    BY <1>10 DEF SendBad, Write, Bad
  <2>3. bad = 0 /\ bad' = 1 /\ serve' = serve
    BY <1>1, <1>10, PairConstantsAssumption DEF SendBad
  <2>4. ~OnLink(Bad) /\ \A r \in Peers : serve[r] = "reading"
    BY <2>3 DEF BadInv
  <2>5. OneBad'
    BY <1>1, <2>1, <2>2, <2>4, BadWritten DEF BadInv
  <2>6. QED
    BY <2>3, <2>4, <2>5 DEF BadInv
<1>11. CASE Quiet
  BY <1>3, <1>11 DEF Quiet, vars
<1>12. QED
  BY <1>4, <1>5, <1>6, <1>7, <1>8, <1>9, <1>10, <1>11 DEF Next

\* A call that starts gets the next number.
LEMMA NumberStep ==
  ASSUME PairInv, NEW n, NEW r, Numbered(n, r), Next
  PROVE  \E k, s : Numbered(k, s)'
<1>1. /\ cpc \in [Calls -> {"idle", "writing", "waiting", "ok", "failed"}]
      /\ \A c \in Calls : cpc[c] \in {"idle", "writing"} => hpc[c] = "none"
  BY DEF PairInv, TypeOK, RequestInv
<1>2. ASSUME \A c \in Calls : Parent[c] # None => (cpc'[c] # "idle" <=> cpc[c] # "idle"),
             \A c \in Calls : cpc[c] # "idle" => cpc'[c] # "idle"
      PROVE  Numbered(n, r)'
  BY <1>2, PairConstantsAssumption DEF Numbered
<1>3. ASSUME NEW c \in Calls, NEW d \in Calls, CallBack(c, d) PROVE \E k, s : Numbered(k, s)'
  <2>1. /\ Parent[d] = c /\ cpc[d] = "idle" /\ cpc[c] # "idle"
        /\ cpc' = [cpc EXCEPT ![d] = "writing"]
    BY <1>1, <1>3 DEF CallBack
  <2>2. n \in Nat /\ r \in [Calls -> 0 .. n]
    BY DEF Numbered
  <2>3. PICK s : s = [r EXCEPT ![d] = n + 1]
    OBVIOUS
  <2>4. s \in [Calls -> 0 .. n + 1]
    BY <2>2, <2>3
  <2>5. ASSUME NEW e \in Calls, cpc'[e] # "idle", Parent[e] # None
        PROVE  cpc'[Parent[e]] # "idle" /\ s[Parent[e]] < s[e]
    <3>1. CASE e = d
      BY <1>1, <2>1, <2>2, <2>3, <3>1
    <3>2. CASE e # d
      <4>1. cpc[e] # "idle" /\ Parent[e] \in Calls
        BY <1>1, <2>1, <2>5, <3>2, PairConstantsAssumption
      <4>2. cpc[Parent[e]] # "idle" /\ r[Parent[e]] < r[e]
        BY <2>5, <4>1 DEF Numbered
      <4>3. Parent[e] # d
        BY <2>1, <4>2
      <4>4. QED
        BY <1>1, <2>1, <2>2, <2>3, <3>2, <4>1, <4>2, <4>3
    <3>3. QED
      BY <3>1, <3>2
  <2>6. n + 1 \in Nat
    BY <2>2
  <2>7. \A k : k = n + 1 => Numbered(k, s)'
    BY <2>4, <2>5, <2>6 DEF Numbered
  <2>8. QED
    BY <2>7
<1>4. ASSUME NEW c \in Calls, Start(c) \/ SendRequest(c) \/ GiveUp(c) PROVE Numbered(n, r)'
  BY <1>1, <1>2, <1>4 DEF Start, SendRequest, GiveUp
<1>5. ASSUME NEW c \in Calls, NEW p \in Peers, ServeResponse(p, c) PROVE Numbered(n, r)'
  BY <1>1, <1>2, <1>5 DEF ServeResponse
<1>6. ASSUME cpc' = cpc PROVE Numbered(n, r)'
  BY <1>2, <1>6
<1>7. QED
  BY <1>3, <1>4, <1>5, <1>6 DEF Next, CallBackReturns, Respond, SendResponse, ServeRequest,
     ServeBad, ServeAnswers, ServeError, SendBad, Quiet, vars

\* A peer that could not go on would wait for a call of its own, and the last
\* such call would wait for nothing.
LEMMA NotStuck ==
  ASSUME PairInv, WaitsInv
  PROVE  NeverStuck
<1> SUFFICES ASSUME UnderWay, ~CanGoOn PROVE FALSE
  BY DEF NeverStuck
<1>1. /\ link \in [Peers -> Seq(Messages)] /\ serve \in [Peers -> {"reading", "answering"}]
      /\ cpc \in [Calls -> {"idle", "writing", "waiting", "ok", "failed"}]
      /\ hpc \in [Calls -> {"none", "running", "calling", "writing", "over"}]
  BY DEF PairInv, TypeOK
<1>2. \A p \in Peers : Other(p) \in Peers /\ Other(Other(p)) = p
  BY PairConstantsAssumption DEF Peers, Other
<1>3. \A p \in Peers : serve[p] = "reading" => link[Other(p)] = <<>>
  <2> SUFFICES ASSUME NEW p \in Peers, serve[p] = "reading", link[Other(p)] # <<>>
               PROVE  FALSE
    OBVIOUS
  <2> DEFINE l == link[Other(p)]
  <2>1. l \in Seq(Messages) /\ l # <<>>
    BY <1>1, <1>2
  <2>2. Len(l) >= 1 /\ Head(l) = l[1] /\ 1 \in 1 .. Len(l)
    BY <2>1
  <2>3. Readable(Head(l))
    BY <1>2, <2>2 DEF WaitsInv, ReadableInv
  <2>4. QED
    BY <2>3 DEF CanGoOn
<1>4. \A p \in Peers : link[p] = <<>> => Len(link[p]) < Cap
  BY PairConstantsAssumption
<1>5. \A p \in Peers : serve[p] = "reading"
  <2> SUFFICES ASSUME NEW p \in Peers, serve[p] = "answering" PROVE FALSE
    BY <1>1
  <2>1. serve[Other(p)] = "reading"
    BY DEF WaitsInv, BadInv
  <2>2. link[p] = <<>>
    BY <1>2, <1>3, <2>1
  <2>3. QED
    BY <1>4, <2>2 DEF CanGoOn
<1>6. \A p \in Peers : link[p] = <<>> /\ Len(link[p]) < Cap
  BY <1>2, <1>3, <1>4, <1>5
<1>7. \A c \in Calls : cpc[c] # "writing" /\ hpc[c] \in {"none", "calling", "over"}
  <2>1. \A c \in Calls : From[c] \in Peers
    BY PairConstantsAssumption
  <2>2. QED
    BY <1>1, <1>2, <1>6, <2>1 DEF CanGoOn
<1>8. \A m : ~OnLink(m)
  <2>1. \A p \in Peers : Len(link[p]) = 0
    BY <1>6
  <2>2. QED
    BY <2>1 DEF OnLink
<1>9. \A c \in Calls : cpc[c] = "waiting" => hpc[c] = "calling"
  BY <1>7, <1>8 DEF WaitsInv, WaitInv
<1>10. \A c \in Calls : hpc[c] = "calling" =>
          \E d \in Calls : Parent[d] = c /\ cpc[d] = "waiting"
  BY <1>1, <1>7 DEF CanGoOn, CallOver
<1>11. PICK n, r : Numbered(n, r)
  BY DEF WaitsInv
<1>12. n \in Nat /\ r \in [Calls -> 0 .. n]
  BY <1>11 DEF Numbered
<1> DEFINE Less == OpToRel(<, Nat)
           Waiting == {c \in Calls : cpc[c] = "waiting"}
           After == {n - r[c] : c \in Waiting}
<1>13. Waiting # {}
  BY <1>5, <1>6, <1>7, <1>10 DEF UnderWay
<1>14. After # {} /\ After \subseteq Nat
  BY <1>12, <1>13
<1>15. IsWellFoundedOn(Less, Nat)
  BY NatLessThanWellFounded
<1>16. \A x, y \in Nat : x < y => <<x, y>> \in Less
  BY DEF OpToRel
<1> HIDE DEF Less
<1>17. PICK x \in After : \A y \in After : <<y, x>> \notin Less
  <2> HIDE DEF After
  <2>1. QED
    BY <1>14, <1>15, WFMin
<1>18. PICK c \in Waiting : x = n - r[c]
  BY <1>17
<1>19. PICK d \in Waiting : Parent[d] = c
  BY <1>9, <1>10, <1>18
<1>20. c \in Calls /\ d \in Calls /\ r[c] < r[d]
  BY <1>11, <1>18, <1>19, PairConstantsAssumption DEF Numbered
<1>21. n - r[d] \in After /\ n - r[d] < n - r[c]
  BY <1>12, <1>19, <1>20
<1>22. QED
  BY <1>14, <1>16, <1>17, <1>18, <1>21

\* While one message at most has to be answered by a Serve loop itself, two peers
\* that call each other never block one another: whatever the number of calls in
\* both directions, the depth to which their handlers call back and the capacity
\* of the links, some goroutine can go on until nothing is under way (peer.go
\* 154-205, 225-298, 527-572, httpsse.go 424-427).
THEOREM NobodyWaitsForEver == ASSUME MaxBad <= 1 PROVE Spec => []NeverStuck
<1>1. Init => WaitsInv
  <2> SUFFICES ASSUME Init PROVE WaitsInv
    OBVIOUS
  <2>1. /\ \A p \in Peers : link[p] = <<>> /\ serve[p] = "reading"
        /\ \A c \in Calls : cpc[c] = "idle"
    BY DEF Init
  <2>2. \A p \in Peers : Len(link[p]) = 0 /\ 1 .. Len(link[p]) = {}
    BY <2>1
  <2>3. ReadableInv /\ WaitInv /\ BadInv
    BY <2>1, <2>2 DEF ReadableInv, WaitInv, BadInv, OneBad, OnLink
  <2>4. [c \in Calls |-> 0] \in [Calls -> 0 .. 0] /\ 0 \in Nat
    OBVIOUS
  <2>5. Numbered(0, [c \in Calls |-> 0])
    BY <2>1, <2>4 DEF Numbered
  <2>6. QED
    BY <2>3, <2>5 DEF WaitsInv
<1>2. ASSUME PairInv, WaitsInv, [Next]_vars PROVE WaitsInv'
  <2>1. CASE UNCHANGED vars
    <3>1. UNCHANGED <<link, serve, cpc, hpc, bad>>
      BY <2>1 DEF vars
    <3>2. PICK n, r : Numbered(n, r)
      BY <1>2 DEF WaitsInv
    <3>3. Numbered(n, r)'
      BY <3>1, <3>2 DEF Numbered
    <3>4. ReadableInv' /\ WaitInv' /\ BadInv'
      BY <1>2, <3>1, SMTT(40)
      DEF WaitsInv, ReadableInv, WaitInv, BadInv, OneBad, OnLink, Readable
    <3>5. QED
      BY <3>3, <3>4 DEF WaitsInv
  <2>2. CASE Next
    <3>1. ReadableInv' /\ WaitInv' /\ BadInv'
      BY <1>2, <2>2, ReadableStep, WaitStep, BadStep DEF WaitsInv
    <3>2. PICK n, r : Numbered(n, r)
      BY <1>2 DEF WaitsInv
    <3>3. \E k, s : Numbered(k, s)'
      BY <1>2, <2>2, <3>2, NumberStep
    <3>4. QED
      BY <3>1, <3>3 DEF WaitsInv
  <2>3. QED
    BY <1>2, <2>1, <2>2
<1>3. PairInv /\ WaitsInv => NeverStuck
  BY NotStuck
<1>4. QED
  BY PairInit, PairStep, <1>1, <1>2, <1>3, PTL DEF Spec
=============================================================================
