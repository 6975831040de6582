-------------------------- MODULE SseStreamProofs --------------------------
(* Theorems about SseStream, for any number of connections and of messages    *)
(* and any sizes of the channel and of the event buffer.                      *)
EXTENDS SseStream, FiniteSetTheorems, SequenceTheorems, TLAPS

-----------------------------------------------------------------------------
(* The inductive invariant *)

Holding == {c \in Conns : hpc[c] = "holding"}

\* The buffer holds the last events, without a gap.
BufferInv ==
    /\ IsFiniteSet(Holding)
    /\ Len(events) = IF nextID <= MaxEvents THEN nextID ELSE MaxEvents
    /\ \A i \in 1 .. Len(events) : events[i] = nextID - Len(events) + i

\* Only the connection that the client reads from is whole and carries events.
\* Until its handler has done the replay it carries none, and the client has
\* not received any more than it has told the handler.
ConnInv ==
    /\ \A c \in Conns : hpc[c] = "idle" => c \notin broken
    /\ \A c \in Conns : c # cur => wire[c] = <<>> /\ (hpc[c] # "idle" => c \in broken)
    /\ cur # None =>
         /\ cur \notin broken /\ hpc[cur] # "idle"
         /\ hpc[cur] = "replay" => hdr[cur] = lastID /\ wire[cur] = <<>>

\* lastEventID is the id of the last event that the client has received.
ClientOk ==
    /\ EventsInOrder
    /\ lastID = IF received = <<>> THEN 0 ELSE received[Len(received)]
    /\ lastID <= nextID

\* What is on its way to the client grows, and is newer than what it has.
WireOk(c) ==
    /\ \A i \in 1 .. Len(wire[c]) : lastID < wire[c][i] /\ wire[c][i] <= nextID
    /\ \A i, j \in 1 .. Len(wire[c]) : i < j => wire[c][i] < wire[c][j]
    /\ hpc[c] = "writing" =>
         /\ hid[c] \in 1 .. nextID
         /\ \A i \in 1 .. Len(wire[c]) : wire[c][i] < hid[c]
         /\ c = cur => lastID < hid[c]

OrderInv == ClientOk /\ \A c \in Conns : WireOk(c)

\* The last event that the client has or that is on the wire to it, and the last
\* one that the handler has taken for it; 0 if there is none.
Sent(c) == IF wire[c] = <<>> THEN lastID ELSE wire[c][Len(wire[c])]
Top(c) == IF hpc[c] = "writing" THEN hid[c] ELSE Sent(c)

\* The events between m and n are orphaned.
Skipped(m, n) == m + 1 .. n - 1 \subseteq orphaned

ReceivedOk == \A i \in 1 .. Len(received) - 1 : Skipped(received[i], received[i + 1])

\* Once the replay is done, only orphaned events are missing: between those
\* received and those on the wire, among those on the wire, before the one that
\* is being written and after it.
FlightOk ==
    cur # None /\ hpc[cur] # "replay" =>
        /\ wire[cur] # <<>> /\ lastID # 0 => Skipped(lastID, wire[cur][1])
        /\ \A i \in 1 .. Len(wire[cur]) - 1 : Skipped(wire[cur][i], wire[cur][i + 1])
        /\ hpc[cur] = "writing" /\ Sent(cur) # 0 => Skipped(Sent(cur), hid[cur])
        /\ Top(cur) # 0 => Skipped(Top(cur), nextID + 1)

GapInv == nextID <= MaxEvents => ReceivedOk /\ FlightOk

Inv == TypeOK /\ BufferInv /\ ConnInv /\ OrderInv /\ GapInv

\* The invariant holds before the client connects.
LEMMA SseInit == Init => Inv
<1> SUFFICES ASSUME Init PROVE Inv
  OBVIOUS
<1> USE SseConstantsAssumption DEF Init
<1>1. Holding = {} /\ IsFiniteSet(Holding) /\ Cardinality(Holding) = 0
  BY FS_EmptySet DEF Holding
<1>2. TypeOK
  BY <1>1 DEF TypeOK, EventIds, Holding
<1>3. BufferInv
  BY <1>1 DEF BufferInv
<1>4. ConnInv /\ OrderInv /\ GapInv
  BY DEF ConnInv, OrderInv, ClientOk, WireOk, EventsInOrder, GapInv,
     ReceivedOk, FlightOk
<1>5. QED
  BY <1>2, <1>3, <1>4 DEF Inv

-----------------------------------------------------------------------------
(* The event buffer *)

\* replayAfter returns the events that follow the given one, up to the newest,
\* or nothing; as long as nothing has been evicted it returns all of them.
LEMMA Replayed ==
  ASSUME TypeOK, BufferInv, NEW last \in 0 .. MaxMsgs
  PROVE  /\ ReplayAfter(last) \in Seq(EventIds)
         /\ \A i \in 1 .. Len(ReplayAfter(last)) : ReplayAfter(last)[i] = last + i
         /\ Len(ReplayAfter(last)) # 0 \/ (nextID <= MaxEvents /\ last \in 1 .. nextID) =>
              last + Len(ReplayAfter(last)) = nextID
<1> DEFINE L == Len(events)
           P == Place(last)
           R == ReplayAfter(last)
<1>1. /\ L \in Nat /\ nextID \in Nat /\ MaxEvents \in Nat /\ last \in Nat
      /\ events \in Seq(EventIds) /\ \A i \in 1 .. L : events[i] \in EventIds
  BY SseConstantsAssumption DEF TypeOK
<1>2. /\ L = IF nextID <= MaxEvents THEN nextID ELSE MaxEvents
      /\ \A i \in 1 .. L : events[i] = nextID - L + i
  BY DEF BufferInv
<1>3. P \in 0 .. L
  BY <1>1 DEF Place
<1>4. /\ R \in Seq(EventIds)
      /\ Len(R) = IF P + 1 <= L THEN L - (P + 1) + 1 ELSE 0
      /\ \A i \in 1 .. L - (P + 1) + 1 : R[i] = events[(P + 1) + i - 1]
  <2>1. P + 1 \in Int /\ L \in Int /\ \A i \in P + 1 .. L : events[i] \in EventIds
    BY <1>1, <1>3
  <2>2. QED
    BY <2>1, SubSeqProperties DEF ReplayAfter
<1>5. CASE \E i \in 1 .. L : events[i] = last
  <2>1. P \in 1 .. L /\ events[P] = last
    BY <1>5 DEF Place
  <2> HIDE DEF P, R, L
  <2>2. last = nextID - L + P
    BY <1>2, <2>1
  <2>3. Len(R) = L - P
    BY <1>1, <1>4, <2>1
  <2>4. \A i \in 1 .. Len(R) : R[i] = last + i
    <3> SUFFICES ASSUME NEW i \in 1 .. Len(R) PROVE R[i] = last + i
      OBVIOUS
    <3>1. R[i] = events[P + i] /\ P + i \in 1 .. L
      BY <1>1, <1>4, <2>1, <2>3
    <3>2. events[P + i] = nextID - L + (P + i)
      BY <1>2, <3>1
    <3>3. QED
      BY <1>1, <2>1, <2>2, <3>1, <3>2
  <2>5. last + Len(R) = nextID
    BY <1>1, <2>1, <2>2, <2>3
  <2>6. QED
    BY <1>4, <2>4, <2>5 DEF R
<1>6. CASE ~\E i \in 1 .. L : events[i] = last
  <2>1. P = L
    BY <1>6 DEF Place
  <2> HIDE DEF P, R, L
  <2>2. Len(R) = 0
    BY <1>1, <1>4, <2>1
  <2>3. ~(nextID <= MaxEvents /\ last \in 1 .. nextID)
    BY <1>1, <1>2, <1>6
  <2>4. QED
    BY <1>4, <2>2, <2>3 DEF R
<1>7. QED
  BY <1>5, <1>6

\* bufferEvent keeps the last events, without a gap.
LEMMA BufferGrows ==
  ASSUME TypeOK, BufferInv, nextID < MaxMsgs
  PROVE  /\ Buffered(nextID + 1) \in Seq(EventIds)
         /\ Len(Buffered(nextID + 1)) =
              IF nextID + 1 <= MaxEvents THEN nextID + 1 ELSE MaxEvents
         /\ \A i \in 1 .. Len(Buffered(nextID + 1)) :
              Buffered(nextID + 1)[i] = (nextID + 1) - Len(Buffered(nextID + 1)) + i
<1> DEFINE L == Len(events)
           id == nextID + 1
           all == Append(events, id)
           m == IF Len(all) > MaxEvents THEN Len(all) - MaxEvents + 1 ELSE 1
           B == Buffered(id)
<1>1. /\ L \in Nat /\ nextID \in Nat /\ MaxEvents \in Nat /\ MaxEvents > 0 /\ id \in EventIds
      /\ events \in Seq(EventIds)
  BY SseConstantsAssumption DEF TypeOK, EventIds
<1>2. /\ L = IF nextID <= MaxEvents THEN nextID ELSE MaxEvents
      /\ \A i \in 1 .. L : events[i] = nextID - L + i
  BY DEF BufferInv
<1>3. /\ all \in Seq(EventIds) /\ Len(all) = L + 1 /\ all[L + 1] = id
      /\ \A i \in 1 .. L : all[i] = events[i]
      /\ \A i \in 1 .. L + 1 : all[i] \in EventIds
  BY <1>1
<1>4. B = SubSeq(all, m, L + 1)
  BY <1>3 DEF Buffered
<1>5. m \in 1 .. 2 /\ (m = 2 <=> nextID >= MaxEvents)
  BY <1>1, <1>2, <1>3
<1> HIDE DEF B, all, m, L
<1>6. /\ B \in Seq(EventIds) /\ Len(B) = IF m <= L + 1 THEN (L + 1) - m + 1 ELSE 0
      /\ \A i \in 1 .. (L + 1) - m + 1 : B[i] = all[m + i - 1]
  <2>1. m \in Int /\ L + 1 \in Int /\ \A i \in m .. L + 1 : all[i] \in EventIds
    BY <1>1, <1>3, <1>5
  <2>2. QED
    BY <1>4, <2>1, SubSeqProperties
<1>7. Len(B) = (L + 1) - m + 1 /\ Len(B) = IF id <= MaxEvents THEN id ELSE MaxEvents
  BY <1>1, <1>2, <1>5, <1>6
<1>8. \A i \in 1 .. L + 1 : all[i] = nextID - L + i
  BY <1>1, <1>2, <1>3
<1>9. ASSUME NEW i \in 1 .. Len(B) PROVE B[i] = id - Len(B) + i
  <2>1. B[i] = all[m + i - 1] /\ m + i - 1 \in 1 .. L + 1
    BY <1>1, <1>5, <1>6, <1>7
  <2>2. B[i] = nextID - L + (m + i - 1)
    BY <1>8, <2>1
  <2>3. QED
    BY <1>1, <1>5, <1>7, <2>2
<1>10. QED
  BY <1>6, <1>7, <1>9 DEF B

-----------------------------------------------------------------------------
(* Types, and the messages between the channel and the buffer *)

\* A handler that holds a message leaves room for its number.
LEMMA RoomForNext ==
  ASSUME TypeOK, BufferInv, NEW c \in Conns, hpc[c] = "holding"
  PROVE  nextID < MaxMsgs
<1>1. IsFiniteSet(Holding) /\ Holding # {}
  BY DEF BufferInv, Holding
<1>2. Cardinality(Holding) \in Nat /\ Cardinality(Holding) # 0
  BY <1>1, FS_EmptySet, FS_CardinalityType
<1>3. /\ written = outgoing + nextID + Cardinality(Holding)
      /\ written \in 0 .. MaxMsgs /\ outgoing \in Nat /\ nextID \in Nat
  BY SseConstantsAssumption DEF TypeOK, Holding
<1>4. QED
  BY <1>2, <1>3, SseConstantsAssumption

\* Take adds the handler to those that hold a message, bufferEvent removes it,
\* and nothing else changes them.
LEMMA HoldingAfter ==
  ASSUME TypeOK, BufferInv, [Next]_vars
  PROVE  /\ IsFiniteSet(Holding')
         /\ written' = outgoing' + nextID' + Cardinality(Holding')
<1>1. /\ IsFiniteSet(Holding) /\ written = outgoing + nextID + Cardinality(Holding)
      /\ written \in Nat /\ outgoing \in Nat /\ nextID \in Nat
  BY SseConstantsAssumption DEF TypeOK, BufferInv, Holding
<1>2. Cardinality(Holding) \in Nat
  BY <1>1, FS_CardinalityType
<1>3. ASSUME NEW c \in Conns, Take(c) PROVE /\ IsFiniteSet(Holding')
         /\ written' = outgoing' + nextID' + Cardinality(Holding')
  <2>1. Holding' = Holding \cup {c} /\ c \notin Holding
    BY <1>3 DEF Take, TypeOK, Holding
  <2>2. IsFiniteSet(Holding') /\ Cardinality(Holding') = Cardinality(Holding) + 1
    BY <1>1, <2>1, FS_AddElement
  <2>3. QED
    BY <1>1, <1>2, <1>3, <2>2 DEF Take
<1>4. ASSUME NEW c \in Conns, BufferEvent(c) PROVE /\ IsFiniteSet(Holding')
         /\ written' = outgoing' + nextID' + Cardinality(Holding')
  <2>1. Holding' = Holding \ {c} /\ c \in Holding
    BY <1>4 DEF BufferEvent, TypeOK, Holding
  <2>2. IsFiniteSet(Holding') /\ Cardinality(Holding') = Cardinality(Holding) - 1
    BY <1>1, <2>1, FS_RemoveElement
  <2>3. QED
    BY <1>1, <1>2, <1>4, <2>2 DEF BufferEvent
<1>5. CASE PeerWrite
  <2>1. Holding' = Holding
    BY <1>5 DEF PeerWrite, Holding
  <2>2. QED
    BY <1>1, <1>2, <1>5, <2>1 DEF PeerWrite
<1>6. ASSUME UNCHANGED <<written, outgoing, nextID>>, Holding' = Holding
      PROVE /\ IsFiniteSet(Holding')
            /\ written' = outgoing' + nextID' + Cardinality(Holding')
  BY <1>1, <1>6
<1>7. ASSUME NEW c \in Conns, \/ Replay(c) \/ WriteEvent(c) \/ HandlerEnds(c)
                              \/ ConnectSSE(c) \/ ReadSSE(c) \/ Break(c)
      PROVE UNCHANGED <<written, outgoing, nextID>> /\ Holding' = Holding
  BY <1>7 DEF Replay, WriteEvent, HandlerEnds, ConnectSSE, ReadSSE, Break, serverVars, TypeOK,
     Holding
<1>8. CASE UNCHANGED vars
  BY <1>6, <1>8 DEF vars, Holding
<1>9. QED
  BY <1>3, <1>4, <1>5, <1>6, <1>7, <1>8 DEF Next, HandlerStep, Over

\* Every step keeps the types and the bounds.
LEMMA SseTypeStep ==
  ASSUME TypeOK, BufferInv, OrderInv, [Next]_vars
  PROVE  TypeOK'
<1> USE SseConstantsAssumption
<1>0. written' = outgoing' + nextID' + Cardinality({c \in Conns : hpc'[c] = "holding"})
  BY HoldingAfter DEF Holding
<1>1. CASE PeerWrite
  BY <1>0, <1>1 DEF PeerWrite, clientVars, TypeOK
<1>2. ASSUME NEW c \in Conns, Replay(c) PROVE TypeOK'
  <2>1. ReplayAfter(hdr[c]) \in Seq(EventIds)
    BY Replayed DEF TypeOK
  <2>2. QED
    BY <1>0, <1>2, <2>1 DEF Replay, serverVars, clientVars, TypeOK
<1>3. ASSUME NEW c \in Conns, Take(c) PROVE TypeOK'
  BY <1>0, <1>3 DEF Take, clientVars, TypeOK
<1>4. ASSUME NEW c \in Conns, BufferEvent(c) PROVE TypeOK'
  <2>1. nextID < MaxMsgs
    BY <1>4, RoomForNext DEF BufferEvent
  <2>2. nextID + 1 \in 0 .. MaxMsgs /\ nextID + 1 \in EventIds
    BY <2>1 DEF TypeOK, EventIds
  <2>3. events' \in Seq(EventIds) /\ Len(events') <= MaxEvents
    BY <1>4, <2>1, BufferGrows DEF BufferEvent, TypeOK
  <2>4. orphaned' \subseteq EventIds
    BY <1>4, <2>2 DEF BufferEvent, TypeOK
  <2>5. QED
    BY <1>0, <1>4, <2>2, <2>3, <2>4 DEF BufferEvent, TypeOK
<1>5. ASSUME NEW c \in Conns, WriteEvent(c) PROVE TypeOK'
  <2>1. hid[c] \in EventIds
    BY <1>5 DEF WriteEvent, OrderInv, WireOk, TypeOK, EventIds
  <2>2. QED
    BY <1>0, <1>5, <2>1 DEF WriteEvent, serverVars, clientVars, TypeOK
<1>6. ASSUME NEW c \in Conns, HandlerEnds(c) PROVE TypeOK'
  BY <1>0, <1>6 DEF HandlerEnds, serverVars, clientVars, TypeOK
<1>7. ASSUME NEW c \in Conns, ConnectSSE(c) PROVE TypeOK'
  BY <1>0, <1>7 DEF ConnectSSE, serverVars, TypeOK
<1>8. ASSUME NEW c \in Conns, ReadSSE(c) PROVE TypeOK'
  <2>1. wire[c] \in Seq(EventIds) /\ wire[c] # <<>>
    BY <1>8 DEF ReadSSE, TypeOK
  <2>2. Head(wire[c]) \in EventIds /\ Tail(wire[c]) \in Seq(EventIds)
    BY <2>1, HeadTailProperties
  <2>3. Head(wire[c]) \in 0 .. MaxMsgs
    BY <2>2 DEF EventIds
  <2>4. QED
    BY <1>0, <1>8, <2>2, <2>3 DEF ReadSSE, serverVars, TypeOK
<1>9. ASSUME NEW c \in Conns, Break(c) PROVE TypeOK'
  BY <1>0, <1>9 DEF Break, serverVars, TypeOK
<1>10. CASE UNCHANGED vars
  BY <1>10 DEF vars, TypeOK
<1>11. QED
  BY <1>1, <1>2, <1>3, <1>4, <1>5, <1>6, <1>7, <1>8, <1>9, <1>10 DEF Next, HandlerStep, Over

\* Every step keeps the buffer without a gap.
LEMMA BufferStep ==
  ASSUME TypeOK, BufferInv, [Next]_vars
  PROVE  BufferInv'
<1>1. IsFiniteSet(Holding')
  BY HoldingAfter
<1>2. ASSUME UNCHANGED <<events, nextID>> PROVE BufferInv'
  BY <1>1, <1>2 DEF BufferInv
<1>3. ASSUME NEW c \in Conns, BufferEvent(c) PROVE BufferInv'
  <2>1. nextID < MaxMsgs
    BY <1>3, RoomForNext DEF BufferEvent
  <2>2. nextID' = nextID + 1 /\ events' = Buffered(nextID + 1)
    BY <1>3 DEF BufferEvent
  <2>3. QED
    BY <1>1, <2>1, <2>2, BufferGrows DEF BufferInv
<1>4. QED
  BY <1>2, <1>3 DEF Next, HandlerStep, Over, PeerWrite, Replay, Take, WriteEvent, HandlerEnds,
     ConnectSSE, ReadSSE, Break, serverVars, vars

\* Every step keeps the client's connection the only one with events.
LEMMA ConnStep ==
  ASSUME TypeOK, ConnInv, [Next]_vars
  PROVE  ConnInv'
<1> USE SseConstantsAssumption
<1>1. CASE PeerWrite
  BY <1>1 DEF PeerWrite, clientVars, ConnInv
<1>2. ASSUME NEW c \in Conns, Replay(c) PROVE ConnInv'
  <2>1. c # cur => c \in broken
    BY <1>2 DEF Replay, ConnInv
  <2>2. QED
    BY <1>2, <2>1 DEF Replay, clientVars, ConnInv, TypeOK
<1>3. ASSUME NEW c \in Conns, Take(c) \/ BufferEvent(c) \/ HandlerEnds(c) PROVE ConnInv'
  BY <1>3 DEF Take, BufferEvent, HandlerEnds, clientVars, ConnInv, TypeOK
<1>4. ASSUME NEW c \in Conns, WriteEvent(c) PROVE ConnInv'
  <2>1. c # cur => c \in broken
    BY <1>4 DEF WriteEvent, ConnInv
  <2>2. QED
    BY <1>4, <2>1 DEF WriteEvent, clientVars, ConnInv, TypeOK
<1>5. ASSUME NEW c \in Conns, ConnectSSE(c) PROVE ConnInv'
  BY <1>5 DEF ConnectSSE, ConnInv, TypeOK
<1>6. ASSUME NEW c \in Conns, ReadSSE(c) PROVE ConnInv'
  BY <1>6 DEF ReadSSE, ConnInv, TypeOK
<1>7. ASSUME NEW c \in Conns, Break(c) PROVE ConnInv'
  BY <1>7 DEF Break, ConnInv, TypeOK
<1>8. CASE UNCHANGED vars
  BY <1>8 DEF vars, ConnInv
<1>9. QED
  BY <1>1, <1>2, <1>3, <1>4, <1>5, <1>6, <1>7, <1>8 DEF Next, HandlerStep, Over

\* The numbers that the next steps reason about.
LEMMA Numbers ==
  ASSUME TypeOK, OrderInv
  PROVE  /\ nextID \in Nat /\ lastID \in Nat /\ lastID <= nextID /\ MaxEvents \in Nat
         /\ \A c \in Conns : /\ wire[c] \in Seq(EventIds) /\ Len(wire[c]) \in Nat
                             /\ \A i \in 1 .. Len(wire[c]) : wire[c][i] \in Nat
                             /\ hid[c] \in Nat
<1> USE SseConstantsAssumption
<1>1. nextID \in Nat /\ lastID \in Nat /\ lastID <= nextID /\ MaxEvents \in Nat
  BY DEF TypeOK, OrderInv, ClientOk
<1>2. ASSUME NEW c \in Conns PROVE wire[c] \in Seq(EventIds) /\ hid[c] \in Nat
  BY DEF TypeOK
<1>3. EventIds \subseteq Nat
  BY DEF EventIds
<1>4. ASSUME NEW c \in Conns PROVE /\ Len(wire[c]) \in Nat
                                   /\ \A i \in 1 .. Len(wire[c]) : wire[c][i] \in Nat
  <2>1. \A i \in 1 .. Len(wire[c]) : wire[c][i] \in EventIds
    BY <1>2
  <2>2. \A i \in 1 .. Len(wire[c]) : wire[c][i] \in Nat
    BY <1>3, <2>1, Zenon
  <2>3. Len(wire[c]) \in Nat
    BY <1>2
  <2>4. QED
    BY <2>2, <2>3
<1>5. QED
  BY <1>1, <1>2, <1>4

\* Every step keeps the order of the events.
LEMMA OrderStep ==
  ASSUME TypeOK, BufferInv, ConnInv, OrderInv, [Next]_vars
  PROVE  OrderInv'
<1> USE SseConstantsAssumption
<1>0. /\ nextID \in Nat /\ lastID \in Nat /\ lastID <= nextID
      /\ \A c \in Conns : /\ wire[c] \in Seq(EventIds) /\ Len(wire[c]) \in Nat
                          /\ \A i \in 1 .. Len(wire[c]) : wire[c][i] \in Nat
                          /\ hid[c] \in Nat
  BY Numbers
<1>1. ASSUME UNCHANGED <<lastID, received>>, nextID' \in {nextID, nextID + 1} PROVE ClientOk'
  BY <1>0, <1>1 DEF OrderInv, ClientOk, EventsInOrder
<1>2. ASSUME NEW d \in Conns, wire'[d] = wire[d], hid'[d] = hid[d], lastID' = lastID,
             nextID' \in {nextID, nextID + 1},
             hpc'[d] = "writing" => hpc[d] = "writing" /\ (d = cur' => d = cur)
      PROVE  WireOk(d)'
  <2>1. WireOk(d)
    BY DEF OrderInv
  <2>2. \A n \in Nat : n <= nextID => n <= nextID'
    BY <1>0, <1>2
  <2>3. \A i \in 1 .. Len(wire[d]) : lastID < wire[d][i] /\ wire[d][i] <= nextID'
    BY <1>0, <2>1, <2>2 DEF WireOk
  <2>4. hpc[d] = "writing" => hid[d] \in 1 .. nextID'
    BY <1>0, <1>2, <2>1 DEF WireOk
  <2>5. QED
    BY <1>2, <2>1, <2>3, <2>4 DEF WireOk
<1>3. CASE PeerWrite
  BY <1>1, <1>2, <1>3 DEF PeerWrite, clientVars, OrderInv
<1>4. ASSUME NEW c \in Conns, Replay(c) PROVE OrderInv'
  <2>1. /\ UNCHANGED <<hid, lastID, received, nextID, cur>> /\ hpc'[c] = "serving"
        /\ \A d \in Conns : d # c => hpc'[d] = hpc[d] /\ wire'[d] = wire[d]
        /\ wire'[c] = IF c \in broken THEN wire[c] ELSE ReplayAfter(hdr[c])
    BY <1>4 DEF Replay, serverVars, clientVars, TypeOK
  <2>2. \A d \in Conns : d # c => WireOk(d)'
    BY <1>2, <2>1
  <2>3. WireOk(c)'
    <3>1. CASE c \in broken
      BY <1>2, <2>1, <3>1
    <3>2. CASE c \notin broken
      <4> DEFINE R == ReplayAfter(lastID)
      <4>1. c = cur /\ hdr[c] = lastID
        BY <1>4, <3>2 DEF Replay, ConnInv
      <4>2. wire'[c] = R
        BY <2>1, <3>2, <4>1
      <4>3. /\ R \in Seq(EventIds) /\ \A i \in 1 .. Len(R) : R[i] = lastID + i
            /\ Len(R) # 0 => lastID + Len(R) = nextID
        BY Replayed DEF TypeOK
      <4> HIDE DEF R
      <4>4. Len(R) \in Nat
        BY <4>3
      <4>5. \A i \in 1 .. Len(R) : lastID < R[i] /\ R[i] <= nextID
        BY <1>0, <4>3, <4>4
      <4>6. \A i, j \in 1 .. Len(R) : i < j => R[i] < R[j]
        BY <1>0, <4>3, <4>4
      <4>7. QED
        BY <2>1, <4>2, <4>5, <4>6 DEF WireOk
    <3>3. QED
      BY <3>1, <3>2
  <2>4. QED
    BY <1>1, <2>1, <2>2, <2>3 DEF OrderInv
<1>5. ASSUME NEW c \in Conns, Take(c) \/ HandlerEnds(c) \/ ConnectSSE(c) PROVE OrderInv'
  <2>1. /\ UNCHANGED <<wire, hid, lastID, received, nextID>> /\ hpc'[c] # "writing"
        /\ cur' = cur \/ cur' = c
        /\ \A d \in Conns : d # c => hpc'[d] = hpc[d]
    BY <1>5 DEF Take, HandlerEnds, ConnectSSE, serverVars, clientVars, TypeOK
  <2>2. QED
    BY <1>1, <1>2, <2>1 DEF OrderInv
<1>6. ASSUME NEW c \in Conns, BufferEvent(c) PROVE OrderInv'
  <2>1. /\ UNCHANGED <<wire, lastID, received, cur>> /\ nextID' = nextID + 1
        /\ hid'[c] = nextID + 1
        /\ \A d \in Conns : d # c => hpc'[d] = hpc[d] /\ hid'[d] = hid[d]
    BY <1>6 DEF BufferEvent, TypeOK
  <2>2. \A d \in Conns : d # c => WireOk(d)'
    BY <1>2, <2>1
  <2>3. WireOk(c)
    BY DEF OrderInv
  <2>4. WireOk(c)'
    BY <1>0, <2>1, <2>3 DEF WireOk
  <2>5. QED
    BY <1>1, <2>1, <2>2, <2>4 DEF OrderInv
<1>7. ASSUME NEW c \in Conns, WriteEvent(c) PROVE OrderInv'
  <2>1. /\ UNCHANGED <<hid, lastID, received, nextID, cur>>
        /\ hpc[c] = "writing" /\ hpc'[c] = "serving"
        /\ \A d \in Conns : d # c => hpc'[d] = hpc[d] /\ wire'[d] = wire[d]
        /\ wire'[c] = IF c \in broken THEN wire[c] ELSE Append(wire[c], hid[c])
    BY <1>7 DEF WriteEvent, serverVars, clientVars, TypeOK
  <2>2. \A d \in Conns : d # c => WireOk(d)'
    BY <1>2, <2>1
  <2>3. WireOk(c)'
    <3>1. CASE c \in broken
      BY <1>2, <2>1, <3>1
    <3>2. CASE c \notin broken
      <4>1. c = cur
        BY <2>1, <3>2 DEF ConnInv
      <4>2. /\ \A i \in 1 .. Len(wire[c]) : lastID < wire[c][i] /\ wire[c][i] <= nextID
            /\ \A i, j \in 1 .. Len(wire[c]) : i < j => wire[c][i] < wire[c][j]
            /\ hid[c] \in 1 .. nextID /\ lastID < hid[c]
            /\ \A i \in 1 .. Len(wire[c]) : wire[c][i] < hid[c]
        BY <2>1, <4>1 DEF OrderInv, WireOk
      <4>3. /\ Len(wire'[c]) = Len(wire[c]) + 1 /\ wire'[c][Len(wire[c]) + 1] = hid[c]
            /\ \A i \in 1 .. Len(wire[c]) : wire'[c][i] = wire[c][i]
        BY <1>0, <2>1, <3>2
      <4>4. \A i \in 1 .. Len(wire'[c]) : i \in 1 .. Len(wire[c]) \/ i = Len(wire[c]) + 1
        BY <1>0, <4>3
      <4>5. \A i \in 1 .. Len(wire'[c]) : lastID < wire'[c][i] /\ wire'[c][i] <= nextID
        BY <4>2, <4>3, <4>4
      <4>6. \A i, j \in 1 .. Len(wire'[c]) : i < j => wire'[c][i] < wire'[c][j]
        <5> SUFFICES ASSUME NEW i \in 1 .. Len(wire'[c]), NEW j \in 1 .. Len(wire'[c]), i < j
                     PROVE  wire'[c][i] < wire'[c][j]
          OBVIOUS
        <5>1. i \in 1 .. Len(wire[c])
          BY <1>0, <4>3
        <5>2. CASE j = Len(wire[c]) + 1
          BY <4>2, <4>3, <5>1, <5>2
        <5>3. CASE j \in 1 .. Len(wire[c])
          BY <4>2, <4>3, <5>1, <5>3
        <5>4. QED
          BY <4>4, <5>2, <5>3
      <4>7. QED
        BY <2>1, <4>5, <4>6 DEF WireOk
    <3>3. QED
      BY <3>1, <3>2
  <2>4. QED
    BY <1>1, <2>1, <2>2, <2>3 DEF OrderInv
<1>8. ASSUME NEW c \in Conns, ReadSSE(c) PROVE OrderInv'
  <2>1. /\ UNCHANGED <<hid, hpc, nextID, cur>> /\ c = cur /\ wire[c] # <<>>
        /\ received' = Append(received, Head(wire[c])) /\ lastID' = Head(wire[c])
        /\ wire'[c] = Tail(wire[c])
        /\ \A d \in Conns : d # c => wire'[d] = wire[d]
    BY <1>8 DEF ReadSSE, serverVars, TypeOK
  <2>2. /\ Len(wire[c]) \in Nat \ {0} /\ Head(wire[c]) = wire[c][1]
        /\ Len(wire'[c]) = Len(wire[c]) - 1
        /\ \A i \in 1 .. Len(wire'[c]) : wire'[c][i] = wire[c][i + 1]
    BY <1>0, <2>1, HeadTailProperties
  <2>3. /\ lastID' = wire[c][1] /\ lastID < lastID' /\ lastID' <= nextID
        /\ \A i \in 2 .. Len(wire[c]) : lastID' < wire[c][i]
    BY <1>0, <2>1, <2>2 DEF OrderInv, WireOk
  <2>4. ClientOk'
    <3>1. /\ received \in Seq(EventIds) /\ Len(received) \in Nat
          /\ Len(received') = Len(received) + 1 /\ received'[Len(received) + 1] = lastID'
          /\ \A i \in 1 .. Len(received) : received'[i] = received[i]
      BY <2>1 DEF TypeOK
    <3>2. /\ \A i \in 1 .. Len(received) - 1 : received[i] < received[i + 1]
          /\ Len(received) # 0 => received[Len(received)] = lastID
      BY <3>1 DEF OrderInv, ClientOk, EventsInOrder
    <3>3. \A i \in 1 .. Len(received') - 1 : received'[i] < received'[i + 1]
      <4> SUFFICES ASSUME NEW i \in 1 .. Len(received') - 1 PROVE received'[i] < received'[i + 1]
        OBVIOUS
      <4>1. CASE i = Len(received)
        BY <2>3, <3>1, <3>2, <4>1
      <4>2. CASE i # Len(received)
        <5>1. i \in 1 .. Len(received) - 1 /\ i \in 1 .. Len(received) /\ i + 1 \in 1 .. Len(received)
          BY <3>1, <4>2
        <5>2. QED
          BY <3>1, <3>2, <5>1
      <4>3. QED
        BY <4>1, <4>2
    <3>4. received' # <<>>
      BY <3>1
    <3>5. QED
      BY <2>1, <2>3, <3>1, <3>3, <3>4 DEF ClientOk, EventsInOrder
  <2>5. ASSUME NEW d \in Conns PROVE WireOk(d)'
    <3>1. CASE d = c
      <4>1. \A i \in 1 .. Len(wire'[c]) : i + 1 \in 2 .. Len(wire[c]) /\ i + 1 \in 1 .. Len(wire[c])
        BY <1>0, <2>2
      <4>2. WireOk(c)
        BY DEF OrderInv
      <4>3. \A i \in 1 .. Len(wire'[c]) : lastID' < wire'[c][i] /\ wire'[c][i] <= nextID
        BY <2>2, <2>3, <4>1, <4>2 DEF WireOk
      <4>4. \A i, j \in 1 .. Len(wire'[c]) : i < j => wire'[c][i] < wire'[c][j]
        BY <2>2, <4>1, <4>2 DEF WireOk
      <4>5. hpc[c] = "writing" =>
              /\ hid[c] \in 1 .. nextID
              /\ \A i \in 1 .. Len(wire'[c]) : wire'[c][i] < hid[c]
              /\ lastID' < hid[c]
        BY <2>2, <2>3, <4>1, <4>2 DEF WireOk
      <4>6. QED
        BY <2>1, <3>1, <4>3, <4>4, <4>5 DEF WireOk
    <3>2. CASE d # c
      <4>1. wire'[d] = <<>> /\ d # cur
        BY <2>1, <3>2 DEF ConnInv
      <4>2. WireOk(d)
        BY DEF OrderInv
      <4>3. QED
        BY <2>1, <4>1, <4>2 DEF WireOk
    <3>3. QED
      BY <3>1, <3>2
  <2>6. QED
    BY <2>4, <2>5 DEF OrderInv
<1>9. ASSUME NEW c \in Conns, Break(c) PROVE OrderInv'
  <2>1. /\ UNCHANGED <<hid, hpc, lastID, received, nextID>> /\ cur' = None
        /\ wire'[c] = <<>> /\ \A d \in Conns : d # c => wire'[d] = wire[d]
    BY <1>9 DEF Break, serverVars, TypeOK
  <2>2. WireOk(c)' /\ \A d \in Conns : d # c => WireOk(d)'
    BY <2>1 DEF OrderInv, WireOk
  <2>3. QED
    BY <1>1, <2>1, <2>2 DEF OrderInv
<1>10. CASE UNCHANGED vars
  BY <1>1, <1>2, <1>10 DEF vars, OrderInv
<1>11. QED
  BY <1>3, <1>4, <1>5, <1>6, <1>7, <1>8, <1>9, <1>10 DEF Next, HandlerStep, Over

\* Every step lets only orphaned events be missing.
LEMMA GapStep ==
  ASSUME Inv, [Next]_vars
  PROVE  GapInv'
<1> USE SseConstantsAssumption
<1>0. /\ TypeOK /\ BufferInv /\ ConnInv /\ OrderInv
      /\ nextID \in Nat /\ lastID \in Nat /\ lastID <= nextID /\ MaxEvents \in Nat
      /\ \A c \in Conns : /\ wire[c] \in Seq(EventIds) /\ Len(wire[c]) \in Nat
                          /\ \A i \in 1 .. Len(wire[c]) : wire[c][i] \in Nat
                          /\ hid[c] \in Nat
  BY Numbers DEF Inv
<1>1. orphaned \subseteq orphaned' /\ (nextID' = nextID \/ nextID' = nextID + 1)
  BY DEF Next, HandlerStep, Over, PeerWrite, Replay, Take, BufferEvent, WriteEvent, HandlerEnds,
     ConnectSSE, ReadSSE, Break, serverVars, clientVars, vars
<1> SUFFICES ASSUME nextID' <= MaxEvents PROVE ReceivedOk' /\ FlightOk'
  BY DEF GapInv
<1>2. nextID <= MaxEvents
  BY <1>0, <1>1
<1>3. ReceivedOk /\ FlightOk
  BY <1>2 DEF Inv, GapInv
<1> DEFINE Lost(m, n) == m + 1 .. n - 1 \subseteq orphaned'
<1>4. \A m, n : Skipped(m, n) => Lost(m, n)
  BY <1>1 DEF Skipped
<1>flight. (cur' # None /\ hpc'[cur'] # "replay" =>
          /\ wire'[cur'] # <<>> /\ lastID' # 0 => Lost(lastID', wire'[cur'][1])
          /\ \A i \in 1 .. Len(wire'[cur']) - 1 : Lost(wire'[cur'][i], wire'[cur'][i + 1])
          /\ hpc'[cur'] = "writing" /\ Sent(cur)' # 0 => Lost(Sent(cur)', hid'[cur'])
          /\ Top(cur)' # 0 => Lost(Top(cur)', nextID' + 1))
      => FlightOk'
  BY DEF FlightOk, Skipped
<1>received. (\A i \in 1 .. Len(received') - 1 : Lost(received'[i], received'[i + 1])) => ReceivedOk'
  BY DEF ReceivedOk, Skipped
<1>next. \A k \in Nat : Lost(k, k + 1)
  OBVIOUS
<1> HIDE DEF Lost
<1>5. ASSUME received' = received PROVE ReceivedOk'
  BY <1>3, <1>4, <1>5, <1>received DEF ReceivedOk
<1>6. ASSUME UNCHANGED <<lastID, received, nextID, cur>>,
             cur # None =>
                /\ wire'[cur] = wire[cur] /\ hid'[cur] = hid[cur]
                /\ hpc'[cur] = "writing" <=> hpc[cur] = "writing"
                /\ hpc[cur] # "replay"
      PROVE  ReceivedOk' /\ FlightOk'
  <2>1. cur # None => Sent(cur)' = Sent(cur) /\ Top(cur)' = Top(cur)
    BY <1>6 DEF Sent, Top
  <2>2. FlightOk'
    BY <1>3, <1>4, <1>6, <1>flight, <2>1 DEF FlightOk
  <2>3. QED
    BY <1>5, <1>6, <2>2
<1>7. CASE PeerWrite
  <2>1. UNCHANGED <<lastID, received, nextID, cur, wire, hid, hpc, orphaned>>
    BY <1>7 DEF PeerWrite, clientVars
  <2>2. QED
    BY <1>3, <1>5, <2>1 DEF FlightOk, Skipped, Sent, Top
<1>8. ASSUME NEW c \in Conns, Replay(c) PROVE ReceivedOk' /\ FlightOk'
  <2>1. /\ UNCHANGED <<lastID, received, nextID, cur, hid>>
        /\ hpc[c] = "replay" /\ hpc'[c] = "serving"
        /\ \A d \in Conns : d # c => hpc'[d] = hpc[d] /\ wire'[d] = wire[d]
        /\ wire'[c] = IF c \in broken THEN wire[c] ELSE ReplayAfter(hdr[c])
    BY <1>0, <1>8 DEF Replay, serverVars, clientVars, TypeOK
  <2>2. CASE c # cur
    <3> SUFFICES ASSUME cur # None, hpc'[cur] # "replay" PROVE FlightOk'
      BY <1>5, <2>1 DEF FlightOk
    <3>1. cur \in Conns /\ hpc[cur] # "replay"
      BY <1>0, <2>1, <2>2 DEF TypeOK
    <3>2. QED
      BY <1>6, <2>1, <2>2, <3>1
  <2>3. CASE c = cur
    <3> DEFINE R == ReplayAfter(lastID)
    <3>1. wire'[c] = R
      BY <1>0, <2>1, <2>3 DEF ConnInv
    <3>2. /\ R \in Seq(EventIds) /\ \A i \in 1 .. Len(R) : R[i] = lastID + i
          /\ Len(R) # 0 \/ lastID \in 1 .. nextID => lastID + Len(R) = nextID
      BY <1>0, <1>2, Replayed DEF TypeOK
    <3> HIDE DEF R
    <3>3. Len(R) \in Nat
      BY <3>2
    <3>4. R # <<>> => Lost(lastID, R[1])
      <4>1. R # <<>> => 1 \in 1 .. Len(R)
        BY <3>2, <3>3
      <4>2. QED
        BY <1>0, <1>next, <3>2, <4>1
    <3>5. \A i \in 1 .. Len(R) - 1 : Lost(R[i], R[i + 1])
      <4>1. \A i \in 1 .. Len(R) - 1 : R[i] = lastID + i /\ R[i + 1] = (lastID + i) + 1
        BY <1>0, <3>2, <3>3
      <4>2. \A i \in 1 .. Len(R) - 1 : lastID + i \in Nat
        BY <1>0, <3>3
      <4>3. QED
        BY <1>next, <4>1, <4>2
    <3>6. Top(c)' = IF R = <<>> THEN lastID ELSE R[Len(R)]
      BY <2>1, <3>1 DEF Top, Sent
    <3>7. Top(c)' # 0 => Top(c)' = nextID
      BY <1>0, <3>2, <3>3, <3>6
    <3>8. Lost(nextID, nextID + 1)
      BY <1>0, <1>next
    <3>9. FlightOk'
      BY <1>flight, <2>1, <2>3, <3>1, <3>4, <3>5, <3>7, <3>8
    <3>10. QED
      BY <1>5, <2>1, <3>9
  <2>4. QED
    BY <2>2, <2>3
<1>9. ASSUME NEW c \in Conns, Take(c) \/ HandlerEnds(c) PROVE ReceivedOk' /\ FlightOk'
  <2>1. /\ UNCHANGED <<lastID, received, nextID, cur, wire, hid>>
        /\ hpc[c] = "serving" /\ hpc'[c] \notin {"replay", "writing"}
        /\ \A d \in Conns : d # c => hpc'[d] = hpc[d]
    BY <1>0, <1>9 DEF Take, HandlerEnds, serverVars, clientVars, TypeOK
  <2> SUFFICES ASSUME cur # None, hpc'[cur] # "replay" PROVE FlightOk'
    BY <1>5, <2>1 DEF FlightOk
  <2>2. cur \in Conns /\ hpc[cur] # "replay"
    BY <1>0, <2>1 DEF TypeOK
  <2>3. QED
    BY <1>6, <2>1, <2>2
<1>10. ASSUME NEW c \in Conns, BufferEvent(c) PROVE ReceivedOk' /\ FlightOk'
  <2>1. /\ UNCHANGED <<lastID, received, cur, wire>> /\ nextID' = nextID + 1
        /\ hpc[c] = "holding" /\ hpc'[c] = "writing" /\ hid'[c] = nextID + 1
        /\ \A d \in Conns : d # c => hpc'[d] = hpc[d] /\ hid'[d] = hid[d]
    BY <1>0, <1>10 DEF BufferEvent, TypeOK
  <2> SUFFICES ASSUME cur # None, hpc'[cur] # "replay" PROVE FlightOk'
    BY <1>5, <2>1 DEF FlightOk
  <2>2. cur \in Conns /\ hpc[cur] # "replay" /\ Sent(cur)' = Sent(cur)
    BY <1>0, <2>1 DEF TypeOK, Sent
  <2>3. /\ wire[cur] # <<>> /\ lastID # 0 => Lost(lastID, wire[cur][1])
        /\ \A i \in 1 .. Len(wire[cur]) - 1 : Lost(wire[cur][i], wire[cur][i + 1])
        /\ Top(cur) # 0 => Skipped(Top(cur), nextID + 1)
    BY <1>3, <1>4, <2>2 DEF FlightOk
  <2>4. CASE c = cur
    <3>1. Top(cur) = Sent(cur) /\ Top(cur)' = nextID + 1
      BY <2>1, <2>4 DEF Top
    <3>2. Sent(cur) # 0 => Lost(Sent(cur), nextID + 1)
      BY <1>4, <2>3, <3>1
    <3>3. Lost(nextID + 1, (nextID + 1) + 1)
      BY <1>0, <1>next
    <3>4. QED
      BY <1>flight, <2>1, <2>2, <2>3, <2>4, <3>1, <3>2, <3>3
  <2>5. CASE c # cur
    <3>1. nextID + 1 \in orphaned'
      BY <1>10, <2>2, <2>5 DEF BufferEvent
    <3>2. Top(cur)' = Top(cur) /\ hid'[cur] = hid[cur] /\ hpc'[cur] = hpc[cur]
      BY <2>1, <2>2, <2>5 DEF Top
    <3>3. ASSUME Top(cur) # 0 PROVE Lost(Top(cur), (nextID + 1) + 1)
      <4>1. Top(cur) \in Nat
        BY <1>0, <2>2 DEF Top, Sent
      <4>2. \A n \in Top(cur) + 1 .. nextID : n \in orphaned'
        BY <1>0, <1>1, <2>3, <3>3 DEF Skipped
      <4>3. \A n \in Top(cur) + 1 .. nextID + 1 : n \in orphaned'
        BY <1>0, <3>1, <4>1, <4>2
      <4>4. QED
        BY <1>0, <4>1, <4>3 DEF Lost
    <3>4. hpc[cur] = "writing" /\ Sent(cur) # 0 => Lost(Sent(cur), hid[cur])
      BY <1>3, <1>4, <2>2, <3>2 DEF FlightOk
    <3>5. QED
      BY <1>flight, <2>1, <2>2, <2>3, <3>2, <3>3, <3>4
  <2>6. QED
    BY <2>4, <2>5
<1>11. ASSUME NEW c \in Conns, WriteEvent(c) PROVE ReceivedOk' /\ FlightOk'
  <2>1. /\ UNCHANGED <<hid, lastID, received, nextID, cur>>
        /\ hpc[c] = "writing" /\ hpc'[c] = "serving"
        /\ \A d \in Conns : d # c => hpc'[d] = hpc[d] /\ wire'[d] = wire[d]
        /\ wire'[c] = IF c \in broken THEN wire[c] ELSE Append(wire[c], hid[c])
    BY <1>0, <1>11 DEF WriteEvent, serverVars, clientVars, TypeOK
  <2> SUFFICES ASSUME cur # None, hpc'[cur] # "replay" PROVE FlightOk'
    BY <1>5, <2>1 DEF FlightOk
  <2>2. cur \in Conns /\ hpc[cur] # "replay"
    BY <1>0, <2>1 DEF TypeOK
  <2>3. CASE c # cur
    BY <1>6, <2>1, <2>2, <2>3
  <2>4. CASE c = cur
    <3> DEFINE n == Len(wire[c])
    <3>1. /\ n \in Nat /\ Len(wire'[c]) = n + 1 /\ wire'[c][n + 1] = hid[c]
          /\ \A i \in 1 .. n : wire'[c][i] = wire[c][i]
      BY <1>0, <2>1, <2>4 DEF ConnInv
    <3>2. wire'[c] # <<>> /\ (wire[c] = <<>> <=> n = 0)
      BY <1>0, <3>1
    <3>3. /\ wire[c] # <<>> /\ lastID # 0 => Lost(lastID, wire[c][1])
          /\ \A i \in 1 .. n - 1 : Lost(wire[c][i], wire[c][i + 1])
          /\ Sent(c) # 0 => Lost(Sent(c), hid[c])
          /\ hid[c] # 0 => Lost(hid[c], nextID + 1)
      BY <1>3, <1>4, <2>1, <2>2, <2>4 DEF FlightOk, Top
    <3>4. /\ Sent(c) = IF n = 0 THEN lastID ELSE wire[c][n]
          /\ Sent(c)' = hid[c] /\ Top(c)' = hid[c]
      BY <2>1, <3>1, <3>2 DEF Sent, Top
    <3> HIDE DEF n
    <3>5. lastID # 0 => Lost(lastID, wire'[c][1])
      <4>1. CASE n = 0
        BY <3>1, <3>3, <3>4, <4>1
      <4>2. CASE n # 0
        <5>1. 1 \in 1 .. n
          BY <3>1, <4>2
        <5>2. QED
          BY <3>1, <3>2, <3>3, <4>2, <5>1
      <4>3. QED
        BY <4>1, <4>2
    <3>6. ASSUME NEW i \in 1 .. (n + 1) - 1 PROVE Lost(wire'[c][i], wire'[c][i + 1])
      <4>1. CASE i = n
        <5>1. n # 0 /\ n \in 1 .. n /\ wire[c][n] \in Nat /\ 0 < wire[c][n]
          BY <1>0, <3>1, <4>1 DEF OrderInv, WireOk, n
        <5>2. QED
          BY <3>1, <3>3, <3>4, <4>1, <5>1
      <4>2. CASE i # n
        <5>1. i \in 1 .. n - 1 /\ i \in 1 .. n /\ i + 1 \in 1 .. n
          BY <3>1, <4>2
        <5>2. QED
          BY <3>1, <3>3, <5>1
      <4>3. QED
        BY <4>1, <4>2
    <3>7. QED
      BY <1>flight, <2>1, <2>4, <3>1, <3>3, <3>4, <3>5, <3>6
  <2>5. QED
    BY <2>3, <2>4
<1>12. ASSUME NEW c \in Conns, ConnectSSE(c) PROVE ReceivedOk' /\ FlightOk'
  <2>1. received' = received /\ cur' = c /\ hpc'[c] = "replay"
    BY <1>0, <1>12 DEF ConnectSSE, TypeOK
  <2>2. QED
    BY <1>5, <2>1 DEF FlightOk
<1>13. ASSUME NEW c \in Conns, ReadSSE(c) PROVE ReceivedOk' /\ FlightOk'
  <2> DEFINE n == Len(wire[c])
  <2>1. /\ UNCHANGED <<hid, hpc, nextID, cur>> /\ c = cur /\ wire[c] # <<>>
        /\ received' = Append(received, Head(wire[c])) /\ lastID' = Head(wire[c])
        /\ wire'[c] = Tail(wire[c])
    BY <1>0, <1>13 DEF ReadSSE, serverVars, TypeOK
  <2>2. /\ n \in Nat \ {0} /\ Head(wire[c]) = wire[c][1]
        /\ wire'[c] \in Seq(EventIds) /\ Len(wire'[c]) = n - 1
        /\ \A i \in 1 .. n - 1 : wire'[c][i] = wire[c][i + 1]
    BY <1>0, <2>1, HeadTailProperties
  <2>3. cur # None /\ hpc[cur] # "replay"
    BY <1>0, <2>1 DEF ConnInv
  <2>4. /\ lastID # 0 => Lost(lastID, wire[c][1])
        /\ \A i \in 1 .. n - 1 : Lost(wire[c][i], wire[c][i + 1])
        /\ hpc[c] = "writing" /\ Sent(c) # 0 => Lost(Sent(c), hid[c])
        /\ Top(c) # 0 => Lost(Top(c), nextID + 1)
    BY <1>3, <1>4, <2>1, <2>3 DEF FlightOk
  <2>5. Sent(c)' = Sent(c) /\ Top(c)' = Top(c)
    <3> HIDE DEF n
    <3>1. wire'[c] = <<>> <=> n = 1
      <4>1. wire'[c] = <<>> <=> Len(wire'[c]) = 0
        BY <2>2, EmptySeq
      <4>2. QED
        BY <2>2, <4>1
    <3>2. n = 1 => Sent(c) = wire[c][1] /\ Sent(c)' = wire[c][1]
      BY <2>1, <2>2, <3>1 DEF Sent, n
    <3>3. n # 1 => n - 1 \in 1 .. n - 1 /\ (n - 1) + 1 = n
      BY <2>2
    <3>4. n # 1 => Sent(c) = wire[c][n] /\ Sent(c)' = wire'[c][n - 1]
      BY <2>1, <2>2, <3>1 DEF Sent, n
    <3>5. Sent(c)' = Sent(c)
      BY <2>2, <3>2, <3>3, <3>4
    <3>6. QED
      BY <2>1, <3>5 DEF Top
  <2> HIDE DEF n
  <2>6. ReceivedOk'
    <3>1. /\ received \in Seq(EventIds) /\ Len(received) \in Nat
          /\ Len(received') = Len(received) + 1 /\ received'[Len(received) + 1] = wire[c][1]
          /\ \A i \in 1 .. Len(received) : received'[i] = received[i]
      BY <1>0, <2>1, <2>2 DEF TypeOK
    <3>2. /\ \A i \in 1 .. Len(received) - 1 : Lost(received[i], received[i + 1])
          /\ Len(received) # 0 => received[Len(received)] = lastID
      BY <1>0, <1>3, <1>4, <3>1 DEF ReceivedOk, OrderInv, ClientOk
    <3>3. Len(received) # 0 => lastID # 0
      <4>1. \A i \in 1 .. Len(received) : received[i] \in EventIds
        BY <3>1
      <4>2. Len(received) # 0 => Len(received) \in 1 .. Len(received)
        BY <3>1
      <4>3. 0 \notin EventIds
        BY DEF EventIds
      <4>4. QED
        BY <3>2, <4>1, <4>2, <4>3
    <3>4. ASSUME NEW i \in 1 .. Len(received') - 1 PROVE Lost(received'[i], received'[i + 1])
      <4>1. CASE i = Len(received)
        BY <2>4, <3>1, <3>2, <3>3, <4>1
      <4>2. CASE i # Len(received)
        <5>1. i \in 1 .. Len(received) - 1 /\ i \in 1 .. Len(received) /\ i + 1 \in 1 .. Len(received)
          BY <3>1, <4>2
        <5>2. QED
          BY <3>1, <3>2, <5>1
      <4>3. QED
        BY <4>1, <4>2
    <3>5. QED
      BY <1>received, <3>4
  <2>7. FlightOk'
    <3>1. wire'[c] # <<>> => Lost(lastID', wire'[c][1])
      <4>1. wire'[c] # <<>> => 1 \in 1 .. n - 1
        BY <2>2
      <4>2. QED
        BY <2>1, <2>2, <2>4, <4>1
    <3>2. ASSUME NEW i \in 1 .. (n - 1) - 1 PROVE Lost(wire'[c][i], wire'[c][i + 1])
      <4>1. i \in 1 .. n - 1 /\ i + 1 \in 1 .. n - 1
        BY <2>2
      <4>2. QED
        BY <2>2, <2>4, <4>1
    <3>3. QED
      BY <1>flight, <2>1, <2>2, <2>4, <2>5, <3>1, <3>2
  <2>8. QED
    BY <2>6, <2>7
<1>14. ASSUME NEW c \in Conns, Break(c) PROVE ReceivedOk' /\ FlightOk'
  <2>1. received' = received /\ cur' = None
    BY <1>14 DEF Break
  <2>2. QED
    BY <1>5, <2>1 DEF FlightOk
<1>15. CASE UNCHANGED vars
  <2>1. UNCHANGED <<lastID, received, nextID, cur, wire, hid, hpc, orphaned>>
    BY <1>15 DEF vars
  <2>2. QED
    BY <1>3, <1>5, <2>1 DEF FlightOk, Skipped, Sent, Top
<1>16. QED
  BY <1>7, <1>8, <1>9, <1>10, <1>11, <1>12, <1>13, <1>14, <1>15 DEF Next, HandlerStep, Over

\* Every step keeps the whole invariant.
LEMMA SseInductive == Spec => []Inv
<1>1. ASSUME Inv, [Next]_vars PROVE Inv'
  BY <1>1, SseTypeStep, BufferStep, ConnStep, OrderStep, GapStep DEF Inv
<1>2. QED
  BY <1>1, SseInit, PTL DEF Spec

-----------------------------------------------------------------------------
(* Theorems *)

\* The state of the server and of the client keeps its types: the buffer has at
\* most maxEvents events, and every message is in the channel, held by one
\* handler or numbered (httpsse.go 243-255, 392-397).
THEOREM SseTyping == Spec => []TypeOK
<1>1. Inv => TypeOK
  BY DEF Inv
<1>2. QED
  BY <1>1, SseInductive, PTL

\* The client receives no event twice and none out of order, over any number of
\* connections and of overlapping handlers (httpsse.go 258-272, 384-403).
THEOREM ReceivedInOrder == Spec => []EventsInOrder
<1>1. Inv => EventsInOrder
  BY DEF Inv, OrderInv, ClientOk
<1>2. QED
  BY <1>1, SseInductive, PTL

\* Until the buffer overflows, a client that connects again misses only what a
\* handler of a lost connection takes after the replay, for any sizes of the
\* buffer and the channel (httpsse.go 65-68, 258-272, 384-403).
THEOREM OnlyOrphansMissing == Spec => []NoGap
<1>1. Inv => NoGap
  BY DEF Inv, GapInv, ReceivedOk, Skipped, NoGap
<1>2. QED
  BY <1>1, SseInductive, PTL
=============================================================================
