---------------------------- MODULE RelayProofs ----------------------------
(* Theorems about Relay, for any number of participants and of messages, any  *)
(* capacity and any lifetimes. What the relay's loops over a queue compute is *)
(* proved by induction over the set of the prefixes for which it holds, from  *)
(* the least number of its complement.                                        *)
EXTENDS Relay, WellFoundedInduction, TLAPS

-----------------------------------------------------------------------------
(* The loop over a queue *)

\* A set with 0 and with the successor of each of its elements below L has all
\* numbers up to L.
LEMMA PrefixInduction ==
  ASSUME NEW L \in Nat, NEW S, 0 \in S, \A n \in 0 .. L : n \in S /\ n < L => n + 1 \in S
  PROVE  \A n \in 0 .. L : n \in S
<1> DEFINE Less == OpToRel(<, Nat)
           Rest == {n \in 0 .. L : n \notin S}
<1> SUFFICES ASSUME Rest # {} PROVE FALSE
  OBVIOUS
<1>1. IsWellFoundedOn(Less, Nat)
  BY NatLessThanWellFounded
<1>2. \A m, n \in Nat : m < n => <<m, n>> \in Less
  BY DEF OpToRel
<1> HIDE DEF Less
<1>3. Rest \subseteq Nat
  OBVIOUS
<1>4. PICK n \in Rest : \A m \in Rest : <<m, n>> \notin Less
  BY <1>1, <1>3, WFMin
<1>5. n \in Nat /\ n # 0 /\ n <= L
  BY <1>4
<1>6. n - 1 \in 0 .. L /\ n - 1 < n
  BY <1>5
<1>7. n - 1 \notin Rest
  <2>1. <<n - 1, n>> \in Less
    BY <1>2, <1>5, <1>6
  <2>2. QED
    BY <1>4, <2>1
<1>8. n \notin S /\ n - 1 \in S
  BY <1>4, <1>6, <1>7
<1>9. (n - 1) + 1 \in S
  BY <1>5, <1>6, <1>8
<1>10. QED
  BY <1>5, <1>8, <1>9

\* There is a function that does what the loop does.
LEMMA KeptExists ==
  ASSUME NEW M, NEW queue \in Seq(M), NEW t
  PROVE  Kept(queue, t) = [n \in 0 .. Len(queue) |->
            IF n = 0 THEN <<>>
            ELSE IF t < queue[n].exp THEN Append(Kept(queue, t)[n - 1], queue[n])
            ELSE Kept(queue, t)[n - 1]]
<1> DEFINE L == Len(queue)
           Step(s, n) == IF t < queue[n].exp THEN Append(s, queue[n]) ELSE s
           Loop(f, k) == f = [n \in 0 .. k |-> IF n = 0 THEN <<>> ELSE Step(f[n - 1], n)]
           Good == {k \in 0 .. L : \E f : Loop(f, k)}
<1>1. L \in Nat
  OBVIOUS
<1> HIDE DEF L
<1>2. 0 \in Good
  <2> DEFINE f == [n \in 0 .. 0 |-> <<>>]
  <2>1. Loop(f, 0)
    OBVIOUS
  <2> HIDE DEF f, Loop
  <2>2. \E h : Loop(h, 0)
    BY <2>1
  <2>3. QED
    BY <1>1, <2>2
<1>3. ASSUME NEW k \in 0 .. L, k \in Good, k < L PROVE k + 1 \in Good
  <2>1. PICK f : Loop(f, k)
    BY <1>3
  <2> DEFINE g == [n \in 0 .. k + 1 |-> IF n = k + 1 THEN Step(f[k], k + 1) ELSE f[n]]
  <2> HIDE DEF Step
  <2>2. \A n \in 0 .. k : f[n] = IF n = 0 THEN <<>> ELSE Step(f[n - 1], n)
    BY <2>1
  <2>3. \A n \in 0 .. k + 1 : g[n] = IF n = 0 THEN <<>> ELSE Step(g[n - 1], n)
    <3> SUFFICES ASSUME NEW n \in 0 .. k + 1
                 PROVE  g[n] = IF n = 0 THEN <<>> ELSE Step(g[n - 1], n)
      OBVIOUS
    <3>1. CASE n = k + 1
      <4>1. g[n] = Step(f[k], n) /\ g[n - 1] = f[k] /\ n # 0 /\ n - 1 = k
        BY <1>1, <3>1
      <4>2. QED
        BY <4>1
    <3>2. CASE n = 0
      BY <1>1, <2>2, <3>2
    <3>3. CASE n \in 1 .. k
      <4>1. g[n] = f[n] /\ g[n - 1] = f[n - 1] /\ n # 0 /\ n \in 0 .. k
        BY <1>1, <3>3
      <4>2. QED
        BY <2>2, <4>1
    <3>4. QED
      BY <3>1, <3>2, <3>3
  <2>4. Loop(g, k + 1)
    BY <2>3
  <2> HIDE DEF g, Loop
  <2>5. \E h : Loop(h, k + 1)
    BY <2>4
  <2>6. QED
    BY <1>1, <1>3, <2>5
<1>4. L \in Good
  <2> HIDE DEF Good
  <2>1. \A n \in 0 .. L : n \in Good /\ n < L => n + 1 \in Good
    BY <1>3
  <2>2. \A n \in 0 .. L : n \in Good
    BY <1>1, <1>2, <2>1, PrefixInduction
  <2>3. QED
    BY <1>1, <2>2
<1>5. \E f : Loop(f, L)
  BY <1>4
<1>6. Kept(queue, t) = CHOOSE f : Loop(f, L)
  BY DEF Kept, L
<1>7. Loop(Kept(queue, t), L)
  BY <1>5, <1>6
<1>8. QED
  BY <1>7 DEF L

\* The loop, message by message.
LEMMA KeptSteps ==
  ASSUME NEW M, NEW queue \in Seq(M), NEW t
  PROVE  /\ Kept(queue, t)[0] = <<>>
         /\ \A n \in 1 .. Len(queue) :
              Kept(queue, t)[n] = IF t < queue[n].exp
                                  THEN Append(Kept(queue, t)[n - 1], queue[n])
                                  ELSE Kept(queue, t)[n - 1]
<1> DEFINE K == Kept(queue, t)
           Step(n) == IF t < queue[n].exp THEN Append(K[n - 1], queue[n]) ELSE K[n - 1]
<1>1. K = [n \in 0 .. Len(queue) |-> IF n = 0 THEN <<>> ELSE Step(n)]
  BY KeptExists
<1>2. Len(queue) \in Nat
  OBVIOUS
<1> HIDE DEF K, Step
<1>3. K[0] = <<>> /\ \A n \in 1 .. Len(queue) : K[n] = Step(n)
  BY <1>1, <1>2
<1>4. QED
  BY <1>3 DEF K, Step

\* What the loop keeps are messages, and no more than it has seen.
LEMMA KeptTyping ==
  ASSUME NEW M, NEW queue \in Seq(M), NEW t
  PROVE  \A n \in 0 .. Len(queue) : Kept(queue, t)[n] \in Seq(M) /\ Len(Kept(queue, t)[n]) <= n
<1> DEFINE K == Kept(queue, t)
           L == Len(queue)
           Good == {n \in 0 .. L : K[n] \in Seq(M) /\ Len(K[n]) <= n}
<1>1. /\ L \in Nat /\ \A n \in 1 .. L : queue[n] \in M
      /\ K[0] = <<>>
      /\ \A n \in 1 .. L : K[n] = IF t < queue[n].exp THEN Append(K[n - 1], queue[n]) ELSE K[n - 1]
  BY KeptSteps
<1> HIDE DEF K, L
<1>2. 0 \in Good
  <2>1. <<>> \in Seq(M) /\ Len(<<>>) = 0
    OBVIOUS
  <2>2. L \in Nat /\ K[0] = <<>>
    BY <1>1
  <2>3. 0 \in 0 .. L /\ K[0] \in Seq(M) /\ Len(K[0]) <= 0
    BY <2>1, <2>2
  <2>4. QED
    BY <2>3
<1>3. ASSUME NEW n \in 0 .. L, n \in Good, n < L PROVE n + 1 \in Good
  <2>1. n + 1 \in 1 .. L /\ (n + 1) - 1 = n /\ K[n] \in Seq(M) /\ Len(K[n]) <= n
    BY <1>1, <1>3
  <2>2. K[n + 1] = IF t < queue[n + 1].exp THEN Append(K[n], queue[n + 1]) ELSE K[n]
    BY <1>1, <2>1
  <2>3. K[n + 1] \in Seq(M) /\ Len(K[n + 1]) <= n + 1
    BY <1>1, <2>1, <2>2
  <2>4. QED
    BY <1>1, <2>1, <2>3
<1>4. \A n \in 0 .. L : n \in Good
  <2> HIDE DEF Good
  <2>1. \A n \in 0 .. L : n \in Good /\ n < L => n + 1 \in Good
    BY <1>3
  <2>2. QED
    BY <1>1, <1>2, <2>1, PrefixInduction
<1>5. QED
  BY <1>4 DEF K, L

\* The same for the whole queue.
LEMMA AliveTyping ==
  ASSUME NEW M, NEW queue \in Seq(M), NEW t
  PROVE  Alive(queue, t) \in Seq(M) /\ Len(Alive(queue, t)) <= Len(queue)
<1>1. Len(queue) \in 0 .. Len(queue)
  OBVIOUS
<1>2. QED
  BY <1>1, KeptTyping DEF Alive

\* Nothing is alive in an empty queue.
LEMMA AliveEmpty ==
  ASSUME NEW t
  PROVE  Alive(<<>>, t) = <<>>
<1>1. <<>> \in Seq({}) /\ Len(<<>>) = 0
  OBVIOUS
<1>2. QED
  BY <1>1, KeptSteps DEF Alive

\* A message at the end of the queue is looked at last.
LEMMA AliveAppend ==
  ASSUME NEW M, NEW queue \in Seq(M), NEW m \in M, NEW t
  PROVE  Alive(Append(queue, m), t) =
            IF t < m.exp THEN Append(Alive(queue, t), m) ELSE Alive(queue, t)
<1> DEFINE longer == Append(queue, m)
           L == Len(queue)
           K == Kept(queue, t)
           J == Kept(longer, t)
           Good == {n \in 0 .. L : J[n] = K[n]}
<1>1. /\ L \in Nat /\ longer \in Seq(M) /\ Len(longer) = L + 1 /\ longer[L + 1] = m
      /\ \A n \in 1 .. L : longer[n] = queue[n]
  OBVIOUS
<1>2. /\ K[0] = <<>>
      /\ \A n \in 1 .. L : K[n] = IF t < queue[n].exp THEN Append(K[n - 1], queue[n]) ELSE K[n - 1]
  BY KeptSteps
<1> HIDE DEF longer
<1>3. /\ J[0] = <<>>
      /\ \A n \in 1 .. L + 1 :
           J[n] = IF t < longer[n].exp THEN Append(J[n - 1], longer[n]) ELSE J[n - 1]
  BY <1>1, KeptSteps
<1> HIDE DEF L, K, J
<1>4. 0 \in Good
  BY <1>1, <1>2, <1>3
<1>5. ASSUME NEW n \in 0 .. L, n \in Good, n < L PROVE n + 1 \in Good
  <2>1. n + 1 \in 1 .. L /\ n + 1 \in 1 .. L + 1 /\ (n + 1) - 1 = n /\ J[n] = K[n]
    BY <1>1, <1>5
  <2>2. J[n + 1] = K[n + 1]
    BY <1>1, <1>2, <1>3, <2>1
  <2>3. QED
    BY <1>1, <2>1, <2>2
<1>6. J[L] = K[L]
  <2>1. \A n \in 0 .. L : n \in Good
    <3> HIDE DEF Good
    <3>1. \A n \in 0 .. L : n \in Good /\ n < L => n + 1 \in Good
      BY <1>5
    <3>2. QED
      BY <1>1, <1>4, <3>1, PrefixInduction
  <2>2. QED
    BY <1>1, <2>1
<1>7. J[L + 1] = IF t < m.exp THEN Append(J[L], m) ELSE J[L]
  BY <1>1, <1>3
<1>8. Alive(queue, t) = K[L] /\ Alive(longer, t) = J[L + 1]
  BY <1>1 DEF Alive, K, J, L
<1>9. QED
  BY <1>6, <1>7, <1>8 DEF longer

\* Looking at a later time at what was kept finds what is alive then: a purge
\* changes no later answer.
LEMMA AliveLater ==
  ASSUME NEW M, \A m \in M : m.exp \in Nat, NEW queue \in Seq(M),
         NEW t \in Nat, NEW u \in Nat, t <= u
  PROVE  Alive(Alive(queue, t), u) = Alive(queue, u)
<1> DEFINE L == Len(queue)
           K == Kept(queue, t)
           J == Kept(queue, u)
           Good == {n \in 0 .. L : Alive(K[n], u) = J[n]}
<1>1. L \in Nat /\ \A n \in 1 .. L : queue[n] \in M /\ queue[n].exp \in Nat
  OBVIOUS
<1>2. /\ K[0] = <<>>
      /\ \A n \in 1 .. L : K[n] = IF t < queue[n].exp THEN Append(K[n - 1], queue[n]) ELSE K[n - 1]
      /\ \A n \in 0 .. L : K[n] \in Seq(M)
  BY KeptSteps, KeptTyping
<1>3. /\ J[0] = <<>>
      /\ \A n \in 1 .. L : J[n] = IF u < queue[n].exp THEN Append(J[n - 1], queue[n]) ELSE J[n - 1]
  BY KeptSteps
<1> HIDE DEF L, K, J
<1>4. 0 \in Good
  BY <1>1, <1>2, <1>3, AliveEmpty
<1>5. ASSUME NEW n \in 0 .. L, n \in Good, n < L PROVE n + 1 \in Good
  <2> DEFINE m == queue[n + 1]
  <2>1. n + 1 \in 1 .. L /\ n + 1 \in 0 .. L /\ (n + 1) - 1 = n /\ Alive(K[n], u) = J[n]
    BY <1>1, <1>5
  <2>2. m \in M /\ m.exp \in Nat /\ K[n] \in Seq(M)
    BY <1>1, <1>2, <2>1
  <2>3. K[n + 1] = IF t < m.exp THEN Append(K[n], m) ELSE K[n]
    BY <1>2, <2>1
  <2>4. J[n + 1] = IF u < m.exp THEN Append(J[n], m) ELSE J[n]
    BY <1>3, <2>1
  <2> HIDE DEF m
  <2>5. Alive(Append(K[n], m), u) = IF u < m.exp THEN Append(J[n], m) ELSE J[n]
    BY <2>1, <2>2, AliveAppend
  <2>6. CASE t < m.exp
    BY <2>1, <2>3, <2>4, <2>5, <2>6
  <2>7. CASE ~(t < m.exp)
    <3>1. ~(u < m.exp)
      BY <2>2, <2>7
    <3>2. QED
      BY <2>1, <2>3, <2>4, <2>7, <3>1
  <2>8. QED
    BY <2>6, <2>7
<1>6. Alive(K[L], u) = J[L]
  <2>1. \A n \in 0 .. L : n \in Good
    <3> HIDE DEF Good
    <3>1. \A n \in 0 .. L : n \in Good /\ n < L => n + 1 \in Good
      BY <1>5
    <3>2. QED
      BY <1>1, <1>4, <3>1, PrefixInduction
  <2>2. QED
    BY <1>1, <2>1
<1>7. QED
  BY <1>6 DEF Alive, K, J, L

-----------------------------------------------------------------------------
(* Invariants *)

\* The state before anything has come in.
LEMMA RelayInit == Init => TypeOK /\ RefusedOnlyWhenFull
  BY RelayConstantsAssumption
  DEF Init, TypeOK, RefusedOnlyWhenFull, Times, Unstamped

\* What Enqueue looks at once it has purged the queue of p, and what it says of
\* a queue that is full then.
LEMMA Purged ==
  ASSUME TypeOK, NEW p \in Participants
  PROVE  /\ Unexpired(queues[p]) \in Seq(Messages)
         /\ Len(Unexpired(queues[p])) <= MaxQueueSize
         /\ Alive(Unexpired(queues[p]), now) = Unexpired(queues[p])
<1>1. queues[p] \in Seq(Messages) /\ Len(queues[p]) <= MaxQueueSize /\ now \in Nat
  BY DEF TypeOK, Times
<1>2. Unexpired(queues[p]) \in Seq(Messages) /\ Len(Unexpired(queues[p])) <= Len(queues[p])
  BY <1>1, AliveTyping DEF Unexpired
<1>3. Len(queues[p]) \in Nat /\ Len(Unexpired(queues[p])) \in Nat
  BY <1>1, <1>2
<1>4. \A m \in Messages : m.exp \in Nat
  BY DEF Messages
<1>5. Alive(Unexpired(queues[p]), now) = Unexpired(queues[p])
  BY <1>1, <1>4, AliveLater DEF Unexpired
<1>6. QED
  BY <1>1, <1>2, <1>3, <1>5, RelayConstantsAssumption

\* Every step keeps the types and the bound of the queues.
LEMMA RelayTypeStep ==
  ASSUME TypeOK, [Next]_vars
  PROVE  TypeOK'
<1> USE RelayConstantsAssumption
<1>1. CASE \E r \in Registers : Stamp(r)
  BY <1>1 DEF Stamp, TypeOK
<1>2. ASSUME NEW r \in Registers, Store(r) PROVE TypeOK'
  <2>1. stamped[r] \in Participants \X Times
    <3>1. Len(<<>>) = 0 /\ Len(<<"replied">>) = 1
      OBVIOUS
    <3>2. stamped[r] \notin {<<>>, <<"replied">>}
      BY <1>2, <3>1 DEF Store
    <3>3. QED
      BY <3>2 DEF TypeOK, Unstamped
  <2>2. stamped[r][1] \in Participants /\ stamped[r][2] + RegistrationTTL \in Nat
    BY <2>1 DEF Times
  <2>3. QED
    BY <1>2, <2>2 DEF Store, TypeOK
<1>3. ASSUME NEW p \in Participants, Enqueue(p) PROVE TypeOK'
  <2> DEFINE queue == Unexpired(queues[p])
             msg == [num |-> accepted + 1, exp |-> now + MessageTTL]
  <2>1. queue \in Seq(Messages) /\ Len(queue) <= MaxQueueSize
    BY Purged
  <2>2. accepted < MaxMessages /\ UNCHANGED <<registrations, drained, stamped, now>>
    BY <1>3 DEF Enqueue
  <2>3. msg \in Messages
    BY <2>2 DEF TypeOK, Messages, Times
  <2>4. CASE Len(queue) >= MaxQueueSize
    <3>1. /\ queues' = [queues EXCEPT ![p] = queue] /\ refused' = <<queue, now>>
          /\ UNCHANGED accepted
      BY <1>3, <2>4 DEF Enqueue
    <3> HIDE DEF queue
    <3>2. QED
      BY <2>1, <2>2, <3>1 DEF TypeOK
  <2>5. CASE ~(Len(queue) >= MaxQueueSize)
    <3>1. /\ queues' = [queues EXCEPT ![p] = Append(queue, msg)]
          /\ accepted' = accepted + 1 /\ UNCHANGED refused
      BY <1>3, <2>5 DEF Enqueue
    <3> HIDE DEF queue, msg
    <3>2. Append(queue, msg) \in Seq(Messages) /\ Len(Append(queue, msg)) <= MaxQueueSize
      BY <2>1, <2>3, <2>5
    <3>3. QED
      BY <2>2, <3>1, <3>2 DEF TypeOK
  <2>6. QED
    BY <2>4, <2>5
<1>4. ASSUME NEW p \in Participants, Drain(p) PROVE TypeOK'
  <2>1. drained' \in [Participants -> Seq(Messages)]
    BY <1>4, Purged DEF Drain, TypeOK
  <2>2. /\ queues' \in [Participants -> Seq(Messages)]
        /\ \A q \in Participants : Len(queues'[q]) <= MaxQueueSize
    BY <1>4 DEF Drain, TypeOK
  <2>3. QED
    BY <1>4, <2>1, <2>2 DEF Drain, TypeOK
<1>5. CASE \E p \in Participants : Unregister(p)
  BY <1>5 DEF Unregister, TypeOK
<1>6. CASE PurgeExpired
  <2>1. /\ queues' \in [Participants -> Seq(Messages)]
        /\ \A p \in Participants : Len(queues'[p]) <= MaxQueueSize
    BY <1>6, Purged DEF PurgeExpired
  <2>2. QED
    BY <1>6, <2>1 DEF PurgeExpired, TypeOK
<1>7. CASE Tick
  BY <1>7 DEF Tick, TypeOK, Times
<1>8. CASE UNCHANGED vars
  BY <1>8 DEF vars, TypeOK
<1>9. QED
  BY <1>1, <1>2, <1>3, <1>4, <1>5, <1>6, <1>7, <1>8 DEF Next

\* The types of the relay's state, for any constants; no queue is ever longer
\* than MaxQueueSize (relay.go 163-173).
THEOREM RelayTyping == Spec => []TypeOK
  BY RelayInit, RelayTypeStep, PTL DEF Spec

\* A message is refused only for MaxQueueSize messages that are still alive,
\* for any capacity and any lifetimes (relay.go 152-165).
THEOREM RefusedWhenFull == Spec => []RefusedOnlyWhenFull
<1>1. ASSUME TypeOK, RefusedOnlyWhenFull, [Next]_vars PROVE RefusedOnlyWhenFull'
  <2>1. CASE UNCHANGED refused
    BY <1>1, <2>1 DEF RefusedOnlyWhenFull
  <2>2. ASSUME NEW p \in Participants, Enqueue(p), Len(Unexpired(queues[p])) >= MaxQueueSize
        PROVE  RefusedOnlyWhenFull'
    <3> DEFINE queue == Unexpired(queues[p])
    <3>1. /\ queue \in Seq(Messages) /\ Len(queue) <= MaxQueueSize
          /\ Alive(queue, now) = queue
      BY <1>1, Purged
    <3>2. refused' = <<queue, now>> /\ Len(queue) >= MaxQueueSize
      BY <2>2 DEF Enqueue
    <3> HIDE DEF queue
    <3>3. Len(queue) = MaxQueueSize
      BY <3>1, <3>2, RelayConstantsAssumption
    <3>4. QED
      BY <3>1, <3>2, <3>3 DEF RefusedOnlyWhenFull
  <2>3. QED
    BY <1>1, <2>1, <2>2 DEF Next, Stamp, Store, Enqueue, Drain, Unregister, PurgeExpired, Tick,
       vars
<1>2. QED
  BY <1>1, RelayInit, RelayTyping, PTL DEF Spec

\* PurgeExpired changes neither who is registered nor what Drain would return,
\* in any reachable state (relay.go 213-240 against 141 and 186-193).
THEOREM PurgeUnseen == Spec => PurgeInvisible
<1>1. ASSUME TypeOK, PurgeExpired, NEW p \in Participants
      PROVE  /\ IsRegistered(p)' = IsRegistered(p)
             /\ Unexpired(queues[p])' = Unexpired(queues[p])
  <2>1. registrations[p] \in Nat /\ now \in Nat /\ now' = now
    BY <1>1 DEF TypeOK, Times, PurgeExpired
  <2>2. registrations'[p] = IF now > registrations[p] THEN 0 ELSE registrations[p]
    BY <1>1 DEF PurgeExpired
  <2>3. IsRegistered(p)' = IsRegistered(p)
    BY <2>1, <2>2 DEF IsRegistered
  <2>4. queues'[p] = Unexpired(queues[p])
    BY <1>1 DEF PurgeExpired
  <2>5. Unexpired(queues[p])' = Alive(queues'[p], now)
    BY <2>1 DEF Unexpired
  <2>6. QED
    BY <1>1, <2>3, <2>4, <2>5, Purged
<1>2. TypeOK => [PurgeExpired =>
                    \A p \in Participants :
                        /\ IsRegistered(p)' = IsRegistered(p)
                        /\ Unexpired(queues[p])' = Unexpired(queues[p])]_vars
  BY <1>1
<1>3. QED
  BY <1>2, RelayTyping, PTL DEF PurgeInvisible

-----------------------------------------------------------------------------
(* The mailbox *)

\* The box that the queues show.
Shown == [p \in Participants |-> Unexpired(queues[p])]

\* The filter of the mailbox is that of the relay.
LEMMA SameFilter == \A queue, t : Box!Alive(queue, t) = Alive(queue, t)
  BY DEF Box!Alive, Box!Kept, Alive, Kept

\* Empty queues show an empty mailbox.
LEMMA MailboxInit == Init => Box!Init
  BY AliveEmpty DEF Init, Box!Init, Unexpired

\* A step that shows every participant the same messages and drains none is a
\* stutter of the mailbox.
LEMMA MailboxStutter ==
  ASSUME \A p \in Participants : Unexpired(queues[p])' = Unexpired(queues[p]),
         UNCHANGED <<drained, now>>
  PROVE  UNCHANGED Box!vars
  BY DEF Box!vars

\* An accepted message is put into the mailbox, and a refused one leaves it as
\* it is.
LEMMA MailboxPut ==
  ASSUME TypeOK, NEW p \in Participants, Enqueue(p)
  PROVE  Box!Put(p) \/ UNCHANGED Box!vars
<1> DEFINE queue == Unexpired(queues[p])
           msg == [num |-> accepted + 1, exp |-> now + MessageTTL]
<1>1. queue \in Seq(Messages) /\ Alive(queue, now) = queue /\ now \in Nat
  BY Purged DEF TypeOK, Times
<1>2. msg \in Messages /\ msg.exp = now + MessageTTL /\ now < msg.exp
  BY RelayConstantsAssumption DEF Enqueue, TypeOK, Messages, Times
<1>3. UNCHANGED <<drained, now>>
  BY DEF Enqueue
<1>4. CASE Len(queue) >= MaxQueueSize
  <2>1. queues' = [queues EXCEPT ![p] = queue]
    BY <1>4 DEF Enqueue
  <2>2. \A q \in Participants : queues'[q] = IF q = p THEN queue ELSE queues[q]
    BY <2>1 DEF TypeOK
  <2>3. ASSUME NEW q \in Participants PROVE Unexpired(queues[q])' = Unexpired(queues[q])
    BY <1>1, <1>3, <2>2 DEF Unexpired
  <2>4. QED
    BY <1>3, <2>3, MailboxStutter
<1>5. CASE ~(Len(queue) >= MaxQueueSize)
  <2>1. queues' = [queues EXCEPT ![p] = Append(queue, msg)]
    BY <1>5 DEF Enqueue
  <2>2. \A q \in Participants : queues'[q] = IF q = p THEN Append(queue, msg) ELSE queues[q]
    BY <2>1 DEF TypeOK
  <2> HIDE DEF msg
  <2>3. Alive(Append(queue, msg), now) = Append(queue, msg)
    BY <1>1, <1>2, AliveAppend
  <2>4. \A q \in Participants :
           Unexpired(queues[q])' = IF q = p THEN Append(queue, msg) ELSE Unexpired(queues[q])
    BY <1>3, <2>2, <2>3 DEF Unexpired
  <2>5. Shown[p] = queue /\ Shown' = [Shown EXCEPT ![p] = Append(queue, msg)]
    BY <2>4 DEF Shown
  <2> HIDE DEF queue
  <2>6. Shown'[p] = Append(queue, msg)
    BY <2>5 DEF Shown
  <2>7. /\ Len(queue) \in Nat /\ Len(queue) < MaxQueueSize
        /\ Len(Shown'[p]) = Len(queue) + 1
        /\ Shown'[p][Len(queue) + 1] = msg
    BY <1>1, <1>2, <1>5, <2>6, RelayConstantsAssumption
  <2>8. /\ Len(Shown[p]) < MaxQueueSize
        /\ Len(Shown'[p]) = Len(Shown[p]) + 1
        /\ Shown'[p][Len(Shown'[p])].exp = now + MessageTTL
        /\ Shown' = [Shown EXCEPT ![p] = Append(Shown[p], Shown'[p][Len(Shown'[p])])]
        /\ UNCHANGED <<drained, now>>
    BY <1>2, <1>3, <2>5, <2>6, <2>7
  <2>9. Box!Put(p)
    BY <2>8 DEF Box!Put, Shown
  <2>10. QED
    BY <2>9
<1>6. QED
  BY <1>4, <1>5

\* Drain takes what the mailbox holds.
LEMMA MailboxTake ==
  ASSUME TypeOK, NEW p \in Participants, Drain(p)
  PROVE  Box!Take(p)
<1>1. UNCHANGED now /\ \A q \in Participants : queues'[q] = IF q = p THEN <<>> ELSE queues[q]
  BY DEF Drain, TypeOK
<1>2. \A q \in Participants : Unexpired(queues[q])' = IF q = p THEN <<>> ELSE Unexpired(queues[q])
  BY <1>1, AliveEmpty DEF Unexpired
<1>3. Shown' = [Shown EXCEPT ![p] = <<>>] /\ Shown[p] = Unexpired(queues[p])
  BY <1>2 DEF Shown
<1>4. drained' = [drained EXCEPT ![p] = drained[p] \o Shown[p]]
  BY <1>3 DEF Drain
<1>5. QED
  BY <1>1, <1>3, <1>4 DEF Box!Take, Shown

\* The clock lets expire what reaches its end, whether it is purged or not.
LEMMA MailboxAge ==
  ASSUME TypeOK, Tick
  PROVE  Box!Age
<1>1. now \in Nat /\ now' = now + 1 /\ UNCHANGED <<queues, drained>>
  BY DEF Tick, TypeOK, Times
<1>2. \A m \in Messages : m.exp \in Nat
  BY DEF Messages
<1>3. ASSUME NEW p \in Participants
      PROVE  Unexpired(queues[p])' = Box!Alive(Shown[p], now + 1)
  <2>1. queues[p] \in Seq(Messages) /\ now + 1 \in Nat /\ now <= now + 1
    BY <1>1 DEF TypeOK
  <2>2. Alive(Alive(queues[p], now), now + 1) = Alive(queues[p], now + 1)
    BY <1>1, <1>2, <2>1, AliveLater
  <2>3. Unexpired(queues[p])' = Alive(queues[p], now + 1)
    BY <1>1 DEF Unexpired
  <2>4. Shown[p] = Alive(queues[p], now)
    BY DEF Shown, Unexpired
  <2>5. QED
    BY <2>2, <2>3, <2>4, SameFilter
<1>4. Shown' = [p \in Participants |-> Box!Alive(Shown[p], now + 1)]
  BY <1>3 DEF Shown
<1>5. QED
  BY <1>1, <1>4 DEF Box!Age, Shown

\* Every step of the relay is a step of the mailbox or leaves it as it is.
LEMMA MailboxStep ==
  ASSUME TypeOK, [Next]_vars
  PROVE  [Box!Next]_(Box!vars)
<1>1. ASSUME UNCHANGED <<queues, drained, now>> PROVE UNCHANGED Box!vars
  BY <1>1, MailboxStutter DEF Unexpired
<1>2. CASE \E r \in Registers : Stamp(r) \/ Store(r)
  BY <1>1, <1>2 DEF Stamp, Store
<1>3. CASE \E p \in Participants : Enqueue(p)
  BY <1>3, MailboxPut DEF Box!Next
<1>4. CASE \E p \in Participants : Drain(p)
  BY <1>4, MailboxTake DEF Box!Next
<1>5. CASE \E p \in Participants : Unregister(p)
  BY <1>1, <1>5 DEF Unregister
<1>6. CASE PurgeExpired
  <2>1. UNCHANGED <<drained, now>> /\ \A p \in Participants : queues'[p] = Unexpired(queues[p])
    BY <1>6 DEF PurgeExpired
  <2>2. \A p \in Participants : Unexpired(queues[p])' = Unexpired(queues[p])
    BY <2>1, Purged DEF Unexpired
  <2>3. QED
    BY <2>1, <2>2, MailboxStutter
<1>7. CASE Tick
  BY <1>7, MailboxAge DEF Box!Next
<1>8. CASE UNCHANGED vars
  BY <1>1, <1>8 DEF vars
<1>9. QED
  BY <1>2, <1>3, <1>4, <1>5, <1>6, <1>7, <1>8 DEF Next

\* The queues implement the mailbox, for any capacity, any lifetimes and any
\* number of participants: messages are delivered at most once, in the order in
\* which they were accepted, and none is lost before its time, however the
\* operations, purges and the clock interleave (relay.go 146-240).
THEOREM RelayImplementsMailbox == Spec => ImplementsMailbox
  BY MailboxInit, MailboxStep, RelayTyping, PTL DEF Spec, ImplementsMailbox, Box!Spec
=============================================================================
