-------------------------- MODULE TransportsProofs --------------------------
(* Theorems about Transports, for any number of writers, of messages and of   *)
(* lines that are not JSON, any texts and any capacities of the channels; and *)
(* about HttpLink, for any number of POSTs and any capacities.                *)
EXTENDS Transports, HttpLink, WellFoundedInduction, TLAPS

-----------------------------------------------------------------------------
(* Sequences of sequences *)

\* A set with 0 and with the successor of each of its elements below L has all
\* numbers up to L.
LEMMA PrefixInduction ==
  ASSUME NEW L \in Nat, NEW S, 0 \in S, \A n \in 0 .. L : n \in S /\ n < L => n + 1 \in S
  PROVE  \A n \in 0 .. L : n \in S
<1> DEFINE Less == OpToRel(<, Nat)
           Rest == {n \in 0 .. L : n \notin S}
<1> SUFFICES ASSUME Rest # {} PROVE FALSE
  OBVIOUS
<1>1. IsWellFoundedOn(Less, Nat)
  BY NatLessThanWellFounded
<1>2. \A m, n \in Nat : m < n => <<m, n>> \in Less
  BY DEF OpToRel
<1> HIDE DEF Less
<1>3. Rest \subseteq Nat
  OBVIOUS
<1>4. PICK n \in Rest : \A m \in Rest : <<m, n>> \notin Less
  BY <1>1, <1>3, WFMin
<1>5. n \in Nat /\ n # 0 /\ n <= L
  BY <1>4
<1>6. n - 1 \in 0 .. L /\ n - 1 < n
  BY <1>5
<1>7. n - 1 \notin Rest
  <2>1. <<n - 1, n>> \in Less
    BY <1>2, <1>5, <1>6
  <2>2. QED
    BY <1>4, <2>1
<1>8. n \notin S /\ n - 1 \in S
  BY <1>4, <1>6, <1>7
<1>9. (n - 1) + 1 \in S
  BY <1>5, <1>6, <1>8
<1>10. QED
  BY <1>5, <1>8, <1>9

\* There is a function that joins the parts.
LEMMA JoinedExists ==
  ASSUME NEW P, NEW parts \in Seq(P)
  PROVE  Joined(parts) = [n \in 0 .. Len(parts) |->
            IF n = 0 THEN <<>> ELSE Joined(parts)[n - 1] \o parts[n]]
<1> DEFINE L == Len(parts)
           Step(s, n) == s \o parts[n]
           Joins(f, k) == f = [n \in 0 .. k |-> IF n = 0 THEN <<>> ELSE Step(f[n - 1], n)]
           Good == {k \in 0 .. L : \E f : Joins(f, k)}
<1>1. L \in Nat
  OBVIOUS
<1> HIDE DEF L
<1>2. 0 \in Good
  <2> DEFINE f == [n \in 0 .. 0 |-> <<>>]
  <2>1. Joins(f, 0)
    OBVIOUS
  <2> HIDE DEF f, Joins
  <2>2. \E h : Joins(h, 0)
    BY <2>1
  <2>3. QED
    BY <1>1, <2>2
<1>3. ASSUME NEW k \in 0 .. L, k \in Good, k < L PROVE k + 1 \in Good
  <2>1. PICK f : Joins(f, k)
    BY <1>3
  <2> DEFINE g == [n \in 0 .. k + 1 |-> IF n = k + 1 THEN Step(f[k], k + 1) ELSE f[n]]
  <2> HIDE DEF Step
  <2>2. \A n \in 0 .. k : f[n] = IF n = 0 THEN <<>> ELSE Step(f[n - 1], n)
    BY <2>1
  <2>3. \A n \in 0 .. k + 1 : g[n] = IF n = 0 THEN <<>> ELSE Step(g[n - 1], n)
    <3> SUFFICES ASSUME NEW n \in 0 .. k + 1
                 PROVE  g[n] = IF n = 0 THEN <<>> ELSE Step(g[n - 1], n)
      OBVIOUS
    <3>1. CASE n = k + 1
      <4>1. g[n] = Step(f[k], n) /\ g[n - 1] = f[k] /\ n # 0 /\ n - 1 = k
        BY <1>1, <3>1
      <4>2. QED
        BY <4>1
    <3>2. CASE n = 0
      BY <1>1, <2>2, <3>2
    <3>3. CASE n \in 1 .. k
      <4>1. g[n] = f[n] /\ g[n - 1] = f[n - 1] /\ n # 0 /\ n \in 0 .. k
        BY <1>1, <3>3
      <4>2. QED
        BY <2>2, <4>1
    <3>4. QED
      BY <3>1, <3>2, <3>3
  <2>4. Joins(g, k + 1)
    BY <2>3
  <2> HIDE DEF g, Joins
  <2>5. \E h : Joins(h, k + 1)
    BY <2>4
  <2>6. QED
    BY <1>1, <1>3, <2>5
<1>4. L \in Good
  <2> HIDE DEF Good
  <2>1. \A n \in 0 .. L : n \in Good /\ n < L => n + 1 \in Good
    BY <1>3
  <2>2. \A n \in 0 .. L : n \in Good
    BY <1>1, <1>2, <2>1, PrefixInduction
  <2>3. QED
    BY <1>1, <2>2
<1>5. \E f : Joins(f, L)
  BY <1>4
<1>6. Joined(parts) = CHOOSE f : Joins(f, L)
  BY DEF Joined, L
<1>7. Joins(Joined(parts), L)
  BY <1>5, <1>6
<1>8. QED
  BY <1>7 DEF L

\* The parts are joined one by one.
LEMMA JoinedSteps ==
  ASSUME NEW P, NEW parts \in Seq(P)
  PROVE  /\ Joined(parts)[0] = <<>>
         /\ \A n \in 1 .. Len(parts) : Joined(parts)[n] = Joined(parts)[n - 1] \o parts[n]
<1> DEFINE J == Joined(parts)
           Step(n) == J[n - 1] \o parts[n]
<1>1. J = [n \in 0 .. Len(parts) |-> IF n = 0 THEN <<>> ELSE Step(n)]
  BY JoinedExists
<1>2. Len(parts) \in Nat
  OBVIOUS
<1> HIDE DEF J, Step
<1>3. J[0] = <<>> /\ \A n \in 1 .. Len(parts) : J[n] = Step(n)
  BY <1>1, <1>2
<1>4. QED
  BY <1>3 DEF J, Step

\* What comes after the first n parts does not matter to their join.
LEMMA JoinedPrefix ==
  ASSUME NEW P, NEW parts \in Seq(P), NEW longer \in Seq(P), Len(parts) <= Len(longer),
         \A i \in 1 .. Len(parts) : longer[i] = parts[i]
  PROVE  \A n \in 0 .. Len(parts) : Joined(longer)[n] = Joined(parts)[n]
<1> DEFINE L == Len(parts)
           J == Joined(parts)
           K == Joined(longer)
           Good == {n \in 0 .. L : K[n] = J[n]}
<1>1. L \in Nat /\ Len(longer) \in Nat /\ L <= Len(longer)
  OBVIOUS
<1>2. J[0] = <<>> /\ \A n \in 1 .. L : J[n] = J[n - 1] \o parts[n]
  BY JoinedSteps
<1>3. K[0] = <<>> /\ \A n \in 1 .. Len(longer) : K[n] = K[n - 1] \o longer[n]
  BY JoinedSteps
<1>4. \A n \in 1 .. L : longer[n] = parts[n]
  OBVIOUS
<1> HIDE DEF L, J, K
<1>5. 0 \in Good
  BY <1>1, <1>2, <1>3
<1>6. ASSUME NEW n \in 0 .. L, n \in Good, n < L PROVE n + 1 \in Good
  <2>1. n + 1 \in 1 .. L /\ n + 1 \in 1 .. Len(longer) /\ (n + 1) - 1 = n /\ K[n] = J[n]
    BY <1>1, <1>6
  <2>2. K[n + 1] = J[n + 1]
    BY <1>2, <1>3, <1>4, <2>1
  <2>3. QED
    BY <1>1, <2>1, <2>2
<1>7. \A n \in 0 .. L : n \in Good
  <2> HIDE DEF Good
  <2>1. \A n \in 0 .. L : n \in Good /\ n < L => n + 1 \in Good
    BY <1>6
  <2>2. QED
    BY <1>1, <1>5, <2>1, PrefixInduction
<1>8. QED
  BY <1>7 DEF L, J, K

\* What a sequence with one more element is.
LEMMA OneMore ==
  ASSUME NEW M, NEW t \in Seq(M), NEW x \in M
  PROVE  /\ t \o <<x>> \in Seq(M) /\ Len(t \o <<x>>) = Len(t) + 1
         /\ \A i \in 1 .. Len(t) : (t \o <<x>>)[i] = t[i]
         /\ (t \o <<x>>)[Len(t) + 1] = x
<1>1. t \o <<x>> = Append(t, x)
  OBVIOUS
<1>2. /\ Append(t, x) \in Seq(M) /\ Len(Append(t, x)) = Len(t) + 1
      /\ \A i \in 1 .. Len(t) : Append(t, x)[i] = t[i]
      /\ Append(t, x)[Len(t) + 1] = x
  OBVIOUS
<1>3. QED
  BY <1>1, <1>2

\* Joining the elements of a sequence, each by itself, gives the sequence.
LEMMA JoinedSingles ==
  ASSUME NEW M, NEW s \in Seq(M)
  PROVE  Joined([i \in 1 .. Len(s) |-> <<s[i]>>])[Len(s)] = s
<1> DEFINE L == Len(s)
           parts == [i \in 1 .. L |-> <<s[i]>>]
           J == Joined(parts)
           Is(t, n) == /\ t \in Seq(M) /\ Len(t) = n
                       /\ \A i \in 1 .. n : t[i] = s[i]
           Good == {n \in 0 .. L : Is(J[n], n)}
<1>1. L \in Nat /\ \A i \in 1 .. L : s[i] \in M
  OBVIOUS
<1>2. parts \in Seq(Seq(M)) /\ Len(parts) = L /\ \A i \in 1 .. L : parts[i] = <<s[i]>>
  BY <1>1
<1> HIDE DEF L, parts
<1>3. J[0] = <<>> /\ \A n \in 1 .. L : J[n] = J[n - 1] \o parts[n]
  BY <1>2, JoinedSteps
<1> HIDE DEF J
<1>4. 0 \in Good
  <2>1. <<>> \in Seq(M) /\ Len(<<>>) = 0
    OBVIOUS
  <2>2. Is(J[0], 0)
    BY <1>3, <2>1
  <2>3. QED
    BY <1>1, <2>2
<1>5. ASSUME NEW n \in 0 .. L, n \in Good, n < L PROVE n + 1 \in Good
  <2>1. n + 1 \in 1 .. L /\ (n + 1) - 1 = n /\ Is(J[n], n) /\ n \in Nat
    BY <1>1, <1>5
  <2>2. J[n + 1] = J[n] \o <<s[n + 1]>> /\ s[n + 1] \in M
    BY <1>1, <1>2, <1>3, <2>1
  <2>3. ASSUME NEW t \in Seq(M), Len(t) = n, NEW x \in M
        PROVE  /\ t \o <<x>> \in Seq(M) /\ Len(t \o <<x>>) = n + 1
               /\ \A i \in 1 .. n : (t \o <<x>>)[i] = t[i]
               /\ (t \o <<x>>)[n + 1] = x
    BY <2>3, OneMore
  <2>4. Is(J[n + 1], n + 1)
    <3> DEFINE t == J[n]
               x == s[n + 1]
    <3>1. t \in Seq(M) /\ Len(t) = n /\ x \in M /\ \A i \in 1 .. n : t[i] = s[i]
      BY <2>1, <2>2
    <3>2. J[n + 1] = t \o <<x>>
      BY <2>2
    <3> HIDE DEF t, x
    <3>3. /\ J[n + 1] \in Seq(M) /\ Len(J[n + 1]) = n + 1
          /\ \A i \in 1 .. n : J[n + 1][i] = t[i]
          /\ J[n + 1][n + 1] = x
      BY <2>3, <3>1, <3>2
    <3>4. QED
      BY <2>1, <3>1, <3>3 DEF x
  <2>5. QED
    BY <1>1, <2>1, <2>4
<1>6. Is(J[L], L)
  <2>1. \A n \in 0 .. L : n \in Good
    <3> HIDE DEF Good
    <3>1. \A n \in 0 .. L : n \in Good /\ n < L => n + 1 \in Good
      BY <1>5
    <3>2. QED
      BY <1>1, <1>4, <3>1, PrefixInduction
  <2>2. L \in 0 .. L
    BY <1>1
  <2>3. L \in Good
    BY <2>1, <2>2
  <2>4. QED
    BY <2>3
<1>7. J[L] = s
  BY <1>6 DEF L
<1>8. QED
  BY <1>7 DEF J, L, parts

-----------------------------------------------------------------------------
(* The decoders *)

\* Serve dispatches the messages of a document that the constructors have built,
\* each as what it was built for, and nothing of an unusable one (jsonrpc.go
\* 84-251, peer.go 164-205).
LEMMA DecodedAsBuilt ==
  ASSUME NEW t \in Texts
  PROVE  t.meant \in Seq(Meanings) /\ Dispatches(t.doc) = t.meant
<1>1. CASE AsBuilt(t)
  <2> DEFINE msgs == t.doc.msgs
             meant == t.meant
             L == Len(meant)
  <2>1. meant \in Seq(Meanings) /\ L \in Nat /\ msgs \in Seq(Message) /\ Len(msgs) = L
    BY <1>1 DEF AsBuilt, Document
  <2>2. \A i \in 1 .. L : meant[i] \in Meanings /\ msgs[i] \in Built[meant[i]]
    BY <1>1, <2>1 DEF AsBuilt
  <2>3. ASSUME NEW k \in Meanings, NEW m \in Built[k]
        PROVE  Sound(m) /\ Dispatch(m) = <<k>>
    <3> USE DEF NewRequest, NewNotification, NewResponse, NewErrorResponse, Plain, Sound,
              Dispatch, DispatchedAs, IsResponse, IsRequest, IsNotification
    <3>1. CASE k = "request"
      <4>1. m = NewRequest
        BY <2>3, <3>1 DEF Built
      <4>2. QED
        BY <3>1, <4>1
    <3>2. CASE k = "notification"
      <4>1. m = NewNotification
        BY <2>3, <3>2 DEF Built
      <4>2. QED
        BY <3>2, <4>1
    <3>3. CASE k = "response"
      <4>1. m = NewResponse \/ \E id \in {"absent", "null", "value"} : m = NewErrorResponse(id)
        BY <2>3, <3>3 DEF Built
      <4>2. QED
        BY <3>3, <4>1
    <3>4. QED
      BY <3>1, <3>2, <3>3 DEF Meanings
  <2>4. \A i \in 1 .. L : Sound(msgs[i]) /\ Dispatch(msgs[i]) = <<meant[i]>>
    BY <2>2, <2>3
  <2>5. DecodesBatch(t.doc) \/ DecodesMessage(t.doc)
    BY <1>1, <2>1, <2>4 DEF AsBuilt, DecodesBatch, DecodesMessage, Document
  <2>6. [i \in 1 .. Len(msgs) |-> Dispatch(msgs[i])] = [i \in 1 .. L |-> <<meant[i]>>]
    BY <2>1, <2>4
  <2>7. Dispatches(t.doc) = Joined([i \in 1 .. L |-> <<meant[i]>>])[L]
    BY <2>1, <2>5, <2>6 DEF Dispatches
  <2>8. QED
    BY <2>1, <2>7, JoinedSingles
<1>2. CASE Unusable(t)
  BY <1>2 DEF Unusable, Dispatches, DecodesBatch, DecodesMessage, Document
<1>3. QED
  BY <1>1, <1>2, StreamConstantsAssumption

-----------------------------------------------------------------------------
(* The inductive invariant of the stream transports *)

Piece(w, n) == [by |-> w, part |-> n]
IsEnd(i) == wire[i].part = 2 /\ wire[i].by # Nobody

\* A writer between its two pieces holds the mutex and has a text; what is on
\* the wire is of writers that have begun.
LockInv ==
    /\ \A w \in Writers : wpc[w] \in {"first", "rest"} => mutex = w
    /\ \A w \in Writers : wpc[w] \in {"first", "rest"} => text[w] \in Texts
    /\ \A i \in 1 .. Len(wire) :
         wire[i].by # Nobody => wpc[wire[i].by] \notin {"idle", "first"}

\* The two pieces of a message are neighbours: nothing comes between them, and
\* the second is missing only while its writer holds the mutex or after the end
\* of the connection.
PiecesInv ==
    /\ \A i \in 1 .. Len(wire) : wire[i].part = 1 =>
         /\ wire[i].by \in Writers
         /\ i < Len(wire) => wire[i + 1] = Piece(wire[i].by, 2)
         /\ i = Len(wire) => cut \/ wpc[wire[i].by] = "rest"
    /\ \A i \in 1 .. Len(wire) : IsEnd(i) => i > 1 /\ wire[i - 1] = Piece(wire[i].by, 1)
    /\ \A w \in Writers : wpc[w] = "rest" =>
         wire # <<>> /\ wire[Len(wire)] = Piece(w, 1)

\* The messages on the wire are those that were sent and that Serve has not got
\* yet, in the order in which they were sent: at[k] is the end of the k-th.
InOrder(at) ==
    /\ at \in [served + 1 .. Len(sent) -> 1 .. Len(wire)]
    /\ \A k \in served + 1 .. Len(sent) :
         IsEnd(at[k]) /\ text[wire[at[k]].by] = sent[k]
    /\ \A k, l \in served + 1 .. Len(sent) : k < l => at[k] < at[l]
    /\ \A i \in 1 .. Len(wire) : IsEnd(i) =>
         \E k \in served + 1 .. Len(sent) : at[k] = i

SentInv == served <= Len(sent) /\ \E at : InOrder(at)

StreamInv == StreamTypeOK /\ LockInv /\ PiecesInv /\ SentInv /\ DispatchedAsWritten

-----------------------------------------------------------------------------
(* The channel transport *)

Outgoing == consumed \o out

\* What Push has accepted is read in that order, once, and what is not read yet
\* is in the channel; what WriteMessage has accepted comes out in the order of
\* the calls, and nothing is missing but what the caller was told of
\* (channel_transport.go 35-83).
ChannelsInOrder ==
    /\ accepted = read \o in
    /\ \A n \in 1 .. MaxWrite :
         (\E i \in 1 .. Len(Outgoing) : Outgoing[i] = n) <=> n <= written /\ n \notin dropped
    /\ \A i, j \in 1 .. Len(Outgoing) : i < j => Outgoing[i] < Outgoing[j]

ChannelInv == ChannelTypeOK /\ ChannelsInOrder /\ dropped \subseteq 1 .. written

Inv == TransportTypeOK /\ StreamInv /\ ChannelInv

-----------------------------------------------------------------------------
(* The wire *)

\* The pieces on the wire after one more was written.
LEMMA Written ==
  ASSUME StreamTypeOK, NEW p \in Pieces,
         wire' = Append(wire, p)
  PROVE  /\ wire' \in Seq(Pieces)
         /\ Len(wire) \in Nat /\ Len(wire') = Len(wire) + 1
         /\ wire'[Len(wire) + 1] = p /\ wire' # <<>>
         /\ \A i \in 1 .. Len(wire) : wire'[i] = wire[i]
         /\ \A i \in 1 .. Len(wire') : i \in 1 .. Len(wire) \/ i = Len(wire) + 1
<1>1. wire \in Seq(Pieces)
  BY DEF StreamTypeOK
<1>2. Len(wire) \in Nat /\ Len(wire') = Len(wire) + 1
  BY <1>1
<1>3. \A i \in 1 .. Len(wire') : i \in 1 .. Len(wire) \/ i = Len(wire) + 1
  BY <1>2
<1>4. QED
  BY <1>1, <1>2, <1>3

\* The pieces on the wire after the first d were read.
LEMMA Taken ==
  ASSUME StreamTypeOK, NEW d \in 1 .. Len(wire), wire' = SubSeq(wire, d + 1, Len(wire))
  PROVE  /\ wire' \in Seq(Pieces)
         /\ Len(wire) \in Nat /\ Len(wire') = Len(wire) - d
         /\ \A i \in 1 .. Len(wire') : i + d \in 1 .. Len(wire) /\ wire'[i] = wire[i + d]
<1>1. ASSUME NEW P, NEW s \in Seq(P), NEW n \in 1 .. Len(s)
      PROVE  /\ SubSeq(s, n + 1, Len(s)) \in Seq(P)
             /\ Len(s) \in Nat /\ Len(SubSeq(s, n + 1, Len(s))) = Len(s) - n
             /\ \A i \in 1 .. Len(s) - n :
                  i + n \in 1 .. Len(s) /\ SubSeq(s, n + 1, Len(s))[i] = s[i + n]
  <2>1. Len(s) \in Nat /\ n \in Nat /\ n <= Len(s)
    BY <1>1
  <2>2. \A i \in 1 .. Len(s) - n : i + n \in 1 .. Len(s)
    BY <2>1
  <2>3. QED
    BY <1>1, <2>1, <2>2
<1>2. wire \in Seq(Pieces)
  BY DEF StreamTypeOK
<1>3. QED
  BY <1>1, <1>2

\* Every piece has a writer or is noise, and is a first or a second piece.
LEMMA PieceTyping ==
  ASSUME StreamTypeOK, NEW i \in 1 .. Len(wire)
  PROVE  /\ wire[i] = Piece(wire[i].by, wire[i].part)
         /\ wire[i].by \in Writers \cup {Nobody}
         /\ wire[i].part = 1 \/ wire[i].part = 2
<1>1. wire \in Seq(Pieces)
  BY DEF StreamTypeOK
<1>2. wire[i] \in Pieces
  BY <1>1
<1>3. QED
  BY <1>2 DEF Piece, Pieces

\* The first line on the wire is noise or one whole message (stdio.go 75-88).
LEMMA LineShape ==
  ASSUME StreamTypeOK, PiecesInv
  PROVE  \/ Line = <<>>
         \/ /\ Len(wire) >= 1 /\ wire[1] = Piece(Nobody, 2)
            /\ Len(Line) = 1 /\ ~Whole(Line)
         \/ \E w \in Writers :
              /\ Len(wire) >= 2 /\ wire[1] = Piece(w, 1) /\ wire[2] = Piece(w, 2)
              /\ Len(Line) = 2 /\ Whole(Line) /\ Line[1].by = w
<1> DEFINE ends == {i \in DOMAIN wire : wire[i].part = 2}
           Least(i) == i \in ends /\ \A j \in ends : i <= j
<1>1. /\ wire \in Seq(Pieces)
      /\ Len(wire) \in Nat /\ DOMAIN wire = 1 .. Len(wire)
  BY DEF StreamTypeOK
<1>2. CASE ends = {}
  BY <1>2 DEF Line
<1>3. CASE ends # {}
  <2>1. Len(wire) >= 1
    BY <1>1, <1>3
  <2>2. ASSUME NEW i, Least(i) PROVE Line = SubSeq(wire, 1, i)
    <3>1. \A j : Least(j) => j = i
      BY <1>1, <2>2
    <3>2. (CHOOSE j \in ends : \A k \in ends : j <= k) = CHOOSE j : Least(j)
      OBVIOUS
    <3>3. Least(CHOOSE j : Least(j))
      BY <2>2
    <3>4. QED
      BY <1>3, <3>1, <3>2, <3>3 DEF Line
  <2>3. CASE wire[1].part = 2
    <3>1. Least(1)
      BY <1>1, <2>1, <2>3
    <3>2. wire[1].by = Nobody
      <4>1. 1 \in 1 .. Len(wire) /\ ~(1 > 1)
        BY <1>1, <2>1
      <4>2. QED
        BY <2>3, <4>1 DEF PiecesInv, IsEnd
    <3>3. wire[1] = Piece(Nobody, 2)
      BY <2>1, <2>3, <3>2, PieceTyping
    <3>4. Line = SubSeq(wire, 1, 1)
      BY <2>2, <3>1
    <3>5. Len(Line) = 1
      BY <1>1, <2>1, <3>4
    <3>6. QED
      BY <2>1, <3>3, <3>5 DEF Whole
  <2>4. CASE wire[1].part = 1
    <3>1. wire[1].by \in Writers /\ (1 < Len(wire) => wire[2] = Piece(wire[1].by, 2))
      <4>1. 1 \in 1 .. Len(wire) /\ 1 + 1 = 2
        BY <1>1, <2>1
      <4>2. QED
        BY <2>4, <4>1 DEF PiecesInv
    <3>2. Len(wire) >= 2
      BY <1>1, <1>3, <2>1, <2>4
    <3>3. wire[1] = Piece(wire[1].by, 1) /\ wire[2] = Piece(wire[1].by, 2)
      BY <1>1, <2>1, <2>4, <3>1, <3>2, PieceTyping
    <3>4. Least(2)
      BY <1>1, <2>4, <3>2, <3>3 DEF Piece
    <3>5. Line = SubSeq(wire, 1, 2)
      BY <2>2, <3>4
    <3>6. Len(Line) = 2 /\ Line[1] = wire[1] /\ Line[2] = wire[2]
      BY <1>1, <3>2, <3>5
    <3>7. Whole(Line)
      BY <3>1, <3>3, <3>6, StreamConstantsAssumption DEF Whole, Piece
    <3>8. QED
      BY <3>1, <3>2, <3>3, <3>6, <3>7
  <2>5. QED
    BY <1>1, <2>1, <2>3, <2>4, PieceTyping
<1>4. QED
  BY <1>2, <1>3

\* A whole message at the head of the wire is the next one that was sent.
LEMMA NextIsSent ==
  ASSUME StreamTypeOK, served <= Len(sent), NEW at, InOrder(at),
         NEW w \in Writers, Len(wire) >= 2, wire[1] = Piece(w, 1), wire[2] = Piece(w, 2)
  PROVE  /\ served + 1 \in served + 1 .. Len(sent) /\ served + 1 \in 1 .. Len(sent)
         /\ at[served + 1] = 2 /\ text[w] = sent[served + 1] /\ text[w] \in Texts
<1>1. Len(wire) \in Nat /\ Len(sent) \in Nat /\ served \in Nat /\ sent \in Seq(Texts)
  BY DEF StreamTypeOK
<1>2. 2 \in 1 .. Len(wire) /\ IsEnd(2)
  BY <1>1, StreamConstantsAssumption DEF IsEnd, Piece
<1>3. PICK k \in served + 1 .. Len(sent) : at[k] = 2
  BY <1>2 DEF InOrder
<1>4. served + 1 \in served + 1 .. Len(sent) /\ served + 1 \in 1 .. Len(sent)
  BY <1>1, <1>3
<1>5. at[served + 1] = 2
  <2>1. at[served + 1] \in 1 .. Len(wire) /\ IsEnd(at[served + 1])
    BY <1>4 DEF InOrder
  <2>2. at[served + 1] # 1
    BY <2>1 DEF IsEnd, Piece
  <2>3. served + 1 < k => at[served + 1] < at[k]
    BY <1>4 DEF InOrder
  <2>4. QED
    BY <1>1, <1>3, <2>1, <2>2, <2>3
<1>6. text[w] = sent[served + 1]
  BY <1>4, <1>5 DEF InOrder, Piece
<1>7. sent[served + 1] \in Texts
  BY <1>1, <1>4
<1>8. QED
  BY <1>4, <1>5, <1>6, <1>7

\* ReadMessage takes a whole message off the wire ...
LEMMA ReadOkTakes ==
  ASSUME StreamTypeOK, PiecesInv, ReadOk
  PROVE  /\ 2 \in 1 .. Len(wire) /\ wire' = SubSeq(wire, 2 + 1, Len(wire))
         /\ \E w \in Writers :
              /\ Len(wire) >= 2 /\ wire[1] = Piece(w, 1) /\ wire[2] = Piece(w, 2)
              /\ dispatched' = dispatched \o Dispatches(text[w].doc)
<1>1. Line # <<>> /\ Whole(Line) /\ wire' = SubSeq(wire, Len(Line) + 1, Len(wire))
  BY DEF ReadOk, CanRead
<1>2. PICK w \in Writers :
         /\ Len(wire) >= 2 /\ wire[1] = Piece(w, 1) /\ wire[2] = Piece(w, 2)
         /\ Len(Line) = 2 /\ Line[1].by = w
  BY <1>1, LineShape
<1>3. dispatched' = dispatched \o Dispatches(text[w].doc)
  BY <1>2 DEF ReadOk
<1>4. Len(wire) \in Nat
  BY DEF StreamTypeOK
<1>5. 2 \in 1 .. Len(wire)
  BY <1>2, <1>4
<1>6. wire' = SubSeq(wire, 2 + 1, Len(wire))
  BY <1>1, <1>2
<1>7. QED
  BY <1>2, <1>3, <1>5, <1>6

\* ... or passes over one line that is not JSON.
LEMMA ReadSkipTakes ==
  ASSUME StreamTypeOK, PiecesInv, ReadSkip
  PROVE  /\ 1 \in 1 .. Len(wire) /\ wire' = SubSeq(wire, 1 + 1, Len(wire))
         /\ wire[1] = Piece(Nobody, 2)
<1>1. Line # <<>> /\ ~Whole(Line) /\ wire' = SubSeq(wire, Len(Line) + 1, Len(wire))
  BY DEF ReadSkip, CanRead
<1>2. Len(wire) >= 1 /\ wire[1] = Piece(Nobody, 2) /\ Len(Line) = 1
  BY <1>1, LineShape
<1>3. Len(wire) \in Nat
  BY DEF StreamTypeOK
<1>4. QED
  BY <1>1, <1>2, <1>3

\* The steps that change the state of a stream transport.
LEMMA StreamCases ==
  ASSUME [Next]_vars
  PROVE  \/ UNCHANGED streamVars
         \/ \E w \in Writers :
              \/ \E t \in Texts : WriteLock(w, t)
              \/ WriteRefused(w) \/ WriteFirst(w) \/ WriteRest(w) \/ WriteFails(w)
         \/ ReadCheck \/ ReadOk \/ ReadSkip \/ Noise \/ Cut
         \/ \E end \in {"writer", "reader"} : CloseFlag(end)
<1>1. CASE UNCHANGED vars
  BY <1>1 DEF vars
<1>2. ASSUME Stop PROVE UNCHANGED streamVars
  BY <1>2 DEF Stop, streamVars, readVars, writeVars
<1>3. ASSUME StreamCtxCancel PROVE UNCHANGED streamVars
  BY <1>3 DEF StreamCtxCancel
<1>4. CASE Next
  BY <1>2, <1>3, <1>4 DEF Next, Channel, Stream, ReadEnded, ReadTooLong, ReadEof
<1>5. QED
  BY <1>1, <1>4

-----------------------------------------------------------------------------
(* Every step keeps the invariant of the stream transports *)

\* The types.
LEMMA StreamTypeStep ==
  ASSUME StreamInv, [Next]_vars
  PROVE  StreamTypeOK'
<1>1. StreamTypeOK /\ LockInv /\ PiecesInv /\ served <= Len(sent)
  BY DEF StreamInv, SentInv
<1> USE DEF StreamTypeOK
<1>2. CASE UNCHANGED streamVars
  BY <1>1, <1>2 DEF streamVars
<1>3. ASSUME NEW w \in Writers, NEW t \in Texts, WriteLock(w, t) PROVE StreamTypeOK'
  BY <1>1, <1>3 DEF WriteLock, readVars
<1>4. ASSUME NEW w \in Writers, WriteRefused(w) \/ WriteFails(w) PROVE StreamTypeOK'
  BY <1>1, <1>4 DEF WriteRefused, WriteFails, readVars
<1>5. ASSUME NEW w \in Writers, WriteFirst(w) PROVE StreamTypeOK'
  <2>1. wire' \in Seq(Pieces)
    <3>1. Piece(w, 1) \in Pieces
      BY DEF Piece, Pieces
    <3>2. QED
      BY <1>1, <1>5, <3>1, Written DEF WriteFirst, Piece
  <2>2. QED
    BY <1>1, <1>5, <2>1 DEF WriteFirst, readVars
<1>6. ASSUME NEW w \in Writers, WriteRest(w) PROVE StreamTypeOK'
  <2>1. wire' \in Seq(Pieces)
    <3>1. Piece(w, 2) \in Pieces
      BY DEF Piece, Pieces
    <3>2. QED
      BY <1>1, <1>6, <3>1, Written DEF WriteRest, Piece
  <2>2. text[w] \in Texts
    BY <1>1, <1>6 DEF WriteRest, LockInv
  <2>3. sent' \in Seq(Texts)
    BY <1>1, <1>6, <2>2 DEF WriteRest
  <2>4. QED
    BY <1>1, <1>6, <2>1, <2>3 DEF WriteRest, readVars
<1>7. CASE ReadCheck
  BY <1>1, <1>7 DEF ReadCheck, writeVars
<1>8. CASE ReadOk
  <2>1. PICK at : InOrder(at)
    BY DEF StreamInv, SentInv
  <2>2. 2 \in 1 .. Len(wire) /\ wire' = SubSeq(wire, 2 + 1, Len(wire))
    BY <1>1, <1>8, ReadOkTakes
  <2>3. PICK w \in Writers :
           /\ Len(wire) >= 2 /\ wire[1] = Piece(w, 1) /\ wire[2] = Piece(w, 2)
           /\ dispatched' = dispatched \o Dispatches(text[w].doc)
    BY <1>1, <1>8, ReadOkTakes
  <2>4. text[w] \in Texts
    BY <1>1, <2>1, <2>3, NextIsSent
  <2>5. Dispatches(text[w].doc) \in Seq(Meanings)
    BY <2>4, DecodedAsBuilt
  <2>6. dispatched' \in Seq(Meanings)
    BY <1>1, <2>3, <2>5
  <2>7. wire' \in Seq(Pieces)
    BY <1>1, <2>2, Taken
  <2>8. refused' \in Nat
    <3>1. PICK a \in {0, 1} : refused' = refused + a
      <4> DEFINE d == text[Line[1].by].doc
                 a == IF Answered(d) /\ ~Skipped(d) THEN 1 ELSE 0
      <4>1. refused' = refused + a
        BY <1>8 DEF ReadOk
      <4>2. a \in {0, 1}
        OBVIOUS
      <4>3. QED
        BY <4>1, <4>2
    <3>2. refused \in Nat
      BY <1>1
    <3>3. QED
      BY <3>1, <3>2
  <2>9. served' \in Nat /\ checked' \in BOOLEAN
    <3>1. served' = served + 1 /\ checked' \in BOOLEAN
      BY <1>8 DEF ReadOk, Skipped
    <3>2. served \in Nat
      BY <1>1
    <3>3. QED
      BY <3>1, <3>2
  <2>10. UNCHANGED <<mutex, wpc, text, sent, flag, cut, noise>>
    BY <1>8 DEF ReadOk, writeVars
  <2>11. QED
    BY <1>1, <2>6, <2>7, <2>8, <2>9, <2>10
<1>9. CASE ReadSkip
  <2>1. wire' \in Seq(Pieces)
    BY <1>1, <1>9, ReadSkipTakes, Taken
  <2>2. QED
    BY <1>1, <1>9, <2>1 DEF ReadSkip, writeVars, readVars
<1>10. CASE Noise
  <2>1. wire' \in Seq(Pieces)
    <3>1. Piece(Nobody, 2) \in Pieces
      BY DEF Piece, Pieces
    <3>2. QED
      BY <1>1, <1>10, <3>1, Written DEF Noise, Piece
  <2>2. noise' \in 0 .. MaxNoise
    BY <1>1, <1>10, StreamConstantsAssumption DEF Noise
  <2>3. QED
    BY <1>1, <1>10, <2>1, <2>2 DEF Noise, writeVars, readVars
<1>11. CASE Cut \/ \E end \in {"writer", "reader"} : CloseFlag(end)
  BY <1>1, <1>11, ZenonT(60) DEF Cut, CloseFlag, writeVars, readVars
<1>12. QED
  BY <1>2, <1>3, <1>4, <1>5, <1>6, <1>7, <1>8, <1>9, <1>10, <1>11, StreamCases

\* The mutex.
LEMMA LockStep ==
  ASSUME StreamInv, [Next]_vars
  PROVE  LockInv'
<1>1. /\ StreamTypeOK /\ LockInv /\ PiecesInv /\ Len(wire) \in Nat
      /\ wpc \in [Writers -> {"idle", "first", "rest", "sent", "failed"}]
      /\ text \in [Writers -> Texts \cup {Nobody}]
  BY DEF StreamInv, StreamTypeOK
<1> USE DEF LockInv
<1>2. CASE UNCHANGED streamVars
  BY <1>1, <1>2 DEF streamVars
<1>3. ASSUME NEW w \in Writers, NEW t \in Texts, WriteLock(w, t) PROVE LockInv'
  BY <1>1, <1>3, StreamConstantsAssumption DEF WriteLock
<1>4. ASSUME NEW w \in Writers, WriteRefused(w) \/ WriteFails(w) PROVE LockInv'
  <2>1. UNCHANGED <<text, wire>> /\ wpc' = [wpc EXCEPT ![w] = "failed"]
    BY <1>4 DEF WriteRefused, WriteFails
  <2>2. \A v \in Writers : wpc'[v] \in {"first", "rest"} => wpc[v] \in {"first", "rest"} /\ v # w
    BY <1>1, <2>1
  <2>3. \A v \in Writers \ {w} : wpc[v] \in {"first", "rest"} => mutex' = v
    <3>1. CASE WriteRefused(w)
      BY <1>1, <3>1 DEF WriteRefused
    <3>2. CASE WriteFails(w)
      BY <1>1, <3>2 DEF WriteFails
    <3>3. QED
      BY <1>4, <3>1, <3>2
  <2>4. \A v : wpc[v] \notin {"idle", "first"} => wpc'[v] \notin {"idle", "first"}
    BY <1>1, <2>1
  <2>5. QED
    BY <1>1, <2>1, <2>2, <2>3, <2>4
<1>5. ASSUME NEW w \in Writers, WriteFirst(w) PROVE LockInv'
  <2>1. Piece(w, 1) \in Pieces /\ wire' = Append(wire, Piece(w, 1))
    BY <1>5 DEF Piece, Pieces, WriteFirst
  <2>2. /\ Len(wire') = Len(wire) + 1 /\ wire'[Len(wire) + 1] = Piece(w, 1)
        /\ \A i \in 1 .. Len(wire) : wire'[i] = wire[i]
    BY <1>1, <2>1, Written
  <2>3. \A i \in 1 .. Len(wire') : i \in 1 .. Len(wire) \/ i = Len(wire) + 1
    BY <1>1, <2>2
  <2>4. QED
    BY <1>1, <1>5, <2>2, <2>3 DEF WriteFirst, Piece
<1>6. ASSUME NEW w \in Writers, WriteRest(w) PROVE LockInv'
  <2>1. Piece(w, 2) \in Pieces /\ wire' = Append(wire, Piece(w, 2))
    BY <1>6 DEF Piece, Pieces, WriteRest
  <2>2. /\ Len(wire') = Len(wire) + 1 /\ wire'[Len(wire) + 1] = Piece(w, 2)
        /\ \A i \in 1 .. Len(wire) : wire'[i] = wire[i]
    BY <1>1, <2>1, Written
  <2>3. \A i \in 1 .. Len(wire') : i \in 1 .. Len(wire) \/ i = Len(wire) + 1
    BY <1>1, <2>2
  <2>4. \A v \in Writers \ {w} : wpc[v] \notin {"first", "rest"}
    BY <1>1, <1>6 DEF WriteRest
  <2>5. QED
    BY <1>1, <1>6, <2>2, <2>3, <2>4 DEF WriteRest, Piece
<1>7. CASE ReadCheck
  BY <1>1, <1>7 DEF ReadCheck, writeVars
<1>8. CASE ReadOk \/ ReadSkip
  <2>1. PICK d \in 1 .. Len(wire) : wire' = SubSeq(wire, d + 1, Len(wire))
    <3>1. CASE ReadOk
      BY <1>1, <3>1, ReadOkTakes
    <3>2. CASE ReadSkip
      BY <1>1, <3>2, ReadSkipTakes
    <3>3. QED
      BY <1>8, <3>1, <3>2
  <2>2. \A i \in 1 .. Len(wire') : i + d \in 1 .. Len(wire) /\ wire'[i] = wire[i + d]
    BY <1>1, <2>1, Taken
  <2>3. UNCHANGED <<wpc, mutex, text>>
    BY <1>8 DEF ReadOk, ReadSkip, writeVars
  <2>4. QED
    BY <1>1, <2>2, <2>3, ZenonT(60)
<1>9. CASE Noise
  <2>1. Piece(Nobody, 2) \in Pieces /\ wire' = Append(wire, Piece(Nobody, 2))
    BY <1>9 DEF Piece, Pieces, Noise
  <2>2. /\ Len(wire') = Len(wire) + 1 /\ wire'[Len(wire) + 1] = Piece(Nobody, 2)
        /\ \A i \in 1 .. Len(wire) : wire'[i] = wire[i]
    BY <1>1, <2>1, Written
  <2>3. \A i \in 1 .. Len(wire') : i \in 1 .. Len(wire) \/ i = Len(wire) + 1
    BY <1>1, <2>2
  <2>4. QED
    BY <1>1, <1>9, <2>2, <2>3 DEF Noise, writeVars, Piece
<1>10. CASE Cut \/ \E end \in {"writer", "reader"} : CloseFlag(end)
  BY <1>1, <1>10 DEF Cut, CloseFlag, writeVars
<1>11. QED
  BY <1>2, <1>3, <1>4, <1>5, <1>6, <1>7, <1>8, <1>9, <1>10, StreamCases

\* A sequence with a last element is not empty.
LEMMA HasLast == \A s : Len(s) \in 1 .. Len(s) => s # <<>>
<1>1. Len(<<>>) = 0
  OBVIOUS
<1>2. 0 \notin 1 .. 0
  OBVIOUS
<1>3. QED
  BY <1>1, <1>2

\* The positions in what is left of n pieces when d are taken.
LEMMA LeftOver ==
  ASSUME NEW n \in Nat, NEW d \in 1 .. n, NEW k, k = n - d
  PROVE  /\ k \in Nat /\ k + d = n /\ (d # n => k \in 1 .. k)
         /\ \A i \in 1 .. k : i < k => i + 1 \in 1 .. k /\ (i + d) + 1 = (i + 1) + d /\ i + d < n
  OBVIOUS

\* Reading the pieces up to the end of a line leaves the rest in order.
LEMMA PiecesTaken ==
  ASSUME StreamTypeOK, PiecesInv, NEW d \in 1 .. Len(wire), wire[d].part = 2,
         wire' = SubSeq(wire, d + 1, Len(wire)), UNCHANGED <<wpc, cut>>
  PROVE  PiecesInv'
<1>1. /\ d \in Nat /\ Len(wire) \in Nat /\ Len(wire') = Len(wire) - d
      /\ \A i \in 1 .. Len(wire') : i + d \in 1 .. Len(wire) /\ wire'[i] = wire[i + d]
  BY Taken
<1>2. ASSUME NEW i \in 1 .. Len(wire'), wire'[i].part = 1
      PROVE  /\ wire'[i].by \in Writers
             /\ i < Len(wire') => wire'[i + 1] = Piece(wire'[i].by, 2)
             /\ i = Len(wire') => cut \/ wpc[wire'[i].by] = "rest"
  <2>1. i + d \in 1 .. Len(wire) /\ wire[i + d].part = 1 /\ wire'[i] = wire[i + d]
    BY <1>1, <1>2
  <2>2. CASE i < Len(wire')
    <3>1. i + 1 \in 1 .. Len(wire') /\ (i + d) + 1 = (i + 1) + d /\ i + d < Len(wire)
      BY <1>1, <2>2, LeftOver
    <3>2. wire'[i + 1] = wire[(i + d) + 1]
      BY <1>1, <3>1
    <3>3. QED
      BY <2>1, <2>2, <3>1, <3>2 DEF PiecesInv
  <2>3. CASE i = Len(wire')
    <3>1. i + d = Len(wire) /\ ~(i < Len(wire'))
      BY <1>1, <2>3
    <3>2. QED
      BY <2>1, <3>1 DEF PiecesInv
  <2>4. QED
    BY <1>1, <2>2, <2>3
<1>3. ASSUME NEW i \in 1 .. Len(wire'), wire'[i].part = 2, wire'[i].by # Nobody
      PROVE  i > 1 /\ wire'[i - 1] = Piece(wire'[i].by, 1)
  <2>1. i + d \in 1 .. Len(wire) /\ wire'[i] = wire[i + d] /\ IsEnd(i + d)
    BY <1>1, <1>3 DEF IsEnd
  <2>2. wire[(i + d) - 1] = Piece(wire'[i].by, 1)
    BY <2>1 DEF PiecesInv
  <2>3. i # 1
    BY <1>1, <2>2 DEF Piece
  <2>4. i - 1 \in 1 .. Len(wire') /\ (i - 1) + d = (i + d) - 1 /\ i > 1
    BY <1>1, <2>3
  <2>5. QED
    BY <1>1, <2>2, <2>4
<1>4. ASSUME NEW w \in Writers, wpc[w] = "rest"
      PROVE  wire' # <<>> /\ wire'[Len(wire')] = Piece(w, 1)
  <2>1. wire[Len(wire)] = Piece(w, 1)
    BY <1>4 DEF PiecesInv
  <2>2. d # Len(wire)
    BY <2>1 DEF Piece
  <2>3. Len(wire') \in 1 .. Len(wire') /\ Len(wire') + d = Len(wire)
    BY <1>1, <2>2, LeftOver
  <2>4. wire'[Len(wire')] = Piece(w, 1)
    BY <1>1, <2>1, <2>3
  <2>5. wire' # <<>>
    BY <2>3, HasLast
  <2>6. QED
    BY <2>4, <2>5
<1>5. QED
  BY <1>2, <1>3, <1>4 DEF PiecesInv, IsEnd

\* So does a piece that goes where it may: a second piece after its first, and
\* any other after the end of a line.
LEMMA PiecesAppended ==
  ASSUME StreamTypeOK, PiecesInv, NEW w \in Writers \cup {Nobody}, NEW n \in 1 .. 2,
         wire' = Append(wire, Piece(w, n)), n = 1 => w \in Writers /\ wpc'[w] = "rest",
         \A v \in Writers : wpc'[v] = "rest" => n = 1 /\ v = w,
         IF n = 2 /\ w # Nobody THEN Len(wire) >= 1 /\ wire[Len(wire)] = Piece(w, 1)
         ELSE \A i \in 1 .. Len(wire) : wire[i].part = 1 => i # Len(wire)
  PROVE  PiecesInv'
<1>1. Piece(w, n) \in Pieces
  BY DEF Piece, Pieces
<1>2. /\ Len(wire) \in Nat /\ Len(wire') = Len(wire) + 1
      /\ wire'[Len(wire) + 1] = Piece(w, n) /\ wire' # <<>>
      /\ \A i \in 1 .. Len(wire) : wire'[i] = wire[i]
      /\ \A i \in 1 .. Len(wire') : i \in 1 .. Len(wire) \/ i = Len(wire) + 1
  BY <1>1, Written
<1>3. Piece(w, n).part = n /\ Piece(w, n).by = w
  BY DEF Piece
<1>4. ASSUME NEW i \in 1 .. Len(wire'), wire'[i].part = 1
      PROVE  /\ wire'[i].by \in Writers
             /\ i < Len(wire') => wire'[i + 1] = Piece(wire'[i].by, 2)
             /\ i = Len(wire') => wpc'[wire'[i].by] = "rest"
  <2>1. CASE i \in 1 .. Len(wire) /\ i # Len(wire)
    <3>1. wire'[i] = wire[i] /\ wire'[i + 1] = wire[i + 1] /\ i < Len(wire) /\ i # Len(wire')
      BY <1>2, <2>1
    <3>2. QED
      BY <1>4, <2>1, <3>1 DEF PiecesInv
  <2>2. CASE i \in 1 .. Len(wire) /\ i = Len(wire)
    <3>1. wire'[i] = wire[i] /\ i # Len(wire') /\ wire[i].part = 1
      BY <1>2, <1>4, <2>2
    <3>2. n = 2 /\ w # Nobody /\ wire[i] = Piece(w, 1)
      BY <2>2, <3>1
    <3>3. Piece(w, 1).by = w
      BY DEF Piece
    <3>4. QED
      BY <1>2, <2>2, <3>1, <3>2, <3>3
  <2>3. CASE i = Len(wire) + 1
    BY <1>2, <1>3, <1>4, <2>3
  <2>4. QED
    BY <1>2, <2>1, <2>2, <2>3
<1>5. ASSUME NEW i \in 1 .. Len(wire'), wire'[i].part = 2, wire'[i].by # Nobody
      PROVE  i > 1 /\ wire'[i - 1] = Piece(wire'[i].by, 1)
  <2>1. CASE i \in 1 .. Len(wire)
    <3>1. wire'[i] = wire[i] /\ IsEnd(i)
      BY <1>2, <1>5, <2>1 DEF IsEnd
    <3>2. i > 1 /\ wire[i - 1] = Piece(wire[i].by, 1)
      BY <2>1, <3>1 DEF PiecesInv
    <3>3. i - 1 \in 1 .. Len(wire)
      BY <1>2, <2>1, <3>2
    <3>4. QED
      BY <1>2, <3>1, <3>2, <3>3
  <2>2. CASE i = Len(wire) + 1
    <3>1. wire'[i] = Piece(w, n) /\ n = 2 /\ w # Nobody
      BY <1>2, <1>3, <1>5, <2>2
    <3>2. Len(wire) >= 1 /\ wire[Len(wire)] = Piece(w, 1)
      BY <3>1
    <3>3. Len(wire) \in 1 .. Len(wire) /\ i - 1 = Len(wire) /\ i > 1
      BY <1>2, <2>2, <3>2
    <3>4. QED
      BY <1>2, <1>3, <3>1, <3>2, <3>3
  <2>3. QED
    BY <1>2, <2>1, <2>2
<1>6. ASSUME NEW v \in Writers, wpc'[v] = "rest"
      PROVE  wire' # <<>> /\ wire'[Len(wire')] = Piece(v, 1)
  BY <1>2, <1>6
<1>7. QED
  BY <1>4, <1>5, <1>6 DEF PiecesInv, IsEnd

\* The pieces of a message stay together.
LEMMA PiecesStep ==
  ASSUME StreamInv, [Next]_vars
  PROVE  PiecesInv'
<1>1. /\ StreamTypeOK /\ LockInv /\ PiecesInv /\ Len(wire) \in Nat
      /\ wpc \in [Writers -> {"idle", "first", "rest", "sent", "failed"}]
  BY DEF StreamInv, StreamTypeOK
<1>2. CASE UNCHANGED streamVars
  BY <1>1, <1>2 DEF streamVars, PiecesInv, IsEnd
<1>3. ASSUME NEW w \in Writers, wpc[w] = "idle" \/ cut, UNCHANGED <<wire, cut>>,
             NEW p \in {"first", "failed"}, wpc' = [wpc EXCEPT ![w] = p]
      PROVE  PiecesInv'
  BY <1>1, <1>3 DEF PiecesInv, IsEnd
<1>4. ASSUME NEW w \in Writers, NEW t \in Texts, WriteLock(w, t) PROVE PiecesInv'
  BY <1>3, <1>4 DEF WriteLock
<1>5. ASSUME NEW w \in Writers, WriteRefused(w) \/ WriteFails(w) PROVE PiecesInv'
  BY <1>3, <1>5 DEF WriteRefused, WriteFails
<1>6. ASSUME NEW w \in Writers, WriteFirst(w) PROVE PiecesInv'
  <2>1. wire' = Append(wire, Piece(w, 1))
    BY <1>6 DEF Piece, WriteFirst
  <2>2. ~cut /\ wpc[w] = "first" /\ wpc' = [wpc EXCEPT ![w] = "rest"]
    BY <1>6 DEF WriteFirst
  <2>3. \A v \in Writers : wpc[v] # "rest"
    BY <1>1, <2>2 DEF LockInv
  <2>4. \A i \in 1 .. Len(wire) : wire[i].part = 1 => i # Len(wire)
    BY <1>1, <2>2, <2>3 DEF PiecesInv
  <2>5. \A v \in Writers : wpc'[v] = "rest" => v = w
    BY <1>1, <2>2, <2>3
  <2>6. wpc'[w] = "rest"
    BY <1>1, <2>2
  <2>7. QED
    BY <1>1, <2>1, <2>4, <2>5, <2>6, PiecesAppended
<1>7. ASSUME NEW w \in Writers, WriteRest(w) PROVE PiecesInv'
  <2>1. wire' = Append(wire, Piece(w, 2))
    BY <1>7 DEF Piece, WriteRest
  <2>2. wpc[w] = "rest" /\ wpc' = [wpc EXCEPT ![w] = "sent"]
    BY <1>7 DEF WriteRest
  <2>3. \A v \in Writers : wpc'[v] # "rest"
    BY <1>1, <2>2 DEF LockInv
  <2>4. Len(wire) >= 1 /\ wire[Len(wire)] = Piece(w, 1)
    <3>1. wire # <<>> /\ wire[Len(wire)] = Piece(w, 1)
      BY <1>1, <2>2 DEF PiecesInv
    <3>2. wire \in Seq(Pieces)
      BY <1>1 DEF StreamTypeOK
    <3>3. QED
      BY <3>1, <3>2
  <2>5. w # Nobody
    BY StreamConstantsAssumption
  <2>6. QED
    BY <1>1, <2>1, <2>3, <2>4, <2>5, PiecesAppended
<1>8. CASE ReadCheck
  BY <1>1, <1>8 DEF ReadCheck, writeVars, PiecesInv, IsEnd
<1>9. CASE ReadOk
  <2>1. 2 \in 1 .. Len(wire) /\ wire' = SubSeq(wire, 2 + 1, Len(wire)) /\ wire[2].part = 2
    <3>1. \A w : Piece(w, 2).part = 2
      BY DEF Piece
    <3>2. QED
      BY <1>1, <1>9, <3>1, ReadOkTakes
  <2>2. UNCHANGED <<wpc, cut>>
    BY <1>9 DEF ReadOk, writeVars
  <2>3. QED
    BY <1>1, <2>1, <2>2, PiecesTaken
<1>10. CASE ReadSkip
  <2>1. 1 \in 1 .. Len(wire) /\ wire' = SubSeq(wire, 1 + 1, Len(wire)) /\ wire[1].part = 2
    BY <1>1, <1>10, ReadSkipTakes DEF Piece
  <2>2. UNCHANGED <<wpc, cut>>
    BY <1>10 DEF ReadSkip, writeVars
  <2>3. QED
    BY <1>1, <2>1, <2>2, PiecesTaken
<1>11. CASE Noise
  <2>1. wire' = Append(wire, Piece(Nobody, 2))
    BY <1>11 DEF Piece, Noise
  <2>2. ~cut /\ mutex = Nobody /\ wpc' = wpc
    BY <1>11 DEF Noise, writeVars
  <2>3. \A v \in Writers : wpc[v] # "rest"
    BY <1>1, <2>2, StreamConstantsAssumption DEF LockInv
  <2>4. \A i \in 1 .. Len(wire) : wire[i].part = 1 => i # Len(wire)
    BY <1>1, <2>2, <2>3 DEF PiecesInv
  <2>5. QED
    BY <1>1, <2>1, <2>2, <2>3, <2>4, PiecesAppended
<1>12. CASE Cut \/ \E end \in {"writer", "reader"} : CloseFlag(end)
  BY <1>1, <1>12 DEF Cut, CloseFlag, writeVars, PiecesInv, IsEnd
<1>13. QED
  BY <1>2, <1>4, <1>5, <1>6, <1>7, <1>8, <1>9, <1>10, <1>11, <1>12, StreamCases

\* A piece that does not end a message leaves the order as it is.
LEMMA OrderKept ==
  ASSUME StreamTypeOK, NEW at, InOrder(at), NEW p \in Pieces, p.part = 1 \/ p.by = Nobody,
         wire' = Append(wire, p), UNCHANGED <<served, sent, text>>
  PROVE  InOrder(at)'
<1>1. /\ Len(wire) \in Nat /\ Len(wire') = Len(wire) + 1
      /\ wire'[Len(wire) + 1] = p
      /\ \A i \in 1 .. Len(wire) : wire'[i] = wire[i]
      /\ \A i \in 1 .. Len(wire') : i \in 1 .. Len(wire) \/ i = Len(wire) + 1
  BY Written
<1>2. 1 .. Len(wire) \subseteq 1 .. Len(wire')
  BY <1>1
<1> DEFINE ks == served + 1 .. Len(sent)
<1>3. at \in [ks -> 1 .. Len(wire')]
  BY <1>2 DEF InOrder
<1>4. \A k \in ks : at[k] \in 1 .. Len(wire) /\ IsEnd(at[k]) /\ text[wire[at[k]].by] = sent[k]
  BY DEF InOrder
<1>5. \A k \in ks : IsEnd(at[k])' /\ text[wire'[at[k]].by] = sent[k]
  BY <1>1, <1>4 DEF IsEnd
<1>6. ASSUME NEW i \in 1 .. Len(wire'), IsEnd(i)' PROVE \E k \in ks : at[k] = i
  <2>1. i \in 1 .. Len(wire)
    BY <1>1, <1>6 DEF IsEnd
  <2>2. IsEnd(i)
    BY <1>1, <1>6, <2>1 DEF IsEnd
  <2>3. QED
    BY <2>1, <2>2 DEF InOrder
<1>7. QED
  BY <1>3, <1>5, <1>6 DEF InOrder

\* A message whose last piece is written comes after all the others.
LEMMA OrderExtended ==
  ASSUME StreamTypeOK, served <= Len(sent), NEW at, InOrder(at), NEW w \in Writers,
         text[w] \in Texts,
         wire' = Append(wire, Piece(w, 2)), sent' = Append(sent, text[w]),
         UNCHANGED <<served, text>>
  PROVE  \E b : InOrder(b)'
<1>1. Piece(w, 2) \in Pieces
  BY DEF Piece, Pieces
<1>2. /\ Len(wire) \in Nat /\ Len(wire') = Len(wire) + 1
      /\ wire'[Len(wire) + 1] = Piece(w, 2)
      /\ \A i \in 1 .. Len(wire) : wire'[i] = wire[i]
      /\ \A i \in 1 .. Len(wire') : i \in 1 .. Len(wire) \/ i = Len(wire) + 1
  BY <1>1, Written
<1>3. /\ Len(sent) \in Nat /\ served \in Nat /\ Len(sent') = Len(sent) + 1
      /\ sent'[Len(sent) + 1] = text[w] /\ \A k \in 1 .. Len(sent) : sent'[k] = sent[k]
  BY DEF StreamTypeOK
<1> DEFINE ks == served + 1 .. Len(sent)
           ls == served + 1 .. Len(sent')
<1> PICK b : b = [k \in ls |-> IF k = Len(sent) + 1 THEN Len(wire) + 1 ELSE at[k]]
  OBVIOUS
<1>4. /\ \A k \in ls : k \in ks \/ k = Len(sent) + 1
      /\ \A k \in ks : k \in ls /\ k # Len(sent) + 1 /\ k \in 1 .. Len(sent)
      /\ Len(sent) + 1 \in ls
  BY <1>3
<1>5. b[Len(sent) + 1] = Len(wire) + 1 /\ \A k \in ks : b[k] = at[k]
  BY <1>4
<1>6. \A k \in ks : at[k] \in 1 .. Len(wire) /\ IsEnd(at[k]) /\ text[wire[at[k]].by] = sent[k]
  BY DEF InOrder
<1>7. b \in [ls -> 1 .. Len(wire')]
  <2>1. Len(wire) + 1 \in 1 .. Len(wire') /\ \A i \in 1 .. Len(wire) : i \in 1 .. Len(wire')
    BY <1>2
  <2>2. \A k \in ls : (IF k = Len(sent) + 1 THEN Len(wire) + 1 ELSE at[k]) \in 1 .. Len(wire')
    BY <1>4, <1>6, <2>1
  <2>3. QED
    BY <2>2
<1>8. ASSUME NEW k \in ls PROVE IsEnd(b[k])' /\ text[wire'[b[k]].by] = sent'[k]
  <2>1. CASE k \in ks
    <3>1. b[k] = at[k] /\ wire'[b[k]] = wire[at[k]] /\ sent'[k] = sent[k]
      BY <1>2, <1>3, <1>4, <1>5, <1>6, <2>1
    <3>2. QED
      BY <1>6, <2>1, <3>1 DEF IsEnd
  <2>2. CASE k = Len(sent) + 1
    <3>1. wire'[b[k]] = Piece(w, 2) /\ sent'[k] = text[w]
      BY <1>2, <1>3, <1>5, <2>2
    <3>2. Piece(w, 2).by = w /\ Piece(w, 2).part = 2 /\ w # Nobody
      BY StreamConstantsAssumption DEF Piece
    <3>3. QED
      BY <3>1, <3>2 DEF IsEnd
  <2>3. QED
    BY <1>4, <2>1, <2>2
<1>9. ASSUME NEW k \in ls, NEW l \in ls, k < l PROVE b[k] < b[l]
  <2>1. k \in ks
    BY <1>3, <1>4, <1>9
  <2>2. CASE l \in ks
    BY <1>5, <1>9, <2>1, <2>2 DEF InOrder
  <2>3. CASE l = Len(sent) + 1
    BY <1>2, <1>5, <1>6, <2>1, <2>3
  <2>4. QED
    BY <1>4, <2>2, <2>3
<1>10. ASSUME NEW i \in 1 .. Len(wire'), IsEnd(i)' PROVE \E k \in ls : b[k] = i
  <2>1. CASE i \in 1 .. Len(wire)
    <3>1. IsEnd(i)
      BY <1>2, <1>10, <2>1 DEF IsEnd
    <3>2. PICK k \in ks : at[k] = i
      BY <2>1, <3>1 DEF InOrder
    <3>3. QED
      BY <1>4, <1>5, <3>2
  <2>2. CASE i = Len(wire) + 1
    BY <1>4, <1>5, <2>2
  <2>3. QED
    BY <1>2, <2>1, <2>2
<1>11. InOrder(b)'
  BY <1>7, <1>8, <1>9, <1>10 DEF InOrder
<1>12. QED
  BY <1>11

\* The messages up to the n-th are those that end in the first d pieces.
EndWithin(at, n, d) == \A k \in served + 1 .. Len(sent) : k <= n <=> at[k] <= d

\* A position after the first d, counted from there.
LEMMA Shifted ==
  \A L, K, d \in Nat : \A a \in 1 .. L :
    K = L - d /\ ~(a <= d) => a - d \in 1 .. K /\ (a - d) + d = a
  OBVIOUS

\* Reading the first d pieces takes the messages that end there.
LEMMA OrderShifted ==
  ASSUME StreamTypeOK, NEW at, InOrder(at),
         NEW d \in 1 .. Len(wire), wire' = SubSeq(wire, d + 1, Len(wire)),
         UNCHANGED <<text, sent>>, NEW n \in Nat, served' = n, served <= n,
         EndWithin(at, n, d)
  PROVE  \E b : InOrder(b)'
<1>1. /\ Len(wire) \in Nat /\ Len(wire') = Len(wire) - d
      /\ \A i \in 1 .. Len(wire') : i + d \in 1 .. Len(wire) /\ wire'[i] = wire[i + d]
  BY Taken
<1>2. Len(sent) \in Nat /\ served \in Nat /\ d \in Nat /\ Len(wire') \in Nat
  BY <1>1 DEF StreamTypeOK
<1> DEFINE ks == served + 1 .. Len(sent)
           ls == n + 1 .. Len(sent)
<1>3. \A k \in ks : at[k] \in 1 .. Len(wire) /\ IsEnd(at[k]) /\ text[wire[at[k]].by] = sent[k]
  BY DEF InOrder
<1>4. \A k \in ls : k \in ks /\ ~(k <= n)
  BY <1>2
<1>5. \A k \in ls : at[k] - d \in 1 .. Len(wire') /\ (at[k] - d) + d = at[k]
  <2> SUFFICES ASSUME NEW k \in ls
               PROVE  at[k] - d \in 1 .. Len(wire') /\ (at[k] - d) + d = at[k]
    OBVIOUS
  <2>1. at[k] \in 1 .. Len(wire) /\ ~(at[k] <= d)
    BY <1>3, <1>4 DEF EndWithin
  <2>2. /\ Len(wire) \in Nat /\ Len(wire') \in Nat /\ d \in Nat
        /\ Len(wire') = Len(wire) - d
    BY <1>1, <1>2
  <2>3. Len(wire') = Len(wire) - d /\ ~(at[k] <= d)
          => at[k] - d \in 1 .. Len(wire') /\ (at[k] - d) + d = at[k]
    BY <2>1, <2>2, Shifted, SMTT(40)
  <2>4. QED
    BY <2>1, <2>2, <2>3
<1>6. PICK b : b \in [ls -> 1 .. Len(wire')] /\ \A k \in ls : b[k] = at[k] - d
  <2> DEFINE c == [k \in ls |-> at[k] - d]
  <2>1. c \in [ls -> 1 .. Len(wire')] /\ \A k \in ls : c[k] = at[k] - d
    BY <1>5
  <2>2. QED
    BY <2>1
<1>7. ASSUME NEW k \in ls PROVE IsEnd(b[k])' /\ text[wire'[b[k]].by] = sent[k]
  <2>1. b[k] \in 1 .. Len(wire') /\ b[k] + d = at[k]
    BY <1>5, <1>6
  <2>2. wire'[b[k]] = wire[at[k]]
    BY <1>1, <2>1
  <2>3. QED
    BY <1>3, <1>4, <2>2 DEF IsEnd
<1>8. ASSUME NEW k \in ls, NEW l \in ls, k < l PROVE b[k] < b[l]
  <2>1. k \in ks /\ l \in ks
    BY <1>4
  <2>2. at[k] < at[l]
    BY <1>8, <2>1 DEF InOrder
  <2>3. at[k] \in Nat /\ at[l] \in Nat
    BY <1>3, <2>1
  <2>4. QED
    BY <1>2, <1>6, <2>2, <2>3
<1>9. ASSUME NEW i \in 1 .. Len(wire'), IsEnd(i)' PROVE \E k \in ls : b[k] = i
  <2>1. i + d \in 1 .. Len(wire) /\ IsEnd(i + d)
    BY <1>1, <1>9 DEF IsEnd
  <2>2. PICK k \in ks : at[k] = i + d
    BY <2>1 DEF InOrder
  <2>3. ~(at[k] <= d)
    BY <1>2, <2>2
  <2>4. ~(k <= n)
    BY <2>2, <2>3 DEF EndWithin
  <2>5. k \in ls
    BY <1>2, <2>2, <2>4
  <2>6. b[k] = i
    BY <1>2, <1>6, <2>2, <2>5
  <2>7. QED
    BY <2>5, <2>6
<1>10. InOrder(b)'
  BY <1>6, <1>7, <1>8, <1>9 DEF InOrder
<1>11. QED
  BY <1>10

\* The messages on the wire stay those that Serve has still to get, in order.
LEMMA SentStep ==
  ASSUME StreamInv, [Next]_vars
  PROVE  SentInv'
<1>1. /\ StreamTypeOK /\ LockInv /\ PiecesInv /\ served <= Len(sent)
      /\ Len(sent) \in Nat /\ served \in Nat
  BY DEF StreamInv, StreamTypeOK, SentInv
<1>2. PICK at : InOrder(at)
  BY DEF StreamInv, SentInv
<1>3. ASSUME UNCHANGED <<wire, served, sent>>,
             \A i \in 1 .. Len(wire) :
               wire[i].by # Nobody => text'[wire[i].by] = text[wire[i].by]
      PROVE  SentInv'
  <2>1. \A k \in served + 1 .. Len(sent) : text'[wire[at[k]].by] = sent[k]
    BY <1>2, <1>3 DEF InOrder, IsEnd
  <2>2. InOrder(at)'
    BY <1>2, <1>3, <2>1 DEF InOrder, IsEnd
  <2>3. QED
    BY <1>1, <1>3, <2>2 DEF SentInv
<1>4. ASSUME NEW p \in Pieces, p.part = 1 \/ p.by = Nobody, wire' = Append(wire, p),
             UNCHANGED <<served, sent, text>>
      PROVE  SentInv'
  <2>1. InOrder(at)'
    BY <1>1, <1>2, <1>4, OrderKept
  <2>2. QED
    BY <1>1, <1>4, <2>1 DEF SentInv
<1>5. ASSUME UNCHANGED <<wire, served, sent, text>> PROVE SentInv'
  BY <1>3, <1>5
<1>6. CASE UNCHANGED streamVars
  BY <1>5, <1>6 DEF streamVars
<1>7. ASSUME NEW w \in Writers, NEW t \in Texts, WriteLock(w, t) PROVE SentInv'
  <2>1. wpc[w] = "idle" /\ text' = [text EXCEPT ![w] = t] /\ UNCHANGED <<wire, served, sent>>
    BY <1>7 DEF WriteLock, readVars
  <2>2. \A v : v # w => text'[v] = text[v]
    BY <1>1, <2>1 DEF StreamTypeOK
  <2>3. \A i \in 1 .. Len(wire) : wire[i].by # Nobody => wire[i].by # w
    BY <1>1, <2>1 DEF LockInv
  <2>4. QED
    BY <1>3, <2>1, <2>2, <2>3
<1>8. ASSUME NEW w \in Writers, WriteRefused(w) \/ WriteFails(w) PROVE SentInv'
  BY <1>5, <1>8 DEF WriteRefused, WriteFails, readVars
<1>9. ASSUME NEW w \in Writers, WriteFirst(w) PROVE SentInv'
  <2>1. Piece(w, 1) \in Pieces /\ Piece(w, 1).part = 1 /\ wire' = Append(wire, Piece(w, 1))
    BY <1>9 DEF WriteFirst, Piece, Pieces
  <2>2. UNCHANGED <<served, sent, text>>
    BY <1>9 DEF WriteFirst, readVars
  <2>3. QED
    BY <1>4, <2>1, <2>2
<1>10. ASSUME NEW w \in Writers, WriteRest(w) PROVE SentInv'
  <2>1. wire' = Append(wire, Piece(w, 2)) /\ sent' = Append(sent, text[w])
    BY <1>10 DEF WriteRest, Piece
  <2>2. UNCHANGED <<served, text>> /\ text[w] \in Texts
    BY <1>1, <1>10 DEF WriteRest, readVars, LockInv
  <2>3. \E b : InOrder(b)'
    BY <1>1, <1>2, <2>1, <2>2, OrderExtended
  <2>4. Len(sent') = Len(sent) + 1
    BY <1>1, <2>1, <2>2 DEF StreamTypeOK
  <2>5. QED
    BY <1>1, <2>2, <2>3, <2>4 DEF SentInv
<1>11. CASE ReadOk
  <2>1. 2 \in 1 .. Len(wire) /\ wire' = SubSeq(wire, 2 + 1, Len(wire))
    BY <1>1, <1>11, ReadOkTakes
  <2>2. served' = served + 1 /\ UNCHANGED <<text, sent>>
    BY <1>11 DEF ReadOk, writeVars
  <2>3. at[served + 1] = 2 /\ served + 1 \in served + 1 .. Len(sent)
    BY <1>1, <1>2, <1>11, ReadOkTakes, NextIsSent
  <2>4. EndWithin(at, served + 1, 2)
    <3>1. ASSUME NEW k \in served + 1 .. Len(sent), k # served + 1
          PROVE  ~(k <= served + 1) /\ ~(at[k] <= 2)
      <4>1. served + 1 < k
        BY <1>1, <3>1
      <4>2. at[served + 1] < at[k] /\ at[k] \in 1 .. Len(wire)
        BY <1>2, <2>3, <4>1 DEF InOrder
      <4>3. QED
        BY <1>1, <2>3, <4>1, <4>2
    <3>2. QED
      BY <1>1, <2>3, <3>1 DEF EndWithin
  <2>5. served + 1 \in Nat /\ served <= served + 1 /\ served + 1 <= Len(sent)
    BY <1>1, <2>3
  <2>6. \E b : InOrder(b)'
    BY <1>1, <1>2, <2>1, <2>2, <2>4, <2>5, OrderShifted
  <2>7. QED
    BY <2>2, <2>5, <2>6 DEF SentInv
<1>12. CASE ReadSkip
  <2>1. /\ 1 \in 1 .. Len(wire) /\ wire' = SubSeq(wire, 1 + 1, Len(wire))
        /\ wire[1].by = Nobody
    BY <1>1, <1>12, ReadSkipTakes DEF Piece
  <2>2. UNCHANGED <<served, text, sent>>
    BY <1>12 DEF ReadSkip, writeVars, readVars
  <2>3. EndWithin(at, served, 1)
    <3>1. ASSUME NEW k \in served + 1 .. Len(sent)
          PROVE  ~(k <= served) /\ ~(at[k] <= 1)
      <4>1. at[k] \in 1 .. Len(wire) /\ at[k] # 1
        BY <1>2, <2>1 DEF InOrder, IsEnd
      <4>2. QED
        BY <1>1, <4>1
    <3>2. QED
      BY <3>1 DEF EndWithin
  <2>4. served <= served
    BY <1>1
  <2>5. \E b : InOrder(b)'
    BY <1>1, <1>2, <2>1, <2>2, <2>3, <2>4, OrderShifted
  <2>6. QED
    BY <1>1, <2>2, <2>5 DEF SentInv
<1>13. CASE Noise
  <2>1. /\ Piece(Nobody, 2) \in Pieces /\ Piece(Nobody, 2).by = Nobody
        /\ wire' = Append(wire, Piece(Nobody, 2))
    BY <1>13 DEF Noise, Piece, Pieces
  <2>2. UNCHANGED <<served, sent, text>>
    BY <1>13 DEF Noise, writeVars, readVars
  <2>3. QED
    BY <1>4, <2>1, <2>2
<1>14. CASE ReadCheck \/ Cut \/ \E end \in {"writer", "reader"} : CloseFlag(end)
  BY <1>5, <1>14 DEF ReadCheck, Cut, CloseFlag, writeVars, readVars
<1>15. QED
  BY <1>6, <1>7, <1>8, <1>9, <1>10, <1>11, <1>12, <1>13, <1>14, StreamCases

\* What Serve has dispatched stays what the writers meant.
LEMMA DispatchStep ==
  ASSUME StreamInv, [Next]_vars
  PROVE  DispatchedAsWritten'
<1> DEFINE meant == [i \in 1 .. Len(sent) |-> sent[i].meant]
<1>1. /\ StreamTypeOK /\ LockInv /\ PiecesInv /\ served <= Len(sent)
      /\ Len(sent) \in Nat /\ served \in Nat /\ sent \in Seq(Texts)
      /\ dispatched = Joined(meant)[served]
  BY DEF StreamInv, StreamTypeOK, DispatchedAsWritten, Meant
<1>2. meant \in Seq(Seq(Meanings)) /\ Len(meant) = Len(sent)
  <2>1. \A i \in 1 .. Len(sent) : sent[i] \in Texts
    BY <1>1
  <2>2. \A i \in 1 .. Len(sent) : sent[i].meant \in Seq(Meanings)
    BY <2>1, DecodedAsBuilt
  <2>3. QED
    BY <1>1, <2>2
<1>3. ASSUME UNCHANGED <<sent, served, dispatched>> PROVE DispatchedAsWritten'
  BY <1>1, <1>3 DEF DispatchedAsWritten, Meant
<1>4. CASE UNCHANGED streamVars
  BY <1>3, <1>4 DEF streamVars
<1>5. ASSUME NEW w \in Writers, NEW t \in Texts, WriteLock(w, t) PROVE DispatchedAsWritten'
  BY <1>3, <1>5 DEF WriteLock, readVars
<1>6. ASSUME NEW w \in Writers, WriteRefused(w) \/ WriteFails(w) \/ WriteFirst(w)
      PROVE  DispatchedAsWritten'
  BY <1>3, <1>6 DEF WriteRefused, WriteFails, WriteFirst, readVars
<1>7. ASSUME NEW w \in Writers, WriteRest(w) PROVE DispatchedAsWritten'
  <2>1. sent' = Append(sent, text[w]) /\ UNCHANGED <<served, dispatched>> /\ text[w] \in Texts
    BY <1>1, <1>7 DEF WriteRest, readVars, LockInv
  <2> DEFINE longer == [i \in 1 .. Len(sent') |-> sent'[i].meant]
  <2>2. /\ Len(sent') = Len(sent) + 1 /\ sent' \in Seq(Texts)
        /\ \A i \in 1 .. Len(sent) : sent'[i] = sent[i]
    BY <1>1, <2>1
  <2>3. longer \in Seq(Seq(Meanings)) /\ Len(longer) = Len(sent')
    <3>1. \A i \in 1 .. Len(sent') : sent'[i] \in Texts
      BY <2>2
    <3>2. \A i \in 1 .. Len(sent') : sent'[i].meant \in Seq(Meanings)
      BY <3>1, DecodedAsBuilt
    <3>3. QED
      BY <1>1, <2>2, <3>2
  <2>4. \A i \in 1 .. Len(meant) : longer[i] = meant[i]
    BY <1>1, <1>2, <2>2
  <2>5. Len(meant) <= Len(longer) /\ served \in 0 .. Len(meant)
    BY <1>1, <1>2, <2>2, <2>3
  <2> HIDE DEF meant, longer
  <2>6. Joined(longer)[served] = Joined(meant)[served]
    BY <1>2, <2>3, <2>4, <2>5, JoinedPrefix
  <2>7. dispatched' = Joined(longer)[served'] /\ served' <= Len(sent')
    BY <1>1, <2>1, <2>2, <2>6
  <2>8. QED
    BY <2>7 DEF DispatchedAsWritten, Meant, longer
<1>8. CASE ReadOk
  <2>1. PICK at : InOrder(at)
    BY DEF StreamInv, SentInv
  <2>2. PICK w \in Writers :
           /\ Len(wire) >= 2 /\ wire[1] = Piece(w, 1) /\ wire[2] = Piece(w, 2)
           /\ dispatched' = dispatched \o Dispatches(text[w].doc)
    BY <1>1, <1>8, ReadOkTakes
  <2>3. /\ served + 1 \in 1 .. Len(sent) /\ text[w] = sent[served + 1] /\ text[w] \in Texts
    BY <1>1, <2>1, <2>2, NextIsSent
  <2>4. Dispatches(text[w].doc) = meant[served + 1]
    BY <2>3, DecodedAsBuilt
  <2>5. served' = served + 1 /\ sent' = sent
    BY <1>8 DEF ReadOk, writeVars
  <2> HIDE DEF meant
  <2>6. (served + 1) - 1 = served /\ served + 1 \in 1 .. Len(meant) /\ served + 1 <= Len(sent)
    BY <1>1, <1>2, <2>3
  <2>7. Joined(meant)[served + 1] = Joined(meant)[served] \o meant[served + 1]
    BY <1>2, <2>6, JoinedSteps
  <2>8. dispatched' = Joined(meant)[served']
    BY <1>1, <2>2, <2>4, <2>5, <2>7
  <2>9. QED
    BY <2>5, <2>6, <2>8 DEF DispatchedAsWritten, Meant, meant
<1>9. CASE \/ ReadCheck \/ ReadSkip \/ Noise \/ Cut
           \/ \E end \in {"writer", "reader"} : CloseFlag(end)
  BY <1>3, <1>9 DEF ReadCheck, ReadSkip, Noise, Cut, CloseFlag, writeVars, readVars
<1>10. QED
  BY <1>4, <1>5, <1>6, <1>7, <1>8, <1>9, StreamCases

-----------------------------------------------------------------------------
(* Every step keeps the invariant of the channel transport *)

\* A message that enters a channel comes after what was in it ...
LEMMA EntersLast ==
  ASSUME NEW S, NEW s \in Seq(S), NEW c \in Seq(S), NEW x \in S
  PROVE  s \o Append(c, x) = Append(s \o c, x)
OBVIOUS

\* ... and one that leaves it keeps its place.
LEMMA LeavesFirst ==
  ASSUME NEW S, NEW s \in Seq(S), NEW c \in Seq(S), c # <<>>
  PROVE  /\ Head(c) \in S /\ Tail(c) \in Seq(S) /\ Len(c) \in Nat /\ Len(Tail(c)) = Len(c) - 1
         /\ Append(s, Head(c)) \in Seq(S) /\ Append(s, Head(c)) \o Tail(c) = s \o c
<1>1. /\ Head(c) \in S /\ Tail(c) \in Seq(S) /\ Len(c) \in Nat /\ Len(Tail(c)) = Len(c) - 1
      /\ Len(c) >= 1 /\ Head(c) = c[1] /\ \A i \in 1 .. Len(c) - 1 : Tail(c)[i] = c[i + 1]
  OBVIOUS
<1> DEFINE h == Append(s, Head(c))
           l == h \o Tail(c)
           r == s \o c
<1>2. /\ h \in Seq(S) /\ Len(s) \in Nat /\ Len(h) = Len(s) + 1 /\ h[Len(s) + 1] = c[1]
      /\ \A i \in 1 .. Len(s) : h[i] = s[i]
  BY <1>1
<1> HIDE DEF h
<1>3. /\ l \in Seq(S) /\ Len(l) = Len(s) + Len(c)
      /\ \A i \in 1 .. Len(s) + 1 : l[i] = h[i]
      /\ \A i \in Len(s) + 2 .. Len(s) + Len(c) : l[i] = Tail(c)[i - (Len(s) + 1)]
  BY <1>1, <1>2, SMTT(40)
<1>4. /\ r \in Seq(S) /\ Len(r) = Len(s) + Len(c)
      /\ \A i \in 1 .. Len(s) : r[i] = s[i]
      /\ \A i \in Len(s) + 1 .. Len(s) + Len(c) : r[i] = c[i - Len(s)]
  BY <1>1, <1>2
<1> HIDE DEF l, r
<1>5. ASSUME NEW i \in 1 .. Len(s) + Len(c) PROVE l[i] = r[i]
  <2>1. CASE i \in 1 .. Len(s)
    <3>1. i \in 1 .. Len(s) + 1
      BY <1>2, <2>1
    <3>2. QED
      BY <1>2, <1>3, <1>4, <2>1, <3>1
  <2>2. CASE i = Len(s) + 1
    <3>1. i \in 1 .. Len(s) + 1 /\ i \in Len(s) + 1 .. Len(s) + Len(c) /\ i - Len(s) = 1
      BY <1>1, <1>2, <2>2
    <3>2. QED
      BY <1>2, <1>3, <1>4, <2>2, <3>1
  <2>3. CASE i \in Len(s) + 2 .. Len(s) + Len(c)
    <3>1. /\ i - (Len(s) + 1) \in 1 .. Len(c) - 1 /\ i \in Len(s) + 1 .. Len(s) + Len(c)
          /\ (i - (Len(s) + 1)) + 1 = i - Len(s)
      BY <1>1, <1>2, <2>3
    <3>2. l[i] = Tail(c)[i - (Len(s) + 1)] /\ r[i] = c[i - Len(s)]
      BY <1>3, <1>4, <2>3, <3>1
    <3>3. QED
      BY <1>1, <3>1, <3>2
  <2>4. QED
    BY <1>1, <1>2, <2>1, <2>2, <2>3
<1>6. l = r
  BY <1>3, <1>4, <1>5, SMTT(40)
<1>7. QED
  BY <1>1, <1>2, <1>6 DEF h, l, r

\* The steps that change the state of a channel transport.
LEMMA ChannelCases ==
  ASSUME [Next]_vars
  PROVE  \/ UNCHANGED channelVars
         \/ PushOk \/ PushErr \/ TakeOk \/ OfferOk \/ OfferErr \/ Consume \/ CloseChannels
<1>1. CASE UNCHANGED vars
  BY <1>1 DEF vars
<1>2. ASSUME TakeClosed \/ TakeCtx \/ ChannelCtxCancel PROVE UNCHANGED channelVars
  BY <1>2 DEF TakeClosed, TakeCtx, ChannelCtxCancel
<1>3. CASE Next
  BY <1>2, <1>3 DEF Next, Channel, Stream
<1>4. QED
  BY <1>1, <1>3

\* The channels keep what was accepted, and its order.
LEMMA ChannelStep ==
  ASSUME ChannelInv, [Next]_vars
  PROVE  ChannelInv'
<1>1. /\ ChannelTypeOK /\ accepted = read \o in /\ dropped \subseteq 1 .. written
      /\ \A n \in 1 .. MaxWrite :
           (\E i \in 1 .. Len(Outgoing) : Outgoing[i] = n) <=> n <= written /\ n \notin dropped
      /\ \A i, j \in 1 .. Len(Outgoing) : i < j => Outgoing[i] < Outgoing[j]
  BY DEF ChannelInv, ChannelsInOrder
<1>2. /\ in \in Seq(1 .. MaxPush) /\ read \in Seq(1 .. MaxPush) /\ accepted \in Seq(1 .. MaxPush)
      /\ out \in Seq(1 .. MaxWrite) /\ consumed \in Seq(1 .. MaxWrite)
      /\ Outgoing \in Seq(1 .. MaxWrite) /\ Len(Outgoing) \in Nat
      /\ pushed \in 0 .. MaxPush /\ written \in 0 .. MaxWrite /\ MaxPush \in Nat /\ MaxWrite \in Nat
  BY <1>1, ChannelConstantsAssumption DEF ChannelTypeOK, Outgoing
<1>3. ASSUME ChannelTypeOK', accepted' = read' \o in', Outgoing' = Outgoing,
             UNCHANGED <<written, dropped>>
      PROVE  ChannelInv'
  BY <1>1, <1>3 DEF ChannelInv, ChannelsInOrder
<1>4. CASE UNCHANGED channelVars
  <2>1. ChannelTypeOK'
    BY <1>1, <1>4 DEF ChannelTypeOK, channelVars
  <2>2. QED
    BY <1>1, <1>3, <1>4, <2>1 DEF channelVars, Outgoing
<1>5. CASE PushOk
  <2>1. pushed + 1 \in 1 .. MaxPush
    BY <1>2, <1>5 DEF PushOk
  <2>2. accepted' = read' \o in'
    <3> DEFINE S == 1 .. MaxPush
               x == pushed + 1
    <3>1. read \in Seq(S) /\ in \in Seq(S) /\ x \in S
      BY <1>2, <2>1
    <3> HIDE DEF S, x
    <3>2. read \o Append(in, x) = Append(read \o in, x)
      BY <3>1, EntersLast
    <3>3. QED
      BY <1>1, <1>5, <3>2 DEF PushOk, x
  <2>3. ChannelTypeOK'
    BY <1>1, <1>5, <2>1, ChannelConstantsAssumption DEF PushOk, ChannelTypeOK, outVars
  <2>4. QED
    BY <1>3, <1>5, <2>2, <2>3 DEF PushOk, outVars, Outgoing
<1>6. CASE PushErr
  <2>1. ChannelTypeOK'
    BY <1>1, <1>2, <1>6 DEF PushErr, ChannelTypeOK, outVars
  <2>2. QED
    BY <1>1, <1>3, <1>6, <2>1 DEF PushErr, outVars, Outgoing
<1>7. CASE TakeOk
  <2>1. /\ Head(in) \in 1 .. MaxPush /\ Tail(in) \in Seq(1 .. MaxPush)
        /\ Len(in) \in Nat /\ Len(Tail(in)) = Len(in) - 1
        /\ Append(read, Head(in)) \in Seq(1 .. MaxPush)
        /\ Append(read, Head(in)) \o Tail(in) = read \o in
    BY <1>2, <1>7, LeavesFirst, ZenonT(60) DEF TakeOk
  <2>2. accepted' = read' \o in'
    BY <1>1, <1>7, <2>1 DEF TakeOk
  <2>3. ChannelTypeOK'
    BY <1>1, <1>7, <2>1, ChannelConstantsAssumption DEF TakeOk, ChannelTypeOK, outVars
  <2>4. QED
    BY <1>3, <1>7, <2>2, <2>3 DEF TakeOk, outVars, Outgoing
<1>8. CASE OfferOk
  <2>1. written + 1 \in 1 .. MaxWrite /\ written' = written + 1
    BY <1>2, <1>8 DEF OfferOk
  <2>2. ChannelTypeOK'
    BY <1>1, <1>8, <2>1, ChannelConstantsAssumption DEF OfferOk, ChannelTypeOK, inVars
  <2>3. Outgoing' = Append(Outgoing, written + 1)
    <3> DEFINE S == 1 .. MaxWrite
               x == written + 1
    <3>1. consumed \in Seq(S) /\ out \in Seq(S) /\ x \in S
      BY <1>2, <2>1
    <3> HIDE DEF S, x
    <3>2. consumed \o Append(out, x) = Append(consumed \o out, x)
      BY <3>1, EntersLast
    <3>3. QED
      BY <1>8, <3>2 DEF OfferOk, Outgoing, x
  <2>4. UNCHANGED <<accepted, read, in, dropped>>
    BY <1>8 DEF OfferOk, inVars
  <2>5. /\ Len(Outgoing') = Len(Outgoing) + 1 /\ Outgoing'[Len(Outgoing) + 1] = written + 1
        /\ \A i \in 1 .. Len(Outgoing) : Outgoing'[i] = Outgoing[i]
    BY <1>2, <2>1, <2>3
  <2>6. \A i \in 1 .. Len(Outgoing') : i \in 1 .. Len(Outgoing) \/ i = Len(Outgoing) + 1
    <3>1. Len(Outgoing) \in Nat /\ Len(Outgoing') = Len(Outgoing) + 1
      BY <1>2, <2>5
    <3>2. QED
      BY <3>1
  <2>7. \A i \in 1 .. Len(Outgoing) : Outgoing[i] \in 1 .. MaxWrite /\ Outgoing[i] <= written
    BY <1>1, <1>2, SMTT(40)
  <2>8. written + 1 \notin dropped /\ dropped \subseteq 1 .. written'
    BY <1>1, <1>2, <2>1
  <2>9. ASSUME NEW n \in 1 .. MaxWrite
        PROVE  (\E i \in 1 .. Len(Outgoing') : Outgoing'[i] = n) <=> n <= written' /\ n \notin dropped
    <3>1. CASE n = written + 1
      <4>1. Len(Outgoing) + 1 \in 1 .. Len(Outgoing')
        BY <1>2, <2>5
      <4>2. n <= written' /\ n \notin dropped
        BY <2>1, <2>8, <3>1
      <4>3. QED
        BY <2>5, <3>1, <4>1, <4>2
    <3>2. CASE n # written + 1
      <4>1. n <= written' <=> n <= written
        BY <1>2, <2>1, <3>2
      <4>2. (\E i \in 1 .. Len(Outgoing') : Outgoing'[i] = n) <=>
              \E i \in 1 .. Len(Outgoing) : Outgoing[i] = n
        <5>1. \A i \in 1 .. Len(Outgoing) : i \in 1 .. Len(Outgoing')
          BY <1>2, <2>5
        <5>2. QED
          BY <2>5, <2>6, <3>2, <5>1
      <4>3. QED
        BY <1>1, <4>1, <4>2
    <3>3. QED
      BY <3>1, <3>2
  <2>10. ASSUME NEW i \in 1 .. Len(Outgoing'), NEW j \in 1 .. Len(Outgoing'), i < j
         PROVE  Outgoing'[i] < Outgoing'[j]
    <3>1. i \in 1 .. Len(Outgoing)
      BY <1>2, <2>5, <2>6, <2>10
    <3>2. CASE j \in 1 .. Len(Outgoing)
      BY <1>1, <2>5, <2>10, <3>1, <3>2
    <3>3. CASE j = Len(Outgoing) + 1
      <4>1. Outgoing'[i] = Outgoing[i] /\ Outgoing'[j] = written + 1
        BY <2>5, <3>1, <3>3
      <4>2. Outgoing[i] \in 1 .. MaxWrite /\ Outgoing[i] <= written
        BY <2>7, <3>1
      <4>3. QED
        BY <1>2, <4>1, <4>2
    <3>4. QED
      BY <2>6, <3>2, <3>3
  <2>11. QED
    BY <1>1, <2>2, <2>4, <2>8, <2>9, <2>10 DEF ChannelInv, ChannelsInOrder
<1>9. CASE OfferErr
  <2>1. written + 1 \in 1 .. MaxWrite /\ written' = written + 1 /\ dropped' = dropped \cup {written + 1}
    BY <1>2, <1>9 DEF OfferErr
  <2>2. UNCHANGED <<accepted, read, in, out, consumed>> /\ Outgoing' = Outgoing
    BY <1>9 DEF OfferErr, inVars, Outgoing
  <2>3. ChannelTypeOK'
    BY <1>1, <1>9, <2>1 DEF OfferErr, ChannelTypeOK, inVars
  <2>4. dropped' \subseteq 1 .. written'
    BY <1>1, <1>2, <2>1
  <2>5. \A n \in 1 .. MaxWrite : n <= written' /\ n \notin dropped' <=> n <= written /\ n \notin dropped
    BY <1>2, <2>1
  <2>6. QED
    BY <1>1, <2>2, <2>3, <2>4, <2>5 DEF ChannelInv, ChannelsInOrder
<1>10. CASE Consume
  <2>1. /\ Head(out) \in 1 .. MaxWrite /\ Tail(out) \in Seq(1 .. MaxWrite)
        /\ Len(out) \in Nat /\ Len(Tail(out)) = Len(out) - 1
        /\ Append(consumed, Head(out)) \in Seq(1 .. MaxWrite)
        /\ Append(consumed, Head(out)) \o Tail(out) = consumed \o out
    BY <1>2, <1>10, LeavesFirst, ZenonT(60) DEF Consume
  <2>2. Outgoing' = Outgoing
    BY <1>10, <2>1 DEF Consume, Outgoing
  <2>3. ChannelTypeOK'
    BY <1>1, <1>10, <2>1, ChannelConstantsAssumption DEF Consume, ChannelTypeOK, inVars
  <2>4. QED
    BY <1>1, <1>3, <1>10, <2>2, <2>3 DEF Consume, inVars
<1>11. CASE CloseChannels
  <2>1. ChannelTypeOK'
    BY <1>1, <1>11 DEF CloseChannels, ChannelTypeOK, inVars, outVars
  <2>2. QED
    BY <1>1, <1>3, <1>11, <2>1 DEF CloseChannels, inVars, outVars, Outgoing
<1>12. QED
  BY <1>4, <1>5, <1>6, <1>7, <1>8, <1>9, <1>10, <1>11, ChannelCases

-----------------------------------------------------------------------------
(* The theorems *)

\* The transport that the Peer was given stays; Serve reads or has stopped.
LEMMA BaseStep ==
  ASSUME TransportTypeOK, [Next]_vars
  PROVE  TransportTypeOK'
<1>1. UNCHANGED baseVars
        \/ TakeClosed \/ TakeCtx \/ ChannelCtxCancel \/ Stop \/ StreamCtxCancel
  <2>1. CASE UNCHANGED vars
    BY <2>1 DEF vars
  <2>2. CASE Next
    <3>1. ASSUME PushOk \/ PushErr \/ OfferOk \/ OfferErr \/ TakeOk \/ Consume \/ CloseChannels
          PROVE  UNCHANGED baseVars
      BY <3>1 DEF PushOk, PushErr, OfferOk, OfferErr, TakeOk, Consume, CloseChannels
    <3>2. ASSUME NEW w \in Writers, WriteRefused(w) \/ WriteFirst(w) \/ WriteRest(w) \/ WriteFails(w)
          PROVE  UNCHANGED baseVars
      BY <3>2 DEF WriteRefused, WriteFirst, WriteRest, WriteFails
    <3>3. ASSUME NEW w \in Writers, NEW t \in Texts, WriteLock(w, t) PROVE UNCHANGED baseVars
      BY <3>3 DEF WriteLock
    <3>4. ASSUME \/ ReadCheck \/ ReadOk \/ ReadSkip \/ Noise \/ Cut
                 \/ \E end \in {"writer", "reader"} : CloseFlag(end)
          PROVE  UNCHANGED baseVars
      BY <3>4 DEF ReadCheck, ReadOk, ReadSkip, Noise, Cut, CloseFlag
    <3>5. QED
      BY <2>2, <3>1, <3>2, <3>3, <3>4
      DEF Next, Channel, Stream, ReadEnded, ReadTooLong, ReadEof
  <2>3. QED
    BY <2>1, <2>2
<1>2. QED
  BY <1>1 DEF TransportTypeOK, baseVars, TakeClosed, TakeCtx, ChannelCtxCancel, Stop, StreamCtxCancel

\* The invariant holds at the start ...
LEMMA Starts == Init => Inv
<1> SUFFICES ASSUME Init PROVE Inv
  OBVIOUS
<1>1. TransportTypeOK
  BY DEF Init, TransportInit, TransportTypeOK
<1>2. StreamTypeOK
  <2>1. /\ checked \in BOOLEAN /\ cut \in BOOLEAN
        /\ flag \in [{"writer", "reader"} -> BOOLEAN]
    BY DEF Init, StreamInit
  <2>2. QED
    BY <2>1, StreamConstantsAssumption DEF Init, StreamInit, StreamTypeOK
<1>3. LockInv /\ PiecesInv
  BY DEF Init, StreamInit, LockInv, PiecesInv
<1>4. Len(wire) = 0 /\ Len(sent) = 0 /\ served = 0
  BY DEF Init, StreamInit
<1>5. SentInv
  <2> DEFINE at == [k \in served + 1 .. Len(sent) |-> 1]
  <2>1. served + 1 .. Len(sent) = {} /\ 1 .. Len(wire) = {}
    BY <1>4
  <2>2. InOrder(at)
    BY <2>1 DEF InOrder
  <2>3. QED
    BY <1>4, <2>2 DEF SentInv
<1>6. DispatchedAsWritten
  <2> DEFINE meant == [i \in 1 .. Len(sent) |-> sent[i].meant]
  <2>1. meant \in Seq(Seq(Meanings))
    BY <1>4
  <2> HIDE DEF meant
  <2>2. Joined(meant)[0] = <<>>
    BY <2>1, JoinedSteps
  <2>3. QED
    BY <1>4, <2>2 DEF DispatchedAsWritten, Meant, meant, Init, StreamInit
<1>7. ChannelTypeOK /\ dropped \subseteq 1 .. written
  <2>1. closed \in BOOLEAN
    BY DEF Init, ChannelInit
  <2>2. QED
    BY <2>1, ChannelConstantsAssumption DEF Init, ChannelInit, ChannelTypeOK
<1>8. ChannelsInOrder
  <2>1. accepted = read \o in /\ Outgoing = <<>> /\ written = 0
    BY DEF Init, ChannelInit, Outgoing
  <2>2. QED
    BY <2>1 DEF ChannelsInOrder
<1>9. QED
  BY <1>1, <1>2, <1>3, <1>5, <1>6, <1>7, <1>8 DEF Inv, StreamInv, ChannelInv

\* ... and after every step.
LEMMA Continues == Inv /\ [Next]_vars => Inv'
BY StreamTypeStep, LockStep, PiecesStep, SentStep, DispatchStep, ChannelStep, BaseStep
DEF Inv, StreamInv

\* The invariant holds in every reachable state.
LEMMA Always == Spec => []Inv
BY Starts, Continues, PTL DEF Spec

\* No channel exceeds its capacity, and every variable has its type
\* (channel_transport.go 20-33).
THEOREM TransportsTyping == Spec => []TypeOK
<1>1. Inv => TypeOK
  BY DEF Inv, StreamInv, ChannelInv, TypeOK
<1>2. QED
  BY <1>1, Always, PTL

\* Whatever the writers, the lines that are not JSON and the unusable documents
\* around it, Serve dispatches each message as what it was built for, whole, once
\* and in the order in which it was written (jsonrpc.go 139-232, stdio.go 63-117,
\* ws.go 105-118, peer.go 164-205).
THEOREM WrittenIsDispatched == Spec => []DispatchedAsWritten
<1>1. Inv => DispatchedAsWritten
  BY DEF Inv, StreamInv
<1>2. QED
  BY <1>1, Always, PTL

\* A channel transport loses, repeats and reorders nothing that it has accepted,
\* however its readers, its writers and Close interleave (channel_transport.go
\* 35-83).
THEOREM ChannelsKeepOrder == Spec => []ChannelsInOrder
<1>1. Inv => ChannelsInOrder
  BY DEF Inv, ChannelInv
<1>2. QED
  BY <1>1, Always, PTL

-----------------------------------------------------------------------------
(* HTTPS+SSE: the way of a request and of its response *)

\* No message is twice in s.
NoRepeat(s) == \A i, j \in 1 .. Len(s) : s[i] = s[j] => i = j

\* WriteMessage of the POST q holds the message x, which it has got as the body
\* of the answer.
Carries(q, x) == cpc[q] = "pushing" /\ body[q] = x

\* The POST q was answered with the message x after its client gave up.
Loses(q, x) == q \in gone /\ body[q] = x

\* Where the message of a POST, and then its response, can be; a message that the
\* server sends of its own accord goes from "unsent" to "outgoing".
LinkPlaces == {"unsent", "incoming", "answering", "handling", "silent", "outgoing",
               "body", "lost", "sse", "cin", "routed"}

\* Each message x is in the place at[x], and nowhere else.
OutgoingPlaces(at) ==
    \A x \in Messages : \A m \in Makers :
        Contains(outgoing[m], x) <=> (at[x] = "outgoing" /\ peer = m)

IncomingPlaces(at) ==
    \A p \in Posts : \A m \in Makers :
        Contains(incoming[m], p) <=> (at[p] = "incoming" /\ sess[p] = m)

PeerPlaces(at) ==
    \A p \in Posts :
        /\ at[p] = "unsent" <=> ppc[p] \in {"idle", "missing", "pushing"}
        /\ p = answering <=> at[p] = "answering"
        /\ p \in handling <=> at[p] = "handling"
        /\ p \in seen <=> at[p] \notin {"unsent", "incoming"}
        /\ at[p] = "silent" => content[p] = "silent"
        /\ content[p] = "silent" => at[p] \in {"unsent", "incoming", "handling", "silent"}

NotePlaces(at) ==
    \A n \in Notes :
        /\ n \in own <=> at[n] # "unsent"
        /\ at[n] \notin {"incoming", "answering", "handling", "silent"}

ServerPlaces(at) ==
    OutgoingPlaces(at) /\ IncomingPlaces(at) /\ PeerPlaces(at) /\ NotePlaces(at)

ClientPlaces(at) ==
    \A x \in Messages :
        /\ at[x] = "body" <=> \E q \in Posts : Carries(q, x)
        /\ at[x] = "lost" <=> \E q \in Posts : Loses(q, x)
        /\ Contains(sse, x) <=> at[x] = "sse"
        /\ Contains(cin, x) <=> at[x] = "cin"
        /\ x \in routed <=> at[x] = "routed"

Placed(at) == at \in [Messages -> LinkPlaces] /\ ServerPlaces(at) /\ ClientPlaces(at)

\* The message x has come to the place y, and no other has moved.
Moved(at, b, x, y) ==
    b \in [Messages -> LinkPlaces] /\ b[x] = y /\ \A q \in Messages : q # x => b[q] = at[q]

\* No channel holds a message twice, and no two POSTs carry the same message.
LinkNoRepeat ==
    /\ \A m \in Makers : NoRepeat(incoming[m]) /\ NoRepeat(outgoing[m])
    /\ NoRepeat(sse) /\ NoRepeat(cin)
    /\ \A x \in Messages : \A q, r \in Posts : Carries(q, x) /\ Carries(r, x) => q = r

\* How far a POST handler, the Peer and WriteMessage are, together.
PostPhases ==
    /\ seen # {} \/ own # {} \/ answering # None => peer # None
    /\ \A q \in Posts :
        /\ ppc[q] \notin {"idle", "missing"} => sess[q] \in Makers
        /\ ppc[q] = "replied" <=> body[q] # None
        /\ q \in gone => cpc[q] = "returned" /\ ppc[q] \notin {"idle", "missing"}
        /\ cpc[q] = "pushing" => ppc[q] = "replied"
        /\ cpc[q] = "returned" => ppc[q] = "replied" \/ q \in gone
        /\ cpc[q] = "posting" => ppc[q] # "replied"

LinkInv ==
    /\ LinkTypeOK
    /\ LinkNoRepeat
    /\ PostPhases
    /\ \E at : Placed(at)

\* Where a request that the Peer has read, and then its response, can be.
ResponsePlaces == {"answering", "handling", "outgoing", "body", "lost", "sse", "cin", "routed"}

\* The message x, or the response to it, is held in the place y.
Holds(y, x) ==
    \/ y = "answering" /\ x = answering
    \/ y = "handling" /\ x \in handling
    \/ y = "outgoing" /\ peer # None /\ Contains(outgoing[peer], x)
    \/ y = "body" /\ \E q \in Posts : Carries(q, x)
    \/ y = "lost" /\ \E q \in Posts : Loses(q, x)
    \/ y = "sse" /\ Contains(sse, x)
    \/ y = "cin" /\ Contains(cin, x)
    \/ y = "routed" /\ x \in routed

\* A message that the Peer has read and has to answer is with its goroutine or with
\* the Serve loop, or the answer is on its way to the client or has reached it;
\* the only other place is the answer to a POST that its client has given up. So
\* it is with what the Peer has sent of its own accord.
AnswersKept ==
    /\ \A p \in seen : content[p] # "silent" => \E y \in ResponsePlaces : Holds(y, p)
    /\ \A n \in own : \E y \in ResponsePlaces : Holds(y, n)

\* A message of the Peer is in one place only and no channel holds it twice, so
\* that the client cannot read it twice; and only what was read and has to be
\* answered, or what the Peer has sent, is on its way.
AnsweredOnce ==
    /\ LinkNoRepeat
    /\ \A x \in Messages : \A y, z \in ResponsePlaces : Holds(y, x) /\ Holds(z, x) => y = z
    /\ \A x \in Messages : \A y \in ResponsePlaces \ {"handling"} :
         Holds(y, x) => (x \in seen /\ content[x] # "silent") \/ x \in own

\* What a message appended to a channel does to it.
LEMMA AppendedMessage ==
  ASSUME NEW P, NEW s \in Seq(P), NEW p \in P
  PROVE  /\ Append(s, p) \in Seq(P) /\ Len(Append(s, p)) = Len(s) + 1
         /\ \A x : Contains(Append(s, p), x) <=> Contains(s, x) \/ x = p
         /\ NoRepeat(s) /\ ~Contains(s, p) => NoRepeat(Append(s, p))
<1> DEFINE t == Append(s, p)
           n == Len(s)
<1>1. n \in Nat /\ t \in Seq(P) /\ Len(t) = n + 1 /\ t[n + 1] = p
  OBVIOUS
<1>2. \A i \in 1 .. n : t[i] = s[i]
  OBVIOUS
<1>3. \A i \in 1 .. n + 1 : i \in 1 .. n \/ i = n + 1
  BY <1>1
<1> HIDE DEF t, n
<1>4. ASSUME NEW x PROVE (\E i \in 1 .. n + 1 : t[i] = x) <=> (\E i \in 1 .. n : s[i] = x) \/ x = p
  <2>1. 1 .. n \subseteq 1 .. n + 1 /\ n + 1 \in 1 .. n + 1
    BY <1>1
  <2>2. QED
    BY <1>1, <1>2, <1>3, <2>1
<1>5. ASSUME \A i, j \in 1 .. n : s[i] = s[j] => i = j, \A i \in 1 .. n : s[i] # p
      PROVE  \A i, j \in 1 .. n + 1 : t[i] = t[j] => i = j
  BY <1>1, <1>2, <1>3, <1>5
<1>6. QED
  BY <1>1, <1>4, <1>5 DEF Contains, NoRepeat, t, n

\* What taking the oldest message does to a channel.
LEMMA TakenMessage ==
  ASSUME NEW P, NEW s \in Seq(P), s # <<>>, NoRepeat(s)
  PROVE  /\ Head(s) \in P /\ Contains(s, Head(s))
         /\ Tail(s) \in Seq(P) /\ Len(Tail(s)) = Len(s) - 1 /\ NoRepeat(Tail(s))
         /\ \A x : Contains(Tail(s), x) <=> Contains(s, x) /\ x # Head(s)
<1> DEFINE t == Tail(s)
           n == Len(s)
           h == Head(s)
<1>1. n \in Nat /\ n > 0 /\ t \in Seq(P) /\ Len(t) = n - 1 /\ h = s[1] /\ h \in P
  OBVIOUS
<1>2. \A i \in 1 .. n - 1 : t[i] = s[i + 1]
  OBVIOUS
<1>3. \A i, j \in 1 .. n : s[i] = s[j] => i = j
  BY DEF NoRepeat
<1>4. \A i \in 1 .. n - 1 : i + 1 \in 1 .. n /\ i + 1 # 1
  BY <1>1
<1>5. \A i \in 1 .. n : i = 1 \/ (i - 1 \in 1 .. n - 1 /\ (i - 1) + 1 = i)
  BY <1>1
<1>6. 1 \in 1 .. n
  BY <1>1
<1> HIDE DEF t, n, h
<1>7. ASSUME NEW x
      PROVE  (\E i \in 1 .. n - 1 : t[i] = x) <=> (\E i \in 1 .. n : s[i] = x) /\ x # h
  <2>1. ASSUME NEW i \in 1 .. n - 1, t[i] = x PROVE (\E j \in 1 .. n : s[j] = x) /\ x # h
    BY <1>1, <1>2, <1>3, <1>4, <1>6, <2>1
  <2>2. ASSUME NEW i \in 1 .. n, s[i] = x, x # h PROVE \E j \in 1 .. n - 1 : t[j] = x
    <3>1. i # 1
      BY <1>1, <2>2
    <3>2. i - 1 \in 1 .. n - 1 /\ t[i - 1] = s[(i - 1) + 1] /\ (i - 1) + 1 = i
      BY <1>2, <1>5, <3>1
    <3>3. QED
      BY <2>2, <3>2
  <2>3. QED
    BY <2>1, <2>2
<1>8. \A i, j \in 1 .. n - 1 : t[i] = t[j] => i = j
  <2> SUFFICES ASSUME NEW i \in 1 .. n - 1, NEW j \in 1 .. n - 1, t[i] = t[j] PROVE i = j
    OBVIOUS
  <2>1. i + 1 = j + 1
    BY <1>2, <1>3, <1>4
  <2>2. QED
    BY <2>1
<1>9. \E i \in 1 .. n : s[i] = h
  BY <1>1, <1>6
<1>10. QED
  BY <1>1, <1>7, <1>8, <1>9 DEF Contains, NoRepeat, t, n, h

\* An empty channel holds no message.
LEMMA EmptyChannel == NoRepeat(<<>>) /\ \A x : ~Contains(<<>>, x)
  BY DEF NoRepeat, Contains

\* LinkTypeOK and PostPhases hold initially.
LEMMA LinkStarts == LinkInit => LinkTypeOK /\ PostPhases
  BY PostConstantsAssumption, LinkConstantsAssumption
  DEF LinkInit, PostInit, LinkTypeOK, PostTypeOK, PostPhases, Makers, Messages

\* A step of the client leaves the server alone.
LEMMA PostTypeKept == PostTypeOK /\ UNCHANGED postVars => PostTypeOK'
  BY DEF postVars, serverVars, peerVars, PostTypeOK

\* The channels stay within their capacities.
LEMMA LinkTypeStep == LinkTypeOK /\ PostPhases /\ LinkNoRepeat /\ [LinkNext]_linkVars => LinkTypeOK'
<1> SUFFICES ASSUME LinkTypeOK, PostPhases, LinkNoRepeat, [LinkNext]_linkVars PROVE LinkTypeOK'
  OBVIOUS
<1> USE PostConstantsAssumption, LinkConstantsAssumption
<1>1. /\ \A m \in Makers : NoRepeat(incoming[m]) /\ NoRepeat(outgoing[m])
      /\ NoRepeat(sse) /\ NoRepeat(cin)
  BY DEF LinkNoRepeat
<1>2. ASSUME NEW p \in Posts, Lookup(p) \/ Create(p) \/ Timeout(p), UNCHANGED clientVars
      PROVE  LinkTypeOK'
  <2>1. CASE Lookup(p)
    <3>1. ppc' \in [Posts -> {"idle", "missing", "pushing", "waiting", "replied", "timeout"}]
      BY <2>1 DEF Lookup, LinkTypeOK, PostTypeOK
    <3>2. sess' \in [Posts -> Makers \cup {None}]
      BY <2>1 DEF Lookup, LinkTypeOK, PostTypeOK
    <3>3. QED
      BY <1>2, <2>1, <3>1, <3>2 DEF Lookup, serverVars, peerVars, clientVars, LinkTypeOK, PostTypeOK
  <2>2. CASE Create(p)
    <3>1. ppc' \in [Posts -> {"idle", "missing", "pushing", "waiting", "replied", "timeout"}]
      BY <2>2 DEF Create, LinkTypeOK, PostTypeOK
    <3>2. sess' \in [Posts -> Makers \cup {None}] /\ session' \in Makers
      BY <2>2 DEF Create, LinkTypeOK, PostTypeOK, Makers
    <3>3. QED
      BY <1>2, <2>2, <3>1, <3>2 DEF Create, peerVars, clientVars, LinkTypeOK, PostTypeOK
  <2>3. CASE Timeout(p)
    BY <1>2, <2>3 DEF Timeout, serverVars, peerVars, clientVars, LinkTypeOK, PostTypeOK
  <2>4. QED
    BY <1>2, <2>1, <2>2, <2>3
<1>3. ASSUME NEW p \in Posts, Push(p), UNCHANGED clientVars PROVE LinkTypeOK'
  <2> DEFINE m == sess[p]
             s == incoming[m]
  <2>1. m \in Makers /\ s \in Seq(Posts) /\ Len(s) < IncomingCap
    BY <1>3 DEF Push, PostPhases, LinkTypeOK, PostTypeOK
  <2>2. Append(s, p) \in Seq(Posts) /\ Len(Append(s, p)) = Len(s) + 1
    BY <2>1
  <2>3. /\ ppc' \in [Posts -> {"idle", "missing", "pushing", "waiting", "replied", "timeout"}]
        /\ incoming' = [incoming EXCEPT ![m] = Append(s, p)]
    BY <1>3 DEF Push, LinkTypeOK, PostTypeOK
  <2>4. incoming' \in [Makers -> Seq(Posts)] /\ \A k \in Makers : Len(incoming'[k]) <= IncomingCap
    BY <2>1, <2>2, <2>3 DEF LinkTypeOK, PostTypeOK
  <2>5. QED
    BY <1>3, <2>3, <2>4 DEF Push, serverVars, peerVars, clientVars, LinkTypeOK, PostTypeOK
<1>4. ASSUME NEW x \in Messages, Write(x)
      PROVE  /\ outgoing' \in [Makers -> Seq(Messages)]
             /\ \A m \in Makers : Len(outgoing'[m]) <= OutgoingCap
  <2>1. \A m \in Makers : /\ Append(outgoing[m], x) \in Seq(Messages)
                          /\ Len(Append(outgoing[m], x)) = Len(outgoing[m]) + 1
    BY DEF LinkTypeOK, PostTypeOK
  <2>2. outgoing' \in [Makers -> Seq(Messages)]
    BY <1>4, <2>1 DEF Write, LinkTypeOK, PostTypeOK
  <2>3. \A m \in Makers : Len(outgoing'[m]) <= OutgoingCap
    BY <1>4, <2>1 DEF Write, LinkTypeOK, PostTypeOK
  <2>4. QED
    BY <2>2, <2>3
<1>5. ASSUME NEW m \in Makers, outgoing[m] # <<>>
      PROVE  /\ Head(outgoing[m]) \in Messages /\ Tail(outgoing[m]) \in Seq(Messages)
             /\ Len(Tail(outgoing[m])) = Len(outgoing[m]) - 1
  BY <1>1, <1>5, TakenMessage DEF LinkTypeOK, PostTypeOK
<1>6. ASSUME NEW p \in Posts, BodyArrives(p) PROVE LinkTypeOK'
  <2>1. sess[p] \in Makers /\ outgoing[sess[p]] # <<>>
    BY <1>6 DEF BodyArrives, Reply, PostPhases
  <2>2. PICK m \in Makers : m = sess[p]
    BY <2>1
  <2>3. outgoing[m] # <<>> /\ outgoing' = [outgoing EXCEPT ![m] = Tail(@)]
    BY <1>6, <2>2 DEF BodyArrives, Reply
  <2>4. outgoing' \in [Makers -> Seq(Messages)]
    BY <1>5, <2>3 DEF LinkTypeOK, PostTypeOK
  <2>5. \A k \in Makers : Len(outgoing'[k]) <= OutgoingCap
    BY <1>5, <2>3 DEF LinkTypeOK, PostTypeOK
  <2>6. body' \in [Posts -> Messages \cup {None}]
    BY <1>5, <1>6, <2>1 DEF BodyArrives, Reply, LinkTypeOK, PostTypeOK
  <2>7. QED
    BY <1>6, <2>4, <2>5, <2>6 DEF BodyArrives, Reply, serverVars, peerVars, LinkTypeOK, PostTypeOK
<1>7. ASSUME NEW p \in Posts, PostAbandoned(p) PROVE LinkTypeOK'
  BY <1>7 DEF PostAbandoned, ClientGone, serverVars, peerVars, LinkTypeOK, PostTypeOK
<1>8. ASSUME NEW p \in Posts, BodyPush(p) PROVE LinkTypeOK'
  <2>1. body[p] \in Messages
    BY <1>8 DEF BodyPush, PostPhases, LinkTypeOK, PostTypeOK
  <2>2. Append(cin, body[p]) \in Seq(Messages) /\ Len(Append(cin, body[p])) = Len(cin) + 1
    BY <2>1 DEF LinkTypeOK
  <2>3. QED
    BY <1>8, <2>2, PostTypeKept DEF BodyPush, LinkTypeOK
<1>9. ASSUME Transport, UNCHANGED clientVars PROVE LinkTypeOK'
  BY <1>9 DEF Transport, peerVars, clientVars, LinkTypeOK, PostTypeOK, Makers
<1>10. ASSUME PeerRead, UNCHANGED clientVars PROVE LinkTypeOK'
  <2>1. peer \in Makers /\ incoming[peer] \in Seq(Posts) /\ NoRepeat(incoming[peer])
    BY <1>1, <1>10 DEF PeerRead, LinkTypeOK, PostTypeOK
  <2>2. /\ Head(incoming[peer]) \in Posts /\ Tail(incoming[peer]) \in Seq(Posts)
        /\ Len(Tail(incoming[peer])) = Len(incoming[peer]) - 1
    BY <1>10, <2>1, TakenMessage DEF PeerRead
  <2>3. QED
    BY <1>10, <2>1, <2>2 DEF PeerRead, serverVars, clientVars, LinkTypeOK, PostTypeOK
<1>11. ASSUME EventArrives PROVE LinkTypeOK'
  <2>1. PICK m \in Makers : m = stream
    BY <1>11 DEF EventArrives, StreamTakes, LinkTypeOK, PostTypeOK
  <2>2. outgoing[m] # <<>> /\ outgoing' = [outgoing EXCEPT ![m] = Tail(@)]
    BY <1>11, <2>1 DEF EventArrives, StreamTakes
  <2>3. Append(sse, Head(outgoing[m])) \in Seq(Messages)
    BY <1>5, <2>2 DEF LinkTypeOK
  <2>4. outgoing' \in [Makers -> Seq(Messages)]
    BY <1>5, <2>2 DEF LinkTypeOK, PostTypeOK
  <2>5. \A k \in Makers : Len(outgoing'[k]) <= OutgoingCap
    BY <1>5, <2>2 DEF LinkTypeOK, PostTypeOK
  <2>6. QED
    BY <1>11, <2>1, <2>3, <2>4, <2>5
    DEF EventArrives, StreamTakes, serverVars, peerVars, LinkTypeOK, PostTypeOK
<1>12. ASSUME EventPush PROVE LinkTypeOK'
  <2>1. Head(sse) \in Messages /\ Tail(sse) \in Seq(Messages)
    BY <1>1, <1>12, TakenMessage DEF EventPush, LinkTypeOK
  <2>2. Append(cin, Head(sse)) \in Seq(Messages) /\ Len(Append(cin, Head(sse))) = Len(cin) + 1
    BY <2>1 DEF LinkTypeOK
  <2>3. QED
    BY <1>12, <2>1, <2>2, PostTypeKept DEF EventPush, LinkTypeOK
<1>13. ASSUME ClientRead PROVE LinkTypeOK'
  <2>1. Head(cin) \in Messages /\ Tail(cin) \in Seq(Messages) /\ Len(Tail(cin)) = Len(cin) - 1
    BY <1>1, <1>13, TakenMessage DEF ClientRead, LinkTypeOK
  <2>2. QED
    BY <1>13, <2>1, PostTypeKept DEF ClientRead, LinkTypeOK
<1>14. ASSUME ClientEof \/ ClientClose \/ ClientCrash PROVE LinkTypeOK'
  BY <1>14, PostTypeKept DEF ClientEof, ClientClose, ClientCrash, LinkTypeOK
<1>15. ASSUME UNCHANGED linkVars PROVE LinkTypeOK'
  BY <1>15, PostTypeKept DEF linkVars, clientVars, LinkTypeOK
<1>16. ASSUME NEW p \in Posts, PeerAnswer(p), UNCHANGED clientVars PROVE LinkTypeOK'
  <2>1. CASE UNCHANGED outgoing
    BY <1>16, <2>1 DEF PeerAnswer, serverVars, clientVars, LinkTypeOK, PostTypeOK
  <2>2. CASE Write(p)
    <3>1. p \in Messages
      BY DEF Messages
    <3>2. /\ outgoing' \in [Makers -> Seq(Messages)]
          /\ \A m \in Makers : Len(outgoing'[m]) <= OutgoingCap
      BY <1>4, <2>2, <3>1
    <3>3. QED
      BY <1>16, <3>2 DEF PeerAnswer, serverVars, clientVars, LinkTypeOK, PostTypeOK
  <2>3. QED
    BY <1>16, <2>1, <2>2 DEF PeerAnswer
<1>17. ASSUME ServeAnswers, UNCHANGED clientVars PROVE LinkTypeOK'
  <2>1. answering \in Messages /\ Write(answering)
    BY <1>17 DEF ServeAnswers, Messages, LinkTypeOK, PostTypeOK
  <2>2. /\ outgoing' \in [Makers -> Seq(Messages)]
        /\ \A m \in Makers : Len(outgoing'[m]) <= OutgoingCap
    BY <1>4, <2>1
  <2>3. QED
    BY <1>17, <2>2 DEF ServeAnswers, serverVars, clientVars, LinkTypeOK, PostTypeOK
<1>18. ASSUME NEW n \in Notes, PeerSends(n), UNCHANGED clientVars PROVE LinkTypeOK'
  <2>1. n \in Messages /\ Write(n)
    BY <1>18 DEF PeerSends, Messages
  <2>2. /\ outgoing' \in [Makers -> Seq(Messages)]
        /\ \A m \in Makers : Len(outgoing'[m]) <= OutgoingCap
    BY <1>4, <2>1
  <2>3. QED
    BY <1>18, <2>2 DEF PeerSends, serverVars, clientVars, LinkTypeOK, PostTypeOK
<1>19. ASSUME StreamConnect \/ StreamEnds, UNCHANGED clientVars PROVE LinkTypeOK'
  BY <1>19 DEF StreamConnect, StreamEnds, serverVars, peerVars, clientVars, LinkTypeOK, PostTypeOK
<1>20. CASE LinkProgress
  BY <1>2, <1>3, <1>6, <1>8, <1>10, <1>11, <1>12, <1>13, <1>14, <1>16, <1>17, <1>19, <1>20
  DEF LinkProgress, Server
<1>21. CASE LinkEvent
  BY <1>7, <1>9, <1>14, <1>18, <1>19, <1>21 DEF LinkEvent, Server
<1>22. QED
  BY <1>15, <1>20, <1>21 DEF LinkNext, LinkOver

\* The phases of a POST, of the Peer and of WriteMessage stay together.
LEMMA PhasesStep ==
  LinkTypeOK /\ PostPhases /\ LinkNoRepeat /\ [LinkNext]_linkVars => PostPhases'
<1> SUFFICES ASSUME LinkTypeOK, PostPhases, LinkNoRepeat, [LinkNext]_linkVars PROVE PostPhases'
  OBVIOUS
<1> USE PostConstantsAssumption
<1>1. ASSUME NEW p \in Posts, Lookup(p) \/ Create(p) \/ Push(p) \/ Timeout(p), UNCHANGED clientVars
      PROVE  PostPhases'
  <2>1. CASE Lookup(p)
    BY <1>1, <2>1 DEF Lookup, serverVars, peerVars, clientVars, PostPhases, LinkTypeOK, PostTypeOK
  <2>2. CASE Create(p)
    BY <1>1, <2>2 DEF Create, peerVars, clientVars, PostPhases, LinkTypeOK, PostTypeOK, Makers
  <2>3. CASE Push(p) \/ Timeout(p)
    BY <1>1, <2>3 DEF Push, Timeout, serverVars, peerVars, clientVars, PostPhases, LinkTypeOK, PostTypeOK
  <2>4. QED
    BY <1>1, <2>1, <2>2, <2>3
<1>2. ASSUME NEW p \in Posts, PeerAnswer(p), UNCHANGED clientVars PROVE PostPhases'
  BY <1>2 DEF PeerAnswer, serverVars, clientVars, PostPhases
<1>3. ASSUME NEW p \in Posts, BodyArrives(p) PROVE PostPhases'
  <2>1. sess[p] \in Makers /\ outgoing[sess[p]] # <<>>
    BY <1>3 DEF BodyArrives, Reply, PostPhases
  <2>2. outgoing[sess[p]] \in Seq(Messages) /\ NoRepeat(outgoing[sess[p]])
    BY <2>1 DEF LinkTypeOK, PostTypeOK, LinkNoRepeat
  <2>3. Head(outgoing[sess[p]]) \in Messages
    BY <2>1, <2>2, TakenMessage
  <2>4. QED
    BY <1>3, <2>1, <2>3 DEF Messages, serverVars, peerVars, BodyArrives, Reply, PostPhases, LinkTypeOK, PostTypeOK
<1>4. ASSUME NEW p \in Posts, PostAbandoned(p) PROVE PostPhases'
  BY <1>4 DEF PostAbandoned, ClientGone, serverVars, peerVars, PostPhases, LinkTypeOK, PostTypeOK
<1>5. ASSUME NEW p \in Posts, BodyPush(p) PROVE PostPhases'
  BY <1>5 DEF BodyPush, postVars, serverVars, peerVars, PostPhases, LinkTypeOK, PostTypeOK
<1>6. ASSUME Transport, UNCHANGED clientVars PROVE PostPhases'
  BY <1>6 DEF Transport, peerVars, clientVars, PostPhases, LinkTypeOK, PostTypeOK, Makers
<1>7. ASSUME PeerRead \/ ServeAnswers \/ \E n \in Notes : PeerSends(n), UNCHANGED clientVars
      PROVE  PostPhases'
  BY <1>7 DEF PeerRead, ServeAnswers, PeerSends, serverVars, clientVars, PostPhases
<1>8. ASSUME EventArrives \/ ((StreamConnect \/ StreamEnds) /\ UNCHANGED clientVars)
      PROVE  PostPhases'
  BY <1>8 DEF EventArrives, StreamTakes, StreamConnect, StreamEnds, serverVars, peerVars,
              clientVars, PostPhases
<1>9. ASSUME EventPush \/ ClientRead \/ ClientEof \/ ClientClose \/ ClientCrash PROVE PostPhases'
  BY <1>9 DEF EventPush, ClientRead, ClientEof, ClientClose, ClientCrash, postVars, serverVars, peerVars, PostPhases
<1>10. ASSUME UNCHANGED linkVars PROVE PostPhases'
  BY <1>10 DEF linkVars, clientVars, postVars, serverVars, peerVars, PostPhases
<1>11. CASE LinkProgress
  BY <1>1, <1>2, <1>3, <1>5, <1>7, <1>8, <1>9, <1>11 DEF LinkProgress, Server
<1>12. CASE LinkEvent
  BY <1>4, <1>6, <1>7, <1>8, <1>9, <1>12 DEF LinkEvent, Server
<1>13. QED
  BY <1>10, <1>11, <1>12 DEF LinkNext, LinkOver

\* What the steps may use, and what they have to keep.
LinkParts == LinkTypeOK /\ LinkNoRepeat /\ PostPhases

LinkPlaced == LinkNoRepeat /\ \E at : Placed(at)

\* POST handlers and clients that do not move a message.
LEMMA HandlersKeepPlaces ==
  ASSUME LinkParts, NEW at, Placed(at),
         \/ \E p \in Posts : (Lookup(p) \/ Create(p) \/ Timeout(p)) /\ UNCHANGED clientVars
         \/ \E p \in Posts : PostAbandoned(p)
  PROVE  LinkPlaced'
<1> USE PostConstantsAssumption
<1>1. PICK p \in Posts : \/ (Lookup(p) \/ Create(p) \/ Timeout(p)) /\ UNCHANGED clientVars
                         \/ PostAbandoned(p)
  OBVIOUS
<1>2. UNCHANGED <<content, peer, incoming, outgoing, answering, handling, seen, own, body, sse, cin, routed>>
  BY <1>1 DEF Lookup, Create, Timeout, PostAbandoned, ClientGone, serverVars, peerVars, clientVars
<1>3. /\ \A q \in Posts : sess'[q] = sess[q] \/ at[q] = "unsent"
      /\ \A q \in Posts : ppc'[q] \in {"idle", "missing", "pushing"}
                             <=> ppc[q] \in {"idle", "missing", "pushing"}
  <2>1. CASE Lookup(p)
    BY <2>1 DEF Lookup, Placed, ServerPlaces, PeerPlaces, LinkParts, LinkTypeOK, PostTypeOK
  <2>2. CASE Create(p)
    BY <2>2 DEF Create, Placed, ServerPlaces, PeerPlaces, LinkParts, LinkTypeOK, PostTypeOK
  <2>3. CASE Timeout(p) \/ PostAbandoned(p)
    BY <2>3 DEF Timeout, PostAbandoned, ClientGone, LinkParts, LinkTypeOK, PostTypeOK
  <2>4. QED
    BY <1>1, <2>1, <2>2, <2>3
<1>4. \A q \in Posts, r \in Messages : (Carries(q, r)' <=> Carries(q, r)) /\ (Loses(q, r)' <=> Loses(q, r))
  <2>1. CASE UNCHANGED clientVars /\ (Lookup(p) \/ Create(p) \/ Timeout(p))
    BY <2>1 DEF Lookup, Create, Timeout, clientVars, Carries, Loses
  <2>2. CASE PostAbandoned(p)
    <3>1. body[p] = None
      BY <2>2 DEF PostAbandoned, ClientGone, LinkParts, PostPhases
    <3>2. QED
      BY <1>2, <2>2, <3>1
      DEF Messages, PostAbandoned, ClientGone, Carries, Loses, LinkParts, LinkTypeOK
  <2>3. QED
    BY <1>1, <2>1, <2>2
<1>5. ServerPlaces(at)'
  <2>1. OutgoingPlaces(at)'
    BY <1>2 DEF Placed, ServerPlaces, OutgoingPlaces
  <2>2. IncomingPlaces(at)'
    BY <1>2, <1>3 DEF Placed, ServerPlaces, IncomingPlaces
  <2>3. PeerPlaces(at)'
    BY <1>2, <1>3 DEF Placed, ServerPlaces, PeerPlaces
  <2>4. NotePlaces(at)'
    BY <1>2 DEF Placed, ServerPlaces, NotePlaces
  <2>5. QED
    BY <2>1, <2>2, <2>3, <2>4 DEF ServerPlaces
<1>6. ClientPlaces(at)'
  BY <1>2, <1>4 DEF Placed, ClientPlaces
<1>7. LinkNoRepeat'
  BY <1>2, <1>4 DEF LinkParts, LinkNoRepeat
<1>8. QED
  BY <1>5, <1>6, <1>7 DEF LinkPlaced, Placed

\* The application asks for its transport, the client connects or ends.
LEMMA OthersKeepPlaces ==
  ASSUME LinkParts, NEW at, Placed(at),
         \/ (Transport \/ StreamConnect \/ StreamEnds) /\ UNCHANGED clientVars
         \/ ClientEof \/ ClientClose \/ ClientCrash \/ UNCHANGED linkVars
  PROVE  LinkPlaced'
<1> USE PostConstantsAssumption
<1>1. UNCHANGED <<content, ppc, sess, incoming, outgoing, answering, handling, seen, own, gone,
                  body, cpc, sse, cin, routed>>
  BY DEF Transport, StreamConnect, StreamEnds, serverVars, peerVars, clientVars,
         ClientEof, ClientClose, ClientCrash, linkVars, postVars
<1>2. \A x \in Messages : at[x] = "outgoing" => peer' = peer
  <2>1. ASSUME Transport, NEW x \in Messages PROVE at[x] # "outgoing"
    BY <2>1 DEF Transport, Messages, Placed, ServerPlaces, PeerPlaces, NotePlaces, LinkParts, PostPhases
  <2>2. Transport \/ peer' = peer
    BY DEF StreamConnect, StreamEnds, serverVars, ClientEof, ClientClose, ClientCrash,
           linkVars, postVars
  <2>3. QED
    BY <2>1, <2>2
<1>3. \A q \in Posts, r \in Messages : (Carries(q, r)' <=> Carries(q, r)) /\ (Loses(q, r)' <=> Loses(q, r))
  BY <1>1 DEF Carries, Loses
<1>4. ServerPlaces(at)'
  <2>1. OutgoingPlaces(at)'
    <3>1. ASSUME NEW x \in Messages, NEW m \in Makers
          PROVE  Contains(outgoing[m], x) <=> (at[x] = "outgoing" /\ peer' = m)
      <4>1. Contains(outgoing[m], x) <=> (at[x] = "outgoing" /\ peer = m)
        BY DEF Placed, ServerPlaces, OutgoingPlaces
      <4>2. QED
        BY <1>2, <4>1
    <3>2. QED
      BY <1>1, <3>1 DEF OutgoingPlaces
  <2>2. IncomingPlaces(at)' /\ PeerPlaces(at)' /\ NotePlaces(at)'
    BY <1>1 DEF Placed, ServerPlaces, IncomingPlaces, PeerPlaces, NotePlaces
  <2>3. QED
    BY <2>1, <2>2 DEF ServerPlaces
<1>5. ClientPlaces(at)'
  BY <1>1, <1>3 DEF Placed, ClientPlaces
<1>6. LinkNoRepeat'
  BY <1>1, <1>3 DEF LinkParts, LinkNoRepeat
<1>7. QED
  BY <1>4, <1>5, <1>6 DEF LinkPlaced, Placed

\* A POST handler puts its message into the channel.
LEMMA PushMoves ==
  ASSUME LinkParts, NEW at, Placed(at), NEW p \in Posts, Push(p), UNCHANGED clientVars
  PROVE  LinkPlaced'
<1> USE PostConstantsAssumption
<1>1. PICK b : b = [at EXCEPT ![p] = "incoming"]
  OBVIOUS
<1>2. p \in Messages /\ at \in [Messages -> LinkPlaces] /\ at[p] = "unsent"
  BY DEF Push, Messages, Placed, ServerPlaces, PeerPlaces
<1>3. Moved(at, b, p, "incoming")
  BY <1>1, <1>2 DEF LinkPlaces, Moved
<1>4. UNCHANGED <<content, sess, peer, outgoing, answering, handling, seen, own, gone, body,
                  cpc, sse, cin, routed>>
  BY DEF Push, serverVars, peerVars, clientVars
<1>5. sess[p] \in Makers /\ incoming[sess[p]] \in Seq(Posts) /\ ~Contains(incoming[sess[p]], p)
  BY <1>2 DEF Push, LinkParts, LinkTypeOK, PostTypeOK, PostPhases, Placed, ServerPlaces, IncomingPlaces
<1>6. NoRepeat(incoming[sess[p]])
  BY <1>5 DEF LinkParts, LinkNoRepeat
<1>7. /\ \A x : Contains(Append(incoming[sess[p]], p), x) <=> Contains(incoming[sess[p]], x) \/ x = p
      /\ NoRepeat(Append(incoming[sess[p]], p))
  BY <1>5, <1>6, AppendedMessage
<1>8. /\ incoming'[sess[p]] = Append(incoming[sess[p]], p)
      /\ \A m \in Makers : m # sess[p] => incoming'[m] = incoming[m]
  BY <1>5 DEF Push, LinkParts, LinkTypeOK, PostTypeOK
<1>9. \A q \in Posts : ppc'[q] = IF q = p THEN "waiting" ELSE ppc[q]
  BY DEF Push, LinkParts, LinkTypeOK, PostTypeOK
<1>10. \A q \in Posts, r \in Messages : (Carries(q, r)' <=> Carries(q, r)) /\ (Loses(q, r)' <=> Loses(q, r))
  BY <1>4 DEF Carries, Loses
<1>11. ServerPlaces(b)'
  <2>1. IncomingPlaces(b)'
    <3> SUFFICES ASSUME NEW q \in Posts, NEW m \in Makers
                 PROVE  Contains(incoming'[m], q) <=> (b[q] = "incoming" /\ sess[q] = m)
      BY <1>4 DEF IncomingPlaces
    <3>1. Contains(incoming[m], q) <=> (at[q] = "incoming" /\ sess[q] = m)
      BY DEF Placed, ServerPlaces, IncomingPlaces
    <3>2. Contains(incoming'[m], q) <=> Contains(incoming[m], q) \/ (q = p /\ m = sess[p])
      BY <1>7, <1>8
    <3>3. QED
      BY <1>2, <1>3, <3>1, <3>2 DEF Moved, Messages
  <2>2. PeerPlaces(b)'
    BY <1>2, <1>3, <1>4, <1>9 DEF Moved, Messages, Placed, ServerPlaces, PeerPlaces
  <2>3. OutgoingPlaces(b)'
    BY <1>2, <1>3, <1>4 DEF Moved, Placed, ServerPlaces, OutgoingPlaces
  <2>4. NotePlaces(b)'
    BY <1>3, <1>4 DEF Moved, Messages, Placed, ServerPlaces, NotePlaces
  <2>5. QED
    BY <2>1, <2>2, <2>3, <2>4 DEF ServerPlaces
<1>12. ClientPlaces(b)'
  BY <1>2, <1>3, <1>4, <1>10 DEF Moved, Placed, ClientPlaces
<1>13. LinkNoRepeat'
  BY <1>4, <1>7, <1>8, <1>10 DEF LinkParts, LinkNoRepeat
<1>14. QED
  BY <1>3, <1>11, <1>12, <1>13 DEF Moved, LinkPlaced, Placed

\* The Serve loop reads a message of its session.
LEMMA PeerReadMoves ==
  ASSUME LinkParts, NEW at, Placed(at), PeerRead, UNCHANGED clientVars
  PROVE  LinkPlaced'
<1> USE PostConstantsAssumption
<1>1. peer \in Makers /\ incoming[peer] \in Seq(Posts) /\ incoming[peer] # <<>> /\ NoRepeat(incoming[peer])
  BY DEF PeerRead, LinkParts, LinkTypeOK, PostTypeOK, LinkNoRepeat
<1>2. PICK h : h = Head(incoming[peer])
  OBVIOUS
<1>3. /\ h \in Posts /\ Contains(incoming[peer], h) /\ NoRepeat(Tail(incoming[peer]))
      /\ \A x : Contains(Tail(incoming[peer]), x) <=> Contains(incoming[peer], x) /\ x # h
  BY <1>1, <1>2, TakenMessage
<1>4. h \in Messages /\ at \in [Messages -> LinkPlaces] /\ at[h] = "incoming" /\ sess[h] = peer
  BY <1>1, <1>3 DEF Messages, Placed, ServerPlaces, IncomingPlaces
<1>5. PICK y : y = IF content[h] = "bad" THEN "answering" ELSE "handling"
  OBVIOUS
<1>6. PICK b : b = [at EXCEPT ![h] = y]
  OBVIOUS
<1>7. Moved(at, b, h, y)
  BY <1>4, <1>5, <1>6 DEF LinkPlaces, Moved
<1>8. /\ UNCHANGED <<content, ppc, sess, peer, outgoing, own, gone, body, cpc, sse, cin, routed>>
      /\ seen' = seen \cup {h} /\ answering = None
      /\ answering' = IF content[h] = "bad" THEN h ELSE None
      /\ handling' = IF content[h] = "bad" THEN handling ELSE handling \cup {h}
  BY <1>2 DEF PeerRead, serverVars, clientVars
<1>9. /\ incoming'[peer] = Tail(incoming[peer])
      /\ \A m \in Makers : m # peer => incoming'[m] = incoming[m]
  BY <1>1 DEF PeerRead, LinkParts, LinkTypeOK, PostTypeOK
<1>10. \A q \in Posts, r \in Messages : (Carries(q, r)' <=> Carries(q, r)) /\ (Loses(q, r)' <=> Loses(q, r))
  BY <1>8 DEF Carries, Loses
<1>11. ServerPlaces(b)'
  <2>1. IncomingPlaces(b)'
    <3> SUFFICES ASSUME NEW q \in Posts, NEW m \in Makers
                 PROVE  Contains(incoming'[m], q) <=> (b[q] = "incoming" /\ sess[q] = m)
      BY <1>8 DEF IncomingPlaces
    <3>1. Contains(incoming[m], q) <=> (at[q] = "incoming" /\ sess[q] = m)
      BY DEF Placed, ServerPlaces, IncomingPlaces
    <3>2. Contains(incoming'[m], q) <=> Contains(incoming[m], q) /\ ~(q = h /\ m = peer)
      BY <1>3, <1>9
    <3>3. QED
      BY <1>4, <1>5, <1>7, <3>1, <3>2 DEF Moved, Messages
  <2>2. PeerPlaces(b)'
    <3> SUFFICES ASSUME NEW q \in Posts
                 PROVE  /\ b[q] = "unsent" <=> ppc[q] \in {"idle", "missing", "pushing"}
                        /\ q = answering' <=> b[q] = "answering"
                        /\ q \in handling' <=> b[q] = "handling"
                        /\ q \in seen' <=> b[q] \notin {"unsent", "incoming"}
                        /\ b[q] = "silent" => content[q] = "silent"
                        /\ content[q] = "silent" => b[q] \in {"unsent", "incoming", "handling", "silent"}
      BY <1>8 DEF PeerPlaces
    <3>1. /\ at[q] = "unsent" <=> ppc[q] \in {"idle", "missing", "pushing"}
          /\ q = answering <=> at[q] = "answering"
          /\ q \in handling <=> at[q] = "handling"
          /\ q \in seen <=> at[q] \notin {"unsent", "incoming"}
          /\ at[q] = "silent" => content[q] = "silent"
          /\ content[q] = "silent" => at[q] \in {"unsent", "incoming", "handling", "silent"}
      BY DEF Placed, ServerPlaces, PeerPlaces
    <3>2. CASE q = h
      BY <1>4, <1>5, <1>7, <1>8, <3>1, <3>2 DEF Moved
    <3>3. CASE q # h
      <4>1. b[q] = at[q] /\ q # None
        BY <1>7, <3>3 DEF Moved, Messages
      <4>2. QED
        BY <1>8, <3>1, <3>3, <4>1
    <3>4. QED
      BY <3>2, <3>3
  <2>3. OutgoingPlaces(b)'
    BY <1>4, <1>5, <1>7, <1>8 DEF Moved, Placed, ServerPlaces, OutgoingPlaces
  <2>4. NotePlaces(b)'
    BY <1>3, <1>7, <1>8 DEF Moved, Messages, Placed, ServerPlaces, NotePlaces
  <2>5. QED
    BY <2>1, <2>2, <2>3, <2>4 DEF ServerPlaces
<1>12. ClientPlaces(b)'
  BY <1>4, <1>5, <1>7, <1>8, <1>10 DEF Moved, Placed, ClientPlaces
<1>13. LinkNoRepeat'
  BY <1>3, <1>8, <1>9, <1>10 DEF LinkParts, LinkNoRepeat
<1>14. QED
  BY <1>7, <1>11, <1>12, <1>13 DEF Moved, LinkPlaced, Placed

\* The Peer writes the message x, which was with its goroutine or with the Serve
\* loop, or is its own.
LEMMA WriteMoves ==
  ASSUME LinkParts, NEW at, Placed(at), NEW x \in Messages, Write(x), peer \in Makers,
         at[x] \in {"handling", "answering", "unsent"},
         UNCHANGED <<peer, sess, incoming, gone, body, clientVars>>
  PROVE  /\ LinkNoRepeat'
         /\ \E b : /\ Moved(at, b, x, "outgoing")
                   /\ OutgoingPlaces(b)' /\ IncomingPlaces(b)' /\ ClientPlaces(b)'
<1> USE PostConstantsAssumption
<1>1. UNCHANGED <<cpc, sse, cin, routed>>
  BY DEF clientVars
<1>2. PICK b : b = [at EXCEPT ![x] = "outgoing"]
  OBVIOUS
<1>3. Moved(at, b, x, "outgoing")
  BY <1>2 DEF LinkPlaces, Moved, Placed
<1>4. outgoing[peer] \in Seq(Messages) /\ ~Contains(outgoing[peer], x) /\ NoRepeat(outgoing[peer])
  BY DEF LinkParts, LinkTypeOK, PostTypeOK, LinkNoRepeat, Placed, ServerPlaces, OutgoingPlaces
<1>5. /\ \A y : Contains(Append(outgoing[peer], x), y) <=> Contains(outgoing[peer], y) \/ y = x
      /\ NoRepeat(Append(outgoing[peer], x))
  BY <1>4, AppendedMessage
<1>6. /\ outgoing'[peer] = Append(outgoing[peer], x)
      /\ \A m \in Makers : m # peer => outgoing'[m] = outgoing[m]
  BY DEF Write, LinkParts, LinkTypeOK, PostTypeOK
<1>7. \A q \in Posts, r \in Messages : (Carries(q, r)' <=> Carries(q, r)) /\ (Loses(q, r)' <=> Loses(q, r))
  BY <1>1 DEF Carries, Loses
<1>8. OutgoingPlaces(b)'
  <2> SUFFICES ASSUME NEW q \in Messages, NEW m \in Makers
               PROVE  Contains(outgoing'[m], q) <=> (b[q] = "outgoing" /\ peer = m)
    BY DEF OutgoingPlaces
  <2>1. Contains(outgoing[m], q) <=> (at[q] = "outgoing" /\ peer = m)
    BY DEF Placed, ServerPlaces, OutgoingPlaces
  <2>2. Contains(outgoing'[m], q) <=> Contains(outgoing[m], q) \/ (q = x /\ m = peer)
    BY <1>5, <1>6
  <2>3. QED
    BY <1>3, <2>1, <2>2 DEF Moved
<1>9. IncomingPlaces(b)'
  <2> SUFFICES ASSUME NEW q \in Posts, NEW m \in Makers
               PROVE  Contains(incoming[m], q) <=> (b[q] = "incoming" /\ sess[q] = m)
    BY DEF IncomingPlaces
  <2>1. Contains(incoming[m], q) <=> (at[q] = "incoming" /\ sess[q] = m)
    BY DEF Placed, ServerPlaces, IncomingPlaces
  <2>2. QED
    BY <1>3, <2>1 DEF Moved, Messages
<1>10. ClientPlaces(b)'
  BY <1>1, <1>3, <1>7 DEF Moved, Placed, ClientPlaces
<1>11. LinkNoRepeat'
  BY <1>1, <1>5, <1>6, <1>7 DEF LinkParts, LinkNoRepeat
<1>12. QED
  BY <1>3, <1>8, <1>9, <1>10, <1>11

\* A goroutine of the Peer answers its request, or ends in silence.
LEMMA PeerAnswerMoves ==
  ASSUME LinkParts, NEW at, Placed(at), NEW p \in Posts, PeerAnswer(p), UNCHANGED clientVars
  PROVE  LinkPlaced'
<1> USE PostConstantsAssumption
<1>1. /\ p \in Messages /\ at \in [Messages -> LinkPlaces]
      /\ at[p] = "handling" /\ peer \in Makers
  BY DEF PeerAnswer, Messages, Placed, ServerPlaces, PeerPlaces, LinkParts, LinkTypeOK, PostTypeOK,
         PostPhases
<1>2. /\ UNCHANGED <<content, ppc, sess, peer, incoming, answering, seen, own, gone, body,
                     cpc, sse, cin, routed>>
      /\ handling' = handling \ {p}
  BY DEF PeerAnswer, serverVars, clientVars
<1>3. CASE content[p] = "silent" /\ UNCHANGED outgoing
  <2>1. PICK b : b = [at EXCEPT ![p] = "silent"]
    OBVIOUS
  <2>2. Moved(at, b, p, "silent")
    BY <1>1, <2>1 DEF LinkPlaces, Moved
  <2>3. \A q \in Posts, r \in Messages : (Carries(q, r)' <=> Carries(q, r)) /\ (Loses(q, r)' <=> Loses(q, r))
    BY <1>2 DEF Carries, Loses
  <2>4. OutgoingPlaces(b)'
    BY <1>1, <1>2, <1>3, <2>2 DEF Moved, Placed, ServerPlaces, OutgoingPlaces
  <2>5. IncomingPlaces(b)'
    BY <1>1, <1>2, <2>2 DEF Moved, Messages, Placed, ServerPlaces, IncomingPlaces
  <2>6. PeerPlaces(b)'
    BY <1>1, <1>2, <1>3, <2>2 DEF Moved, Messages, Placed, ServerPlaces, PeerPlaces
  <2>7. NotePlaces(b)'
    BY <1>2, <2>2 DEF Moved, Messages, Placed, ServerPlaces, NotePlaces
  <2>8. ClientPlaces(b)'
    BY <1>1, <1>2, <2>2, <2>3 DEF Moved, Placed, ClientPlaces
  <2>9. LinkNoRepeat'
    BY <1>2, <1>3, <2>3 DEF LinkParts, LinkNoRepeat
  <2>10. QED
    BY <2>2, <2>4, <2>5, <2>6, <2>7, <2>8, <2>9 DEF Moved, LinkPlaced, Placed, ServerPlaces
<1>4. CASE content[p] = "request" /\ Write(p)
  <2>1. /\ LinkNoRepeat'
        /\ \E b : /\ Moved(at, b, p, "outgoing")
                  /\ OutgoingPlaces(b)' /\ IncomingPlaces(b)' /\ ClientPlaces(b)'
    BY <1>1, <1>2, <1>4, WriteMoves
  <2>2. PICK b : /\ Moved(at, b, p, "outgoing")
                 /\ OutgoingPlaces(b)' /\ IncomingPlaces(b)' /\ ClientPlaces(b)'
    BY <2>1
  <2>3. PeerPlaces(b)'
    BY <1>1, <1>2, <1>4, <2>2 DEF Moved, Messages, Placed, ServerPlaces, PeerPlaces
  <2>4. NotePlaces(b)'
    BY <1>2, <2>2 DEF Moved, Messages, Placed, ServerPlaces, NotePlaces
  <2>5. QED
    BY <2>1, <2>2, <2>3, <2>4 DEF Moved, LinkPlaced, Placed, ServerPlaces
<1>5. QED
  BY <1>3, <1>4 DEF PeerAnswer

\* The Serve loop writes an error answer of its own.
LEMMA ServeAnswersMoves ==
  ASSUME LinkParts, NEW at, Placed(at), ServeAnswers, UNCHANGED clientVars
  PROVE  LinkPlaced'
<1> USE PostConstantsAssumption
<1>1. PICK p \in Posts : p = answering
  BY DEF ServeAnswers, LinkParts, LinkTypeOK, PostTypeOK
<1>2. p \in Messages /\ at[p] = "answering" /\ peer \in Makers /\ Write(p)
  BY <1>1 DEF ServeAnswers, Messages, Placed, ServerPlaces, PeerPlaces, LinkParts, LinkTypeOK, PostTypeOK,
              PostPhases
<1>3. /\ UNCHANGED <<content, ppc, sess, peer, incoming, handling, seen, own, gone, body>>
      /\ answering' = None
  BY DEF ServeAnswers, serverVars
<1>4. /\ LinkNoRepeat'
      /\ \E b : /\ Moved(at, b, p, "outgoing")
                /\ OutgoingPlaces(b)' /\ IncomingPlaces(b)' /\ ClientPlaces(b)'
  BY <1>2, <1>3, WriteMoves
<1>5. PICK b : /\ Moved(at, b, p, "outgoing")
               /\ OutgoingPlaces(b)' /\ IncomingPlaces(b)' /\ ClientPlaces(b)'
  BY <1>4
<1>6. PeerPlaces(b)'
  BY <1>1, <1>2, <1>3, <1>5 DEF Moved, Messages, Placed, ServerPlaces, PeerPlaces
<1>7. NotePlaces(b)'
  BY <1>3, <1>5 DEF Moved, Messages, Placed, ServerPlaces, NotePlaces
<1>8. QED
  BY <1>4, <1>5, <1>6, <1>7 DEF Moved, LinkPlaced, Placed, ServerPlaces

\* The server's application sends a message of its own accord.
LEMMA PeerSendsMoves ==
  ASSUME LinkParts, NEW at, Placed(at), NEW n \in Notes, PeerSends(n), UNCHANGED clientVars
  PROVE  LinkPlaced'
<1> USE PostConstantsAssumption
<1>1. n \in Messages /\ at[n] = "unsent" /\ peer \in Makers /\ Write(n)
  BY DEF PeerSends, Messages, Placed, ServerPlaces, NotePlaces, LinkParts, LinkTypeOK, PostTypeOK
<1>2. /\ UNCHANGED <<content, ppc, sess, peer, incoming, answering, handling, seen, gone, body>>
      /\ own' = own \cup {n}
  BY DEF PeerSends, serverVars
<1>3. /\ LinkNoRepeat'
      /\ \E b : /\ Moved(at, b, n, "outgoing")
                /\ OutgoingPlaces(b)' /\ IncomingPlaces(b)' /\ ClientPlaces(b)'
  BY <1>1, <1>2, WriteMoves
<1>4. PICK b : /\ Moved(at, b, n, "outgoing")
               /\ OutgoingPlaces(b)' /\ IncomingPlaces(b)' /\ ClientPlaces(b)'
  BY <1>3
<1>5. PeerPlaces(b)'
  BY <1>2, <1>4 DEF Moved, Messages, Placed, ServerPlaces, PeerPlaces
<1>6. NotePlaces(b)'
  BY <1>1, <1>2, <1>4 DEF Moved, Messages, Placed, ServerPlaces, NotePlaces
<1>7. QED
  BY <1>3, <1>4, <1>5, <1>6 DEF Moved, LinkPlaced, Placed, ServerPlaces

\* A step that takes the oldest message of the outgoing channel m, and that
\* moves no POST handler past its push.
TakesOldest(m) ==
    /\ outgoing[m] # <<>> /\ outgoing' = [outgoing EXCEPT ![m] = Tail(@)]
    /\ UNCHANGED <<content, sess, peer, incoming, answering, handling, seen, own>>
    /\ \A q \in Posts : ppc'[q] \in {"idle", "missing", "pushing"}
                           <=> ppc[q] \in {"idle", "missing", "pushing"}

\* The message h has left the outgoing channel m for the place y.
TakenTo(at, m, y, h, b) ==
    /\ h = Head(outgoing[m]) /\ at[h] = "outgoing"
    /\ Moved(at, b, h, y)
    /\ ServerPlaces(b)'
    /\ \A k \in Makers : NoRepeat(outgoing[k])'

\* The oldest message leaves the outgoing channel m: for the POST that the
\* client still waits for, for one that it has given up, or for the stream.
LEMMA OutgoingMoves ==
  ASSUME LinkParts, NEW at, Placed(at), NEW m \in Makers, TakesOldest(m),
         NEW y \in {"body", "lost", "sse"}
  PROVE  \E h \in Messages, b \in [Messages -> LinkPlaces] : TakenTo(at, m, y, h, b)
<1> USE PostConstantsAssumption
<1>1. outgoing[m] \in Seq(Messages) /\ NoRepeat(outgoing[m])
  BY DEF LinkParts, LinkTypeOK, PostTypeOK, LinkNoRepeat
<1>2. PICK h : h = Head(outgoing[m])
  OBVIOUS
<1>3. /\ h \in Messages /\ Contains(outgoing[m], h) /\ NoRepeat(Tail(outgoing[m]))
      /\ \A x : Contains(Tail(outgoing[m]), x) <=> Contains(outgoing[m], x) /\ x # h
  BY <1>1, <1>2, TakenMessage DEF TakesOldest
<1>4. at \in [Messages -> LinkPlaces] /\ at[h] = "outgoing" /\ peer = m
  BY <1>3 DEF Placed, ServerPlaces, OutgoingPlaces
<1>5. PICK b : b = [at EXCEPT ![h] = y]
  OBVIOUS
<1>6. Moved(at, b, h, y)
  BY <1>3, <1>4, <1>5 DEF LinkPlaces, Moved
<1>7. /\ outgoing'[m] = Tail(outgoing[m])
      /\ \A k \in Makers : k # m => outgoing'[k] = outgoing[k]
  BY DEF TakesOldest, LinkParts, LinkTypeOK, PostTypeOK
<1>8. ServerPlaces(b)'
  <2>1. OutgoingPlaces(b)'
    <3> SUFFICES ASSUME NEW q \in Messages, NEW k \in Makers
                 PROVE  Contains(outgoing'[k], q) <=> (b[q] = "outgoing" /\ peer = k)
      BY DEF TakesOldest, OutgoingPlaces
    <3>1. Contains(outgoing[k], q) <=> (at[q] = "outgoing" /\ peer = k)
      BY DEF Placed, ServerPlaces, OutgoingPlaces
    <3>2. Contains(outgoing'[k], q) <=> Contains(outgoing[k], q) /\ ~(q = h /\ k = m)
      BY <1>3, <1>7
    <3>3. QED
      BY <1>3, <1>4, <1>6, <3>1, <3>2 DEF Moved
  <2>2. IncomingPlaces(b)'
    BY <1>3, <1>4, <1>6 DEF TakesOldest, Moved, Messages, Placed, ServerPlaces, IncomingPlaces
  <2>3. PeerPlaces(b)'
    BY <1>3, <1>4, <1>6 DEF TakesOldest, Moved, Messages, Placed, ServerPlaces, PeerPlaces
  <2>4. NotePlaces(b)'
    BY <1>3, <1>4, <1>6 DEF TakesOldest, Moved, Messages, Placed, ServerPlaces, NotePlaces
  <2>5. QED
    BY <2>1, <2>2, <2>3, <2>4 DEF ServerPlaces
<1>9. \A k \in Makers : NoRepeat(outgoing[k])'
  BY <1>3, <1>7 DEF LinkParts, LinkNoRepeat
<1>10. TakenTo(at, m, y, h, b)
  BY <1>2, <1>4, <1>6, <1>8, <1>9 DEF TakenTo
<1>11. QED
  BY <1>3, <1>6, <1>10 DEF Moved

\* A POST is answered with the oldest message, whoever it is for.
LEMMA BodyArrivesMoves ==
  ASSUME LinkParts, NEW at, Placed(at), NEW p \in Posts, BodyArrives(p)
  PROVE  LinkPlaced'
<1> USE PostConstantsAssumption
<1>1. /\ sess[p] \in Makers /\ ppc[p] = "waiting" /\ body[p] = None
      /\ (cpc[p] = "posting" /\ p \notin gone) \/ (cpc[p] = "returned" /\ p \in gone)
  BY DEF BodyArrives, Reply, LinkParts, LinkTypeOK, PostPhases
<1>2. PICK y : y = IF cpc[p] = "posting" THEN "body" ELSE "lost"
  OBVIOUS
<1>3. \A q \in Posts : ppc'[q] \in {"idle", "missing", "pushing"}
                          <=> ppc[q] \in {"idle", "missing", "pushing"}
  BY DEF BodyArrives, Reply, LinkParts, LinkTypeOK, PostTypeOK
<1>4. /\ outgoing[sess[p]] # <<>> /\ outgoing' = [outgoing EXCEPT ![sess[p]] = Tail(@)]
      /\ UNCHANGED <<content, sess, peer, incoming, answering, handling, seen, own, gone, sse, cin, routed>>
  BY DEF BodyArrives, Reply, serverVars, peerVars
<1>5. PICK h \in Messages, b \in [Messages -> LinkPlaces] : TakenTo(at, sess[p], y, h, b)
  <2>1. y \in {"body", "lost", "sse"}
    BY <1>2
  <2>2. PICK m \in Makers : m = sess[p]
    BY <1>1
  <2>3. TakesOldest(m)
    BY <1>3, <1>4, <2>2 DEF TakesOldest
  <2>4. \E h \in Messages, b \in [Messages -> LinkPlaces] : TakenTo(at, m, y, h, b)
    BY <2>1, <2>3, OutgoingMoves
  <2>5. QED
    BY <2>2, <2>4
<1>6. /\ h = Head(outgoing[sess[p]]) /\ at[h] = "outgoing"
      /\ b[h] = y /\ \A q \in Messages : q # h => b[q] = at[q]
      /\ ServerPlaces(b)'
      /\ \A k \in Makers : NoRepeat(outgoing[k])'
  BY <1>5 DEF TakenTo, Moved
<1>7. \A q \in Posts, r \in Messages : Carries(q, r)' <=> Carries(q, r) \/ (q = p /\ r = h /\ y = "body")
  BY <1>1, <1>2, <1>6 DEF BodyArrives, Reply, Carries, LinkParts, LinkTypeOK, PostTypeOK
<1>8. \A q \in Posts, r \in Messages : Loses(q, r)' <=> Loses(q, r) \/ (q = p /\ r = h /\ y = "lost")
  BY <1>1, <1>2, <1>6 DEF BodyArrives, Reply, Messages, Loses, LinkParts, LinkTypeOK, PostTypeOK
<1>9. ClientPlaces(b)'
  <2> SUFFICES ASSUME NEW r \in Messages
               PROVE  /\ b[r] = "body" <=> \E q \in Posts : Carries(q, r)'
                      /\ b[r] = "lost" <=> \E q \in Posts : Loses(q, r)'
                      /\ Contains(sse, r) <=> b[r] = "sse"
                      /\ Contains(cin, r) <=> b[r] = "cin"
                      /\ r \in routed <=> b[r] = "routed"
    BY <1>4 DEF ClientPlaces
  <2>1. /\ at[r] = "body" <=> \E q \in Posts : Carries(q, r)
        /\ at[r] = "lost" <=> \E q \in Posts : Loses(q, r)
        /\ Contains(sse, r) <=> at[r] = "sse"
        /\ Contains(cin, r) <=> at[r] = "cin"
        /\ r \in routed <=> at[r] = "routed"
    BY DEF Placed, ClientPlaces
  <2>2. y \in {"body", "lost"}
    BY <1>2
  <2>3. CASE r = h
    BY <1>6, <1>7, <1>8, <2>1, <2>2, <2>3
  <2>4. CASE r # h
    BY <1>6, <1>7, <1>8, <2>1, <2>4
  <2>5. QED
    BY <2>3, <2>4
<1>10. \A q \in Posts : ~Carries(q, h)
  BY <1>6 DEF Placed, ClientPlaces
<1>11. \A r \in Messages : \A q, s \in Posts : Carries(q, r)' /\ Carries(s, r)' => q = s
  BY <1>7, <1>10 DEF LinkParts, LinkNoRepeat
<1>12. LinkNoRepeat'
  BY <1>4, <1>6, <1>11 DEF LinkParts, LinkNoRepeat
<1>13. QED
  BY <1>6, <1>9, <1>12 DEF LinkPlaced, Placed

\* The event stream takes a message.
LEMMA EventArrivesMoves ==
  ASSUME LinkParts, NEW at, Placed(at), EventArrives
  PROVE  LinkPlaced'
<1> USE PostConstantsAssumption
<1>1. PICK m \in Makers : m = stream
  BY DEF EventArrives, StreamTakes, LinkParts, LinkTypeOK, PostTypeOK
<1>2. /\ outgoing[m] # <<>> /\ outgoing' = [outgoing EXCEPT ![m] = Tail(@)]
      /\ UNCHANGED <<content, sess, ppc, peer, incoming, answering, handling, seen, own, gone, body, cpc, cin, routed>>
      /\ sse' = Append(sse, Head(outgoing[m])) /\ sse \in Seq(Messages) /\ NoRepeat(sse)
  BY <1>1 DEF EventArrives, StreamTakes, serverVars, peerVars, LinkParts, LinkTypeOK, LinkNoRepeat
<1>3. PICK h \in Messages, b \in [Messages -> LinkPlaces] : TakenTo(at, m, "sse", h, b)
  <2>1. TakesOldest(m)
    BY <1>2 DEF TakesOldest
  <2>2. QED
    BY <2>1, OutgoingMoves
<1>4. /\ h = Head(outgoing[m]) /\ at[h] = "outgoing"
      /\ b[h] = "sse" /\ \A q \in Messages : q # h => b[q] = at[q]
      /\ ServerPlaces(b)'
      /\ \A k \in Makers : NoRepeat(outgoing[k])'
  BY <1>3 DEF TakenTo, Moved
<1>5. ~Contains(sse, h)
  BY <1>4 DEF Placed, ClientPlaces
<1>6. NoRepeat(sse') /\ \A x : Contains(sse', x) <=> Contains(sse, x) \/ x = h
  BY <1>2, <1>4, <1>5, AppendedMessage
<1>7. \A q \in Posts, r \in Messages : (Carries(q, r)' <=> Carries(q, r)) /\ (Loses(q, r)' <=> Loses(q, r))
  BY <1>2 DEF Carries, Loses
<1>8. ClientPlaces(b)'
  BY <1>2, <1>4, <1>6, <1>7 DEF Placed, ClientPlaces
<1>9. LinkNoRepeat'
  BY <1>2, <1>4, <1>6, <1>7 DEF LinkParts, LinkNoRepeat
<1>10. QED
  BY <1>4, <1>8, <1>9 DEF LinkPlaced, Placed

\* Steps of the client alone, which move a message among its places.
LEMMA ServerPlacesKept ==
  ASSUME NEW at, NEW b, NEW h \in Messages, ServerPlaces(at), UNCHANGED postVars,
         at[h] \in {"body", "sse", "cin"}, b[h] \in {"cin", "routed"},
         \A q \in Messages : q # h => b[q] = at[q]
  PROVE  ServerPlaces(b)'
<1> SUFFICES ServerPlaces(b)
  BY DEF postVars, serverVars, peerVars, ServerPlaces, OutgoingPlaces, IncomingPlaces, PeerPlaces,
         NotePlaces
<1>1. OutgoingPlaces(b) /\ IncomingPlaces(b)
  BY DEF Messages, ServerPlaces, OutgoingPlaces, IncomingPlaces
<1>2. PeerPlaces(b)
  BY DEF Messages, ServerPlaces, PeerPlaces
<1>3. NotePlaces(b)
  BY DEF Messages, ServerPlaces, NotePlaces
<1>4. QED
  BY <1>1, <1>2, <1>3 DEF ServerPlaces

\* WriteMessage puts a body into the client's channel.
LEMMA BodyPushMoves ==
  ASSUME LinkParts, NEW at, Placed(at), NEW p \in Posts, BodyPush(p)
  PROVE  LinkPlaced'
<1> USE PostConstantsAssumption
<1>1. PICK h : h = body[p]
  OBVIOUS
<1>2. h \in Messages /\ Carries(p, h)
  BY <1>1 DEF BodyPush, Carries, LinkParts, LinkTypeOK, PostTypeOK, PostPhases
<1>3. at \in [Messages -> LinkPlaces] /\ at[h] = "body" /\ ~Contains(cin, h)
  BY <1>2 DEF Placed, ClientPlaces
<1>4. PICK b : b = [at EXCEPT ![h] = "cin"]
  OBVIOUS
<1>5. /\ b \in [Messages -> LinkPlaces] /\ b[h] = "cin"
      /\ \A q \in Messages : q # h => b[q] = at[q]
  BY <1>2, <1>3, <1>4 DEF LinkPlaces
<1>6. UNCHANGED postVars /\ UNCHANGED <<sse, routed>> /\ cin' = Append(cin, h)
  BY <1>1 DEF BodyPush
<1>7. cin \in Seq(Messages) /\ NoRepeat(cin)
  BY DEF LinkParts, LinkTypeOK, LinkNoRepeat
<1>8. NoRepeat(cin') /\ \A x : Contains(cin', x) <=> Contains(cin, x) \/ x = h
  BY <1>2, <1>3, <1>6, <1>7, AppendedMessage
<1>9. \A q \in Posts, r \in Messages : (Carries(q, r)' <=> Carries(q, r) /\ q # p)
                                     /\ (Loses(q, r)' <=> Loses(q, r))
  BY <1>6 DEF BodyPush, postVars, Carries, Loses, LinkParts, LinkTypeOK
<1>10. ServerPlaces(b)'
  BY <1>2, <1>3, <1>5, <1>6, ServerPlacesKept DEF Placed
<1>11. \A q \in Posts, r \in Messages : Carries(q, r) /\ q # p => r # h
  BY <1>2 DEF LinkParts, LinkNoRepeat
<1>12. \A r \in Messages : Carries(p, r) => r = h
  BY <1>1 DEF Carries
<1>13. ClientPlaces(b)'
  <2> SUFFICES ASSUME NEW r \in Messages
               PROVE  /\ b[r] = "body" <=> \E q \in Posts : Carries(q, r)'
                      /\ b[r] = "lost" <=> \E q \in Posts : Loses(q, r)'
                      /\ Contains(sse, r) <=> b[r] = "sse"
                      /\ Contains(cin', r) <=> b[r] = "cin"
                      /\ r \in routed <=> b[r] = "routed"
    BY <1>6 DEF ClientPlaces
  <2>1. /\ at[r] = "body" <=> \E q \in Posts : Carries(q, r)
        /\ at[r] = "lost" <=> \E q \in Posts : Loses(q, r)
        /\ Contains(sse, r) <=> at[r] = "sse"
        /\ Contains(cin, r) <=> at[r] = "cin"
        /\ r \in routed <=> at[r] = "routed"
    BY DEF Placed, ClientPlaces
  <2>2. CASE r = h
    BY <1>3, <1>5, <1>8, <1>9, <1>11, <2>1, <2>2
  <2>3. CASE r # h
    BY <1>5, <1>8, <1>9, <1>12, <2>1, <2>3
  <2>4. QED
    BY <2>2, <2>3
<1>14. LinkNoRepeat'
  BY <1>6, <1>8, <1>9 DEF postVars, LinkParts, LinkNoRepeat
<1>15. QED
  BY <1>5, <1>10, <1>13, <1>14 DEF LinkPlaced, Placed

\* readSSE puts an event into the client's channel.
LEMMA EventPushMoves ==
  ASSUME LinkParts, NEW at, Placed(at), EventPush
  PROVE  LinkPlaced'
<1> USE PostConstantsAssumption
<1>1. /\ sse \in Seq(Messages) /\ sse # <<>> /\ NoRepeat(sse)
      /\ cin \in Seq(Messages) /\ NoRepeat(cin)
  BY DEF EventPush, LinkParts, LinkTypeOK, LinkNoRepeat
<1>2. PICK h : h = Head(sse)
  OBVIOUS
<1>3. /\ h \in Messages /\ Contains(sse, h) /\ NoRepeat(Tail(sse))
      /\ \A x : Contains(Tail(sse), x) <=> Contains(sse, x) /\ x # h
  BY <1>1, <1>2, TakenMessage
<1>4. at \in [Messages -> LinkPlaces] /\ at[h] = "sse" /\ ~Contains(cin, h)
  BY <1>3 DEF Placed, ClientPlaces
<1>5. PICK b : b = [at EXCEPT ![h] = "cin"]
  OBVIOUS
<1>6. /\ b \in [Messages -> LinkPlaces] /\ b[h] = "cin"
      /\ \A q \in Messages : q # h => b[q] = at[q]
  BY <1>3, <1>4, <1>5 DEF LinkPlaces
<1>7. UNCHANGED postVars /\ UNCHANGED <<cpc, routed>> /\ cin' = Append(cin, h) /\ sse' = Tail(sse)
  BY <1>2 DEF EventPush
<1>8. NoRepeat(cin') /\ \A x : Contains(cin', x) <=> Contains(cin, x) \/ x = h
  BY <1>1, <1>3, <1>4, <1>7, AppendedMessage
<1>9. \A q \in Posts, r \in Messages : (Carries(q, r)' <=> Carries(q, r)) /\ (Loses(q, r)' <=> Loses(q, r))
  BY <1>7 DEF postVars, Carries, Loses
<1>10. ServerPlaces(b)'
  BY <1>3, <1>4, <1>6, <1>7, ServerPlacesKept DEF Placed
<1>11. ClientPlaces(b)'
  BY <1>3, <1>4, <1>6, <1>7, <1>8, <1>9 DEF Placed, ClientPlaces
<1>12. LinkNoRepeat'
  BY <1>3, <1>7, <1>8, <1>9 DEF postVars, LinkParts, LinkNoRepeat
<1>13. QED
  BY <1>6, <1>10, <1>11, <1>12 DEF LinkPlaced, Placed

\* The client's Serve loop reads a message.
LEMMA ClientReadMoves ==
  ASSUME LinkParts, NEW at, Placed(at), ClientRead
  PROVE  LinkPlaced'
<1> USE PostConstantsAssumption
<1>1. cin \in Seq(Messages) /\ cin # <<>> /\ NoRepeat(cin)
  BY DEF ClientRead, LinkParts, LinkTypeOK, LinkNoRepeat
<1>2. PICK h : h = Head(cin)
  OBVIOUS
<1>3. /\ h \in Messages /\ Contains(cin, h) /\ NoRepeat(Tail(cin))
      /\ \A x : Contains(Tail(cin), x) <=> Contains(cin, x) /\ x # h
  BY <1>1, <1>2, TakenMessage
<1>4. at \in [Messages -> LinkPlaces] /\ at[h] = "cin"
  BY <1>3 DEF Placed, ClientPlaces
<1>5. PICK b : b = [at EXCEPT ![h] = "routed"]
  OBVIOUS
<1>6. /\ b \in [Messages -> LinkPlaces] /\ b[h] = "routed"
      /\ \A q \in Messages : q # h => b[q] = at[q]
  BY <1>3, <1>4, <1>5 DEF LinkPlaces
<1>7. UNCHANGED postVars /\ UNCHANGED <<cpc, sse>> /\ routed' = routed \cup {h} /\ cin' = Tail(cin)
  BY <1>2 DEF ClientRead
<1>8. \A q \in Posts, r \in Messages : (Carries(q, r)' <=> Carries(q, r)) /\ (Loses(q, r)' <=> Loses(q, r))
  BY <1>7 DEF postVars, Carries, Loses
<1>9. ServerPlaces(b)'
  BY <1>3, <1>4, <1>6, <1>7, ServerPlacesKept DEF Placed
<1>10. ClientPlaces(b)'
  BY <1>3, <1>4, <1>6, <1>7, <1>8 DEF Placed, ClientPlaces
<1>11. LinkNoRepeat'
  BY <1>3, <1>7, <1>8 DEF postVars, LinkParts, LinkNoRepeat
<1>12. QED
  BY <1>6, <1>9, <1>10, <1>11 DEF LinkPlaced, Placed

\* Nothing is in a channel before the first POST.
LEMMA LinkPlacedAtFirst == LinkInit => LinkPlaced
<1> SUFFICES ASSUME LinkInit PROVE LinkPlaced
  OBVIOUS
<1> USE PostConstantsAssumption
<1> DEFINE at == [x \in Messages |-> "unsent"]
<1>1. LinkNoRepeat
  BY EmptyChannel DEF LinkInit, PostInit, LinkNoRepeat, Carries
<1>2. ServerPlaces(at)
  <2>1. \A p \in Messages, m \in Makers : ~Contains(incoming[m], p) /\ ~Contains(outgoing[m], p)
    BY EmptyChannel DEF LinkInit, PostInit
  <2>2. \A p \in Posts : p \in Messages /\ at[p] = "unsent"
    BY DEF Messages
  <2>3. \A n \in Notes : n \in Messages /\ at[n] = "unsent"
    BY DEF Messages
  <2>4. OutgoingPlaces(at)
    BY <2>1 DEF OutgoingPlaces
  <2>5. IncomingPlaces(at)
    BY <2>1, <2>2 DEF IncomingPlaces
  <2>6. PeerPlaces(at)
    BY <2>2 DEF LinkInit, PostInit, PeerPlaces
  <2>7. NotePlaces(at)
    BY <2>3 DEF LinkInit, PostInit, NotePlaces
  <2>8. QED
    BY <2>4, <2>5, <2>6, <2>7 DEF ServerPlaces
<1>3. ClientPlaces(at)
  BY EmptyChannel DEF LinkInit, PostInit, ClientPlaces, Carries, Loses
<1>4. at \in [Messages -> LinkPlaces]
  BY DEF LinkPlaces
<1>5. QED
  BY <1>1, <1>2, <1>3, <1>4 DEF LinkPlaced, Placed

\* Every step leaves each message in one place.
LEMMA LinkPlacedStep == LinkParts /\ LinkPlaced /\ [LinkNext]_linkVars => LinkPlaced'
<1> SUFFICES ASSUME LinkParts, LinkPlaced, [LinkNext]_linkVars PROVE LinkPlaced'
  OBVIOUS
<1>1. PICK at : Placed(at)
  BY DEF LinkPlaced
<1>2. ASSUME NEW p \in Posts, Server(Lookup(p)) \/ Server(Create(p)) \/ Server(Timeout(p))
                              \/ PostAbandoned(p)
      PROVE  LinkPlaced'
  BY <1>1, <1>2, HandlersKeepPlaces DEF Server
<1>3. ASSUME Server(Transport) \/ Server(StreamConnect) \/ Server(StreamEnds)
             \/ ClientEof \/ ClientClose \/ ClientCrash \/ UNCHANGED linkVars
      PROVE  LinkPlaced'
  BY <1>1, <1>3, OthersKeepPlaces DEF Server
<1>4. ASSUME NEW p \in Posts, Server(Push(p)) \/ Server(PeerAnswer(p)) PROVE LinkPlaced'
  BY <1>1, <1>4, PushMoves, PeerAnswerMoves DEF Server
<1>5. ASSUME NEW p \in Posts, BodyArrives(p) \/ BodyPush(p) PROVE LinkPlaced'
  BY <1>1, <1>5, BodyArrivesMoves, BodyPushMoves
<1>6. ASSUME Server(PeerRead) \/ Server(ServeAnswers) PROVE LinkPlaced'
  BY <1>1, <1>6, PeerReadMoves, ServeAnswersMoves DEF Server
<1>7. ASSUME EventArrives \/ EventPush \/ ClientRead PROVE LinkPlaced'
  BY <1>1, <1>7, EventArrivesMoves, EventPushMoves, ClientReadMoves
<1>8. ASSUME NEW n \in Notes, Server(PeerSends(n)) PROVE LinkPlaced'
  BY <1>1, <1>8, PeerSendsMoves DEF Server
<1>9. CASE LinkProgress
  BY <1>2, <1>3, <1>4, <1>5, <1>6, <1>7, <1>9 DEF LinkProgress
<1>10. CASE LinkEvent
  BY <1>2, <1>3, <1>8, <1>10 DEF LinkEvent
<1>11. QED
  BY <1>3, <1>9, <1>10 DEF LinkNext, LinkOver

\* The inductive invariant holds.
LEMMA LinkInvariant == LinkSpec => []LinkInv
<1>1. LinkInit => LinkInv
  BY LinkStarts, LinkPlacedAtFirst DEF LinkInv, LinkPlaced
<1>2. LinkInv /\ [LinkNext]_linkVars => LinkInv'
  BY LinkTypeStep, PhasesStep, LinkPlacedStep DEF LinkInv, LinkParts, LinkPlaced
<1>3. QED
  BY <1>1, <1>2, PTL DEF LinkSpec

\* Every variable of the HTTPS+SSE link keeps its type, and none of the three
\* channels of server and client exceeds its capacity (httpsse.go 53-59,
\* 127, 187, 232-241, 343-353, 424-427).
THEOREM LinkTyping == LinkSpec => []LinkTypeOK
<1>1. LinkInv => LinkTypeOK
  BY DEF LinkInv
<1>2. QED
  BY <1>1, LinkInvariant, PTL

\* No response is lost on its way but to a client that has given up its POST:
\* what AnswerReachesClient promises in the end, AnswersKept keeps possible in
\* every state, whichever POST or event each message leaves the server with; the
\* Serve loop's error answers and what the server's application sends included
\* (httpsse.go 116-203, 286-354, 423-427, peer.go 163-190).
THEOREM AnswersAreKept == LinkSpec => []AnswersKept
<1>1. LinkInv => AnswersKept
  <2> SUFFICES ASSUME LinkInv PROVE AnswersKept
    OBVIOUS
  <2>1. PICK at : Placed(at)
    BY DEF LinkInv
  <2>2. seen \subseteq Posts /\ own \subseteq Notes /\ peer \in Makers \cup {None}
    BY DEF LinkInv, LinkTypeOK, PostTypeOK
  <2>3. ASSUME NEW x \in Messages, at[x] \in ResponsePlaces, peer \in Makers, peer # None
        PROVE  \E y \in ResponsePlaces : Holds(y, x)
    <3>1. CASE at[x] \in {"answering", "handling"}
      <4>1. x \in Posts
        BY <2>1, <3>1 DEF Messages, Placed, ServerPlaces, NotePlaces
      <4>2. Holds(at[x], x)
        BY <2>1, <3>1, <4>1 DEF Placed, ServerPlaces, PeerPlaces, Holds
      <4>3. QED
        BY <2>3, <4>2
    <3>2. CASE at[x] \notin {"answering", "handling"}
      <4>1. Holds(at[x], x)
        BY <2>1, <2>3, <3>2 DEF Placed, ServerPlaces, OutgoingPlaces, ClientPlaces, ResponsePlaces, Holds
      <4>2. QED
        BY <2>3, <4>1
    <3>3. QED
      BY <3>1, <3>2
  <2>4. ASSUME NEW p \in seen, content[p] # "silent"
        PROVE  p \in Messages /\ at[p] \in ResponsePlaces /\ peer \in Makers /\ peer # None
    BY <2>1, <2>2, <2>4 DEF LinkInv, PostPhases, Messages, Placed, ServerPlaces, PeerPlaces,
                            LinkPlaces, ResponsePlaces
  <2>5. ASSUME NEW n \in own
        PROVE  n \in Messages /\ at[n] \in ResponsePlaces /\ peer \in Makers /\ peer # None
    BY <2>1, <2>2 DEF LinkInv, PostPhases, Messages, Placed, ServerPlaces, NotePlaces,
                      LinkPlaces, ResponsePlaces
  <2>6. QED
    BY <2>3, <2>4, <2>5 DEF AnswersKept
<1>2. QED
  BY <1>1, LinkInvariant, PTL

\* Nothing that the Peer writes reaches the client twice, though the bodies of
\* POSTs and the event stream take from one channel and feed one channel, and the
\* client gets no response to a message that its Peer did not read or that is a
\* notification (httpsse.go 116-203, 286-354).
THEOREM AnswersComeOnce == LinkSpec => []AnsweredOnce
<1>1. LinkInv => AnsweredOnce
  <2> SUFFICES ASSUME LinkInv PROVE AnsweredOnce
    OBVIOUS
  <2>1. PICK at : Placed(at)
    BY DEF LinkInv
  <2>2. ASSUME NEW x \in Messages, NEW y \in ResponsePlaces, Holds(y, x)
        PROVE  at[x] = y
    <3>1. CASE y = "outgoing"
      <4>1. peer # None /\ Contains(outgoing[peer], x)
        BY <2>2, <3>1 DEF Holds
      <4>2. peer \in Makers
        BY <4>1 DEF LinkInv, LinkTypeOK, PostTypeOK
      <4>3. QED
        BY <2>1, <3>1, <4>1, <4>2 DEF Placed, ServerPlaces, OutgoingPlaces
    <3>2. CASE y \in {"answering", "handling"}
      <4>1. x \in Posts
        BY <2>2, <3>2, PostConstantsAssumption
        DEF Holds, Messages, LinkInv, LinkTypeOK, PostTypeOK
      <4>2. QED
        BY <2>1, <2>2, <3>2, <4>1 DEF Placed, ServerPlaces, PeerPlaces, Holds
    <3>3. CASE y \notin {"outgoing", "answering", "handling"}
      BY <2>1, <2>2, <3>3 DEF Placed, ClientPlaces, ResponsePlaces, Holds
    <3>4. QED
      BY <3>1, <3>2, <3>3
  <2>3. ASSUME NEW x \in Messages, NEW y \in ResponsePlaces \ {"handling"}, Holds(y, x)
        PROVE  (x \in seen /\ content[x] # "silent") \/ x \in own
    <3>1. at[x] = y
      BY <2>2, <2>3
    <3>2. CASE x \in Posts
      BY <2>1, <3>1, <3>2 DEF Placed, ServerPlaces, PeerPlaces, ResponsePlaces
    <3>3. CASE x \in Notes
      BY <2>1, <3>1, <3>3 DEF Placed, ServerPlaces, NotePlaces, ResponsePlaces
    <3>4. QED
      BY <3>2, <3>3 DEF Messages
  <2>4. QED
    BY <2>2, <2>3 DEF AnsweredOnce, LinkInv
<1>2. QED
  BY <1>1, LinkInvariant, PTL
=============================================================================
