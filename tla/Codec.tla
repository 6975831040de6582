------------------------------- MODULE Codec -------------------------------
(* JSON-RPC messages and their decoding (src/pkg/wmp/jsonrpc.go), and what    *)
(* Serve makes of a document that a transport has read (peer.go 154-203).     *)
(* A message keeps what the code tells apart: the version, the members that   *)
(* are present, and whether one of them is nested deeper than MaxDepth. A     *)
(* document is one such object, an array of them, or neither, with its size   *)
(* and whether more text follows after its end.                              *)
(* Batches with null elements are not among the documents.                    *)
EXTENDS Naturals, Sequences

\* The members of the Message struct. An id is absent, null or a value; a
\* result may be null and is present then, an error that is null is absent.
Message == [v2 : BOOLEAN, id : {"absent", "null", "value"}, method : BOOLEAN,
            result : BOOLEAN, error : BOOLEAN, deep : BOOLEAN]

Document == [large : BOOLEAN, form : {"object", "array", "neither"},
             msgs : Seq(Message), trailing : BOOLEAN]

\* One message as the constructors build it.
Plain == [v2 |-> TRUE, id |-> "absent", method |-> FALSE, result |-> FALSE,
          error |-> FALSE, deep |-> FALSE]
NewRequest == [Plain EXCEPT !.id = "value", !.method = TRUE]
NewNotification == [NewRequest EXCEPT !.id = "absent"]
NewResponse == [Plain EXCEPT !.id = "value", !.result = TRUE]
\* Without an id, the id member is written as null.
NewErrorResponse(id) ==
    [Plain EXCEPT !.id = IF id = "absent" THEN "null" ELSE id, !.error = TRUE]

\* What a message may be built as.
Meanings == {"request", "response", "notification"}
Built == [request |-> {NewRequest}, notification |-> {NewNotification},
          response |-> {NewResponse} \cup
                       {NewErrorResponse(id) : id \in {"absent", "null", "value"}}]

Object(m) == [large |-> FALSE, form |-> "object", msgs |-> <<m>>, trailing |-> FALSE]
Array(ms) == [large |-> FALSE, form |-> "array", msgs |-> ms, trailing |-> FALSE]

IsNotification(m) == m.id \in {"absent", "null"}
IsResponse(m) == m.result \/ m.error
IsRequest(m) == m.method

\* DecodeMessage and DecodeBatch: the checks of one message.
Sound(m) == m.v2 /\ ~m.deep

\* DecodeMessage returns no error.
DecodesMessage(d) ==
    ~d.large /\ d.form = "object" /\ Sound(d.msgs[1]) /\ ~d.trailing

\* DecodeBatch returns the messages of an array, all or none.
DecodesBatch(d) ==
    /\ ~d.large /\ d.form = "array" /\ ~d.trailing
    /\ \A i \in DOMAIN d.msgs : Sound(d.msgs[i])

\* dispatch: a response is routed to its caller, a request gets a goroutine.
DispatchedAs(m) ==
    IF IsResponse(m) THEN "response"
    ELSE IF IsNotification(m) THEN "notification" ELSE "request"

\* A message that is neither a response nor a request is passed over without an
\* answer.
Dispatch(m) == IF IsResponse(m) \/ IsRequest(m) THEN <<DispatchedAs(m)>> ELSE <<>>

\* Joined(parts)[n]: the first n of a sequence of sequences, one after another.
Joined(parts) ==
    LET upTo[n \in 0 .. Len(parts)] == IF n = 0 THEN <<>> ELSE upTo[n - 1] \o parts[n]
    IN  upTo

\* What Serve dispatches for a document, in a loop over its messages. There is
\* nothing in one that it answers with an error that has a null id, because it
\* is too large or does not decode as a batch or as a message.
Dispatches(d) ==
    IF DecodesBatch(d) \/ DecodesMessage(d)
    THEN Joined([i \in 1 .. Len(d.msgs) |-> Dispatch(d.msgs[i])])[Len(d.msgs)]
    ELSE <<>>
Answered(d) == ~DecodesBatch(d) /\ ~DecodesMessage(d)
=============================================================================
