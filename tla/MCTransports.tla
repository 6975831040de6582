---- MODULE MCTransports ----
(* The instance of Transports for TLC. *)
EXTENDS Transports
Text(d, meant) == [doc |-> d, meant |-> meant]
\* Messages as the constructors build them, a batch of them, a batch with a
\* message of another version, a message with more text after it, and one that is
\* too large.
MCTexts == {
    Text(Object(NewRequest), <<"request">>),
    Text(Object(NewErrorResponse("absent")), <<"response">>),
    Text(Array(<<NewResponse, NewNotification>>), <<"response", "notification">>),
    Text(Array(<<NewRequest, [NewRequest EXCEPT !.v2 = FALSE]>>), <<>>),
    Text([Object(NewNotification) EXCEPT !.trailing = TRUE], <<>>),
    Text([Object(NewRequest) EXCEPT !.large = TRUE], <<>>) }
====
