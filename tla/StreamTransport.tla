-------------------------- MODULE StreamTransport --------------------------
(* The stream transports: NDJSON over standard I/O (src/pkg/wmp/stdio/stdio.go)*)
(* and WebSocket (src/pkg/wmp/ws/ws.go). One direction of a connection:        *)
(* goroutines of one Peer write, the Serve loop of the other Peer reads.       *)
(* A message goes out in two pieces, since one Write may take several system   *)
(* calls; the mutex of the transport keeps the pieces of a message together.   *)
EXTENDS Transport, Codec

CONSTANTS
    Writers,        \* the goroutines that write, one message each
    Texts,          \* what they write: a document and what it was meant as
    MaxNoise,       \* bound on lines that are not JSON
    Nobody

\* A text holds messages as the constructors build them, each meant as what it
\* was built for ...
AsBuilt(t) ==
    /\ t.doc \in Document /\ ~t.doc.large /\ ~t.doc.trailing
    /\ t.doc.form = "array" \/ (t.doc.form = "object" /\ Len(t.doc.msgs) = 1)
    /\ t.meant \in Seq(Meanings) /\ Len(t.meant) = Len(t.doc.msgs)
    /\ \A i \in 1 .. Len(t.meant) : t.doc.msgs[i] \in Built[t.meant[i]]

\* ... or nothing that could be dispatched: it is too large, more follows after
\* its end, it is no JSON object or array, or one of its messages is not sound.
Unusable(t) ==
    /\ t.doc \in Document /\ (t.doc.form = "object" => Len(t.doc.msgs) = 1)
    /\ t.meant = <<>>
    /\ \/ t.doc.large \/ t.doc.trailing \/ t.doc.form = "neither"
       \/ \E i \in 1 .. Len(t.doc.msgs) : ~Sound(t.doc.msgs[i])

ASSUME StreamConstantsAssumption ==
    /\ \A t \in Texts : AsBuilt(t) \/ Unusable(t)
    /\ MaxNoise \in Nat /\ Nobody \notin Writers

VARIABLES
    checked,    \* stdio: ReadMessage has passed its checks and scans
    mutex,      \* the writer that holds the transport's mutex
    wpc,        \* where a writer is
    text,       \* what it writes
    wire,       \* the pieces on their way: writer and part
    sent,       \* the texts whose last piece was written, in order
    flag,       \* stdio: the closed flags of the writing and the reading end
    cut,        \* ws: the connection is closed; stdio: the input has ended
    noise,      \* how many lines were not JSON
    served,     \* how many documents ReadMessage has taken
    dispatched, \* what it has dispatched, in order
    refused     \* how many documents it has answered with an error

streamVars == <<checked, mutex, wpc, text, wire, sent, flag, cut, noise, served,
                dispatched, refused>>
writeVars == <<mutex, wpc, text, sent>>
readVars == <<checked, served, dispatched, refused>>

Pieces == [by : Writers \cup {Nobody}, part : 1 .. 2]
StreamTypeOK ==
    /\ checked \in BOOLEAN
    /\ mutex \in Writers \cup {Nobody}
    /\ wpc \in [Writers -> {"idle", "first", "rest", "sent", "failed"}]
    /\ text \in [Writers -> Texts \cup {Nobody}]
    /\ wire \in Seq(Pieces)
    /\ sent \in Seq(Texts)
    /\ flag \in [{"writer", "reader"} -> BOOLEAN] /\ cut \in BOOLEAN
    /\ noise \in 0 .. MaxNoise /\ served \in Nat /\ refused \in Nat
    /\ dispatched \in Seq(Meanings)

StreamInit ==
    /\ checked = FALSE /\ mutex = Nobody /\ wpc = [w \in Writers |-> "idle"]
    /\ text = [w \in Writers |-> Nobody]
    /\ wire = <<>> /\ sent = <<>>
    /\ flag = [e \in {"writer", "reader"} |-> FALSE] /\ cut = FALSE
    /\ noise = 0 /\ served = 0 /\ dispatched = <<>> /\ refused = 0

-----------------------------------------------------------------------------
(* WriteMessage *)

\* A defect: the transport is written without its mutex.
WriteLockIgnored(w, t) ==
    /\ wpc[w] = "idle"
    /\ kind = "stdio" => ~flag["writer"]
    /\ text' = [text EXCEPT ![w] = t]
    /\ wpc' = [wpc EXCEPT ![w] = "first"]
    /\ UNCHANGED <<baseVars, readVars, mutex, wire, sent, flag, cut, noise>>

\* The mutex is taken and, over stdio, the transport is found open.
WriteLock(w, t) ==
    /\ wpc[w] = "idle" /\ mutex = Nobody
    /\ kind = "stdio" => ~flag["writer"]
    /\ mutex' = w
    /\ text' = [text EXCEPT ![w] = t]
    /\ wpc' = [wpc EXCEPT ![w] = "first"]
    /\ UNCHANGED <<baseVars, readVars, wire, sent, flag, cut, noise>>

\* Over stdio, a transport that is closed or a context of the writer that is
\* done ends the call under the mutex.
WriteRefused(w) ==
    /\ kind = "stdio" /\ wpc[w] = "idle" /\ mutex = Nobody
    /\ wpc' = [wpc EXCEPT ![w] = "failed"]
    /\ UNCHANGED <<baseVars, readVars, mutex, text, wire, sent, flag, cut, noise>>

\* The first piece reaches the wire.
WriteFirst(w) ==
    /\ wpc[w] = "first" /\ ~cut
    /\ wire' = Append(wire, [by |-> w, part |-> 1])
    /\ wpc' = [wpc EXCEPT ![w] = "rest"]
    /\ UNCHANGED <<baseVars, readVars, mutex, text, sent, flag, cut, noise>>

\* The rest, with the newline or the end of the frame; the mutex is released.
WriteRest(w) ==
    /\ wpc[w] = "rest" /\ ~cut
    /\ wire' = Append(wire, [by |-> w, part |-> 2])
    /\ sent' = Append(sent, text[w])
    /\ wpc' = [wpc EXCEPT ![w] = "sent"]
    /\ mutex' = Nobody
    /\ UNCHANGED <<baseVars, readVars, text, flag, cut, noise>>

\* Write fails on a connection that is gone.
WriteFails(w) ==
    /\ wpc[w] \in {"first", "rest"} /\ cut
    /\ wpc' = [wpc EXCEPT ![w] = "failed"]
    /\ mutex' = Nobody
    /\ UNCHANGED <<baseVars, readVars, text, wire, sent, flag, cut, noise>>

\* stdio: the writing process puts out an empty line or one that is not JSON,
\* between two writes of the transport.
Noise ==
    /\ kind = "stdio" /\ noise < MaxNoise /\ mutex = Nobody /\ ~cut
    /\ noise' = noise + 1
    /\ wire' = Append(wire, [by |-> Nobody, part |-> 2])
    /\ UNCHANGED <<baseVars, readVars, writeVars, flag, cut>>

\* Close over stdio sets a flag, under the mutex.
CloseFlag(end) ==
    /\ kind = "stdio" /\ mutex = Nobody
    /\ flag' = [flag EXCEPT ![end] = TRUE]
    /\ UNCHANGED <<baseVars, readVars, writeVars, wire, cut, noise>>

\* Close of a WebSocket at either end, without the mutex; the end of the input
\* of a stdio transport, whose owner closes it.
Cut ==
    /\ cut' = TRUE
    /\ UNCHANGED <<baseVars, readVars, writeVars, wire, flag, noise>>

-----------------------------------------------------------------------------
(* ReadMessage, and what Serve does with its result *)

Stop ==
    /\ serve' = "stopped"
    /\ UNCHANGED <<kind, ctxDone, readVars, writeVars, wire, flag, cut, noise>>

\* stdio: the checks before the scan. The flag is read without the mutex, so
\* that the read may miss a Close.
ReadCheck ==
    /\ kind = "stdio" /\ serve = "reading" /\ ~checked /\ ~ctxDone
    /\ checked' = TRUE
    /\ UNCHANGED <<baseVars, served, dispatched, refused, writeVars, wire, flag, cut, noise>>

ReadEnded ==
    /\ kind = "stdio" /\ serve = "reading" /\ ~checked
    /\ ctxDone \/ flag["reader"]
    /\ Stop

\* The first line or frame on the wire, empty while none is complete.
Line ==
    LET ends == {i \in DOMAIN wire : wire[i].part = 2}
    IN IF ends = {} THEN <<>>
       ELSE SubSeq(wire, 1, CHOOSE i \in ends : \A j \in ends : i <= j)

\* The line is one message.
Whole(line) ==
    /\ Len(line) = 2 /\ line[1].by = line[2].by /\ line[1].part = 1
    /\ line[1].by # Nobody

CanRead == serve = "reading" /\ (kind = "stdio" => checked) /\ Line # <<>>

\* stdio: the line is no valid JSON since more follows after the document. (A
\* document that is neither object nor array is another JSON value here; lines
\* that are no JSON at all are Noise.)
Skipped(d) == kind = "stdio" /\ d.trailing

\* A whole message: Serve dispatches what is in it, or answers with an error.
\* Over stdio, ReadMessage gets on only if the line is not too long, and goes on
\* to the next one if it is not valid.
ReadOk ==
    /\ CanRead /\ Whole(Line)
    /\ LET d == text[Line[1].by].doc IN
       /\ kind = "stdio" => ~d.large
       /\ served' = served + 1
       /\ dispatched' = dispatched \o Dispatches(d)
       /\ refused' = refused + (IF Answered(d) /\ ~Skipped(d) THEN 1 ELSE 0)
       /\ checked' = Skipped(d)
    /\ wire' = SubSeq(wire, Len(Line) + 1, Len(wire))
    /\ UNCHANGED <<baseVars, writeVars, flag, cut, noise>>

\* stdio: a line above the maximum length ends the scan, and Serve.
ReadTooLong ==
    /\ CanRead /\ Whole(Line) /\ kind = "stdio"
    /\ text[Line[1].by].doc.large
    /\ Stop

\* stdio: a line that is not JSON is skipped, inside ReadMessage.
ReadSkip ==
    /\ CanRead /\ ~Whole(Line) /\ kind = "stdio"
    /\ wire' = SubSeq(wire, Len(Line) + 1, Len(wire))
    /\ UNCHANGED <<baseVars, readVars, writeVars, flag, cut, noise>>

\* The connection or the input has ended, with nothing complete left to read;
\* what a WebSocket has not delivered when it is closed may be lost. The scanner
\* also gives out a last line without a newline: the first piece of a document,
\* which is not valid JSON and is skipped.
ReadEof ==
    /\ serve = "reading" /\ cut
    /\ kind = "stdio" => checked /\ Line = <<>>
    /\ Stop

\* The context given to Serve is cancelled; a scan or a frame that is awaited
\* does not notice.
StreamCtxCancel ==
    /\ ~ctxDone /\ ctxDone' = TRUE
    /\ UNCHANGED <<kind, serve, streamVars>>

Read == ReadCheck \/ ReadEnded \/ ReadOk \/ ReadTooLong \/ ReadSkip \/ ReadEof

-----------------------------------------------------------------------------
(* Properties *)

\* What the documents that ReadMessage has taken were meant as.
Meant == Joined([i \in 1 .. Len(sent) |-> sent[i].meant])[served]

\* Serve dispatches what was written: each message as what it was built for,
\* whole, once and in the order in which the writers got the mutex, whatever
\* the writers, noise and unusable documents around it (jsonrpc.go 139-232,
\* stdio.go 63-117, ws.go 105-118).
DispatchedAsWritten == served <= Len(sent) /\ dispatched = Meant
=============================================================================
