-------------------------- MODULE ChannelTransport --------------------------
(* The channel-backed transport (src/pkg/wmp/channel_transport.go): HTTP POST  *)
(* handlers push incoming messages, the Serve loop of a Peer reads them, the   *)
(* Peer writes outgoing messages and an SSE writer consumes them, while        *)
(* anybody may close the transport. A Go select with several ready cases takes *)
(* any of them, and its default only if none is ready.                         *)
(*                                                                           *)
(* Messages are numbered in the order in which they are offered.              *)
EXTENDS Transport, Naturals, Sequences, SequencesExt

CONSTANTS
    InCap, OutCap,  \* the buffer sizes, at least one
    MaxPush,        \* bound on the messages offered to Push
    MaxWrite        \* bound on the messages offered to WriteMessage

ASSUME ChannelConstantsAssumption ==
    /\ InCap \in Nat \ {0} /\ OutCap \in Nat \ {0}
    /\ MaxPush \in Nat /\ MaxWrite \in Nat

VARIABLES
    in, out,        \* the two channels
    closed,         \* is the closed channel closed?
    pushed,         \* how many messages were offered to Push
    accepted,       \* those for which Push returned nil
    written,        \* how many messages were offered to WriteMessage
    dropped,        \* those for which it returned an error
    consumed,       \* the messages taken from Out, in order
    read            \* the messages that ReadMessage returned, in order

channelVars == <<in, out, closed, pushed, accepted, written, dropped, consumed, read>>
inVars == <<in, pushed, accepted, read>>
outVars == <<out, written, dropped, consumed>>

\* No channel exceeds its capacity.
ChannelTypeOK ==
    /\ in \in Seq(1 .. MaxPush) /\ Len(in) <= InCap
    /\ out \in Seq(1 .. MaxWrite) /\ Len(out) <= OutCap
    /\ closed \in BOOLEAN
    /\ pushed \in 0 .. MaxPush
    /\ accepted \in Seq(1 .. MaxPush)
    /\ written \in 0 .. MaxWrite
    /\ dropped \subseteq 1 .. MaxWrite
    /\ consumed \in Seq(1 .. MaxWrite)
    /\ read \in Seq(1 .. MaxPush)

ChannelInit ==
    /\ in = <<>> /\ out = <<>>
    /\ closed = FALSE
    /\ pushed = 0 /\ accepted = <<>>
    /\ written = 0 /\ dropped = {} /\ consumed = <<>>
    /\ read = <<>>

\* Push, case t.in <- data.
PushOk ==
    /\ pushed < MaxPush /\ Len(in) < InCap
    /\ pushed' = pushed + 1
    /\ in' = Append(in, pushed + 1)
    /\ accepted' = Append(accepted, pushed + 1)
    /\ UNCHANGED <<baseVars, closed, outVars, read>>

\* A defect: a full buffer makes Push drop the message and report success.
PushErrSilent ==
    /\ pushed < MaxPush /\ (closed \/ Len(in) = InCap)
    /\ pushed' = pushed + 1
    /\ accepted' = IF closed THEN accepted ELSE Append(accepted, pushed + 1)
    /\ UNCHANGED <<baseVars, closed, outVars, in, read>>

\* Push, case <-t.closed or default (the buffer is full).
PushErr ==
    /\ pushed < MaxPush /\ (closed \/ Len(in) = InCap)
    /\ pushed' = pushed + 1
    /\ UNCHANGED <<baseVars, closed, outVars, in, accepted, read>>

\* ReadMessage, case data := <-t.in.
TakeOk ==
    /\ serve = "reading" /\ in # <<>>
    /\ read' = Append(read, Head(in))
    /\ in' = Tail(in)
    /\ UNCHANGED <<baseVars, closed, outVars, pushed, accepted>>

\* A defect: ReadMessage looks at the context only.
TakeClosedIgnored == FALSE /\ UNCHANGED <<baseVars, channelVars>>

\* ReadMessage, case <-t.closed: Serve returns.
TakeClosed ==
    /\ serve = "reading" /\ closed
    /\ serve' = "stopped"
    /\ UNCHANGED <<kind, ctxDone, channelVars>>

\* ReadMessage, case <-ctx.Done(): Serve returns.
TakeCtx ==
    /\ serve = "reading" /\ ctxDone
    /\ serve' = "stopped"
    /\ UNCHANGED <<kind, ctxDone, channelVars>>

\* A defect: a writer that finds the buffer full replaces its content.
OfferOverwrites ==
    /\ written < MaxWrite
    /\ written' = written + 1
    /\ out' = IF Len(out) < OutCap THEN Append(out, written + 1) ELSE <<written + 1>>
    /\ UNCHANGED <<baseVars, closed, inVars, dropped, consumed>>

\* WriteMessage, case t.out <- data.
OfferOk ==
    /\ written < MaxWrite /\ Len(out) < OutCap
    /\ written' = written + 1
    /\ out' = Append(out, written + 1)
    /\ UNCHANGED <<baseVars, closed, inVars, dropped, consumed>>

\* WriteMessage, case <-t.closed or default: the caller gets an error.
OfferErr ==
    /\ written < MaxWrite /\ (closed \/ Len(out) = OutCap)
    /\ written' = written + 1
    /\ dropped' = dropped \cup {written + 1}
    /\ UNCHANGED <<baseVars, closed, inVars, out, consumed>>

\* The SSE writer ranges over Out.
Consume ==
    /\ out # <<>>
    /\ consumed' = Append(consumed, Head(out))
    /\ out' = Tail(out)
    /\ UNCHANGED <<baseVars, closed, inVars, written, dropped>>

\* Close, once or many times.
CloseChannels ==
    /\ closed' = TRUE
    /\ UNCHANGED <<baseVars, inVars, outVars>>

\* The context given to Serve is cancelled.
ChannelCtxCancel ==
    /\ ~ctxDone /\ ctxDone' = TRUE
    /\ UNCHANGED <<kind, serve, channelVars>>

Take == TakeOk \/ TakeClosed \/ TakeCtx
=============================================================================
