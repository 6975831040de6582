----------------------------- MODULE Transports -----------------------------
(* The transports of this repository behind the wmp.Transport interface: the  *)
(* Serve loop of a Peer reads a channel transport, standard I/O or a          *)
(* WebSocket. The HTTPS+SSE transport has modules of its own.                 *)
EXTENDS ChannelTransport, StreamTransport, FiniteSets

vars == <<baseVars, channelVars, streamVars>>

TypeOK == TransportTypeOK /\ ChannelTypeOK /\ StreamTypeOK

Init == TransportInit /\ ChannelInit /\ StreamInit

Channel(A) == kind = "channel" /\ A /\ UNCHANGED streamVars
Stream(A) == kind # "channel" /\ A /\ UNCHANGED channelVars

Next ==
    \/ Channel(PushOk) \/ Channel(PushErr) \/ Channel(OfferOk) \/ Channel(OfferErr)
    \/ Channel(TakeOk) \/ Channel(TakeClosed) \/ Channel(TakeCtx) \/ Channel(Consume)
    \/ Channel(CloseChannels) \/ Channel(ChannelCtxCancel)
    \/ \E w \in Writers :
        \/ \E t \in Texts : Stream(WriteLock(w, t))
        \/ Stream(WriteRefused(w)) \/ Stream(WriteFirst(w)) \/ Stream(WriteRest(w))
        \/ Stream(WriteFails(w))
    \/ Stream(ReadCheck) \/ Stream(ReadEnded) \/ Stream(ReadOk) \/ Stream(ReadTooLong)
    \/ Stream(ReadSkip) \/ Stream(ReadEof) \/ Stream(Noise) \/ Stream(Cut)
    \/ Stream(StreamCtxCancel) \/ \E end \in {"writer", "reader"} : Stream(CloseFlag(end))

\* The Serve loop runs when it can read, and the SSE writer consumes.
Fairness ==
    WF_vars(Channel(Take)) /\ WF_vars(Channel(Consume)) /\ WF_vars(Stream(Read))

Spec == Init /\ [][Next]_vars /\ Fairness

-----------------------------------------------------------------------------
(* Properties *)

\* What ends the input ends Serve: Close of a channel transport, though
\* messages may still be read and even be pushed after it (channel_transport.go
\* 53-62, 78-83), a WebSocket that either side closes (ws.go 105-111, 128), and
\* the end of standard input (stdio.go 75-96).
EndStopsServe ==
    (IF kind = "channel" THEN closed ELSE cut) ~> (serve = "stopped")

\* Every message that Push has accepted, or that a stream transport has
\* written, is read, unless the Serve loop stops before it gets there
\* (channel_transport.go 35-44, 53-62; stdio.go 63-96).
AcceptedIsRead ==
    /\ \A n \in 1 .. MaxPush :
        Contains(accepted, n) ~> (Contains(read, n) \/ serve = "stopped")
    /\ \A n \in 1 .. Cardinality(Writers) :
        Len(sent) >= n ~> (served >= n \/ serve = "stopped")

\* Every message offered to WriteMessage reaches Out, or its writer is told
\* that it does not (channel_transport.go 65-75).
WrittenIsAccountedFor ==
    \A n \in 1 .. MaxWrite : (written >= n) ~> (Contains(consumed, n) \/ n \in dropped)
=============================================================================
