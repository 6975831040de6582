# A TLA+ verification of go-wmp

go-wmp (`src/pkg/wmp`) is a Go library for the Wallet Messaging Protocol: JSON-RPC 2.0
between two peers over exchangeable transports, with sessions, asynchronous flows, profiles,
a store-and-forward relay and invitations. This directory holds TLA+ modules translated
from that code, TLC configurations that check them on small instances, and proofs that
TLAPS checks for every value of the constants. `PROJECT.json` maps each definition to
source lines and lists runs, mutants, hazards, findings and theorems.

## 1. Inventory

| part | state | operations | what makes it correct |
|---|---|---|---|
| Peer, outgoing (`peer.go`) | `pending`: id -> response channel of capacity 1 | `Call`, `CallWithID`, `Notify`, `handleResponse` in `Serve` and `HandleRequestSync` | a call returns its own answer, once; nobody who routes answers blocks; nothing stays in the map |
| Peer, incoming (`peer.go`, `context.go`) | none but the goroutines | `handleRequest`, `HandleRequestSync`, `dispatchMethod`: authorizer, validator, context, middleware, handler, session hooks, answer | each request is answered, no notification is; an announced session is in the store |
| Session store (`session.go`) | id -> `Session` | `Create`, `Get`, `Update`, `Delete`, `List`, `Cleanup` | expired sessions are not found; live ones are not lost |
| Asynchronous flows (`flowcontext.go`) | `flows`: id -> `FlowContext` with `actionCh` (10), `doneCh`, a context | start, action, complete/error, cancel, `CancelFlow`, `RequestAction`, `WaitForAction`, `Complete` | a running flow can be reached and stopped; `doneCh` is closed once; an action answers its request |
| Profile registry (`registry.go`, `profile.go`) | key -> profile maps, `flowOwners`, hooks | `register`, lookups, `trackFlow`, `untrackFlow`, `runSessionHooks` | an accepted profile serves what it lists; a flow is served by who started it and forgotten when it ends |
| OpenID4x profile (`openid4x/openid4x.go`) | `flowTypes`: flow id -> type | `StartFlow` with validation, `HandleAction`, `HandleComplete`, `HandleError`, `HandleResolve` | an action goes to the callback of the flow's type; the table agrees with `flowOwners` |
| MLS profile, no-op handler (`mls/mls.go`, `mls/noop.go`) | groups with members and an epoch | create, join, add, remove, update, fetch | the groups are what the answers said |
| Relay (`relay/relay.go`) | registrations and bounded queues with expiry | register, `Enqueue`, `Drain`, `PurgeExpired` | bounded FIFO mailboxes that lose a message only to its expiry |
| HTTPS+SSE server (`httpsse/httpsse.go`) | sessions with `incoming`/`outgoing` (64 each), 200 buffered events | POST and GET handlers, replay, `Transport`, `ServerTransport` | a posted message is read, its response answers it; a client that reconnects misses nothing |
| HTTPS+SSE client | `lastEventID`, the reader, `incoming` (64), `closed` | `ConnectSSE`, `readSSE`, `ReadMessage`, `WriteMessage`, `Close` | events are taken once and in order; each response reaches its caller; `Close` ends `Serve` |
| Channel transport (`channel_transport.go`) | two buffered channels, `closed` | `Push`, `ReadMessage`, `WriteMessage`, `Out`, `Close` | accepted messages are read while open; loss is reported |
| Invitations (`invitation.go`) | nonce -> invitation | `Put`, `Consume`, `Cleanup`, `ValidateInvitationNonce` | an invitation is used at most once |
| Stdio (`stdio/stdio.go`), WebSocket (`ws/ws.go`) | a stream, a write mutex, stdio's `closed` flag | `ReadMessage`, `WriteMessage`, `Close` | messages of concurrent writers stay whole and in order; the end of the input ends `Serve` |
| JSON-RPC codec (`jsonrpc.go`) | none | constructors, `DecodeMessage`, `DecodeBatch`, kinds of messages | a message is taken for what it was built as; a batch is taken whole or not at all |
| Schema, discovery, evidence, methods and types | none | loading, HTTP, declarations | see section 8 |

How they interact. `Serve` reads a transport and starts a goroutine for every request;
responses it routes itself through `pending`. `HandleRequestSync` does the same work in an
HTTP handler's goroutine. `dispatchMethodInternal` gives flow methods to the profile that the registry
names, and session creation to the application's handler, after which the session hooks of
the profiles run and the peer writes the session store. Flow goroutines call back into the
peer (`Notify`) while handlers deliver actions and ends to them over channels.

What is hard here: everything above runs in many goroutines; ids tie messages together
that may be late, repeated or missing; locks are released between a lookup and its use
(flows, HTTP sessions, responses); Go's `select` takes any ready case; buffers are bounded
and some block while others drop; time passes between a stamp and a store. Section 4 and the
`hazards` list in `PROJECT.json` tie each of these to properties.

## 2. Modules and the code

Each critical section under a mutex, each channel operation and each call of application or
transport code is one step; what the code does between two of them is part of the step.
Application decisions (authorizer, validator, handlers, hooks, verifiers, flow functions)
are free choices. Each `X` with runs has an `MCX`, their module, whose configurations give
the constants model values; `Profiles`, `Transports` and `HttpLink` compose the modules below them.
Operators marked "A defect" are plausible bugs that the mutants substitute for the operator
after them; no specification uses them.

**`PeerCalls`** (with `CallPromise`): `pc`, `reqId`, `got`, `result` are the local state of
each goroutine in `Call`; `pending` and `ch` are the map and the channels; `serve`, `sresp`,
`sto` the local state of each goroutine that runs `handleResponse`: the `Serve` loop and any number of
`HandleRequestSync`. A response carries the id of the request it answers; a router may
read at any time an answer to any request that has left, any number of times, or one with
a null id. `FreshIds` tells `Call` (random ids) from `CallWithID`, whose doc asks only for
uniqueness within the pending set. `CallPromise` is what a caller may rely on: its own answer, or
an error once its context is done or its request could not be sent; `ImplementsPromise` maps `PeerCalls` to it.

**`AsyncFlow`**: a start names its handler (`spc`), its FlowContext and its flow goroutine
(`run`); `flows` and `owners` are the two maps; `queue` and `closes` are `actionCh` and
`doneCh`. Handlers for actions, ends, cancels and application calls of `CancelFlow` go
through lookup, routing by owner, delivery, removal, signal and untracking step by step. With `ReuseIds` a client may start
a flow under an id that another flow, running or on its way out, has or had.

**`PeerRequests`**: each message goes through the stages of the two pipelines with every
early return; `store` is the session store with expiry and `Cleanup`. A handler of
`wmp.session.create` may keep its sessions in the store that the application gave to the peer (as
the example in the repository's README does; `kept` records it) or leave that to the peer. Other
methods may delete the session they are about. The messages of a batch are not told apart from single ones.

**`Relay`** (with `Mailbox`): all operations with their purges; registration is two steps since the time
is read before the lock. `Mailbox` is the abstract queue, without purging: accept,
drop, take in order. Hidden purging shows as removal of expired messages only. `Expiry` is the loop over a queue that
both use, a recursive function; `MCRelay` compares it with `SelectSeq` on all queues up to length 4.

**`SseStream`**: one session's GET handlers (`hpc`, `hdr`, `hid`), the shared event buffer, the wires
and a client that reconnects with the last id it has, while handlers of broken connections
may still run. `orphaned` collects the events that such a handler takes after the new
connection's replay. The module leaves out that POST handlers take from the same channel, which `HttpPost`
has. The client connects anew only after its reader has ended, and reads `lastEventID` then.

**`HttpPost`**: POST handlers of one session id (`ppc`, `sess`): lookup under the read lock,
creation under the write lock, push, wait; `ServerHandler.Transport` at any time. A POST carries one message (`content`): a
request, one that gets no answer, or one that is too large or does not decode. The Peer behind `ServerTransport` reads, and
`outgoing` takes all that it writes: the responses, in any order; the Serve loop's own error answers, during which it does not read
(`answering`); and the notifications and calls of the server's application (`Notes`, `own`). From `outgoing` the waiting POST
handlers take, and a GET handler (`stream`) while one is connected, each the oldest message whatever it is.
**`HttpLink`** extends it by the client: each POST is a `WriteMessage` (`cpc`) whose body goes to the client's
`incoming` (`cin`), as do the events that the stream took from the server's `outgoing`; the client's `Serve` loop reads and routes
them; `Close` may come at any time, and a send on the closed channel ends the process (`ClientCrash`).

**`Transports`** composes the transports behind the `wmp.Transport` interface; `kind` is the one the Peer was given.
`Transport` is what they share, the Serve loop. **`ChannelTransport`** has both channels, `Close` and the context; every
`select` is the set of its ready cases, with `default` only when none is. **`StreamTransport`** is stdio and WebSocket, one
direction: writers hold the mutex over the two pieces in which a message goes out, the wire carries pieces of different
writers and lines that are not JSON, and the reader assembles lines; over stdio it skips a document with trailing data like
any other line that is not JSON, over a WebSocket the decoder refuses it. The first piece of a message whose writer never
comes to the second is no JSON and is not delivered. **`Codec`** has messages as records of what the code looks at (version,
id, method, result, error, depth) and documents (an object, an array, neither; size, trailing data), the constructors, the
two decoders and the dispatch of `Serve`. The texts that `StreamTransport` writes hold either messages as the constructors
build them, each with its meaning, or nothing that the decoders accept; it reads them back through the decoders, and
`Joined` puts what the messages of a text, and the texts one after another, come to in a row.

**`Registry`**: `Use`: `register` enters a profile's keys kind by kind and
stops at the first conflict, then `Init` runs; the table of flow owners. **`OpenID4x`** extends it by
that profile's methods, **`NoopMLS`** has those of the MLS profile with its no-op handler, and **`Profiles`** composes
them with a rival profile of the application: registration in any order, then concurrent requests, each the goroutine of
one handler in `dispatchMethodInternal`, with a step for each critical section. `alone` records for an end or a
cancel that no start of the same flow id has run since its lookup.

**`PeerPair`**: two Peers over links of bounded capacity, calls in both directions, handlers that call back, Serve loops
that answer bad messages themselves. Its links may be full but never fail: write errors, and a response that
`ChannelTransport` drops, are in `PeerCalls`, `PeerRequests` and `ChannelTransport` and not here. `PeerCalls` and
`PeerRequests` show its single steps in detail; this module is about who waits for whom.

**`Invitations`**: the nonce store and concurrent calls of `ValidateInvitationNonce`.

## 3. Runs that pass

States are distinct states found. Deadlock is checked in every run; the only final states
are those where all modelled calls, handlers or messages are finished, and these stutter.

| run | instance | states | what it shows |
|---|---|---|---|
| `PeerCalls_calls` | 2 calls, 2 ids, 2 routers | 61k | `OwnResponse`, `ServeNeverBlocks`, `WaiterReachable`, `NoLeak`; answered calls return; `CallPromise` is implemented, by which cancelled calls return |
| `AsyncFlow_flows` | 2 flows under one id, 2 actions for a queue of 1, an end, a cancel, a `CancelFlow`, in three casts | 157k | `ClosedOnce`, `RegisteredWhileLive`, `OwnedAfterReply`; a stopped flow exits; a blocked deliverer is released |
| `PeerRequests_requests` | 3 creates (two synchronous, one of these a notification), 1 other notification, in three casts; 2 session ids, 3 instants | 504k | `SessionBeforeReply`, `RejectedNotStored`, `NotificationSilent`, `RequestAnswered` |
| `PeerPair_calls` | a call each way, each handler may call back, links of 1, one bad message | 36k | `CallReturns`, `OkMeansHandled` |
| `Profiles_requests` | 3 profiles with 6 choices of keys, 4 requests, 1 flow id, 2 groups | 249k | `AcceptedServesItsClaims`, `StartedFlowIsServed`, `EndedFlowForgotten`, `OneGroupAsAnswered` |
| `Relay_queues` | 2 participants, 4 messages, queues of 2, 5 instants | 869k | `RefusedOnlyWhenFull`, `PurgeInvisible`, `ImplementsMailbox` |
| `SseStream_events` | 3 connections, 4 messages, buffer of 3 | 400k | `EventsInOrder`, `NoGap`, `CatchesUp` |
| `HttpLink_posts` | 2 POSTs (a request; a notification or a bad body), 1 message of the server's own, an event stream, channels of 1 | 159k | `PostedIsRead`, `GoneClientReleased`, `AnswerReachesClient`, `CloseEndsClient` |
| `Transports_serve` | channel: 3 pushes, 3 writes, buffers of 2; stdio, ws: 2 writers, 6 documents, 1 line of noise | 104k | `DispatchedAsWritten`, `EndStopsServe`, `AcceptedIsRead`, `WrittenIsAccountedFor` |
| `Invitations_nonces` | 3 invitations, 2 nonces, 3 attempts, 3 instants | 64k | `UsedOnce`, `NoneVanishes` |

The runs of `PeerCalls` and `AsyncFlow` also check `TypeOK`, that of `Invitations` `NonceTypeOK`, which say more than types: channel
capacities and that no nil value is used. Each property has a mutant in `PROJECT.json` under which TLC refutes it.

Some properties have exceptions that are limits of the code, stated in the property:

- `RegisteredWhileLive`: the deferred delete of an earlier flow with the same id, on its way out, takes out the entry (section 4).
- `NotificationSilent`: a notification that `HandleRequestSync` refuses gets an error (section 4).
- `RejectedNotStored`: sessions that the handler stored itself.
- `NoGap`, `CatchesUp`: orphaned and evicted events, and those before the first event received.
- `PostedIsRead`, `GoneClientReleased`: they are about the session that the Peer serves, for a handler that waits for room in a
  replaced one (`Stranded`) stays there for good; and `Jammed`, where the Serve loop's own error answer waits for room that
  nobody makes (section 4).
- `AnswerReachesClient`: a message that the server sent of its own accord took the place of the response in the answer to a POST,
  and no event stream from the Peer's session is connected (section 4). With a stream, or without such messages, every response
  arrives. Together with `CloseEndsClient` it also excepts a client that gives up a POST, closes or crashes.
- `EndedFlowForgotten`: ids that are started again meanwhile; a cancel leaves the profile's entry.
- `OneGroupAsAnswered`: it is about a handler with one group, and the success of `GroupJoin`, which enters nobody
  (`mls/noop.go:76`), is not an answer that it counts.
- `PurgeInvisible`: registrations and what `Drain` returns; `QueueLength` (`relay.go:199`) would show a purge.
- `NoneVanishes`: an attempt whose verification fails uses its invitation up.
- `AcceptedIsRead`, `DispatchedAsWritten`: they end where a stdio line above the limit stops `Serve`.

## 4. Where the code departs from its comments

Runs that TLC refutes, each quoting the sentence in `findings`:

| run | refuted | because |
|---|---|---|
| `AsyncFlow_staleAction` | `MatchingAction`: `RequestAction` waits for a matching action | an action that came after a timeout is taken for the next request's |
| `HttpPost_swapped` | `OwnBody`: a POST gets the response to its request | all handlers of a session receive from one `outgoing` |

Further behaviours of the code that the models contain and that a reader of its comments
would not expect. TLC finds the first two when a constant of a passing run is changed, and the next four, which happen in the
passing runs, when the exception is taken out of the property that names it:

- `CallWithID` asks for ids that are unique within the pending set (`peer.go:537`). With `FreshIds = FALSE` and
  one id TLC refutes `OwnResponse` (a late answer to a cancelled call is returned by the next call with the
  id) and `WaiterReachable` (the `delete(p.pending, id)` of a cancelled call removes a newer call's entry).
- With `MaxBad = 2` TLC refutes `CallReturns` in `PeerPair`: while a Serve loop writes its own error answer it does not read
  (`peer.go:170`, `187`), so over links that are full and writes that ignore their context both loops may wait for each other.
- The deferred delete of a flow that has ended (`flowcontext.go:204`) is done by id and removes a newer flow with its id from
  the map; the newer flow runs on and no action, end or `CancelFlow` reaches it (`RegisteredWhileLive`).
- "Notifications (no ID) are processed but return nil bytes." (`peer.go:585`): the authorizer and validator branches of
  `HandleRequestSync` answer without looking at `IsNotification` (`peer.go:610-624`), unlike those of `handleRequest`. The
  synchronous notification of `PeerRequests_requests` is answered with an error there, and `NotificationSilent` asks for silence
  on every other way.
- The answers of the Serve loop to bad messages go to the session's `outgoing`, and `ServerTransport.WriteMessage` waits for room
  whatever its context (`httpsse.go:424`). If no POST waits and no event stream is connected the loop stays there and reads nothing
  more: what is in `incoming` stays there (`PostedIsRead`), and a POST that waits for room in it gets none, though its client may
  have gone. The latter, the exception of `GoneClientReleased`, takes three POSTs and four events; TLC reaches it on that instance.
- A POST handler takes the oldest message of `outgoing` (`httpsse.go:348`), which may be a notification or a call of the server's
  application (`httpsse.go:423-427`). The response to its request is then left over, and if every POST has its answer it stays there
  until an event stream or a later POST takes it (`AnswerReachesClient`).
- A `CallWithID` with an empty id is written as a notification (`jsonrpc.go:95`) and is never answered.
- The flow goroutine starts before `trackFlow` (`peer.go:412`): an answer to its first request may go to the base
  handler. Flows that end by themselves stay in `flowOwners` (`registry.go:22`). `FlowContext.Complete` marks nothing
  as done (`flowcontext.go:89`).
- The `Session` that the peer builds overwrites the one that a handler put into the same store, and its lifetime
  with it (`peer.go:329`).
- The relay reads the time of a registration before it locks (`relay.go:126`): of two overlapping registrations the
  earlier may be stored last and cut the other short.
- An event stream that breaks before its first event has no id to be replayed from (`httpsse.go:259`).
- Two first POSTs may create a session twice (`httpsse.go:337`); what the replaced one holds is never read.
- `ChannelTransport.Push` may succeed after `Close` (`channel_transport.go:39`), and what `WriteMessage`
  drops for a full buffer is kept nowhere for the replay that its comment expects (line 72).
- A profile whose registration meets a conflict keeps the keys it got before (`registry.go:45`) and serves them without
  its `Init` ever being called.
- "Find any group the sender belongs to." (`mls/noop.go:88`): the loop takes the first group of the map, whoever is in it;
  with two groups `GroupAdd` and `GroupRemove` change either.
- A flow that is cancelled, or whose start fails after validation, keeps its entry in the OpenID4x profile's `flowTypes`
  (`openid4x.go:335`).
- Serve "blocks until the context is cancelled or the transport is closed." (`peer.go:153`): over a WebSocket `ReadMessage`
  ignores the context (`ws.go:105`), over stdio it looks only between two messages; `Close` of stdio sets a flag that a blocked scan
  does not see.
- A line above the limit ends `Serve` over stdio (`stdio.go:91`); the other transports let `Serve` answer and go on.
- A batch of one bad and several good messages is answered with a single parse error; an empty batch is not answered.
- The client's `Close` (`httpsse.go:198`) closes the channel that `readSSE` and `WriteMessage` send to.

## 5. Bounds

Calls, flows, handlers, requests, connections, POSTs, invitations and attempts are finite
sets, each used once: a finished one matters to the code only through the maps and channels,
which are state. Two are what the races here need (an old and a new owner, two
routers, two writers); three add one that comes in between. `Casts` (`AsyncFlow`, `PeerRequests`) names the sets of them that may
come together: in `AsyncFlow_flows` one flow with both actions, the end and `CancelFlow`, and two flows under one id with an action
and the end or with the cancel and `CancelFlow`; in `PeerRequests_requests` all but the synchronous notification, or this with
one create. The safety properties are proved for any casts and any number. `MaxAsks`, `MaxTime`, `MaxClock`, `MaxMessages`, `MaxMsgs`,
`MaxPush`, `MaxWrite` bound counters in guards; they exceed the capacity or lifetime they are played
against, so that channels fill up, buffers evict, messages expire and time still goes on.
Capacities (10, 64, 200 in the code) are constants of 1 to 3. Symmetry is used only in
`Invitations_nonces` and `Profiles_requests`, which have invariants only. Four requests in `Profiles_requests` are a start, an
end, and two that come in between; one flow id suffices since flows share nothing else. In `HttpLink_posts`
each channel of one is filled by two POSTs, or by one and a message of the server's own; `MaxEvents` bounds these messages, the POSTs
that are given up and `Close`, taken together. `MaxNoise` and `MaxBad` bound what others put on the wire; two pieces
per message stand for any number, as one other writer in between is what could go wrong.

## 6. Fairness

Weak fairness, per goroutine unless said otherwise, never on the environment: nobody has to call, answer,
connect, cancel, post or push.

- `PeerCalls`: a call takes its next step if it can; a router that holds a response goes on.
  This is the Go scheduler, with one assumption: that a transport's `WriteMessage` returns.
  It may not for `httpsse.ServerTransport`, which ignores its context and waits for room in `outgoing`
  (`httpsse.go:424`).
- `AsyncFlow`: flow goroutines and handlers go on, and the flow function is assumed to return in the
  end; that a wait times out is not assumed.
- `PeerRequests`: the goroutine of each message goes on; application code returns; writes end.
- `SseStream`: handlers and the client's reader go on; the Peer need not write.
- `PeerPair`, `HttpLink`: one condition for all: while some goroutine can go on, one does. Since every message is sent and every
  handler runs once, nobody can be overtaken for ever and more is not needed. Handlers return; nobody has to call, call
  back, post, connect an event stream, give up or close. `HttpPost` alone states no fairness.
- `Transports`: the `Serve` loop reads and the SSE writer consumes; writers may stop between two pieces.
- `CallPromise` asks that an expired call finishes, and nothing else.

## 7. Proofs

TLAPS checks eight modules, for every value of the constants and of the bounds; no assumption is made beyond the named
`ASSUME`s of the constants (that the marks for absence are not members of the sets, that bounds and capacities are
numbers, that handlers, profiles or messages of different kinds are different, that a call made by a handler goes back to the
caller, that a text holds what the constructors build or nothing that the decoders accept) and what a theorem states.

**`PeerCallsProofs`.** `CoreInv` holds under either id discipline: `TypeOK`; `IdInv` (an entry is stored under the id
of the call that owns it); `OwnerInv` (only a call that is sending or waiting is in the map); and `TokenInv`: the
right to send to a call's channel exists at most once, as the map entry, as the lookup in one router's hands, or spent
as the message in the channel. Without `TokenInv` neither "no router blocks" nor "the channel has room" is inductive:
deletion under the lock is what makes the right unique. From it come `Typing`, `ServeIsNeverBlocked`,
`PendingNeverLeaks`. `FreshInv` adds what holds if ids are never reused (`FreshIds`): ids are unique (`UniqueInv`),
messages on the way belong to the channel's call (`AnswerInv`), a waiting call can still be reached (`ReachInv`), an
end by the context has a done context (`CtxInv`). It gives `ResponsesMatch`, `WaitersReachable` and `PromiseKept`:
every step of `PeerCalls` is a step of `CallPromise` or leaves its variables alone.

**`AsyncFlowProofs`.** `FlowInv`: `TypeOK`, `StartInv` (how far a start is against its goroutine), `HandlerInv` (what
a handler holds at each stage), `EntryInv` (an entry is a FlowContext of that id whose goroutine has not done its
deferred delete), `ClosedOnce`. It gives `FlowTyping`, `DoneClosedOnce` and `EntriesAreAlive`.
`RegInv` adds `LiveInv` (a live flow is in the map, or somebody who has taken it out is about to stop it, or an earlier flow with
its id has run its deferred delete) and `OwnedAfterReply`, and gives `LiveFlowsRegistered` and `FlowsOwnedAfterReply`. All hold
with reused ids too. `EndInv` (a flow
goroutine is gone only with `doneCh` closed) gives `DeliverersAreReleased`: an action handler that
finds `actionCh` full and `doneCh` open waits for a flow goroutine that has an action to take or is on its way to close
`doneCh`. It is what `DelivererReleased` needs in every state.

**`SessionProofs`** is about `PeerRequests` and `Invitations`. `RequestInv`: `TypeOK`, `MakerInv` (a session id belongs to
the one message whose handler made it), `OutcomeInv` (there is no outcome before the dispatch is over, and the answer
comes last), `EntryInv` (what is in the store is a handler's own or of a creation that succeeded, and leaves it by
deletion or expiry only). `SessionBeforeReply` is not inductive alone: a success is announced steps after it was
stored, and it is `EntryInv` that holds in between; `RejectedNotStored` needs `MakerInv`, since another message with
the same id would bring the session back. It gives `RequestTyping`, `StoredBeforeReply`, `RejectedStaysOut`,
`NotificationsSilent` and, as an action property, `AnswersAreFinal`. `AnswerInv` (what is about to be answered has an
outcome) gives `RequestsAreAnswered`: no branch of the two pipelines ends a request without an answer, or with
another answer than the outcome of its own dispatch, unless the write fails. `NonceInv` is `NonceTypeOK`, `StoreInv`
(what is stored was issued and lies under its own nonce), `UsedOnce`, `NoneVanishes`, and gives `NonceTyping`,
`NonceUsedOnce`, `NonceNeverVanishes`.

**`PeerPairProofs`.** `PairInv`: `TypeOK`, `RequestInv` (a request is on a link at most once, after it was written and
before it is handled), `ResponseInv` (a response on a link is of a handler that is over), `HandlerInv` (a handler with
calls of its own under way waits for them). The calls may be nested to any depth. It gives `PairTyping`,
`OkWasHandled` and, as an action property, `HandlersRunOnce`.

`NobodyWaitsForEver` is the absence of deadlock: while anything is under way (`UnderWay`), the guard of some step of a
caller, a handler or a Serve loop holds (`CanGoOn`). `CanGoOn` states the guards of `Progress`, the action that is fair
in `PeerPair`, as the prover has no ENABLED; TLC confirms on the instance of `PeerPair_calls` that the two are the same. The
argument takes `PairInv` and `WaitsInv`: `ReadableInv` (Serve knows what to do with every message on a link), `WaitInv` (a
call that waits has its request or its response on a link, or its handler under way), `BadInv` (one Serve loop at most
is writing an answer of its own) and `Numbered` (a call that a handler makes started after the call it handles). A loop that
answers over a full link leaves the other one something to read, so that if no Serve loop can go on both links are empty; then
everybody who waits waits for a handler, and the handler of the call that started last has nobody to wait for. `Numbered`
replaces an assumption on the nesting of calls: it need not be finite or well-founded beforehand. The hypothesis
`MaxBad <= 1` is needed: with two messages that the Serve loops answer themselves TLC finds the state in which
both loops wait for room (section 4).

**`ProfilesProofs`.** `Inv` is `FlowsInv` (registry, flow owners and the OpenID4x table) with `MlsInv` (the no-op
handler); each part leaves the variables of the other alone. `RegistryInv` says that an accepted profile serves its
keys, kept by later registrations as they stop at the first key that is taken (found by the least-number principle);
`ServingInv`, `StageInv`, `StartedInv` and `EndedInv` say what a request at each stage knows of the two tables, which
the code changes under different locks. `GroupInv` ties the only group to the list of answers: a member is in if the
last answer that names it let it in. It gives `ProfilesTyping`, `AcceptedServes`, `StartedServed`, `EndedForgotten`,
`OneGroup`.

**`RelayProofs`.** Here the state is simple and the data is not: every operation filters a queue. The lemmas about
`Kept` and `Alive` are proved by an induction over the prefixes of the queue (`PrefixInduction`: a set with 0 that is
closed under successor up to L has all of 0..L, by its least missing number), since the library's induction theorems
cannot be used. They say that the filter keeps only members, that it distributes over `Append` (`AliveAppend`) and
that filtering at t and then at a later u is filtering at u (`AliveLater`). The last is why purges, wherever they
happen, cannot be seen from outside: it gives `PurgeUnseen` and, step by step, `RelayImplementsMailbox`. That
refinement is complete, as `Mailbox` states no fairness. `RefusedWhenFull` and `RelayTyping` (queues are bounded) come
from `TypeOK`.

**`SseStreamProofs`.** `Inv`: `TypeOK` (every message is in the channel, held by one handler or numbered), `BufferInv`
(the buffer is the last events without a gap, so that the replay begins right after the id it is asked for), `ConnInv`
(only the client's connection carries events, and until its replay the client has received nothing more than it told
the handler), `OrderInv` (what is on the wire grows and is newer than what was received) and `GapInv` (between any two
neighbours of received, wire, the event being written and the newest one, only orphaned events are missing). It gives
`SseTyping`, `ReceivedInOrder` and `OnlyOrphansMissing`.

**`TransportsProofs`** is about `Transports` and `HttpLink`. `StreamInv` is `LockInv` (a writer between its two pieces holds
the mutex), `PiecesInv` (the two pieces of a message are neighbours on the wire), `SentInv` (the messages on the wire are
those sent and not yet served, in order) and `DispatchedAsWritten`. The last is about data as well: `JoinedSteps`,
`JoinedPrefix` and the lemmas after them say what the recursive function `Joined` computes, by an induction over prefixes
like that of `RelayProofs`, and `DecodedAsBuilt` that the decoders and `dispatch` take every text for what the constructors
built it as. It gives `WrittenIsDispatched`, for any number of writers, messages, batches and lines of noise. `ChannelInv`
gives `ChannelsKeepOrder`: what `Push` accepted is what was read followed by what is in the channel, and what `WriteMessage`
was given comes out in order, without gaps but for the drops that it reported. `TransportsTyping` is the type invariant with
the capacities.

`LinkInv` is about HTTPS+SSE: `LinkTypeOK`, `PostPhases` (how far a POST handler, the Peer and `WriteMessage` are,
together), `LinkNoRepeat` (no channel holds a message twice) and `\E at : Placed(at)`: every message, and then its response
or error answer, is in exactly one place, on its way from the POST over the two channels of the server, a body or the event
stream to the client's Serve loop; and so is every message that the server's application sends. `Placed` is taken apart by
where the message is (`OutgoingPlaces`, `IncomingPlaces`, `PeerPlaces`, `NotePlaces`), as each step touches one or two of
them. None of these can be kept without the others: that an append does not repeat a message follows from its being
elsewhere before, and that a step moves a message out of a channel from its being there once. It gives `LinkTyping`,
`AnswersAreKept` (a request that was read is answered or will be, a bad body likewise, and neither these answers nor the
server's own messages are lost but in the answer to a POST that was given up; what `AnswerReachesClient` needs in every
state) and `AnswersComeOnce` (nothing that the Peer writes is routed twice, whichever POST or event carries it).

Only model-checked:

- all liveness, and the fairness part of `ImplementsPromise`: the prover has neither ENABLED nor fairness;
- `OwnBody` and `MatchingAction`, which the code violates (section 4).

Every invariant that a passing run checks is also proved. Of the liveness properties, `DelivererReleased`, `CallReturns`,
`RequestAnswered` and `AnswerReachesClient` have a theorem about their safety core: `DeliverersAreReleased`,
`NobodyWaitsForEver`, `RequestsAreAnswered` and `AnswersAreKept`.

## 8. Not modelled

- Schema validator: it loads embedded schemas for a third-party library; its verdict is a free choice in `PeerRequests`.
- Discovery: HTTP requests and string handling without state of its own.
- Methods, types, errors, evidence, default handlers: declarations, constructors and checks of single values.
- `NoopMLSProvider` (`mls/noop.go`), which nothing in the repository calls, and `ValidateAction` (`openid4x.go:472`), likewise.
- Setting up connections: `Dial`, `Upgrade`, URLs and headers.
- Bytes: sizes, depths and JSON syntax are abstracted to whether a limit or a rule is broken. Batches with null elements are
  not among the documents of `Codec`.
- Batches in a POST (`HttpPost` has one message in each), and write errors in `PeerPair`.
- Of the modelled parts: `QueueLength` of the relay (`relay.go:199`), middleware order, identifier resolvers,
  `OnSessionClose` (`profile.go:138`), which has no caller, and the session store's `Update`, `List`, `GetByMetadata`.

## 9. Plan

Done, in this order: `PeerCalls` with its promise and proofs; `AsyncFlow` with proofs; `PeerRequests`; `Relay` with
`Mailbox`; `SseStream`, `HttpPost`; `Invitations` with proofs; `Profiles` from `Registry`, `OpenID4x` and `NoopMLS`;
`Transports` from `ChannelTransport`, `StreamTransport` and `Codec`; `HttpLink`; `PeerPair`.

Proved after that: `PeerRequests`, `PeerPair`, `Profiles`, `Relay` with the refinement of `Mailbox`, `SseStream`; then
`Transports` with `DispatchedAsWritten`, `HttpLink`, and the safety cores of four liveness properties.

Left, if the project is carried on:

1. Null elements in batches among the documents of `Codec`, and `NoopMLSProvider` should anything come to call it.
2. Safety cores of the remaining liveness properties (`CatchesUp` of `SseStream`, `EndStopsServe` of `Transports`).
3. An abstract specification of a message link that `ChannelTransport`, `StreamTransport` and `HttpLink` implement.
