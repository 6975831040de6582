------------------------------- MODULE Relay -------------------------------
(* The relay (src/pkg/wmp/relay/relay.go): registrations with a lifetime and  *)
(* a bounded queue of messages, each with a lifetime, per participant. All    *)
(* operations but one run under r.mu with the time read inside the lock;      *)
(* HandleMethod reads the time before it locks, so registrations of one       *)
(* participant may be stored in another order than they were stamped.         *)
(*                                                                          *)
(* Messages are numbered in the order in which they are accepted.            *)
EXTENDS Naturals, Sequences, Expiry

CONSTANTS
    Participants,
    Registers,      \* the wmp.relay.register requests
    MaxQueueSize,
    MessageTTL,
    RegistrationTTL,
    MaxMessages,    \* bound on the accepted messages
    MaxTime         \* bound on the clock

ASSUME RelayConstantsAssumption ==
    /\ MaxQueueSize \in Nat \ {0}
    /\ MessageTTL \in Nat \ {0}
    /\ RegistrationTTL \in Nat \ {0}
    /\ MaxMessages \in Nat
    /\ MaxTime \in Nat \ {0}

VARIABLES
    registrations,  \* registrations[p]: ExpiresAt, 0 without a registration
    queues,         \* queues[p]: the queued messages [num, exp]
    accepted,       \* how many messages Enqueue has accepted
    refused,        \* the queue and the time at the last refusal by Enqueue
    drained,        \* drained[p]: the messages that Drain has returned
    stamped,        \* the participant and the time a register request has read
    now

vars == <<registrations, queues, accepted, refused, drained, stamped, now>>

Times == 1 .. MaxTime
Messages == [num : 1 .. MaxMessages, exp : Nat]
Unstamped == <<>>

\* The type invariant: no queue exceeds MaxQueueSize.
TypeOK ==
    /\ registrations \in [Participants -> Nat]
    /\ queues \in [Participants -> Seq(Messages)]
    /\ accepted \in 0 .. MaxMessages
    /\ refused \in {<<>>} \cup (Seq(Messages) \X Times)
    /\ drained \in [Participants -> Seq(Messages)]
    /\ stamped \in [Registers -> {Unstamped, <<"replied">>} \cup (Participants \X Times)]
    /\ now \in Times
    /\ \A p \in Participants : Len(queues[p]) <= MaxQueueSize

Init ==
    /\ registrations = [p \in Participants |-> 0]
    /\ queues = [p \in Participants |-> <<>>]
    /\ accepted = 0
    /\ refused = <<>>
    /\ drained = [p \in Participants |-> <<>>]
    /\ stamped = [r \in Registers |-> Unstamped]
    /\ now = 1

\* The messages of a queue that are still alive.
Unexpired(queue) == Alive(queue, now)

\* IsRegistered.
IsRegistered(p) == now < registrations[p]

\* HandleMethod, first part: the time is read.
Stamp(r) ==
    /\ stamped[r] = Unstamped
    /\ \E p \in Participants : stamped' = [stamped EXCEPT ![r] = <<p, now>>]
    /\ UNCHANGED <<registrations, queues, accepted, refused, drained, now>>

\* HandleMethod, second part: the registration is stored under the lock, over
\* an earlier or a later one, and answered.
Store(r) ==
    /\ Len(stamped[r]) = 2
    /\ registrations' = [registrations EXCEPT ![stamped[r][1]] =
                           stamped[r][2] + RegistrationTTL]
    /\ stamped' = [stamped EXCEPT ![r] = <<"replied">>]
    /\ UNCHANGED <<queues, accepted, refused, drained, now>>

\* A defect: the bound is tested against the queue with its expired messages.
EnqueueUnpurged(p) ==
    /\ accepted < MaxMessages
    /\ IF Len(queues[p]) >= MaxQueueSize
         THEN refused' = <<queues[p], now>> /\ UNCHANGED <<queues, accepted>>
         ELSE /\ queues' = [queues EXCEPT ![p] =
                   Append(Unexpired(@), [num |-> accepted + 1, exp |-> now + MessageTTL])]
              /\ accepted' = accepted + 1
              /\ UNCHANGED refused
    /\ UNCHANGED <<registrations, drained, stamped, now>>

\* Enqueue: expired messages are purged, then a full queue refuses the message.
Enqueue(p) ==
    LET queue == Unexpired(queues[p])
        msg == [num |-> accepted + 1, exp |-> now + MessageTTL] IN
    /\ accepted < MaxMessages
    /\ IF Len(queue) >= MaxQueueSize
         THEN /\ queues' = [queues EXCEPT ![p] = queue]
              /\ refused' = <<queue, now>>
              /\ UNCHANGED accepted
         ELSE /\ queues' = [queues EXCEPT ![p] = Append(queue, msg)]
              /\ accepted' = accepted + 1
              /\ UNCHANGED refused
    /\ UNCHANGED <<registrations, drained, stamped, now>>

\* A defect: what has been drained stays queued.
DrainKeeps(p) ==
    /\ queues[p] # <<>>
    /\ drained' = [drained EXCEPT ![p] = @ \o Unexpired(queues[p])]
    /\ UNCHANGED <<registrations, queues, accepted, refused, stamped, now>>

\* Drain.
Drain(p) ==
    /\ queues[p] # <<>>
    /\ drained' = [drained EXCEPT ![p] = @ \o Unexpired(queues[p])]
    /\ queues' = [queues EXCEPT ![p] = <<>>]
    /\ UNCHANGED <<registrations, accepted, refused, stamped, now>>

\* Unregister: the queue stays.
Unregister(p) ==
    /\ registrations[p] # 0
    /\ registrations' = [registrations EXCEPT ![p] = 0]
    /\ UNCHANGED <<queues, accepted, refused, drained, stamped, now>>

\* A defect: the queue of a participant goes with its expired registration.
PurgeWithQueue ==
    /\ registrations' = [p \in Participants |->
                           IF now > registrations[p] THEN 0 ELSE registrations[p]]
    /\ queues' = [p \in Participants |->
                    IF now > registrations[p] THEN <<>> ELSE Unexpired(queues[p])]
    /\ UNCHANGED <<accepted, refused, drained, stamped, now>>

\* PurgeExpired: now.After(ExpiresAt) for registrations.
PurgeExpired ==
    /\ registrations' = [p \in Participants |->
                           IF now > registrations[p] THEN 0 ELSE registrations[p]]
    /\ queues' = [p \in Participants |-> Unexpired(queues[p])]
    /\ UNCHANGED <<accepted, refused, drained, stamped, now>>

Tick ==
    /\ now < MaxTime
    /\ now' = now + 1
    /\ UNCHANGED <<registrations, queues, accepted, refused, drained, stamped>>

Next ==
    \/ \E r \in Registers : Stamp(r) \/ Store(r)
    \/ \E p \in Participants : Enqueue(p) \/ Drain(p) \/ Unregister(p)
    \/ PurgeExpired
    \/ Tick

Spec == Init /\ [][Next]_vars

-----------------------------------------------------------------------------
(* Properties *)

\* Enqueue refuses a message only for MaxQueueSize messages that Drain would
\* still deliver: expired ones take no room (relay.go 152-165).
RefusedOnlyWhenFull ==
    refused # <<>> => Len(Alive(refused[1], refused[2])) = MaxQueueSize

\* PurgeExpired is not observable by what the relay serves: it changes neither
\* who is registered nor what Drain would return (relay.go 213-240 against 141
\* and 186-193). QueueLength (199), a getter that counts expired messages too,
\* is not modelled and would tell the difference.
PurgeInvisible ==
    [][PurgeExpired =>
          \A p \in Participants :
              /\ IsRegistered(p)' = IsRegistered(p)
              /\ Unexpired(queues[p])' = Unexpired(queues[p])]_vars

Box == INSTANCE Mailbox WITH
    Capacity <- MaxQueueSize,
    Lifetime <- MessageTTL,
    box <- [p \in Participants |-> Unexpired(queues[p])],
    taken <- drained,
    clock <- now

\* The queues, with their lazy purging, implement a bounded FIFO mailbox whose
\* messages are delivered at most once, in order, and not lost before their
\* time, however operations, purges and the clock interleave.
ImplementsMailbox == Box!Spec
=============================================================================
