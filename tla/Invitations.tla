---------------------------- MODULE Invitations ----------------------------
(* Invitations and their nonces (src/pkg/wmp/invitation.go): the in-memory     *)
(* store, whose operations run under one mutex, and ValidateInvitationNonce,   *)
(* which consumes a nonce, looks at the expiry again and verifies the         *)
(* signature without a lock, from the handlers of concurrent                  *)
(* wmp.session.create requests. The verifier's verdict is a free choice.      *)
EXTENDS Naturals

CONSTANTS
    Invs,       \* Invitation values, each handed to Put until it is stored
    Nonces,
    Attempts,   \* the calls of ValidateInvitationNonce
    NoInv,
    MaxClock    \* bound on the clock

ASSUME InvitationConstantsAssumption ==
    /\ NoInv \notin Invs
    /\ NoInv \notin Nonces
    /\ MaxClock \in Nat \ {0}

VARIABLES
    nonce,      \* nonce[i] of an invitation
    expires,    \* its ExpiresAt, 0 for the zero time
    issued,     \* the invitations that Put has stored
    nonces,     \* s.nonces
    apc,        \* where each attempt is
    inv,        \* the invitation that an attempt has consumed
    clock

nonceVars == <<nonce, expires, issued, nonces, apc, inv, clock>>

\* The type invariant: an attempt that goes on has got an invitation.
NonceTypeOK ==
    /\ nonce \in [Invs -> Nonces]
    /\ expires \in [Invs -> 0 .. MaxClock]
    /\ issued \subseteq Invs
    /\ nonces \in [Nonces -> Invs \cup {NoInv}]
    /\ apc \in [Attempts -> {"idle", "check", "verify", "accepted", "refused"}]
    /\ inv \in [Attempts -> Invs \cup {NoInv}]
    /\ clock \in 1 .. MaxClock
    /\ \A a \in Attempts : apc[a] \in {"check", "verify", "accepted"} => inv[a] # NoInv

\* Nonces are random, but nothing keeps an application from choosing its own.
NonceInit ==
    /\ nonce \in [Invs -> Nonces]
    /\ expires \in [Invs -> 0 .. MaxClock]
    /\ issued = {}
    /\ nonces = [n \in Nonces |-> NoInv]
    /\ apc = [a \in Attempts |-> "idle"]
    /\ inv = [a \in Attempts |-> NoInv]
    /\ clock = 1

\* Invitation.IsExpired.
InvExpired(i) == expires[i] # 0 /\ clock > expires[i]

\* A defect: the nonce is stored over one that exists.
PutOver(i) ==
    /\ i \notin issued
    /\ nonces' = [nonces EXCEPT ![nonce[i]] = i]
    /\ issued' = issued \cup {i}
    /\ UNCHANGED <<nonce, expires, apc, inv, clock>>

\* Put; for a nonce that exists it returns an error and changes nothing.
Put(i) ==
    /\ i \notin issued /\ nonces[nonce[i]] = NoInv
    /\ nonces' = [nonces EXCEPT ![nonce[i]] = i]
    /\ issued' = issued \cup {i}
    /\ UNCHANGED <<nonce, expires, apc, inv, clock>>

\* A defect: the invitation is read but not deleted.
ConsumeKeeps(a, n) ==
    /\ apc[a] = "idle" /\ nonces[n] # NoInv /\ ~InvExpired(nonces[n])
    /\ inv' = [inv EXCEPT ![a] = nonces[n]]
    /\ apc' = [apc EXCEPT ![a] = "check"]
    /\ UNCHANGED <<nonce, expires, issued, nonces, clock>>

\* A defect: the result of Consume is used though it found nothing.
ConsumeUnchecked(a, n) ==
    /\ apc[a] = "idle"
    /\ inv' = [inv EXCEPT ![a] = nonces[n]]
    /\ nonces' = [nonces EXCEPT ![n] = NoInv]
    /\ apc' = [apc EXCEPT ![a] = "check"]
    /\ UNCHANGED <<nonce, expires, issued, clock>>

\* store.Consume finds the nonce and removes it.
Consume(a, n) ==
    /\ apc[a] = "idle" /\ nonces[n] # NoInv /\ ~InvExpired(nonces[n])
    /\ inv' = [inv EXCEPT ![a] = nonces[n]]
    /\ nonces' = [nonces EXCEPT ![n] = NoInv]
    /\ apc' = [apc EXCEPT ![a] = "check"]
    /\ UNCHANGED <<nonce, expires, issued, clock>>

\* It does not find it, or finds it expired and removes it; or the nonce given
\* is empty.
ConsumeFails(a, n) ==
    /\ apc[a] = "idle"
    /\ nonces[n] # NoInv => InvExpired(nonces[n])
    /\ nonces' = [nonces EXCEPT ![n] = NoInv]
    /\ apc' = [apc EXCEPT ![a] = "refused"]
    /\ UNCHANGED <<nonce, expires, issued, inv, clock>>

\* The second look at the expiry.
CheckExpiry(a) ==
    /\ apc[a] = "check"
    /\ apc' = [apc EXCEPT ![a] = IF InvExpired(inv[a]) THEN "refused" ELSE "verify"]
    /\ UNCHANGED <<nonce, expires, issued, nonces, inv, clock>>

\* verifier.VerifyInvitation, if there is one: the nonce is gone either way.
Verify(a) ==
    /\ apc[a] = "verify"
    /\ \E verdict \in {"accepted", "refused"} : apc' = [apc EXCEPT ![a] = verdict]
    /\ UNCHANGED <<nonce, expires, issued, nonces, inv, clock>>

NonceCleanup ==
    /\ nonces' = [n \in Nonces |->
                   IF nonces[n] # NoInv /\ InvExpired(nonces[n]) THEN NoInv ELSE nonces[n]]
    /\ UNCHANGED <<nonce, expires, issued, apc, inv, clock>>

NonceTick ==
    /\ clock < MaxClock
    /\ clock' = clock + 1
    /\ UNCHANGED <<nonce, expires, issued, nonces, apc, inv>>

NonceNext ==
    \/ \E i \in Invs : Put(i)
    \/ \E a \in Attempts :
         \/ \E n \in Nonces : Consume(a, n) \/ ConsumeFails(a, n)
         \/ CheckExpiry(a)
         \/ Verify(a)
    \/ NonceCleanup
    \/ NonceTick

NonceSpec == NonceInit /\ [][NonceNext]_nonceVars

-----------------------------------------------------------------------------
(* Properties *)

\* However many requests present the same nonce at the same time, at most one
\* attempt gets the invitation, and whoever has got it finds it gone from the
\* store (invitation.go 202-215, 243).
UsedOnce ==
    \A a \in Attempts : inv[a] # NoInv =>
        /\ \A b \in Attempts : inv[b] = inv[a] => b = a
        /\ \A n \in Nonces : nonces[n] # inv[a]

\* An invitation that was stored stays in the store under its nonce until an
\* attempt gets it or its time is over: neither another Put nor Cleanup takes
\* it away (invitation.go 192-200, 217-228).
NoneVanishes ==
    \A i \in issued :
        \/ nonces[nonce[i]] = i
        \/ \E a \in Attempts : inv[a] = i
        \/ InvExpired(i)
=============================================================================
