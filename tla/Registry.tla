------------------------------ MODULE Registry ------------------------------
(* Registration of profiles with a Peer (src/pkg/wmp/registry.go,             *)
(* peer.go 60-67, 99-122) and the table of flow owners. A profile lists the   *)
(* flow types, methods and resolve types it serves, in this order; register   *)
(* stops at the first key that is taken, with what it has entered so far left *)
(* in place. Use is called before Serve, so the three maps do not change once *)
(* requests come in.                                                          *)
EXTENDS Naturals, Sequences, SequencesExt

CONSTANTS
    Profiles, Keys,
    Listings,       \* the functions from Profiles to the keys each one lists
    FlowIds, None

ASSUME RegistryConstantsAssumption ==
    /\ None \notin Profiles \cup FlowIds
    /\ Listings \subseteq [Profiles -> Seq(Keys)]

VARIABLES
    claims,     \* claims[p]: the keys that profile p lists
    handlers,   \* flowHandlers, methods and resolvers: the profile of a key
    hooks,      \* the profiles that got as far as sessionHooks and idResolvers
    inited,     \* the profiles whose Init has been called
    used,       \* what Use returned: "no" (not called), "ok" or "failed"
    flowOwners  \* the FlowHandler of a flow id

registryVars == <<claims, handlers, hooks, inited, used>>

RegistryTypeOK ==
    /\ claims \in Listings
    /\ handlers \in [Keys -> Profiles \cup {None}]
    /\ hooks \subseteq Profiles
    /\ inited \subseteq hooks
    /\ used \in [Profiles -> {"no", "ok", "failed"}]
    /\ flowOwners \in [FlowIds -> Profiles \cup {None}]

RegistryInit ==
    /\ claims \in Listings
    /\ handlers = [k \in Keys |-> None]
    /\ hooks = {}
    /\ inited = {}
    /\ used = [p \in Profiles |-> "no"]
    /\ flowOwners = [f \in FlowIds |-> None]

\* The places in p's list at which register meets a taken key.
Conflicts(p) == {i \in DOMAIN claims[p] :
    \/ handlers[claims[p][i]] # None
    \/ \E j \in 1 .. i - 1 : claims[p][j] = claims[p][i]}

\* How many keys of p's list register enters.
Entering(p) ==
    IF Conflicts(p) = {} THEN Len(claims[p])
    ELSE (CHOOSE i \in Conflicts(p) : \A j \in Conflicts(p) : i <= j) - 1

Entered(p) ==
    [k \in Keys |-> IF \E i \in 1 .. Entering(p) : claims[p][i] = k THEN p ELSE handlers[k]]

\* A defect: a key that is taken is overwritten.
UseOverwrites(p, initOk) ==
    /\ used[p] = "no"
    /\ handlers' = [k \in Keys |-> IF k \in Range(claims[p]) THEN p ELSE handlers[k]]
    /\ hooks' = hooks \cup {p}
    /\ inited' = inited \cup {p}
    /\ used' = [used EXCEPT ![p] = IF initOk THEN "ok" ELSE "failed"]
    /\ UNCHANGED <<claims, flowOwners>>

\* Use: register enters the keys of p. After a conflict it returns before it
\* gets to the hooks, and Init, which may fail too, is not called; WithProfile
\* logs the error and goes on.
Use(p, initOk) ==
    /\ used[p] = "no"
    /\ handlers' = Entered(p)
    /\ hooks' = IF Conflicts(p) = {} THEN hooks \cup {p} ELSE hooks
    /\ inited' = IF Conflicts(p) = {} THEN inited \cup {p} ELSE inited
    /\ used' = [used EXCEPT ![p] =
                   IF Conflicts(p) = {} /\ initOk THEN "ok" ELSE "failed"]
    /\ UNCHANGED <<claims, flowOwners>>

\* Peer.Serve is called once all profiles are registered, successfully or not.
Serving == \A p \in Profiles : used[p] # "no"

\* trackFlow and untrackFlow.
trackFlow(f, p) == flowOwners' = [flowOwners EXCEPT ![f] = p]
untrackFlow(f) == flowOwners' = [flowOwners EXCEPT ![f] = None]

-----------------------------------------------------------------------------
(* Properties *)

\* A profile that Use has accepted serves every key it lists, whatever other
\* profiles are registered, or fail to be, before and after it.
AcceptedServesItsClaims ==
    \A p \in Profiles : used[p] = "ok" => \A k \in Range(claims[p]) : handlers[k] = p
=============================================================================
