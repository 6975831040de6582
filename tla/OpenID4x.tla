------------------------------ MODULE OpenID4x ------------------------------
(* The OpenID4x profile (src/pkg/wmp/openid4x/openid4x.go 290-507). Its state *)
(* is the table of flow types; the callbacks of its Config are the            *)
(* application's, so whether a start succeeds is a free choice. The operators *)
(* are the profile's methods, which the Peer calls (module Profiles).         *)
EXTENDS Registry

VARIABLE flowTypes      \* the type of a flow id, None if there is no entry

VCI == "oid4vci"
VP == "oid4vp"

OpenID4xTypeOK == flowTypes \in [FlowIds -> {VCI, VP, None}]
OpenID4xInit == flowTypes = [f \in FlowIds |-> None]

ResolveTypes == <<"vctm", "issuer_metadata">>

\* FlowTypes and ResolveTypes, for the configured flow types.
OpenID4xKeys(config) ==
    (IF VCI \in config THEN <<VCI>> ELSE <<>>) \o
    (IF VP \in config THEN <<VP>> ELSE <<>>) \o ResolveTypes

\* validateFlowStartParams. Start parameters are absent, malformed, or an
\* object of which the member names matter.
StartParams ==
    [json : {"absent", "malformed"}, names : {{}}] \cup
    [json : {"object"},
     names : {{}, {"auth_code"}, {"request_uri"}, {"offer", "dcql_query"}}]
RequiredParams ==
    [t \in {VCI, VP} |->
        IF t = VCI THEN {"auth_code", "credential_offer", "credential_offer_uri", "offer"}
        ELSE {"request_uri", "request_uri_ref", "presentation_definition", "dcql_query"}]
ValidStart(t, params) ==
    \/ params.json = "absent"
    \/ params.json = "object" /\ RequiredParams[t] \cap params.names # {}

\* StartFlow, up to the call of OnVCIStart or OnVPStart.
StartFlow(f, t) == flowTypes' = [flowTypes EXCEPT ![f] = t]

\* HandleAction: the callback that gets the action, by the flow's type; None is
\* the answer "accepted" without a callback.
ActionCallback(f) == flowTypes[f]

\* A defect: the flow type is kept.
HandleEndKeeps(f) == UNCHANGED flowTypes

\* HandleComplete and HandleError.
HandleEnd(f) == flowTypes' = [flowTypes EXCEPT ![f] = None]
=============================================================================
