---- MODULE MCProfiles ----
(* The instance of Profiles for TLC. *)
EXTENDS Profiles, TLC
MCKeys == {VCI, VP} \cup Range(ResolveTypes) \cup Range(MlsMethods)
\* The OpenID4x profile is configured for both flow types or one; the rival
\* profile gets in the way of one of the others.
MCListings ==
    {[p \in Profiles |-> CASE p = openid -> OpenID4xKeys(config)
                           [] p = mls -> MlsMethods
                           [] OTHER -> keys] :
        config \in {{VCI}, {VCI, VP}},
        keys \in {<<VP>>, <<VCI, "vctm">>, <<"mls.remove">>}}
Symmetry == Permutations(Requests)
====
