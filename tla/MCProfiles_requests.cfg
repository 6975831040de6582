SPECIFICATION Spec
CONSTANTS
    openid = openid
    mls = mls
    rival = rival
    Profiles = {openid, mls, rival}
    Keys <- MCKeys
    Listings <- MCListings
    FlowIds = {f1}
    None = None
    GroupIds = {g1, g2, none}
    NoGroupId = none
    g1 = g1
    g2 = g2
    none = none
    f1 = f1
    m1 = m1
    r1 = r1
    r2 = r2
    r3 = r3
    r4 = r4
    Members = {m1}
    Requests = {r1, r2, r3, r4}
SYMMETRY Symmetry
INVARIANTS
    AcceptedServesItsClaims
    StartedFlowIsServed
    EndedFlowForgotten
    OneGroupAsAnswered
