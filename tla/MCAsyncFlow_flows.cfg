SPECIFICATION Spec
CONSTANTS
    s1 = s1
    s2 = s2
    f1 = f1
    a1 = a1
    a2 = a2
    e1 = e1
    x1 = x1
    d1 = d1
    FlowIds = {f1}
    Starts = {s1, s2}
    Actions = {a1, a2}
    Ends = {e1}
    Cancels = {x1}
    Drops = {d1}
    None = None
    ReuseIds = TRUE
    ActionCap = 1
    MaxAsks = 1
    Casts = {{s1, a1, a2, e1, d1}, {s1, s2, a1, e1}, {s1, s2, x1, d1}}
INVARIANTS
    TypeOK
    ClosedOnce
    RegisteredWhileLive
    OwnedAfterReply
PROPERTIES
    StoppedFlowExits
    DelivererReleased
