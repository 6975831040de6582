SPECIFICATION Spec
CONSTANTS
    s1 = s1
    f1 = f1
    a1 = a1
    FlowIds = {f1}
    Starts = {s1}
    Actions = {a1}
    Ends = {}
    Cancels = {}
    Drops = {}
    None = None
    ReuseIds = FALSE
    ActionCap = 1
    MaxAsks = 2
    Casts = {{s1, a1}}
INVARIANT
    MatchingAction
