SPECIFICATION Spec
CONSTANTS
    c1 = c1
    c2 = c2
    i1 = i1
    i2 = i2
    r1 = r1
    r2 = r2
    Calls = {c1, c2}
    Ids = {i1, i2}
    Routers = {r1, r2}
    NoId = NoId
    Stray = Stray
    None = None
    FreshIds = TRUE
INVARIANTS
    TypeOK
    OwnResponse
    ServeNeverBlocks
    WaiterReachable
    NoLeak
PROPERTIES
    AnsweredCallReturns
    ImplementsPromise
