SPECIFICATION Spec
CONSTANTS
    c1 = c1
    c2 = c2
    c3 = c3
    Conns = {c1, c2, c3}
    None = None
    OutCap = 1
    MaxEvents = 3
    MaxMsgs = 4
INVARIANTS
    EventsInOrder
    NoGap
PROPERTIES
    CatchesUp
