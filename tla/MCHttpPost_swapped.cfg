SPECIFICATION PostSpec
CONSTANTS
    p1 = p1
    p2 = p2
    Posts = {p1, p2}
    Notes = {}
    Contents <- MCContents
    App = App
    None = None
    IncomingCap = 1
    OutgoingCap = 1
INVARIANT OwnBody
