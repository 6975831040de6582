SPECIFICATION LinkSpec
CONSTANTS
    p1 = p1
    p2 = p2
    Posts = {p1, p2}
    n1 = n1
    Notes = {n1}
    Contents <- MCContents
    App = App
    None = None
    IncomingCap = 1
    OutgoingCap = 1
    ClientCap = 1
    MaxEvents = 3
PROPERTIES
    PostedIsRead
    GoneClientReleased
    AnswerReachesClient
    CloseEndsClient
