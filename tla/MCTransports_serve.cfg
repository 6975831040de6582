SPECIFICATION Spec
CONSTANTS
    Kinds = {"channel", "stdio", "ws"}
    InCap = 2
    OutCap = 2
    MaxPush = 3
    MaxWrite = 3
    w1 = w1
    w2 = w2
    Writers = {w1, w2}
    Texts <- MCTexts
    MaxNoise = 1
    Nobody = Nobody
INVARIANTS
    DispatchedAsWritten
PROPERTIES
    EndStopsServe
    AcceptedIsRead
    WrittenIsAccountedFor
