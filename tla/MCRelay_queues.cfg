SPECIFICATION Spec
CONSTANTS
    p1 = p1
    p2 = p2
    r1 = r1
    Participants = {p1, p2}
    Registers = {r1}
    MaxQueueSize = 2
    MessageTTL = 2
    RegistrationTTL = 1
    MaxMessages = 4
    MaxTime = 5
INVARIANTS
    RefusedOnlyWhenFull
PROPERTIES
    PurgeInvisible
    ImplementsMailbox
