SPECIFICATION Spec
CONSTANTS
    r1 = r1
    r2 = r2
    r3 = r3
    r4 = r4
    k1 = k1
    k2 = k2
    Requests = {r1, r2, r3, r4}
    Notifications = {r3, r4}
    SyncRequests = {r2, r4}
    Creates = {r1, r2, r4}
    SessionIds = {k1, k2}
    None = None
    TTL = 1
    MaxTime = 3
    Casts = {{r1, r2, r3}, {r1, r4}, {r2, r4}}
INVARIANTS
    SessionBeforeReply
    RejectedNotStored
    NotificationSilent
PROPERTIES
    RequestAnswered
