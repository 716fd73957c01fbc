\* A client leaves after the first frame and returns.
CONSTANTS
    Streams = {s1, s2}
    Clients = {c1}
    HeaderClients = {}
    Nobody = Nobody
    MaxEvents = 1
    MaxQueued = 2
    MayExpire = FALSE
SPECIFICATION Spec
INVARIANTS
    NothingIsMissed
CHECK_DEADLOCK FALSE
