\* A client leaves after the first frame.
CONSTANTS
    Streams = {s1}
    Clients = {c1}
    HeaderClients = {}
    Nobody = Nobody
    MaxEvents = 1
    MaxQueued = 2
    MayExpire = FALSE
SPECIFICATION FairSpec
PROPERTIES
    GoneAreDisconnected
CHECK_DEADLOCK FALSE
