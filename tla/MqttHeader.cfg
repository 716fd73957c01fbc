\* Two clients return with the Last-Event-ID header.
CONSTANTS
    Streams = {s1, s2, s3, s4}
    Clients = {c1, c2}
    HeaderClients = {c1, c2}
    Nobody = Nobody
    MaxEvents = 1
    MaxQueued = 2
    MayExpire = FALSE
SPECIFICATION Spec
PROPERTIES
    SessionsHaveOneClient
CHECK_DEADLOCK FALSE
