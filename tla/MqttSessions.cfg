\* One subscriber over two connections, three events and a queue of two, scheduled fairly.
CONSTANTS
    Streams = {s1, s2}
    Clients = {c1}
    HeaderClients = {}
    Nobody = Nobody
    MaxEvents = 3
    MaxQueued = 2
    MayExpire = TRUE
SPECIFICATION FairSpec
INVARIANTS
    OwedEventsAreKept
    FramesAreInOrder
PROPERTY QueuedEventsArrive
CHECK_DEADLOCK FALSE
