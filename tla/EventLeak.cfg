\* A client that leaves after the first frame.
CONSTANTS
    Streams = {s1, s2}
    SubscriberIds = {a}
    Nobody = Nobody
    MaxEvents = 1
SPECIFICATION Spec
INVARIANT NoQueueIsLeftBehind
