\* Three connections under two ids, two events, scheduled fairly.
CONSTANTS
    Streams = {s1, s2, s3}
    SubscriberIds = {a, b}
    Nobody = Nobody
    MaxEvents = 2
SPECIFICATION FairSpec
INVARIANTS
    StreamsAreGapless
    OwnIdMissesNothing
PROPERTY QueuedEventsAreSent
CHECK_DEADLOCK FALSE
