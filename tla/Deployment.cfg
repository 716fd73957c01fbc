\* Two processes over three images, two heroes, two redeployments, one crash,
\* one outage of the database or of another service.
CONSTANTS
    Procs = {p1, p2}
    NoProc = NoProc
    Services = {"database", "oidc"}
    Images = {2, 3, 6}
    MaxRows = 2
    MaxDeploys = 2
    MaxCrashes = 1
    MaxOutages = 1
SPECIFICATION Spec
INVARIANTS
    ServesItsSchema
    SchemaIsWhole
    PowersAreKept
PROPERTIES
    OwnedHeroesStay
    ReadyIsEarned
    AllEndUpServing
CHECK_DEADLOCK FALSE
