SPECIFICATION FairSpec
CONSTANTS
    Requests = {r1, r2, r3}
    MaxInFlight = 2
    Cost = 2
    MaxTime = 4
INVARIANTS
    WindowBound
PROPERTIES
    RefusedOnlyWhenSpent
    GateReopens
