SPECIFICATION Spec
CONSTANTS
    Requests = {r1, r2, r3}
    Handles = {h1, h2, h3}
    NoHandle = NoHandle
    MaxPending = 1
    TTL = 1
    MaxTime = 2
SYMMETRY Symmetry
INVARIANTS
    QuotaBound
    LiveTransactionsBounded
    NoDeadSlots
PROPERTIES
    RefusedOnlyWhenFull
