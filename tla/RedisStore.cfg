SPECIFICATION Spec
CONSTANTS
    Callers = {c1, c2}
    Handles = {h1, h2}
    NoHandle = NoHandle
    MaxRetries = 1
    TicksPerMillisecond = 2
    Lifetimes = {3, 4}
    MaxTime = 3
SYMMETRY Symmetry
INVARIANTS
    TTLCoversExpiry
PROPERTIES
    ImplementsPort
    ReplayIsTruthful
