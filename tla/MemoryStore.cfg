SPECIFICATION Spec
CONSTANTS
    Callers = {c1, c2}
    Handles = {h1, h2, h3}
    NoHandle = NoHandle
    MaxEntries = 2
    MaxTTL = 2
    MaxTime = 3
SYMMETRY Symmetry
PROPERTIES
    ImplementsPort
    ReplayIsTruthful
