SPECIFICATION FairSpec
CONSTANTS
    Environments <- MCEnvironments
    Second <- MCSecond
    MaxTransactionTTL <- MCMaxTransactionTTL
    MaxChallenge <- MCMaxChallenge
    Forgotten = Forgotten
    Connections = {c1, c2}
    Grace <- MCGrace
    Budget <- MCBudget
    HeaderTime <- MCHeaderTime
    ReadTime <- MCReadTime
INVARIANTS
    OpenedIsClosed
    ServedBeforeClose
PROPERTIES
    StartsAsDocumented
    SignalStops
CHECK_DEADLOCK FALSE
