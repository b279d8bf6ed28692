SPECIFICATION Spec
CONSTANTS
    Budget = 12
    ClientTimeout = 10
INVARIANTS OutageIsReported OneOutageIsAnswered RefusedMeansNotAccepted
CHECK_DEADLOCK FALSE
