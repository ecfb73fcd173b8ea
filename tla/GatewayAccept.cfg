SPECIFICATION FairSpec
CONSTANTS
    MaxConns = 1
    MaxHalves = 0
    MaxRecv = 1
    Backlog = 1
    Worker = {w1}
    FailLimit = 2
    MaxSqFails = 0
    RingMode = FALSE
    NoBatch = NoBatch
CHECK_DEADLOCK FALSE
PROPERTY AcceptComesBack
