SPECIFICATION FairSpec
CONSTANTS
    MaxConns = 1
    MaxHalves = 4
    MaxRecv = 3
    Backlog = 2
    Worker = {w1, w2}
    FailLimit = 2
    MaxSqFails = 2
    RingMode = FALSE
    NoBatch = NoBatch
CHECK_DEADLOCK FALSE
INVARIANTS
    OpsAccounted
    StreamConserved
    RepliesInOrder
PROPERTIES
    TransientEnds
    StopEnds
