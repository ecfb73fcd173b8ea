SPECIFICATION Spec
CONSTANTS
    MaxConns = 2
    MaxHalves = 2
    MaxRecv = 2
    Backlog = 1
    Worker = {w1, w2}
    FailLimit = 1
    MaxSqFails = 0
    RingMode = TRUE
    NoBatch = NoBatch
CHECK_DEADLOCK FALSE
SYMMETRY WorkerSymmetry
INVARIANTS
    BatchOwnsConn
