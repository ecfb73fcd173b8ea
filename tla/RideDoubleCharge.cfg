SPECIFICATION MCSpec
CONSTANTS
    Request = {r1, r2, r3}
    User = {u1}
    Bike = {b1}
    Durations <- OneDuration
    Amounts <- MCAmounts
    Balances <- MCRich
    MaxNow = 1
    MaxFaults = 0
    MaxCrashes = 0
    None = None
SYMMETRY Interchangeable
CHECK_DEADLOCK FALSE
INVARIANT RideChargedOnce
