SPECIFICATION MCSpec
CONSTANTS
    Request = {r1, r2, r3, r4}
    User = {u1, u2}
    Bike = {b1, b2}
    Durations <- MCDurations
    Amounts <- MCAmounts
    Balances <- MCBalances
    MaxNow = 2
    MaxFaults = 1
    MaxCrashes = 1
    None = None
SYMMETRY Interchangeable
CHECK_DEADLOCK FALSE
INVARIANTS
    RecordedRidesPaid
    RentedBikeHasSession
    SettledRideIsFree
    RecordsExplainBalance
