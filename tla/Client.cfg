CONSTANTS
  Used = {"LoginRequest", "ScanUnlockRequest", "EndRideRequest"}
  MaxRequests = 2
  MaxReports = 3
  MaxPending = 2
  SeqRange = 5
  MaxIncidents = 2
SPECIFICATION FairSpec
INVARIANTS
  OnlyEarlyMisanswers
  ReconnectsOnce
  BridgeAgrees
PROPERTIES
  ReportsInOrder
  NoStuckRequest
CHECK_DEADLOCK FALSE
