CONSTANTS
  Dispatchers = {d1, d2}
  InUse = 2
  PeerTimeout = 3
  MaxFaults = 1
SPECIFICATION FairSpec
INVARIANTS
  DispatchViewCurrent
  WrongVerdictNeedsStall
PROPERTIES
  RecoversGivenChance
CHECK_DEADLOCK FALSE
