CONSTANTS
  Request = {r1, r2, r3}
  NoRequest = NoRequest
  c1 = c1
  Conn <- MCConn
  ConnOf <- MCConnOf
  Rings = 1
  ReqSlots = 2
  RspSlots = 1
  MaxBatch = 2
  SpinTries = 1
  BizThreads = 2

SPECIFICATION Spec
SYMMETRY RequestSymmetry

INVARIANTS
  InflightExact
  LongPollOnlyWhenIdle
  ExactlyOnePlace
