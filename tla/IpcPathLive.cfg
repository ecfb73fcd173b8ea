CONSTANTS
  Request = {r1, r2}
  NoRequest = NoRequest
  c1 = c1
  Conn <- MCConn
  ConnOf <- MCConnOf
  Rings = 2
  ReqSlots = 2
  RspSlots = 1
  MaxBatch = 2
  SpinTries = 0
  BizThreads = 1

SPECIFICATION FairSpec

INVARIANTS

PROPERTIES
  EventuallySettled
