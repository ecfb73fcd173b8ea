SPECIFICATION MCSpec
CONSTANTS
  p1 = p1
  p2 = p2
  NoPacket = NoPacket
  Packet <- MCPacket
  kSlotCount = 4
  CounterMod = 16
  MaxBatch = 2
  Thread = {t1, t2, t3}
  Conns = {m1, m2, m3, m4}
  FewConns = {m1, m2}
  MaxCalls = 2
INVARIANTS
  RingInv
  LeasesExclusive
  NoLostWakeup
  NotEverybodyWaits
PROPERTIES
  UnreadNeverOverwritten
  ImplementsFifo
  EveryCallReturns
