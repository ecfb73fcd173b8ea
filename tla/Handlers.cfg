SPECIFICATION Spec
CONSTANTS
  Thread = {t1, t2}
  Mobile = {"a", "b"}
  PoolSize = 1
  MaxCalls = 5
  MaxFaults = 1
  kMaxPoints = 3
  MaxTicks = 7
  MaxFlight = 3
  MaxEnds = 1
  MaxBack = 2
  Handler = {h1, h2}
  kSpawnThreshold = 2
  kSpawnTarget = 4
  kMaxNoRetry = 2
  MaxRequests = 3
  MaxLeaving = 3
  MaxRefused = 2
  Base = 4
  kMaxMessageLen = 3
  Frame <- SomeFrames
  MaxFrames = 2
  MaxDamage = 1
SYMMETRY Threads
CHECK_DEADLOCK FALSE
INVARIANTS
  OwnDataOnly
  SpentCodeRefused
  PathKept
  SpawnsAsNeeded
  FramesCutRight
