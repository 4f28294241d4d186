SPECIFICATION FairSpec
CONSTANTS
  Sessions = {s1, s2}
  NumChunks = 1
  Handlers = {h1}
  Workers = {w1}
  ActiveLimit = 1
  Expiry = 1
  Lease = 1
  MaxTime = 1
  MaxCrashes = 1
  MaxPowerLoss = 0
  Absent = Absent
  NoWriter = NoWriter

INVARIANT ActiveLimitKept
PROPERTY FinalizationAnswered
