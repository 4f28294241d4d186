SPECIFICATION Spec
CONSTANTS
  Sessions = {s1}
  NumChunks = 1
  Handlers = {h1, h2}
  Workers = {w1}
  ActiveLimit = 1
  Expiry = 2
  Lease = 1
  MaxTime = 2
  MaxCrashes = 0
  MaxPowerLoss = 0
  Absent = Absent
  NoWriter = NoWriter
SYMMETRY Symmetry
INVARIANT RetryableKeepsChunks
