SPECIFICATION Spec
CONSTANTS
  Sessions = {s1}
  NumChunks = 1
  Handlers = {h1}
  Workers = {w1, w2}
  ActiveLimit = 1
  Expiry = 1
  Lease = 1
  MaxTime = 2
  MaxCrashes = 1
  MaxPowerLoss = 1
  Absent = Absent
  NoWriter = NoWriter
SYMMETRY Symmetry
INVARIANTS SessionJobCoherent
