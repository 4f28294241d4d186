SPECIFICATION Spec
CONSTANTS
  Sessions = {s1}
  NumChunks = 2
  Handlers = {h1, h2}
  Workers = {w1}
  ActiveLimit = 1
  Expiry = 1
  Lease = 1
  MaxTime = 1
  MaxCrashes = 1
  MaxPowerLoss = 0
  Absent = Absent
  NoWriter = NoWriter
SYMMETRY Symmetry
INVARIANTS ChunkFileMatchesRow AssetBacked
PROPERTIES ImplementsContract ChunksStaySafe
