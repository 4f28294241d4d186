SPECIFICATION FairSpec
CONSTANTS
  v1 = v1
  p1 = p1
  w1 = w1
  w2 = w2
  w3 = w3
  f1 = f1
  f2 = f2
  f3 = f3
  f4 = f4
  f5 = f5
  Videos = {v1}
  Photos = {p1}
  Workers = {w1, w2, w3}
  Previews = {f1, f2, f3, f4, f5}
  None = None
  Loads <- ModelLoads
INVARIANTS TypeOK RowsBacked ActiveIsLatest SettledTogether 
PROPERTIES ReadyFailsForCause JobsSettle
