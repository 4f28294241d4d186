SPECIFICATION Spec
CONSTANTS
  v1 = v1
  v2 = v2
  v3 = v3
  p1 = p1
  p2 = p2
  p3 = p3
  r1 = r1
  r2 = r2
  Videos = {v1, v2, v3}
  Editable = {v3}
  Photos = {p1, p2, p3}
  Anonymous = {p3}
  Results = {r1, r2}
  Mixes = {{v1, v2}, {v3}, {p1, p2}, {p1, p3}, {v1, p1}, {r1, r2}}
  Slots = {f1, f2}
  None = None
  MaxTaps = 3
  MaxBehind = 2
  MaxKills = 1
  MaxEdits = 1
SYMMETRY Symmetry
INVARIANTS StoredIsKnown UnknownNotResent SavedIsTrue CopyIsRecorded TempIsFindable
