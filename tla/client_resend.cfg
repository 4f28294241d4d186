SPECIFICATION Spec
CONSTANTS
  v1 = v1
  v2 = v2
  v3 = v3
  p1 = p1
  p2 = p2
  p3 = p3
  r1 = r1
  r2 = r2
  Videos = {v1}
  Editable = {}
  Photos = {p1, p2}
  Anonymous = {}
  Results = {r1}
  Mixes = {{p1, p2}}
  Slots = {f1}
  None = None
  MaxTaps = 3
  MaxBehind = 0
  MaxKills = 0
  MaxEdits = 0
INVARIANT NeverResent
