SPECIFICATION Spec
CONSTANTS
  n1 = n1
  n2 = n2
  Backends = {n1, n2}
  Ids = {1}
  Assigned <- Both
  Direct = {}
  Photos = {p1, p2}
  Taps = {t1}
  MaxUploads = 2
  None = None
SYMMETRY Symmetry
INVARIANT GoneIsKept
