SPECIFICATION Spec
CONSTANTS
  n1 = n1
  n2 = n2
  Backends = {n1, n2}
  Ids = {1,2,3}
  Assigned <- Continued
  Direct = {1}
  Photos = {p1, p2}
  Taps = {t1}
  MaxUploads = 2
  None = None
SYMMETRY Symmetry
INVARIANTS TargetKept OfferedIsKept RecordedIsGone
PROPERTIES ImplementsContract CandidateKept
