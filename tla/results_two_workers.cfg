SPECIFICATION MCSpec
CONSTANTS
  Requests = {r1, r2}
  Formal = Formal
  Nobody = Nobody
  Handlers = {h1, h2}
  Creators = {h1, h2}
  Downloaders = {}
  Workers = {w1, w2}
  MaxInterruptions = 0
SYMMETRY Symmetry
INVARIANT AttemptJobAgree
PROPERTY ImplementsContract
