SPECIFICATION MCFairSpec
CONSTANTS
  Requests = {r1, r2}
  Formal = Formal
  Nobody = Nobody
  Handlers = {h1, h2}
  Creators = {h1}
  Downloaders = {h2}
  Workers = {w1}
  MaxInterruptions = 2
INVARIANTS PointersBacked RenditionJobAgree FailedRenditionLeavesNoFile
PROPERTIES JobsSettle PointerTriggerSatisfied FormalRefusedOnlyForSelection ServedIsAuthoritative
