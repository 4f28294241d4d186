SPECIFICATION FairSpec
CONSTANTS
  Assets = {a1}
  MaxOperations = 2
  MaxFaults = 1
  None = None
INVARIANTS TypeOK FormalEra OneOperationMigrates RestoredWhole FailsForCause
PROPERTIES ReportsTrue OperationSettles
CHECK_DEADLOCK FALSE
