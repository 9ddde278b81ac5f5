SPECIFICATION Spec
CONSTANTS
  MaxLaunches = 3
  MaxRecords = 3
  MaxCount = 1
  Sessions <- MCSessions
  SendOutcomes = {"true", "false"}
  Overlap = FALSE
INVARIANT NoLoss
CHECK_DEADLOCK FALSE
