SPECIFICATION FairSpec
CONSTANTS
  MaxLaunches = 3
  MaxRecords = 3
  MaxCount = 2
  Sessions <- MCSessions
  SendOutcomes = {"true"}
  Overlap = FALSE
INVARIANTS NoLoss SentOnce
PROPERTIES ImplementsOutbox
CHECK_DEADLOCK FALSE
