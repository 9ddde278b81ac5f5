SPECIFICATION FairSpec
CONSTANTS
  MaxLaunches = 2
  MaxRecords = 3
  MaxCount = 2
  Sessions <- MCSessions
  SendOutcomes = {"true", "false", "throw"}
  Overlap = FALSE
INVARIANTS AckedWereSent IndexedFilesExist CurrentFileKept
PROPERTIES SessionEnds
CHECK_DEADLOCK FALSE
