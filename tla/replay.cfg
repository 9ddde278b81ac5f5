SPECIFICATION FairSpec
CONSTANTS
  Recorded = 1
  MaxMessages = 2
  MaxStarts = 2
  BatchSize = 2
  Processes = {p1, p2}
  ChunkFactor = 1
  MaxBreaks = 1
  None = None
CHECK_DEADLOCK FALSE
INVARIANTS ReplayedInOrder SuccessIsComplete AccessedWasSent AccessedWasPublished
PROPERTIES LoaderFinishes
