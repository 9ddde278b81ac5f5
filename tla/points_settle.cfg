SPECIFICATION FairSpec
CONSTANTS
  MaxPoints = 5
  MaxMessagePoints = 2
  BufferSize = 2
  TriggerThreshold = 2
  MaxFaults = 2
CHECK_DEADLOCK FALSE
INVARIANTS TypeOK StoredInOrder PointsAccounted
PROPERTIES DeliversAtMostOnce PointsSettle EndsOrIsStuck
