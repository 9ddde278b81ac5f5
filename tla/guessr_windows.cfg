SPECIFICATION Spec
CONSTANTS
  Tick = 250000
  Window = 4
  Starts <- MCStarts
  Ends <- MCEnds
  None = None
CHECK_DEADLOCK FALSE
INVARIANTS TypeOK PointSecondsMeasured PositionsMeasured SpeedMeasured LabelsInWindow
