SPECIFICATION Spec
CONSTANTS
  Durations = {1, 2}
  MaxReadings = 6
CHECK_DEADLOCK FALSE
INVARIANTS SharedAtEdges SeenIsBuffered DropsOnlyBeforeSending
