SPECIFICATION Spec
CONSTANTS
  Samples <- MCSamples
  Window = 4
  Sizes = {1, 2}
  MaxRuns = 2
  MaxCuts = 2
CHECK_DEADLOCK FALSE
INVARIANTS SelectionFits ScoresOfOwnModel
