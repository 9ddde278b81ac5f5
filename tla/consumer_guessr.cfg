SPECIFICATION GuessrFairSpec
CONSTANTS
  MaxMessages = 3
  CacheLimit = 2
  Workers = {w1, w2}
  FunctionOutcomes = {"value", "raise", "die"}
  CallbackOutcomes = {"ok", "raise"}
  MaxEvictions = 1
  MaxCrashes = 1
  Bad <- MCBad
CHECK_DEADLOCK FALSE
INVARIANTS PermitsConserved NothingForgotten WindowOfOne RepeatsBounded
PROPERTIES AllPublished StopExits
