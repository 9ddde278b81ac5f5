SPECIFICATION FairSpec
CONSTANTS
  MaxMessages = 3
  CacheLimit = 2
  Workers = {w1, w2}
  FunctionOutcomes = {"value"}
  CallbackOutcomes = {"raise"}
  MaxEvictions = 0
  MaxCrashes = 0
CHECK_DEADLOCK FALSE
PROPERTIES AllProcessed
