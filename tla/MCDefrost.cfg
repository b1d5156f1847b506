SPECIFICATION HeaterAlarmFairSpec
CONSTANTS
  HasRelay = TRUE
  MIN_ACTIVE_CHECK = 1
  MAX_DURATION_FLOOR = 1
  MAX_DURATION_CEIL = 3
  INTERVAL_WRAP = 10
  DefrostInputs <- MCInputs
INVARIANTS
  HeaterCeiling
PROPERTIES
  RestBetweenCycles
  CycleEnds
  HeaterAlarmTells
