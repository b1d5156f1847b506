SPECIFICATION FairSpec
CONSTANTS
  HasEvapFan = TRUE
  HasEvapTemp = TRUE
  HasCondFan = TRUE
  TIMER_SATISFIED = 4
  Inputs <- MCInputs
PROPERTIES
  CondFanRunsOn
  RegulationRests
  WarmRoomCools
  SafetyRunCycles
