SPECIFICATION Spec
CONSTANTS
  DT_MS = 10
  MIN_RATE_DT_MS = 60
  CALLS_CAP = 3
  Boards <- MCBoards
  Inputs <- MCInputs
INVARIANTS
  HighTempInTime
PROPERTIES
  HighTempWhenDue
  AlarmsLatch
