SPECIFICATION FairSpec
CONSTANTS
  COUNT_WRAP = 6
  IDLE_FACTOR = 2
  TIMER_CAP = 6
  OVERRUN_CAP = 3
  Inputs <- MCInputs
INVARIANTS
  RetriesLockOut
PROPERTIES
  OverlongRunIsStopped
  LockoutReached
