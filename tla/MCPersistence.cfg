SPECIFICATION FairSpec
CONSTANTS
  KEYS = 2
  MAX_VALUE = 1
  DEBOUNCE = 2
  HOURS_PERIOD = 2
  MAX_FAULTS = 1
  Flashes <- MCFlashes
INVARIANTS
  NothingForgotten
  RestartKeepsHours
PROPERTIES
  BootPreserves
  DirtyIsFlushed
