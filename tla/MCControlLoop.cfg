SPECIFICATION Spec
CONSTANTS
  Bound <- MCBound
  HasRelay = TRUE
  Boards <- MCBoards
  COMP_MIN_OFF = 3
  COMP_MIN_ON = 2
  TIMER_SATISFIED = 3
  MIN_ACTIVE_CHECK = 1
  MAX_DURATION_FLOOR = 1
  MAX_DURATION_CEIL = 2
  INTERVAL_WRAP = 3
  DefrostSettings <- MCSettings
  TypeChoices <- MCAllTypes
  ProtectionChoices <- MCProtection
  EvapReadings <- MCEvap
  MAX_RESTARTS = 1
  EquipmentInputs = {}
  DefrostInputs = {}
INVARIANTS
  KeptTypeExcludesCompressor
  RelayOnlyInDefrost
