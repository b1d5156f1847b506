SPECIFICATION EquipmentSpec
CONSTANTS
  Bound <- MCBound
  Boards <- MCBoards
  COMP_MIN_OFF = 3
  COMP_MIN_ON = 2
  TIMER_SATISFIED = 5
  EquipmentInputs <- MCInputs
INVARIANTS
  KnownHeaterExcludesCompressor
PROPERTIES
  MinOffRespected
  MinOnRespected
