SPECIFICATION WindowSpec
CONSTANTS
  WINDOW = 5
  MAX_STARTS = 3
  WindowInputs <- MCInputs
PROPERTIES
  RapidStartsAlarm
