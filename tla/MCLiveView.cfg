SPECIFICATION FairViewSpec
CONSTANTS
  k1 = k1
  k2 = k2
  Keys <- MCKeys
  Fits <- MCFits
  Fds = {1, 2}
  MAX_CHANGED_KEYS = 1
  MAX_WS_CLIENTS = 1
  QUEUE = 2
  MAX_WRITES = 1
  MAX_CONNECTS = 2
  MAX_FAULTS = 1
INVARIANTS
  ChangesOnTheWay
PROPERTIES
  BrowsersCatchUp
  SlotsAreFreed
