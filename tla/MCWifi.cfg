SPECIFICATION FairSpec
CONSTANTS
  MAX_RETRIES = 3
  MAX_EVENTS = 3
  MAX_TROUBLE = 5
CHECK_DEADLOCK FALSE
INVARIANTS
  ConnectedIsUp
  ApIsServed
PROPERTIES
  BackOnline
  FallsBack
