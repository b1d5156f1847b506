SPECIFICATION FairSpec
CONSTANTS
  Streams <- MCStreams
  BUFFER = 2
  MAX_FILE = 1
  BATCH = 2
  SAVE_EVERY = 2
  MAX_RECORDS <- MCMaxRecords
  MAX_CUTS = 1
  MAX_FAULTS = 1
INVARIANTS
  NothingSkipped
PROPERTIES
  Delivers
  DoneMeansSent
  BackfillEnds
CHECK_DEADLOCK FALSE
