SPECIFICATION FairSpec
CONSTANTS
  Hypers = {h1, h2, h3}
  h1 = h1
  h2 = h2
  h3 = h3
  Nowhere = Nowhere
  MaxMigrations = 2
  MaxQueue = 2
  MaxCrashes = 0
  Faults <- SequenceFaults
INVARIANTS
  NeverLost
PROPERTIES
  MigrationEnds
CHECK_DEADLOCK FALSE
