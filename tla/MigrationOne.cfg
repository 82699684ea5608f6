SPECIFICATION Spec
CONSTANTS
  Hypers = {h1, h2}
  h1 = h1
  h2 = h2
  Nowhere = Nowhere
  MaxMigrations = 1
  MaxQueue = 1
  MaxCrashes = 1
  Faults <- OneFaults
INVARIANTS
  OneWriter
SYMMETRY HostSymmetry
CHECK_DEADLOCK FALSE
