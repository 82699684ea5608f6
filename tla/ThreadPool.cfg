SPECIFICATION FairSpec
CONSTANTS
  Workers = {w1, w2}
  MaxJobs = 3
INVARIANTS
  JobsLeftExact
  JoinAllDropsNothing
PROPERTIES
  EveryJobRuns
