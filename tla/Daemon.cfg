SPECIFICATION Spec
CONSTANTS
  Threads = {t1, t2}
  Hosts = {1, 2, 3}
  None = None
  Names = {"zone1", "zone2", "fdb"}
  Room = 1
  Plans <- MCPlans
INVARIANTS ToallReached 
PROPERTIES DecisionSound Answered
CHECK_DEADLOCK FALSE
