SPECIFICATION SciSpec
CONSTANTS
  BackEnds <- MCBackEnds
  Agents <- MCAgents
  Tree <- MCTree
  FanOut = 2
  Lists <- MCLists
  Wanted <- MCWanted
  Levels = {0, 1}
  LaunchFails <- MCNodes
  ExtOps = {"INTERSECTION", "DIFFERENCE"}
  Plans <- MCPlans
  MaxBcasts = 1
  Streams = {1, 2, 3, 4, 5}
  Loads <- MCLoads
INVARIANTS NothingLost  InOrderOnce
PROPERTIES Implements RejoinsUnlessSilent
CHECK_DEADLOCK FALSE
