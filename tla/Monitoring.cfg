SPECIFICATION MonitoringSpec
CONSTANTS
  g1 = g1
  g2 = g2
  v1 = v1
  v2 = v2
  d1 = d1
  d2 = d2
  c1 = c1
  r1 = r1
  r2 = r2
  r3 = r3
  h1 = h1
  None = None
  Gone = Gone
  NoDev = NoDev
  NoNic = NoNic
  Groups = {g1, g2}
  VMs = {v1, v2}
  Devs = {d1, d2}
  Clients = {c1}
  MaxQueue = 1
  Kind <- MCKind
  Plans <- MCPlans
  Targets <- MCTargets
  Rules = {r1, r2, r3}
  Guests = {v1, v2}
  Nics = {d1, d2}
  NodeTypes = {"compute", "available"}
  Hosts = {h1}
  AlarmClients = {c1}
  KindOf <- MCKindOf
  Legs <- MCLegs
  NameOf <- MCNameOf
  Sets <- MCSets
  FilesOf <- MCFilesOf
  AlarmPlans <- MCAlarmPlans
INVARIANTS LimitRecorded MatchedHasLink RuleHasGroup AlertsServeRules
PROPERTIES CpuLimitEnds 
CHECK_DEADLOCK FALSE
