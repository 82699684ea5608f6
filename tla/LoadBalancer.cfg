SPECIFICATION LbFairSpec
CONSTANTS
  l1 = l1
  n1 = n1
  n2 = n2
  b1 = b1
  b2 = b2
  f1 = f1
  f2 = f2
  h1 = h1
  h2 = h2
  c1 = c1
  c2 = c2
  NoHyper = NoHyper
  NoLB = NoLB
  LBs = {l1}
  Listeners = {n1, n2}
  Backends = {b1, b2}
  Fips = {f1, f2}
  SSL = {b1}
  Hypers = {h1, h2}
  LbClients = {c1, c2}
  LbOf <- MCLbOf
  ListenerOf <- MCListenerOf
  Zones <- MCZones
  LbPlans <- MCPlans
INVARIANTS KeepalivedFollows HaproxyFollows NothingLeft RolesApart
 
CHECK_DEADLOCK FALSE
