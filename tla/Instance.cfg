SPECIFICATION Spec
CONSTANTS
  i1 = i1
  i2 = i2
  f1 = f1
  f2 = f2
  f3 = f3
  f4 = f4
  p1 = p1
  p2 = p2
  Insts = {i1, i2}
  Hosts = {1, 2}
  Ifaces = {f1, f2, f3, f4}
  Fips = {p1, p2}
  None = None
  Addrs = {1, 2, 3, 4, 5, 6}
  Net <- MCNet
  MaxNics = 3
  Plans <- MCPlans
CHECK_DEADLOCK FALSE
INVARIANTS
  AddressOwned
  HostsMatchRows
  
PROPERTIES
  StatusSettles
  DeleteCompletes
