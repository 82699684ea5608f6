CONSTANTS
  g1 = g1
  v1 = v1
  v2 = v2
  s1 = s1
  t1 = t1
  t2 = t2
  i1 = i1
  n1 = n1
  n2 = n2
  None = None
  Groups = {g1}
  Volumes = {v1, v2}
  Snapshots = {s1}
  Tasks = {t1, t2}
  Instances = {i1}
  Slots = {n1, n2}
  Used = {v1}
  MaxCutOff = 1
  Faults = {"lost", "crash"}
SPECIFICATION FairSpec
INVARIANT RowsMatchStore
INVARIANT MarkedHasSnapshot
PROPERTY GroupSettles
