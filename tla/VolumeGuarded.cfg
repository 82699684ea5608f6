CONSTANTS
  v1 = v1
  i1 = i1
  i2 = i2
  b1 = b1
  s1 = s1
  s2 = s2
  s3 = s3
  None = None
  Volumes = {v1}
  Instances = {i1, i2}
  Backups = {b1}
  Slots = {s1, s2, s3}
  Ops = {"create", "attach", "detach", "resize", "backup", "delete", "action"}
  Faults = {}
SPECIFICATION FairSpec
INVARIANT NoDoubleAttach
INVARIANT RowAgreesWithDisk
INVARIANT BusyWhileWorking
 
CHECK_DEADLOCK FALSE
