SPECIFICATION Spec
CONSTANTS
  i1 = i1
  i2 = i2
  i3 = i3
  c1 = c1
  c2 = c2
  IPs = {i1, i2, i3}
  PreAllocated = {i1}
  Missing = {{}, {i1}}
  Claims = {c1, c2}
  MaxIPs = 1
  Policies = {"Delete", "Retain"}
  StalePool = TRUE
  StaleAddress = FALSE
  StaleClaims = TRUE
  FaultClasses = {"openstack", "tag", "kube", "crash"}
  MaxFaults = 1
INVARIANTS
  NoOrphanedAddress
  NoSharedAddress
  CreatedWithinMax
PROPERTIES
  NoBoundIPDeleted
  PreAllocatedKept
