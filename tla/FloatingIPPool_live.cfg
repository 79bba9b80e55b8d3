SPECIFICATION FairSpec
CONSTANTS
  i1 = i1
  i2 = i2
  i3 = i3
  c1 = c1
  c2 = c2
  IPs = {i1, i2, i3}
  PreAllocated = {i1}
  Missing = {{}}
  Claims = {c1, c2}
  MaxIPs = 2
  Policies = {"Retain"}
  StalePool = FALSE
  StaleAddress = FALSE
  StaleClaims = FALSE
  FaultClasses = {"openstack"}
  MaxFaults = 1
PROPERTIES
  ClaimServed
  PoolDeletionCompletes
  AvailableDeletedFirst
