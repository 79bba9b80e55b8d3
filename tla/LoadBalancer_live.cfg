SPECIFICATION FairSpec
CONSTANTS
  Machines = {m1}
  NPorts = 2
  IPModes = {"given", "endpoint", "created", "none"}
  Features = {"monitors", "cidrs"}
  StaleCluster = FALSE
  FaultClasses = {"openstack", "kube", "crash"}
  MaxFaults = 1
  MaxFIPs = 2
  MaxChanges = 1
  m1 = m1
INVARIANTS
  EndpointServed
PROPERTIES
  EndpointStable
  NoSecondIP
  MemberRemovedFirst
  LoadBalancerSettles
  ClusterDeletionCompletes
CHECK_DEADLOCK FALSE
