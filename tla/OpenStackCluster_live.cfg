SPECIFICATION FairSpec
CONSTANTS
  Networks = {"existing"}
  ManagedGroups = TRUE
  LoadBalanced = TRUE
  BastionIPs = {"created"}
  Enabled = {TRUE}
  Edits = {"toggle", "flavor"}
  StrayPorts = FALSE
  StaleCluster = FALSE
  StaleServer = FALSE
  FaultClasses = {"openstack", "kube", "crash"}
  MaxFaults = 1
  MaxEdits = 1
  MaxFIPs = 3
  MaxInstances = 2
  MaxMoves = 1
PROPERTIES
  NoSecondBastionIP
  ClusterSettles
  ClusterDeletionCompletes
