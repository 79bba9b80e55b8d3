SPECIFICATION FairSpec
CONSTANTS
  Networks = {"existing"}
  ManagedGroups = TRUE
  LoadBalanced = TRUE
  BastionIPs = {"created"}
  Enabled = {TRUE}
  Edits = {}
  StrayPorts = FALSE
  StaleCluster = FALSE
  StaleServer = FALSE
  FaultClasses = {"crash"}
  MaxFaults = 1
  MaxEdits = 0
  MaxFIPs = 3
  MaxInstances = 2
  MaxMoves = 0
PROPERTY
  ClusterAlwaysDeleted
