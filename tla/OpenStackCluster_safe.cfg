SPECIFICATION Spec
CONSTANTS
  Networks = {"managed"}
  ManagedGroups = TRUE
  LoadBalanced = TRUE
  BastionIPs = {"given"}
  Enabled = {TRUE, FALSE}
  Edits = {"toggle", "flavor", "floatingIP", "remove"}
  StrayPorts = TRUE
  StaleCluster = TRUE
  StaleServer = FALSE
  FaultClasses = {"openstack", "kube", "crash"}
  MaxFaults = 1
  MaxEdits = 1
  MaxFIPs = 3
  MaxInstances = 2
  MaxMoves = 1
INVARIANTS
  FinalizerGuardsInfra
  DeletedInOrder
PROPERTIES
  ClusterRemovedClean
  UserIPKept
