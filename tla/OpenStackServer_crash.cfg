SPECIFICATION FairSpec
CONSTANTS
  NPorts = 1
  NVolumes = 1
  Setters = {"image", "ports"}
  WaitSetters = {"image"}
  UsesPool = TRUE
  StaleServer = FALSE
  StaleClaim = FALSE
  FaultClasses = {"openstack", "kube", "crash"}
  MaxFaults = 2
  MaxPortID = 2
  MaxInstID = 2
  MaxPortLosses = 0
  MaxInstLosses = 1
  MaxMoves = 1
INVARIANTS
  ReadyHasAddress
  OnePortPerName
PROPERTIES
  FinalizerRemovedClean
  ImplementsLifecycle
  DeletionCompletes
  StateReported
