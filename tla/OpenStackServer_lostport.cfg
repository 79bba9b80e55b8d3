SPECIFICATION Spec
CONSTANTS
  NPorts = 1
  NVolumes = 1
  Setters = {"image", "ports"}
  WaitSetters = {"image"}
  UsesPool = TRUE
  StaleServer = FALSE
  StaleClaim = FALSE
  FaultClasses = {"openstack", "kube", "crash"}
  MaxFaults = 0
  MaxPortID = 2
  MaxInstID = 2
  MaxPortLosses = 1
  MaxInstLosses = 1
  MaxMoves = 0
PROPERTIES
  FinalizerRemovedClean
