SPECIFICATION Spec
CONSTANTS
  NPorts = 2
  NVolumes = 0
  Setters = {"image", "ports"}
  WaitSetters = {"image"}
  UsesPool = TRUE
  StaleServer = TRUE
  StaleClaim = FALSE
  FaultClasses = {"openstack", "kube", "crash"}
  MaxFaults = 1
  MaxPortID = 3
  MaxInstID = 2
  MaxPortLosses = 1
  MaxInstLosses = 0
  MaxMoves = 0
INVARIANTS
  TypeOK
  FinalizerGuardsCloud
  OneInstance
PROPERTIES
  CreatedAfterPersisted
