SPECIFICATION Spec
CONSTANTS
  NListeners = 2
  Endpoints = {"lb", "fip"}
  ControlPlane = TRUE
  StaleMachine = TRUE
  StaleServer = FALSE
  FaultClasses = {"openstack", "kube", "crash"}
  MaxFaults = 1
  MaxInstances = 2
  NovaStates = {"ACTIVE"}
  MaxMoves = 0
  UserDeletesServer = TRUE
INVARIANTS
  FinalizerGuardsServer
PROPERTIES
  MachineRemovedClean
