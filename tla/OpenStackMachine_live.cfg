SPECIFICATION FairSpec
CONSTANTS
  NListeners = 1
  Endpoints = {"lb"}
  ControlPlane = FALSE
  StaleMachine = TRUE
  StaleServer = TRUE
  FaultClasses = {"kube"}
  MaxFaults = 1
  MaxInstances = 1
  NovaStates = {"ACTIVE", "SHUTOFF"}
  MaxMoves = 1
  UserDeletesServer = FALSE
PROPERTIES
  MachineFollowsServer
  MachineDeletionCompletes
