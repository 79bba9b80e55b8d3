SPECIFICATION FairSpec
CONSTANTS
  AllowAll = {TRUE, FALSE}
  ExtraRules <- MCExtraRules
  Ports <- MCPorts
  Drifting = {"kubelet"}
  TagSupport = TRUE
  FaultClasses = {"openstack", "kube", "crash", "drift"}
  MaxFaults = 1
  MaxEdits = 2
INVARIANTS
  OneGroupPerName
PROPERTIES
  NeededRuleKept
  PublishedComplete
  BastionGroupLive
  GroupsConverge
