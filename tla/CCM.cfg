SPECIFICATION MCSpec
CONSTANTS
  Kinds = {"Service", "Gateway", "Ingress", "HTTPRoute", "GRPCRoute"}
  Absent = Absent
  Gone = Gone
  MaxEvents = 2
  Nodes = {1, 2}
  NoNode = NoNode
  NoAddresses = NoAddresses
  MaxNodeEvents = 3
INVARIANTS NoOrphanTarget
PROPERTIES TargetConverges StatusConverges SourceRemoved AddressesConverge NoIdleWrite
CHECK_DEADLOCK FALSE
