\* Two endpoints with two ports each share a range of three: exhaustion is reached.
\* A LoadBalancer with up to two ports, changed once, and a restart.
\* Five endpoints of two tenants, whose Addresses are written three times.
CONSTANTS
  e1 = e1
  e2 = e2
  k1 = k1
  k2 = k2
  p1 = p1
  p2 = p2
  p3 = p3
  NoPort = NoPort
  EndpointKeys <- MCEndpointKeys
  PortKeys <- MCPortKeys
  Ports <- MCPorts
  PortNames = {1, 2}
  PortNumbers = {1, 2}
  Upstreams = {1, 2}
  EnvoyPorts = {11, 12}
  NodePorts = {21, 22}
  Unassigned = Unassigned
  MaxSpecChanges = 1
  MaxPortRestarts = 1
  Items <- MCItems
  NoAddressesYet = NoAddressesYet
  MaxAddressChanges = 3
  MaxItemChanges = 3
SPECIFICATION MCSpec
\* A draw from an exhausted range never returns and keeps the mutex: the allocator really stops.
CHECK_DEADLOCK FALSE
INVARIANTS OneVersion
PROPERTIES SharedOnlyIfDrawnTogether LeaseSpec PortsConverge RecordedPortsStable SnapshotFollows
