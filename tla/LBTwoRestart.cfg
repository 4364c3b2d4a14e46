\* Two LoadBalancers and a crash at any point.
SPECIFICATION Spec
CONSTANTS
  l1 = l1
  l2 = l2
  a = a
  b = b
  p1 = p1
  p2 = p2
  NoPort = NoPort
  Absent = Absent
  Gone = Gone
  NoStatus = NoStatus
  EndpointKeys <- TwoLBs
  PortKeys <- OneKey
  Ports <- TwoPorts
  MaxUpdates = 0
  MaxDeletes = 0
  MaxToggles = 0
  MaxRestarts = 1
SYMMETRY Symm2
INVARIANTS DistinctListeners
PROPERTIES RecordedPortStable
