\* Convergence after a crash, a deletion and a disabling at any point.
SPECIFICATION FairSpec
CONSTANTS
  l1 = l1
  l2 = l2
  a = a
  b = b
  p1 = p1
  p2 = p2
  NoPort = NoPort
  Absent = Absent
  Gone = Gone
  NoStatus = NoStatus
  EndpointKeys <- OneLB
  PortKeys <- OneKey
  Ports <- TwoPorts
  MaxUpdates = 0
  MaxDeletes = 1
  MaxToggles = 1
  MaxRestarts = 1
PROPERTIES Converges StatusConverges DeletionCompletes
