\* One LoadBalancer that is updated, deleted and disabled, and a crash at any point.
\* One port for two keys: an endless draw blocks the process, so the system may stop.
SPECIFICATION Spec
CONSTANTS
  l1 = l1
  l2 = l2
  a = a
  b = b
  p1 = p1
  p2 = p2
  NoPort = NoPort
  Absent = Absent
  Gone = Gone
  NoStatus = NoStatus
  EndpointKeys <- OneLB
  PortKeys <- TwoKeys
  Ports <- OnePort
  MaxUpdates = 1
  MaxDeletes = 1
  MaxToggles = 1
  MaxRestarts = 1
SYMMETRY Symm1
INVARIANTS NoOrphanService SpinsOnlyWhenExhausted
CHECK_DEADLOCK FALSE
