\* Expected violation: a spec update leaves Service and listener on different ports.
SPECIFICATION FairSpec
CONSTANTS
  l1 = l1
  l2 = l2
  a = a
  b = b
  p1 = p1
  p2 = p2
  NoPort = NoPort
  Absent = Absent
  Gone = Gone
  NoStatus = NoStatus
  EndpointKeys <- OneLB
  PortKeys <- TwoKeys
  Ports <- TwoPorts
  MaxUpdates = 1
  MaxDeletes = 0
  MaxToggles = 0
  MaxRestarts = 0
PROPERTIES Converges
