\* Expected violation: a Service used as it is is deleted as orphaned.
SPECIFICATION MCSpec
CONSTANTS
  r1 = r1
  r2 = r2
  Routes <- TwoRoutes
  s1 = s1
  s2 = s2
  Svcs <- TwoServices
  AsIs = {s2}
  Ports = {p1, p2}
  PortKey = http
  PortKeys = {http}
  NoPort = NoPort
  Absent = Absent
  Gone = Gone
  MaxEvents = 0
  EndpointKeys <- MCEndpointKeys
  TargetPorts = {p1}
  Nothing = Nothing
  MaxBridgeEvents = 0
  RouteObjects <- MCRouteObjects
  OwnNamespace = OwnNamespace
  OtherFilter = OtherFilter
  UIDSuffix <- MCUIDSuffix
  MaxNameLength = 4
PROPERTY OrphansOnly
CHECK_DEADLOCK FALSE
