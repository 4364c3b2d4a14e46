SPECIFICATION MCSpec
CONSTANTS
  r1 = r1
  r2 = r2
  Routes <- TwoRoutes
  s1 = s1
  s2 = s2
  Svcs <- TwoServices
  AsIs = {s2}
  Ports = {p1, p2}
  PortKey = http
  PortKeys = {http}
  NoPort = NoPort
  Absent = Absent
  Gone = Gone
  MaxEvents = 1
  EndpointKeys <- MCEndpointKeys
  TargetPorts = {p1, p2}
  Nothing = Nothing
  MaxBridgeEvents = 3
  RouteObjects <- MCRouteObjects
  OwnNamespace = OwnNamespace
  OtherFilter = OtherFilter
  UIDSuffix <- MCUIDSuffix
  MaxNameLength = 4
INVARIANTS ReferencesResolve
PROPERTIES RecordedServiceStable Converges DeletionCompletes LeftNothing SliceConverges
CHECK_DEADLOCK FALSE
