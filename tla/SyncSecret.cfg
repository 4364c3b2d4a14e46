\* Secrets: one update, with the removal of the label before or after it, and one restart.
\* Annotations: three changes of any kind.
\* Hostnames: two changes of the settings, and a restart or another hostname in the spec.
SPECIFICATION MCSpec
CONSTANTS
  Absent = Absent
  Gone = Gone
  MaxUpdates = 2
  MaxRestarts = 1
  Annotations <- MCAnnotations
  TenantSettings <- MCTenantSettings
  ConfigSettings <- MCConfigSettings
  ForeignKey = "f"
  ForeignValue = 9
  DNSKey = "dns"
  Hostname = 8
  AnnotationKeys = {"a", "b", "c", "f", "dns"}
  AnnotationValues = {1, 2, 3, 8, 9}
  NilMap = NilMap
  Unset = Unset
  NoAnnotated = NoAnnotated
  MaxAnnotationChanges = 3
  HostnameSettings <- MCHostnameSettings
  SpecHosts <- MCSpecHosts
  NoLB = NoLB
  GoneLB = GoneLB
  NoRoute = NoRoute
  Inherit = Inherit
  MaxHostSettings = 2
  MaxIncidents = 1
INVARIANTS NoOrphanCopy
PROPERTIES CopyConverges SecretRemoved LeftoverOnlyIfStripped TenantValuesWin HostnameStable HostnameServed HostnameRemoved
CHECK_DEADLOCK FALSE
