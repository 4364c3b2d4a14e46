SPECIFICATION MCSpec
CONSTANTS
  Absent = Absent
  Gone = Gone
  MaxTenants = 2
  MaxChildren = 2
  MaxEvents = 1
INVARIANTS AccessRevoked
CHECK_DEADLOCK FALSE
PROPERTIES TenantProvisioned TenantRemoved OnlyRoutesLinger
