\* Both topologies, two tenants, one change of the configuration and a restart.
\* With no tenant left to serve and the bounds used up there is nothing to do.
CHECK_DEADLOCK FALSE
SPECIFICATION FairSpec
CONSTANTS
  t1 = t1
  t2 = t2
  i1 = i1
  i2 = i2
  Absent = Absent
  Global = Global
  Image0 = i1
  Tenants <- TwoTenants
  Images <- TwoImages
  MaxChanges = 3
  MaxConfigs = 1
  MaxRestarts = 1
INVARIANTS ServedByProxy
PROPERTIES ProxyConverges SnapshotConverges
