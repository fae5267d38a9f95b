\* Two Roles, users, Cluster editors and DBAs; lost keys and re-created Clusters.
CHECK_DEADLOCK FALSE
SPECIFICATION FairSpec
CONSTANTS
  Roles = {1, 2}
  MaxEdits = 2
  MaxTicks = 1
  MaxFaults = 1
INVARIANT TypeOK
PROPERTIES ForeignUntouched DroppedByManager RolesSettle
