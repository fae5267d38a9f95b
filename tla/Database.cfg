\* One Database, its grantee deleted at any time.
SPECIFICATION FairSpec
CONSTANTS
  MaxEdits = 2
  MaxOutside = 1
  MaxFaults = 1
INVARIANTS DatabaseInv
PROPERTIES ScriptInCheckedSchema OnlyOwnDropped DatabaseSettles
CHECK_DEADLOCK FALSE
