\* One Restore name: created, confirmed, deleted and created again.
SPECIFICATION RestoreSpec
CONSTANTS
  Restores = {1}
  Lag = FALSE
  Overlap = FALSE
  Manual = FALSE
  Reappear = FALSE
  MaxEdits = 6
  MaxFaults = 2
INVARIANTS NeverBoth RestoreInv
PROPERTIES JobConfirmed
CHECK_DEADLOCK FALSE
