\* Two standbys: one change by a user and one fault, at any moment.
SPECIFICATION FairSpec
CONSTANTS
  N = 2
  Early = FALSE
  MaxPasswords = 2
  MaxEdits = 1
  MaxFaults = 1
INVARIANTS ReplicationInv
PROPERTIES UsedVolumesKept NoEmptyPrimary ReplicationSettles
CHECK_DEADLOCK FALSE
