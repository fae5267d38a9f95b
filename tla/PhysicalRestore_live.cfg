\* Two Restores of one Cluster, both controllers at once, Jobs deleted by hand.
SPECIFICATION RestoreFairSpec
CONSTANTS
  Restores = {1, 2}
  Lag = FALSE
  Overlap = TRUE
  Manual = TRUE
  Reappear = TRUE
  MaxEdits = 4
  MaxFaults = 1
PROPERTIES RestoresSettle
CHECK_DEADLOCK FALSE
