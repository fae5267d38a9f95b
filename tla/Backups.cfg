\* One Job, two outages of the archive that last until WAL is dropped.
SPECIFICATION FairSpec
CONSTANTS
  FullJobs = {f1}
  IncrementalJobs = {}
  BackoffLimit = 1
  RunTTL = 1
  Looks = 2
  MaxTime = 2
  MaxDrops = 2
  MaxEdits = 1
  MaxFaults = 1
INVARIANTS BackupsInv
PROPERTIES RunsSettle GapCloses
CHECK_DEADLOCK FALSE
