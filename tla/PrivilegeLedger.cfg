\* Two targets and one privilege, over and under the limit of one entry.
SPECIFICATION FairSpec
CONSTANTS
  Targets = {t1, t2}
  Privs = {p1}
  LedgerLimit = 1
  MaxEdits = 2
  MaxFaults = 1
  MaxDBA = 2
  RacyDBA = FALSE
INVARIANTS TypeOK LedgerWithinLimit LedgerCoversGrants
PROPERTIES ImplementsIntentLog NoForeignCascade GrantsConverge
