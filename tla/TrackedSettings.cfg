\* Edits, policy changes, drift, failing statements and crashes at any moment.
SPECIFICATION FairSpec
CONSTANTS
  Names = {s1, s2}
  DbNames = {s2}
  MaxEdits = 3
  MaxFaults = 1
INVARIANTS SettingsInv
PROPERTIES SettingsConverge
