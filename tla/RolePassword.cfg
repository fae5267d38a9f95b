\* Any user, two passwords, one of them unusable.
SPECIFICATION FairSpec
CONSTANTS
  UserPws = {u1, u2}
  BadPws = {u2}
  MaxEdits = 2
  MaxTicks = 1
  MaxFaults = 1
  MaxStale = 1
INVARIANTS PasswordInv
PROPERTIES NeverRollsBack InStep
