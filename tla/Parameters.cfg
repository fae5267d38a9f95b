\* One parameter that needs a restart and one that does not, one standby.
SPECIFICATION FairSpec
CONSTANTS
  Params = {hot, cold}
  Postmaster = {cold}
  Values = {v1, bad, broken}
  BadValues = {bad}
  Refused = {broken}
  Primary = p0
  Standbys = {p1}
  Reverts = FALSE
  MaxEdits = 2
  MaxTroubles = 1
INVARIANTS ParametersInv AppliedInEffect
PROPERTIES RestartsOntoValidFile ParametersSettle
