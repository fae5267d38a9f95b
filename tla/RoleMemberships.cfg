\* Edits, policy changes, drift, failing statements and crashes at any moment.
SPECIFICATION MembershipsFairSpec
CONSTANTS
  Groups = {g1, g2}
  MaxEdits = 4
  MaxFaults = 2
INVARIANTS MembershipsInv
PROPERTY MembershipsSettle
