\* A policy with the order of the default one; one rotation of the CA.
SPECIFICATION TLSFairSpec
CONSTANTS
  CAValidity = 8
  CAPrepareBefore = 5
  CASwitchBefore = 3
  ServerValidity = 3
  ServerRenewBefore = 2
  MaxTime = 7
  MaxChanges = 1
  MaxFaults = 1
INVARIANTS TLSInv ClientsVerify
PROPERTIES RotationReloads TLSConverges
CHECK_DEADLOCK FALSE
