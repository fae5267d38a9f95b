------------------------------- MODULE Faults -------------------------------
(***************************************************************************)
(* What the models of backups and of restores share: the bounds on what    *)
(* users do and on what goes wrong, and the count of the latter.           *)
(***************************************************************************)
EXTENDS Naturals

CONSTANTS MaxEdits,   \* bound on what users do
          MaxFaults   \* bound on failing calls, crashes and failing Jobs

ASSUME BoundsAssumption == MaxEdits \in Nat /\ MaxFaults \in Nat

VARIABLE faults
=============================================================================
