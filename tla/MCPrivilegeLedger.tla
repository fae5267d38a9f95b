------------------------- MODULE MCPrivilegeLedger -------------------------
(* Instances of PrivilegeLedger for TLC. *)
EXTENDS PrivilegeLedger, TLC

\* Targets and privileges are interchangeable (safety runs only).
Symmetry == Permutations(Targets) \cup Permutations(Privs)
=============================================================================
