----------------------------- MODULE RoleStatus -----------------------------
(***************************************************************************)
(* What the two ledgers in the status of a Role have in common: the Role   *)
(* in the API server and its copy in the informer cache, the reconcile     *)
(* that builds a ledger in memory while it applies the spec to PostgreSQL  *)
(* and saves it at the end, and the users who edit meanwhile.  The         *)
(* settings (TrackedSettings) and the memberships (RoleMemberships) are    *)
(* specified on top of it, each on its own.                                *)
(***************************************************************************)
EXTENDS Naturals

CONSTANTS MaxEdits,   \* bound on changes made by users and DBAs
          MaxFaults   \* bound on failing statements and crashes

ASSUME BoundsAssumption == MaxEdits \in Nat /\ MaxFaults \in Nat

VARIABLES
  \* The Role in the API server: what it declares, the ledger in its status,
  \* resourceVersion.
  spec, ledger, rv,
  \* The informer cache's copy.
  cache,
  \* The running reconcile: control state, version read, ledger being built.
  pc, lrv, tracked,
  \* Observation only: what pgop put into PostgreSQL and did not let go; what a
  \* lost status update would have recorded; what was taken from the spec, or
  \* refused, before it was recorded.
  ours, lost, taken,
  edits, faults

losses == <<lost, taken>>

\* A user, or a DBA, does something.
Edit == edits < MaxEdits /\ edits' = edits + 1

\* What the observations note of n being taken away, of a status update that
\* is saved, and of one that is lost.
Takes(n)  == taken' = (IF n \in ledger THEN taken ELSE taken \cup {n}) /\ UNCHANGED lost
Records   == lost' = lost \ tracked /\ taken' = taken \ tracked
Loses     == lost' = lost \cup ((ours \cap tracked) \ ledger) /\ UNCHANGED taken

\* Between reconciles the ledger lists everything that pgop put into
\* PostgreSQL and did not let go, also after statements failed half way ("a
\* partial failure still records").  What is missing has lost its status
\* update, and the next one records it, unless it was taken away just then.
Covers(wanted) == pc = "idle" => ours \ ledger \subseteq lost \cap (wanted \cup taken)
=============================================================================
