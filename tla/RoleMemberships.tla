--------------------------- MODULE RoleMemberships ---------------------------
(***************************************************************************)
(* The memberships of one Role (reconcileMemberships): checked against the *)
(* Cluster's policy, compared with what PostgreSQL has, granted, stripped  *)
(* of the ADMIN option or revoked, and recorded in the status afterwards.  *)
(*                                                                         *)
(* A membership is "none", "member" or "admin" (with the ADMIN option).    *)
(***************************************************************************)
EXTENDS RoleStatus

CONSTANT Groups       \* roles to be a member of

\* spec maps groups to levels, the ledgers (status.managedMemberships) are sets
\* of groups.
VARIABLES
  \* The Role's revokeRemovedMemberships.
  revokeRemoved,
  \* Groups the policy forbids to join.
  forbidden,
  \* PostgreSQL: the memberships the role has.
  current,
  \* The running reconcile: allowed memberships, and the plan: groups to grant,
  \* to take the ADMIN option from, to revoke.
  desired, toGrant, toStrip, toRevoke,
  \* Observation only: groups that were ever declared.
  declared

Levels == {"none", "member", "admin"}
NoMemberships == [g \in Groups |-> "none"]
In(m) == {g \in Groups : m[g] # "none"}

roleApi == <<spec, revokeRemoved, ledger, rv>>
plan == <<toGrant, toStrip, toRevoke>>
worker == <<pc, lrv, desired, tracked, plan>>
mvars == <<roleApi, cache, forbidden, current, worker, ours, declared, lost, taken, edits, faults>>

MembershipsTypeOK ==
  /\ spec \in [Groups -> Levels] /\ revokeRemoved \in BOOLEAN
  /\ ledger \subseteq Groups /\ rv \in Nat
  /\ cache \in [spec : [Groups -> Levels], revoke : BOOLEAN, ledger : SUBSET Groups, rv : Nat]
  /\ forbidden \subseteq Groups /\ current \in [Groups -> Levels]
  /\ pc \in {"idle", "plan", "apply", "save"} /\ lrv \in Nat
  /\ desired \in [Groups -> Levels] /\ tracked \subseteq Groups
  /\ toGrant \subseteq In(desired) /\ toStrip \subseteq In(desired)
  /\ toRevoke \subseteq Groups \ In(desired)
  /\ ours \subseteq In(current) /\ declared \subseteq Groups
  /\ lost \subseteq Groups /\ taken \subseteq Groups
  /\ edits \in 0..MaxEdits /\ faults \in 0..MaxFaults

MembershipsInit ==
  /\ spec = NoMemberships /\ revokeRemoved = TRUE /\ ledger = {} /\ rv = 0
  /\ cache = [spec |-> spec, revoke |-> TRUE, ledger |-> {}, rv |-> 0]
  /\ forbidden = {} /\ current = NoMemberships
  /\ pc = "idle" /\ lrv = 0 /\ desired = NoMemberships /\ tracked = {}
  /\ toGrant = {} /\ toStrip = {} /\ toRevoke = {}
  /\ ours = {} /\ declared = {} /\ lost = {} /\ taken = {} /\ edits = 0 /\ faults = 0

-----------------------------------------------------------------------------
(* Users and DBAs. *)

EditMembership(g, level) ==
  /\ Edit /\ level # spec[g]
  /\ spec' = [spec EXCEPT ![g] = level] /\ rv' = rv + 1
  /\ declared' = IF level = "none" THEN declared ELSE declared \cup {g}
  /\ IF level = "none" THEN Takes(g) ELSE UNCHANGED losses
  /\ UNCHANGED <<revokeRemoved, ledger, cache, forbidden, current, worker, ours, faults>>

SetRevokeRemoved ==
  /\ Edit /\ revokeRemoved' = ~revokeRemoved /\ rv' = rv + 1
  /\ UNCHANGED <<spec, ledger, cache, forbidden, current, worker, ours, declared, losses, faults>>

\* The Cluster's rolePolicy changes, or the group comes to lead to a role that
\* nobody may join.
Forbid(g) ==
  /\ Edit
  /\ IF g \in forbidden THEN forbidden' = forbidden \ {g} /\ UNCHANGED losses
     ELSE forbidden' = forbidden \cup {g} /\ Takes(g)
  /\ UNCHANGED <<roleApi, cache, current, worker, ours, declared, faults>>

\* A DBA grants or revokes the membership.
DriftMembership(g, level) ==
  /\ Edit /\ level # current[g]
  /\ current' = [current EXCEPT ![g] = level]
  /\ ours' = ours \ {g}
  /\ UNCHANGED <<roleApi, cache, forbidden, worker, declared, losses, faults>>

SyncMemberships ==
  /\ cache.rv # rv
  /\ cache' = [spec |-> spec, revoke |-> revokeRemoved, ledger |-> ledger, rv |-> rv]
  /\ UNCHANGED <<roleApi, forbidden, current, worker, ours, declared, losses, edits, faults>>

-----------------------------------------------------------------------------
(* The reconcile. *)

OthersKept == UNCHANGED <<spec, revokeRemoved, cache, forbidden, declared, edits>>
Outside == OthersKept /\ UNCHANGED losses

\* Read the Role and leave out the memberships the policy forbids.
BeginMemberships ==
  /\ pc = "idle"
  /\ lrv' = cache.rv /\ tracked' = cache.ledger
  /\ desired' = [g \in Groups |-> IF g \in forbidden THEN "none" ELSE cache.spec[g]]
  \* Memberships pgop granted that are forbidden now are revoked in any case,
  \* removed ones unless revokeRemovedMemberships is off.
  /\ toRevoke' = cache.ledger \cap (forbidden \cup (IF cache.revoke THEN Groups \ In(desired') ELSE {}))
  /\ pc' = "plan"
  /\ Outside /\ UNCHANGED <<ledger, rv, current, toGrant, toStrip, ours, faults>>

\* Mutant of Plan: a membership is granted only where there is none.
PlanIgnoresAdmin ==
  /\ pc = "plan"
  /\ toGrant' = In(desired) \ In(current)
  /\ toStrip' = {g \in Groups : desired[g] = "member" /\ current[g] = "admin"}
  /\ toRevoke' = toRevoke \cap In(current)
  /\ tracked' = tracked \cup (In(desired) \cap In(current))
  /\ pc' = "apply"
  /\ Outside /\ UNCHANGED <<ledger, rv, current, lrv, desired, ours, faults>>

\* Mutant of Plan: whatever is not desired is revoked.
PlanRevokesAll ==
  /\ pc = "plan"
  /\ toGrant' = {g \in In(desired) : current[g] = "none" \/ (desired[g] = "admin" /\ current[g] # "admin")}
  /\ toStrip' = {g \in Groups : desired[g] = "member" /\ current[g] = "admin"}
  /\ toRevoke' = In(current) \ In(desired)
  /\ tracked' = tracked \cup (In(desired) \cap In(current))
  /\ pc' = "apply"
  /\ Outside /\ UNCHANGED <<ledger, rv, current, lrv, desired, ours, faults>>

\* diffMemberships with what PostgreSQL has; declared memberships that exist
\* are adopted.
Plan ==
  /\ pc = "plan"
  /\ toGrant' = {g \in In(desired) : current[g] = "none" \/ (desired[g] = "admin" /\ current[g] # "admin")}
  /\ toStrip' = {g \in Groups : desired[g] = "member" /\ current[g] = "admin"}
  /\ toRevoke' = toRevoke \cap In(current)
  /\ tracked' = tracked \cup (In(desired) \cap In(current))
  /\ pc' = "apply"
  /\ Outside /\ UNCHANGED <<ledger, rv, current, lrv, desired, ours, faults>>

\* Mutant of Grant: the grant is recorded only once everything succeeded.
GrantUnrecorded(g) ==
  /\ pc = "apply" /\ g \in toGrant
  /\ current' = [current EXCEPT ![g] = IF @ = "admin" THEN @ ELSE desired[g]]
  /\ ours' = IF current[g] = "none" THEN ours \cup {g} ELSE ours
  /\ toGrant' = toGrant \ {g}
  /\ Outside /\ UNCHANGED <<ledger, rv, pc, lrv, desired, tracked, toStrip, toRevoke, faults>>

\* GRANT keeps an ADMIN option someone gave meanwhile.
Grant(g) ==
  /\ pc = "apply" /\ g \in toGrant
  /\ current' = [current EXCEPT ![g] = IF @ = "admin" THEN @ ELSE desired[g]]
  /\ ours' = IF current[g] = "none" THEN ours \cup {g} ELSE ours
  /\ tracked' = tracked \cup {g} /\ toGrant' = toGrant \ {g}
  /\ Outside /\ UNCHANGED <<ledger, rv, pc, lrv, desired, toStrip, toRevoke, faults>>

\* REVOKE ADMIN OPTION FOR.
Strip(g) ==
  /\ pc = "apply" /\ toGrant = {} /\ g \in toStrip
  /\ current' = [current EXCEPT ![g] = IF @ = "admin" THEN "member" ELSE @]
  /\ toStrip' = toStrip \ {g}
  /\ Outside /\ UNCHANGED <<ledger, rv, pc, lrv, desired, tracked, toGrant, toRevoke, ours, faults>>

Revoke(g) ==
  /\ pc = "apply" /\ toGrant = {} /\ toStrip = {} /\ g \in toRevoke
  /\ current' = [current EXCEPT ![g] = "none"] /\ ours' = ours \ {g}
  /\ tracked' = tracked \ {g} /\ toRevoke' = toRevoke \ {g}
  /\ Outside /\ UNCHANGED <<ledger, rv, pc, lrv, desired, toGrant, toStrip, faults>>

\* Mutant of MembershipFails: the ledger forgets what is still to be revoked.
MembershipFailsForgets ==
  /\ pc = "plan" \/ (pc = "apply" /\ toGrant \cup toStrip \cup toRevoke # {})
  /\ faults < MaxFaults /\ faults' = faults + 1
  /\ pc' = "save" /\ toGrant' = {} /\ toStrip' = {} /\ toRevoke' = {} /\ tracked' = tracked \ toRevoke
  /\ Outside /\ UNCHANGED <<ledger, rv, current, lrv, desired, ours>>

\* The first query or statement that fails ends the reconcile; the ledger
\* keeps what was granted and what is still to be revoked.
MembershipFails ==
  /\ pc = "plan" \/ (pc = "apply" /\ toGrant \cup toStrip \cup toRevoke # {})
  /\ faults < MaxFaults /\ faults' = faults + 1
  /\ pc' = "save" /\ toGrant' = {} /\ toStrip' = {} /\ toRevoke' = {}
  /\ Outside /\ UNCHANGED <<ledger, rv, current, lrv, desired, tracked, ours>>

\* Everything succeeded: exactly the desired memberships are managed.  With
\* revokeRemovedMemberships off the others are let go without a revoke.
ApplyDone ==
  /\ pc = "apply" /\ toGrant \cup toStrip \cup toRevoke = {}
  /\ tracked' = In(desired) /\ pc' = "save"
  /\ ours' = ours \ (tracked \ In(desired))
  /\ Outside /\ UNCHANGED <<ledger, rv, current, lrv, desired, plan, faults>>

StopMemberships ==
  /\ pc' = "idle" /\ lrv' = 0 /\ desired' = NoMemberships /\ tracked' = {}
  /\ toGrant' = {} /\ toStrip' = {} /\ toRevoke' = {}

\* The status update; a conflict is not retried.
SaveMemberships ==
  /\ pc = "save" /\ lrv = rv
  /\ ledger' = tracked /\ rv' = IF tracked = ledger THEN rv ELSE rv + 1
  /\ StopMemberships /\ Records /\ OthersKept /\ UNCHANGED <<current, ours, faults>>
SaveMembershipsConflict ==
  /\ pc = "save" /\ lrv # rv
  /\ StopMemberships /\ Loses /\ OthersKept /\ UNCHANGED <<ledger, rv, current, ours, faults>>

CrashMemberships ==
  /\ pc # "idle" /\ faults < MaxFaults /\ faults' = faults + 1
  /\ StopMemberships /\ Loses /\ OthersKept /\ UNCHANGED <<ledger, rv, current, ours>>

-----------------------------------------------------------------------------
MembershipsController ==
  \/ BeginMemberships \/ Plan \/ ApplyDone \/ SaveMemberships \/ SaveMembershipsConflict
  \/ \E g \in Groups : Grant(g) \/ Strip(g) \/ Revoke(g)

MembershipsUsers ==
  \/ \E g \in Groups : \/ Forbid(g)
                      \/ \E level \in Levels : EditMembership(g, level) \/ DriftMembership(g, level)
  \/ SetRevokeRemoved

MembershipsNext == MembershipsController \/ MembershipsUsers \/ SyncMemberships
                   \/ MembershipFails \/ CrashMemberships

MembershipsSpec == MembershipsInit /\ [][MembershipsNext]_mvars

\* Watch events and requeues run the reconcile again; the cache catches up.
MembershipsFairness == WF_mvars(MembershipsController) /\ WF_mvars(SyncMemberships)

MembershipsFairSpec == MembershipsSpec /\ MembershipsFairness
-----------------------------------------------------------------------------
(* Properties. *)

\* A membership granted outside pgop in a group that was never declared is
\* never revoked.
UndeclaredKept ==
  [][pc = "apply" /\ edits' = edits =>
       \A g \in Groups \ declared : current[g] # "none" => current'[g] = current[g]]_mvars

\* What pgop granted is in the ledger or, after a status update was lost, still
\* wanted or taken away before it was recorded.  (reconcileMemberships, and the
\* status update that conflicts)
MembershipsCovered == Covers(In(spec) \ forbidden)

\* Once changes stop, every declared and allowed membership exists at its
\* declared level and is in the ledger, and no other is; and of all that pgop
\* ever granted only that is left whose only record was lost.
MembershipsConverge ==
  <>[](\A g \in Groups :
         IF spec[g] # "none" /\ g \notin forbidden THEN current[g] = spec[g] /\ g \in ledger
         ELSE g \notin ledger /\ (g \in ours => g \in lost \cap taken))

\* What roles.md says of a membership pgop granted that is removed from the
\* spec: it is revoked.  The code does not keep it: an edit that removes it
\* while the reconcile runs makes the status update that records it conflict.
RemovedMembershipsRevoked == <>[](revokeRemoved => ours \subseteq In(spec))

\* applyMemberships keeps its books: the state is well-formed and the ledger
\* covers what pgop granted.
MembershipsInv == MembershipsTypeOK /\ MembershipsCovered

\* Memberships end as the spec says, and what the spec never named is left alone.
MembershipsSettle == UndeclaredKept /\ MembershipsConverge
=============================================================================
