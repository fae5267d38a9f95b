-------------------------- MODULE RoleStatusProofs --------------------------
(***************************************************************************)
(* Proofs about the two ledgers a Role keeps in its status and writes      *)
(* after the fact: TrackedSettings and RoleMemberships.  For every set of  *)
(* settings or groups and every bound on edits and faults, the state stays *)
(* well formed and between reconciles the status ledger lists every stored *)
(* setting that pgop set, and every membership it granted and did not let  *)
(* go, but for those whose status update was lost and which the next       *)
(* reconcile records unless they were taken away just then; a membership   *)
(* in a group that was never declared is left alone.                       *)
(*                                                                         *)
(* The two are specifications of their own over the state of RoleStatus,   *)
(* and no theorem speaks of both.                                          *)
(***************************************************************************)
EXTENDS TrackedSettings, RoleMemberships, TLAPS

-----------------------------------------------------------------------------
(* The ledger from a reconcile to the next. *)

\* The cache never runs ahead, and at the current version it is the Role.
CacheFollows ==
  cache.rv <= rv /\ (cache.rv = rv => cache.ledger = ledger /\ cache.spec = spec)

\* A reconcile read a version that the cache had.  What pgop put into PostgreSQL
\* is in the ledger that the reconcile builds, or its record was lost before;
\* a status update that will not conflict forgets nothing that is recorded.
RunCovers ==
  pc # "idle" => /\ lrv <= cache.rv
                 /\ ours \ ledger \subseteq tracked \cup lost
                 /\ lrv = rv => ours \cap ledger \subseteq tracked
-----------------------------------------------------------------------------
(* Settings: types. *)

\* TypeOK in two parts, the flags and the rest: they call for different provers.
Flags ==
  ready \in BOOLEAN /\ attrsOK \in BOOLEAN /\ dbUp \in BOOLEAN /\ failed \in BOOLEAN

Sets ==
  /\ spec \subseteq Names /\ ledger \subseteq Names /\ rv \in Nat
  /\ cache \in [spec : SUBSET Names, ledger : SUBSET Names, rv : Nat]
  /\ refused \subseteq Names
  /\ inForce \subseteq Names /\ (~dbUp => inForce \cap DbNames = {})
  /\ pc \in {"idle", "role", "db", "save"} /\ lrv \in Nat
  /\ want \subseteq Names /\ allowed \subseteq want /\ tracked \subseteq Names
  /\ toSet \subseteq allowed /\ toReset \subseteq tracked
  /\ ours \subseteq inForce /\ lost \subseteq Names /\ taken \subseteq Names
  /\ edits \in 0..MaxEdits /\ faults \in 0..MaxFaults

\* The two parts are TypeOK.
LEMMA TypeParts == TypeOK <=> Flags /\ Sets
  BY DEF TypeOK, Flags, Sets

\* The initial states are well formed.
LEMMA InitTypeOK == Init => TypeOK
<1>1. Init => Flags
  BY Zenon DEF Init, Flags
<1>2. Init => Sets
  BY BoundsAssumption DEF Init, Sets
<1>3. QED
  BY <1>1, <1>2, TypeParts

\* The flags stay flags.
LEMMA NextFlags == Flags /\ [Next]_vars => Flags'
<1> SUFFICES ASSUME Flags, [Next]_vars PROVE Flags'
  OBVIOUS
<1> USE DEF Flags
<1>1. ASSUME NEW n \in Names, EditSpec(n) \/ RefuseSetting(n) \/ Drift(n) PROVE Flags'
  BY <1>1, Zenon DEF EditSpec, RefuseSetting, Drift, losses, api, policy, server, local
<1>2. CASE RefuseAttributes \/ DropDatabase
  BY <1>2, Zenon DEF RefuseAttributes, DropDatabase, losses, api, policy, server, local
<1>3. CASE CreateDatabase \/ CacheSync \/ UNCHANGED vars
  BY <1>3, Zenon DEF CreateDatabase, CacheSync, vars, losses, api, policy, server, local
<1>4. ASSUME NEW n \in Names, SetName(n) \/ ResetName(n) PROVE Flags'
  BY <1>4, Zenon DEF SetName, ResetName, Env, Kept, losses, api, policy
<1>5. CASE Begin \/ StatementFails \/ DatabaseGone \/ ExistsFails
  BY <1>5, Zenon DEF Begin, StatementFails, DatabaseGone, ExistsFails, GroupFails, Env, Kept, losses, api, policy
<1>6. CASE RoleDone \/ DbDone
  BY <1>6, Zenon DEF RoleDone, DbDone, Env, Kept, losses, api, policy
<1>7. CASE Save \/ SaveConflict \/ Crash
  BY <1>7, Zenon DEF Save, SaveConflict, Crash, Stop, Kept, Records, Loses, api, policy
<1>8. QED
  BY <1>1, <1>2, <1>3, <1>4, <1>5, <1>6, <1>7, Zenon DEF Next, Controller, Users

\* Every step keeps the rest well formed: no setting is stored in a database
\* that does not exist, and a reconcile resets only what it tracks.
LEMMA NextSets == Sets /\ [Next]_vars => Sets'
<1> SUFFICES ASSUME Sets, [Next]_vars PROVE Sets'
  OBVIOUS
<1> USE BoundsAssumption, NamesAssumption DEF Sets
<1>1. ASSUME NEW n \in Names, EditSpec(n) \/ RefuseSetting(n) PROVE Sets'
  BY <1>1 DEF EditSpec, RefuseSetting, Edit, Toggle, Takes, losses, api, policy, server, local
<1>2. ASSUME NEW n \in Names, Drift(n) PROVE Sets'
  BY <1>2 DEF Drift, Edit, Toggle, losses, api, policy, local
<1>3. CASE RefuseAttributes \/ DropDatabase
  BY <1>3 DEF RefuseAttributes, DropDatabase, Edit, losses, api, policy, server, local
<1>4. CASE CreateDatabase \/ CacheSync
  BY <1>4 DEF CreateDatabase, CacheSync, losses, api, policy, server, local
<1>5. CASE Begin
  BY <1>5 DEF Begin, Env, Kept, losses, api, policy
<1>6. ASSUME NEW n \in Names, SetName(n) \/ ResetName(n) PROVE Sets'
  BY <1>6 DEF SetName, ResetName, Env, Kept, losses, api, policy
<1>7. CASE StatementFails \/ DatabaseGone
  BY <1>7 DEF StatementFails, DatabaseGone, GroupFails, Env, Kept, losses, api, policy
<1>8. CASE RoleDone \/ ExistsFails
  BY <1>8 DEF RoleDone, ExistsFails, Env, Kept, losses, api, policy
<1>9. CASE DbDone
  BY <1>9 DEF DbDone, Env, Kept, losses, api, policy
<1>10. CASE Save \/ SaveConflict \/ Crash
  BY <1>10 DEF Save, SaveConflict, Crash, Stop, Kept, Records, Loses, api, policy
<1>11. CASE UNCHANGED vars
  BY <1>11 DEF vars, losses, api, policy, server, local
<1>12. QED
  BY <1>1, <1>2, <1>3, <1>4, <1>5, <1>6, <1>7, <1>8, <1>9, <1>10, <1>11
  DEF Next, Controller, Users

\* Every step keeps the state well formed.
LEMMA NextTypeOK == TypeOK /\ [Next]_vars => TypeOK'
  BY TypeParts, NextFlags, NextSets, PTL
-----------------------------------------------------------------------------
(* Settings: the ledger covers what pgop set. *)

\* A setting that the ledger does not list, but that the cache, the running
\* reconcile or PostgreSQL took from the spec, is wanted or was taken away.
SettingsWanted ==
  /\ cache.spec \ ledger \subseteq spec \cup taken
  /\ pc # "idle" => allowed \ ledger \subseteq (spec \ refused) \cup taken
  /\ ours \ ledger \subseteq (spec \ refused) \cup taken

\* SettingsCovered speaks of the moments between reconciles only: the ledger in
\* memory carries it from Begin to Save, and the cache from Save to Begin.
IInv == TypeOK /\ SettingsCovered /\ CacheFollows /\ RunCovers /\ SettingsWanted

\* Nothing is set or recorded at first.
LEMMA InitIInv == Init => IInv
  BY InitTypeOK DEF Init, IInv, SettingsCovered, Covers, CacheFollows, RunCovers, SettingsWanted

\* One case per kind of step; RoleDone forgets the settings of a database that
\* does not exist, and none of those is stored.
LEMMA NextIInv == IInv /\ [Next]_vars => IInv'
<1> SUFFICES ASSUME IInv, [Next]_vars PROVE IInv'
  OBVIOUS
<1>1. TypeOK /\ TypeOK'
  BY NextTypeOK DEF IInv
<1> USE <1>1 DEF IInv, SettingsCovered, Covers, CacheFollows, RunCovers, SettingsWanted, policy, server
<1>2. ASSUME NEW n \in Names, EditSpec(n) PROVE IInv'
  BY <1>2 DEF EditSpec, Edit, Toggle, Takes, losses, local, TypeOK
<1>3. ASSUME NEW n \in Names, RefuseSetting(n) \/ Drift(n) PROVE IInv'
  BY <1>3 DEF RefuseSetting, Drift, Edit, Toggle, Takes, losses, api, local
<1>4. CASE RefuseAttributes \/ DropDatabase \/ CreateDatabase
  BY <1>4 DEF RefuseAttributes, DropDatabase, CreateDatabase, Edit, losses, api, local
<1>5. CASE CacheSync
  BY <1>5 DEF CacheSync, losses, api, local, TypeOK
<1>6. CASE Begin
  <2>1. /\ pc = "idle" /\ pc' # "idle"
        /\ lrv' = cache.rv /\ tracked' = cache.ledger /\ allowed' = cache.spec \ refused
        /\ UNCHANGED <<spec, ledger, rv, cache, refused, ours, losses>>
    BY <1>6 DEF Begin, Env, Kept, api
  <2>2. QED
    BY <2>1 DEF TypeOK, losses
<1>7. ASSUME NEW n \in Names, SetName(n) \/ ResetName(n) PROVE IInv'
  BY <1>7 DEF SetName, ResetName, InGroup, Env, Kept, losses, api, TypeOK
<1>8. CASE StatementFails \/ DatabaseGone \/ ExistsFails \/ DbDone
  BY <1>8 DEF StatementFails, DatabaseGone, GroupFails, InGroup, ExistsFails, DbDone, Env, Kept, losses, api
<1>9. CASE RoleDone
  BY <1>9 DEF RoleDone, Env, Kept, losses, api, TypeOK
<1>10. CASE Save
  BY <1>10 DEF Save, Stop, Kept, Records, TypeOK
<1>11. CASE SaveConflict \/ Crash
  BY <1>11 DEF SaveConflict, Crash, Stop, Kept, Loses, api
<1>12. CASE UNCHANGED vars
  BY <1>12 DEF vars, losses, api, local
<1>13. QED
  BY <1>2, <1>3, <1>4, <1>5, <1>6, <1>7, <1>8, <1>9, <1>10, <1>11, <1>12
  DEF Next, Controller, Users

\* Between reconciles the status ledger lists every stored setting that pgop
\* set, after any number of failed statements, edits and crashes, but for those
\* whose status update was lost: these are still wanted, so that the next
\* reconcile records them, or were taken away before it could: applySettings,
\* which records after it applied.
THEOREM SettingsLedgerCovers == Spec => []SettingsInv
<1>1. IInv => SettingsInv
  BY DEF IInv, SettingsInv
<1>2. QED
  BY <1>1, InitIInv, NextIInv, PTL DEF Spec

-----------------------------------------------------------------------------
(* Memberships: types. *)

\* TypeOK in two parts, the flags and the rest: they call for different provers.
MembershipFlags == revokeRemoved \in BOOLEAN

MembershipRest ==
  /\ spec \in [Groups -> Levels]
  /\ ledger \subseteq Groups /\ rv \in Nat
  /\ cache \in [spec : [Groups -> Levels], revoke : BOOLEAN, ledger : SUBSET Groups, rv : Nat]
  /\ forbidden \subseteq Groups /\ current \in [Groups -> Levels]
  /\ pc \in {"idle", "plan", "apply", "save"} /\ lrv \in Nat
  /\ desired \in [Groups -> Levels] /\ tracked \subseteq Groups
  /\ toGrant \subseteq In(desired) /\ toStrip \subseteq In(desired)
  /\ toRevoke \subseteq Groups \ In(desired)
  /\ ours \subseteq In(current) /\ declared \subseteq Groups
  /\ lost \subseteq Groups /\ taken \subseteq Groups
  /\ edits \in 0..MaxEdits /\ faults \in 0..MaxFaults

\* The plan exists only while it is applied; the memberships to revoke are
\* chosen when the Role is read.
PlanScope ==
  /\ pc # "apply" => toGrant = {} /\ toStrip = {}
  /\ pc \notin {"plan", "apply"} => toRevoke = {}

\* The two parts are TypeOK.
LEMMA MembershipTypeParts == MembershipsTypeOK <=> MembershipFlags /\ MembershipRest
  BY DEF MembershipsTypeOK, MembershipFlags, MembershipRest

\* A plan, and the memberships pgop granted, are groups of the right kind:
\* PlanScope is what makes TypeOK inductive, as Begin replaces the desired
\* memberships under the plan.
LEMMA MembershipInitTypes == MembershipsInit => MembershipsTypeOK /\ PlanScope
<1>1. MembershipsInit => MembershipFlags
  BY Zenon DEF MembershipsInit, MembershipFlags
<1>2. MembershipsInit => MembershipRest /\ PlanScope
  BY BoundsAssumption DEF MembershipsInit, MembershipRest, PlanScope, NoMemberships, In, Levels
<1>3. QED
  BY <1>1, <1>2, MembershipTypeParts

\* The flags stay flags.
LEMMA MembershipNextFlags == MembershipFlags /\ [MembershipsNext]_mvars => MembershipFlags'
<1> SUFFICES ASSUME MembershipFlags, [MembershipsNext]_mvars PROVE MembershipFlags'
  OBVIOUS
<1> USE DEF MembershipFlags
<1>1. CASE SetRevokeRemoved
  BY <1>1, Zenon DEF SetRevokeRemoved
<1>2. ASSUME NEW g \in Groups, NEW level \in Levels, EditMembership(g, level) \/ DriftMembership(g, level)
      PROVE  MembershipFlags'
  BY <1>2, Zenon DEF EditMembership, DriftMembership, roleApi
<1>3. ASSUME NEW g \in Groups, Forbid(g) \/ Grant(g) \/ Strip(g) \/ Revoke(g) PROVE MembershipFlags'
  BY <1>3, Zenon DEF Forbid, Grant, Strip, Revoke, Outside, OthersKept, losses, roleApi
<1>4. CASE SyncMemberships \/ BeginMemberships \/ Plan \/ MembershipFails \/ ApplyDone
  BY <1>4, Zenon DEF SyncMemberships, BeginMemberships, Plan, MembershipFails, ApplyDone, Outside, OthersKept, losses, roleApi
<1>5. CASE SaveMemberships \/ SaveMembershipsConflict \/ CrashMemberships \/ UNCHANGED mvars
  BY <1>5, Zenon DEF SaveMemberships, SaveMembershipsConflict, CrashMemberships, Outside, OthersKept, losses, mvars, roleApi
<1>6. QED
  BY <1>1, <1>2, <1>3, <1>4, <1>5, Zenon DEF MembershipsNext, MembershipsController, MembershipsUsers

\* Every step keeps the rest well formed.
LEMMA MembershipNextRest ==
  MembershipFlags /\ MembershipRest /\ PlanScope /\ [MembershipsNext]_mvars =>
    MembershipRest' /\ PlanScope'
<1> SUFFICES ASSUME MembershipFlags, MembershipRest, PlanScope, [MembershipsNext]_mvars
             PROVE  MembershipRest' /\ PlanScope'
  OBVIOUS
<1> USE BoundsAssumption DEF MembershipRest, PlanScope, In, losses
<1>1. ASSUME NEW g \in Groups, NEW level \in Levels, EditMembership(g, level)
      PROVE  MembershipRest' /\ PlanScope'
  BY <1>1 DEF EditMembership, Takes, Edit, worker, plan
<1>2. ASSUME NEW g \in Groups, NEW level \in Levels, DriftMembership(g, level)
      PROVE  MembershipRest' /\ PlanScope'
  BY <1>2 DEF DriftMembership, Edit, roleApi, worker, plan
<1>3. ASSUME NEW g \in Groups, Forbid(g) PROVE MembershipRest' /\ PlanScope'
  BY <1>3 DEF Forbid, Takes, Edit, roleApi, worker, plan
<1>4. CASE SetRevokeRemoved
  BY <1>4 DEF SetRevokeRemoved, Edit, worker, plan
<1>5. CASE SyncMemberships
  <2>1. [spec |-> spec, revoke |-> revokeRemoved, ledger |-> ledger, rv |-> rv]
          \in [spec : [Groups -> Levels], revoke : BOOLEAN, ledger : SUBSET Groups, rv : Nat]
    BY DEF MembershipFlags
  <2>2. QED
    BY <1>5, <2>1 DEF SyncMemberships, roleApi, worker, plan
<1>6. CASE BeginMemberships
  BY <1>6 DEF BeginMemberships, Outside, OthersKept, losses, Levels
<1>7. CASE Plan
  BY <1>7 DEF Plan, Outside, OthersKept, losses
<1>8. ASSUME NEW g \in Groups, Grant(g) PROVE MembershipRest' /\ PlanScope'
  BY <1>8 DEF Grant, Outside, OthersKept, losses
<1>9. ASSUME NEW g \in Groups, Strip(g) \/ Revoke(g) PROVE MembershipRest' /\ PlanScope'
  BY <1>9 DEF Strip, Revoke, Outside, OthersKept, losses, Levels
<1>10. CASE MembershipFails \/ ApplyDone
  BY <1>10 DEF MembershipFails, ApplyDone, Outside, OthersKept, losses, plan
<1>11. CASE SaveMemberships \/ SaveMembershipsConflict \/ CrashMemberships
  BY <1>11 DEF SaveMemberships, SaveMembershipsConflict, CrashMemberships, StopMemberships,
                 OthersKept, Records, Loses, NoMemberships, Levels
<1>12. CASE UNCHANGED mvars
  BY <1>12 DEF mvars, roleApi, worker, plan
<1>13. QED
  BY <1>1, <1>2, <1>3, <1>4, <1>5, <1>6, <1>7, <1>8, <1>9, <1>10, <1>11, <1>12
  DEF MembershipsNext, MembershipsController, MembershipsUsers

\* Every step keeps the state well formed.
LEMMA MembershipNextTypes ==
  MembershipsTypeOK /\ PlanScope /\ [MembershipsNext]_mvars => MembershipsTypeOK' /\ PlanScope'
  BY MembershipTypeParts, MembershipNextFlags, MembershipNextRest, PTL
-----------------------------------------------------------------------------
(* Memberships: the ledger covers what pgop granted, and names declared
   groups only. *)

\* Every copy of the spec and of the ledger, and the plan, name groups that
\* were declared at some time.
OnlyDeclared ==
  /\ In(spec) \subseteq declared /\ In(cache.spec) \subseteq declared
  /\ In(desired) \subseteq declared
  /\ ledger \subseteq declared /\ cache.ledger \subseteq declared
  /\ tracked \subseteq declared /\ toRevoke \subseteq declared

\* A membership that the ledger does not list, but that the cache, the running
\* reconcile or PostgreSQL took from the spec, is wanted or was taken away.
MembershipsWanted ==
  /\ In(cache.spec) \ ledger \subseteq In(spec) \cup taken
  /\ pc # "idle" => In(desired) \ ledger \subseteq (In(spec) \ forbidden) \cup taken
  /\ ours \ ledger \subseteq (In(spec) \ forbidden) \cup taken

\* The inductive invariant.
MembershipIInv ==
  /\ MembershipsTypeOK /\ PlanScope /\ OnlyDeclared
  /\ MembershipsCovered /\ CacheFollows /\ RunCovers /\ MembershipsWanted

\* Nothing is declared, granted or recorded at first.
LEMMA MembershipInitIInv == MembershipsInit => MembershipIInv
  BY MembershipInitTypes
  DEF MembershipsInit, MembershipIInv, MembershipsCovered, Covers, CacheFollows, RunCovers,
      OnlyDeclared, MembershipsWanted, NoMemberships, In

\* One case per kind of step.
LEMMA MembershipNextIInv == MembershipIInv /\ [MembershipsNext]_mvars => MembershipIInv'
<1> SUFFICES ASSUME MembershipIInv, [MembershipsNext]_mvars PROVE MembershipIInv'
  OBVIOUS
<1>1. MembershipsTypeOK /\ PlanScope /\ MembershipsTypeOK' /\ PlanScope'
  BY MembershipNextTypes DEF MembershipIInv
<1> USE <1>1 DEF MembershipIInv, MembershipsCovered, Covers, CacheFollows, RunCovers,
                 OnlyDeclared, MembershipsWanted, In, losses
<1>2. ASSUME NEW g \in Groups, NEW level \in Levels, EditMembership(g, level) PROVE MembershipIInv'
  BY <1>2 DEF EditMembership, Takes, Edit, worker, plan, MembershipsTypeOK
<1>3. ASSUME NEW g \in Groups, NEW level \in Levels, DriftMembership(g, level) PROVE MembershipIInv'
  BY <1>3 DEF DriftMembership, Edit, roleApi, worker, plan
<1>4. ASSUME NEW g \in Groups, Forbid(g) PROVE MembershipIInv'
  BY <1>4 DEF Forbid, Takes, Edit, roleApi, worker, plan
<1>5. CASE SetRevokeRemoved
  BY <1>5 DEF SetRevokeRemoved, Edit, worker, plan, MembershipsTypeOK
<1>6. CASE SyncMemberships
  BY <1>6 DEF SyncMemberships, roleApi, worker, plan, MembershipsTypeOK
<1>7. CASE BeginMemberships
  <2>1. /\ In(desired') = In(cache.spec) \ forbidden
        /\ pc = "idle" /\ lrv' = cache.rv /\ tracked' = cache.ledger /\ toRevoke' \subseteq cache.ledger
        /\ pc' = "plan"
        /\ UNCHANGED <<spec, ledger, rv, cache, forbidden, ours, declared, lost, taken>>
    BY <1>7 DEF BeginMemberships, Outside, OthersKept, MembershipsTypeOK, Levels
  <2>2. QED
    BY <2>1 DEF MembershipsTypeOK
<1>8. CASE Plan
  BY <1>8 DEF Plan, Outside, OthersKept, losses
<1>9. ASSUME NEW g \in Groups, Grant(g) PROVE MembershipIInv'
  BY <1>9 DEF Grant, Outside, OthersKept, losses, MembershipsTypeOK
<1>10. ASSUME NEW g \in Groups, Strip(g) \/ Revoke(g) PROVE MembershipIInv'
  BY <1>10 DEF Strip, Revoke, Outside, OthersKept, losses
<1>11. CASE MembershipFails
  BY <1>11 DEF MembershipFails, Outside, OthersKept, losses
<1>12. CASE ApplyDone
  BY <1>12 DEF ApplyDone, Outside, OthersKept, losses, plan
<1>13. CASE SaveMemberships
  BY <1>13 DEF SaveMemberships, StopMemberships, OthersKept, Records, MembershipsTypeOK, NoMemberships
<1>14. CASE SaveMembershipsConflict \/ CrashMemberships
  BY <1>14 DEF SaveMembershipsConflict, CrashMemberships, StopMemberships, OthersKept, Loses, NoMemberships
<1>15. CASE UNCHANGED mvars
  BY <1>15 DEF mvars, roleApi, worker, plan
<1>16. QED
  BY <1>2, <1>3, <1>4, <1>5, <1>6, <1>7, <1>8, <1>9, <1>10, <1>11, <1>12, <1>13, <1>14, <1>15
  DEF MembershipsNext, MembershipsController, MembershipsUsers

\* The inductive invariant holds throughout.
LEMMA MembershipIInvHolds == MembershipsSpec => []MembershipIInv
  BY MembershipInitIInv, MembershipNextIInv, PTL DEF MembershipsSpec

\* Between reconciles the status ledger lists every membership pgop granted and
\* did not let go, after any number of failed statements, edits and crashes, but
\* for those whose status update was lost: these are still wanted, so that the
\* next reconcile records them, or were taken away before it could:
\* reconcileMemberships, which records after it granted.
THEOREM MembershipsLedgerCovers == MembershipsSpec => []MembershipsInv
<1>1. MembershipIInv => MembershipsInv
  BY DEF MembershipIInv, MembershipsInv
<1>2. QED
  BY <1>1, MembershipIInvHolds, PTL

\* The step that UndeclaredKept allows.
KeepsUndeclared ==
  pc = "apply" /\ edits' = edits =>
    \A g \in Groups \ declared : current[g] # "none" => current'[g] = current[g]

\* pgop never changes a membership in a group no spec ever declared, whatever
\* edits, conflicts and crashes came before: diffMemberships, which revokes
\* from the ledger and not from what PostgreSQL has.
THEOREM UndeclaredLeftAlone == MembershipsSpec => UndeclaredKept
<1>1. MembershipIInv /\ [MembershipsNext]_mvars => [KeepsUndeclared]_mvars
  <2> SUFFICES ASSUME MembershipIInv, MembershipsNext PROVE KeepsUndeclared
    BY DEF KeepsUndeclared, mvars
  <2> USE DEF KeepsUndeclared
  <2>1. ASSUME NEW g \in Groups, Grant(g) \/ Strip(g) \/ Revoke(g) PROVE KeepsUndeclared
    BY <2>1 DEF Grant, Strip, Revoke, MembershipIInv, OnlyDeclared, MembershipsTypeOK
  <2>2. CASE MembershipsUsers
    <3>1. edits' # edits
      BY <2>2 DEF MembershipsUsers, Forbid, EditMembership, DriftMembership, SetRevokeRemoved, Edit,
                     MembershipIInv, MembershipsTypeOK
    <3>2. QED
      BY <3>1
  <2>3. CASE \/ BeginMemberships \/ Plan \/ ApplyDone \/ SaveMemberships \/ SaveMembershipsConflict
             \/ SyncMemberships \/ MembershipFails \/ CrashMemberships
    BY <2>3 DEF BeginMemberships, Plan, ApplyDone, SaveMemberships, SaveMembershipsConflict,
                   SyncMemberships, MembershipFails, CrashMemberships
  <2>4. QED
    BY <2>1, <2>2, <2>3 DEF MembershipsNext, MembershipsController
<1>2. QED
  BY <1>1, MembershipIInvHolds, PTL DEF MembershipsSpec, UndeclaredKept, KeepsUndeclared
=============================================================================
