# TLA+ models of pgop

pgop is a Kubernetes operator for PostgreSQL. Its controllers read resources
from informer caches, change PostgreSQL with SQL and Kubernetes with API calls,
and record what they did in the status of the resource. No transaction spans the
two sides: every reconcile can fail, crash, conflict or start from stale data
between any two of its calls. These modules model the parts of the operator whose
correctness depends on that, and check it.

## 1. Inventory

| Component (source under `src/internal/`) | State | Operations | Interacts with | Hard behaviour |
|---|---|---|---|---|
| Privilege grant engine (`controller/privilege_grants.go`, `grant_ledgers.go`, `grantee_policy.go`, `postgres/privileges.go`) | status ledgers, ACLs | plan, persist intent, GRANT, REVOKE, save | API server, PostgreSQL, DBAs, grantee policy | crash between the stores, lost status updates, ledger limit, cascades |
| Role passwords (`role_password.go`, `role_controller.go`) | Role status, credentials Secret, role in PostgreSQL | decide, confirm uncached, ALTER ROLE, write Secret, record | users who edit, rotate and withdraw; referenced Secrets | stale caches, retries, three stores that must agree |
| Role settings (`settings.go`, `role_settings.go`) | status ledger, `pg_db_role_setting` | set, reset, save | Database controller | applied before recorded; two controllers waiting for each other |
| Role memberships (`role_memberships.go`) | status ledger, `pg_auth_members` | plan, grant, strip ADMIN, revoke, save | Cluster policy, DBAs | applied before recorded |
| Role ownership (`role_controller.go`, `role_policy.go`, `marker_key.go`) | status.roleName/clusterUID, markers, key Secret, finalizer | check, create/alter, adopt, drop | other Roles of the name, Cluster editors, DBAs | lost keys, re-created Clusters, ties, deletion |
| Physical restores (`restore_physical.go`, `restore_controller.go`) | Restore status, Cluster annotations, Job, volumes | hold, stop, run Job, delete volumes, release, finalize | Cluster controller, Kubernetes, users | interlocks across two controllers, deletion at any time, retries |
| Cluster controller (`cluster_controller.go`) | Services, ConfigMaps, StatefulSet, status | ordered creation, pause, cleanup | all others | order of dependent objects |
| Replication (`replication.go`) | slots, standby volumes, replication role, markers | roll out the template, scale, create/drop slots, delete volumes, roll passwords out | PostgreSQL, StatefulSet, bootstrap scripts | slot against volume lifetime, lost volumes, one-at-a-time restarts |
| Parameters (`pgconfig.go`) | ConfigMap, `status.parametersHash`, restart annotation | render, check, reload, restart, clean up | kubelet, PostgreSQL, ALTER SYSTEM | files that arrive late, signals that are only sent, one reload and one restart per hash |
| TLS (`tls*.go`, `pgbackrest_tls.go`, `job_tls.go`) | CA and server Secrets, credentials Secret | plan, issue, roll over, probe, reload, restart, clean up | cert-manager, users, clients | rollover without losing trust, change of mode |
| Databases (`database_controller.go`, `database_grants.go`, `database_extensions.go`, `database_object_grants.go`) | database, marker, PUBLIC intent log, schemas, extensions | create, alter, revoke PUBLIC, install, drop | Roles, DBAs | three intent logs in one status, deletion order |
| Backups (`backup_*.go`, `backuprun_controller.go`, `archive_health.go`) | CronJobs, runs, WALArchiving condition | schedule, follow Jobs, record location, expire, report gaps | Kubernetes, the archiver, Restores | late results, a gap latch over two controllers |
| Logical restores (`restore_controller.go`) | Restore status, Job | create the Job, copy its status | Kubernetes | lost status update |
| Client, types, main (`postgres/client.go`, `api/`, `cmd/`) | none of their own | SQL, schemas, wiring | | |

What makes each component correct, and what in the code endangers it, is the list
"hazards" of `PROJECT.json`; every hazard names the line and the properties that
would catch it.

## 2. Modules

| Module | Models | Variables and what they are in the code |
|---|---|---|
| `PrivilegeLedger` | `applyPrivilegeGrants` and the status updates around it, for one resource | `spec`, `ledger`, `rv`: the resource; `cache`: the informer's copy; `refused`: `granteeChecker`; `held`, `passed`, `present`: ACLs, dependent grants, roles; `pc`, `want`, `tracked`, `plan`, `todo`: the reconcile's locals |
| `IntentLog` | abstract: an item is recorded before it is made and forgotten only when gone | `record`, `made` |
| `MCPrivilegeLedger` | the symmetry of an instance of `PrivilegeLedger` | |
| `RolePassword` | one LOGIN Role's password through PostgreSQL, Secret and status | `role`, `secret`, `refPw`, `conn`: API objects, each with a cache; `pgPw`: the role's password; `lrole`, `base`, `copy`, `dp`: locals |
| `TrackedSettings` | `applySettings` for Role settings, one database, `reconcileRoleSettings` | `spec`, `ledger`, `ready`; `refused`, `attrsOK`: rolePolicy; `inForce`, `dbUp`: PostgreSQL |
| `RoleMemberships` | `reconcileMemberships` | `spec`, `revokeRemoved`, `ledger`; `current`: PostgreSQL; `toGrant`, `toStrip`, `toRevoke`: the plan |
| `RoleOwnership` | create, adopt, alter and drop of one PostgreSQL name by several Roles | `res`: Roles; `cluster`, `key`, `adoptable`: the Cluster; `pg`: the role, its comment; `verdict`: `decideOwnership` |
| `Replication` | the replication part of the Cluster reconcile, the StatefulSet controller, the bootstrap scripts, the primary | `want`, `allow`, `secret`: Cluster and Secret; `sts`, `ro`, `marker`, `pod`, `vol`: Kubernetes; `rolepw`, `slot`, `stream`: the primary; `cl`, `sec`, `seen`, `known`, `kept`, `drops`: locals |
| `Parameters` | `pgconfig.go`, with the kubelet, the StatefulSet rollout and the servers | `cluster`, `cm`, `template`: API objects; `seen`, `done`: the StatefulSet's revisions; `pods`: mounted file, loaded values, pending restarts of each server; `altered`: postgresql.auto.conf; `l`, `todo`: locals; `covered`: observation only |
| `ServerTLS` | certificates of the server in all modes, CA rollover, credentials Secret | `ca`, `sec`, `cert`: Secrets and Certificate; `tmpl`, `pod`, `mount`: what is mounted and presented; `cred`, `client`: what clients are told and have read; `plan`, `mat`, `found`: locals |
| `DatabaseExtensions` | installing, updating and dropping one extension and its schema | `ext`, `where`, `needed`, `oids`: PostgreSQL; `st`, `w`: status and working copy |
| `Database` | one Database from creation to deletion, and a Role deleted beside it; extends `DatabaseExtensions` | `db`, `public`, `priv`, `app`: PostgreSQL; `life`, `fin`, `role`, `secret`: API objects; `decision`: the ownership check |
| `Backups` | Backup, BackupRun and the archive part of the Cluster controller | `cron`, `job`, `run`: Kubernetes; `drops`, `archiver`: the marker file and pg_stat_archiver; `health`: the WALArchiving condition and `lastWALDrop`; `status`: the Backup's |
| `PhysicalRestore` | Restore controller, the Cluster controller's pause, pods, Jobs, volumes | `res`, `cluster`, `jobs`: API objects; `rcache`, `ccache`, `pcache`: caches; `sts`, `pg`, `vol`, `writers`, `data`: the StatefulSet, its pods, the standby's volume, Job pods, the primary's data directory |
| `RoleStatus` | what `TrackedSettings` and `RoleMemberships` share | `spec`, `ledger`, `rv`: the Role; `cache`: the informer's copy; `pc`, `lrv`, `tracked`: locals; `ours`, `lost`, `taken`: observation only |
| `Faults` | what `Backups` and `PhysicalRestore` share | the bounds; `faults` counts what went wrong |
| `PrivilegeLedgerProofs`, `RoleStatusProofs`, `RoleOwnershipProofs`, `RolePasswordProofs`, `DatabaseProofs`, `ServerConfigProofs` (`Parameters`, `ServerTLS`), `ReplicationProofs`, `BackupRestoreProofs` (`Backups`, `PhysicalRestore`) | theorems about the modules each extends (section 4) | |

One action is one stretch of a reconcile between two points where something else
can happen: an API write, an SQL statement, an uncached read. Actions named
`Fail`, `Crash`, `...Fails` are an error return or the end of the process;
`...Conflict` is an optimistic lock that refuses a write. `...Sync` is an informer
catching up. Variables described as "observation only" are read by properties and
by no action's guard. Definitions introduced as mutants (`...NoWait`, `...Keeps`)
are plausible mistakes in the definition that follows them; no specification uses
them, and each shows that a property can fail.

Data is abstracted to what properties tell apart: a privilege, a setting, a group
is a model value; a fingerprint is the password it was computed from; a signed
marker is the pair of the Role it names and the key; a resourceVersion is a number
or, in `RoleOwnership` and `PhysicalRestore`, the fact that a copy is still
`current`.

Each module states what it leaves out:

* `PrivilegeLedger`: one resource at a time; the statements that read ACLs are
  atomic per target. `RacyDBA` says whether a DBA may act between such a read and
  the GRANT planned from it.
* `RolePassword`: NOLOGIN Roles and Database credentials Secrets are left out.
  `patient`, chosen once in `Init`, says of a behaviour that users wait for a
  change before they take it back and supply usable passwords, that the role is not
  lost and that no rotation interval passes; only `InStep` asks for it.
* `TrackedSettings`, `RoleMemberships`: nothing is assumed of users or of status
  updates. `lost` remembers what a lost status update would have recorded, `taken`
  what was removed from the spec or refused before it was recorded; an entry that is
  in both is never reset (section 3), and the ledger misses no others.
* `RoleOwnership`: Cluster and key are read without lag and change between
  reconciles; Roles can log in, so a credentials Secret is always written; the
  REVOKE and REASSIGN statements before DROP ROLE are one step that may fail; a
  role is known by its name, so a DBA who replaces a role between the check and the
  statement is not seen.
* `PhysicalRestore`: deletion of the Cluster and retries within a Job are left
  out; one standby stands for all; `Lag` lets reconciles start from stale caches,
  `Overlap` lets the two controllers interleave, `Manual` lets users delete Jobs
  and lift an interruption, `Reappear` lets a BackupRun or Backup that was gone be
  there again.
* `Replication`: the writes of the replication role and of the generated password,
  the standbys' certificates and a mirrored condition are left out; a data
  directory is empty, able to catch up or too far behind. `Early` lets the password
  change before its first fingerprint was recorded. Users scale the StatefulSet by
  hand down, and up again as far as the running reconcile wants it and once the
  replication template is rolled out (`ManualScale`). Without the first condition TLC
  refutes `UsedVolumesKept` (2 edits, no fault): the StatefulSet is scaled up,
  and a pod starts on the volume, while a reconcile that wants fewer is between its
  list of the pods and the deletion of volumes. Without the second it refutes
  `ReplicationSettles`: the first standby waits for a primary whose update waits for
  the standby, and the operator does not take the number back.
* `Parameters`: rendering and escaping, reserved and duplicate names,
  `status.pendingRestart` and a ConfigMap of someone else are left out; a value with
  a line break is a member of `Refused`. Two parameters stand for all: one that a
  reload changes, one that a restart changes. `Reverts` lets users return to a
  configuration they gave up.
* `ServerTLS`: a certificate is its CA and its expiry; the certificates of
  pgBackRest, of Jobs and of standbys, planned by the same function, are left out.
  In a unit of time the operator, the kubelet and the clients do their work, and one
  unit may be missed; `smooth` says that no user changed anything since they last
  did, which the properties about rotation ask for.
* `Database`, `DatabaseExtensions`: one privilege of PUBLIC, one grantee, one
  extension in two versions, a trusted and an untrusted one. Its target schema is
  named in the spec; `extensionSchemaProblem` tells apart whether it is a superuser's,
  the database owner's (`public`, or managed by the Database) or open to another role.
  Roles outside pgop create, open, close, give away and drop it between any of the
  steps that notice it, except that superusers leave a schema of theirs as it is. The code does not check again
  what the database owner does with a schema between the check and the script of a
  trusted extension (`database_extensions.go:470`, `:549`): such a schema may be open
  by then, and `ScriptInCheckedSchema` says so. ALTER EXTENSION names the extension
  only, so an installation that someone put elsewhere meanwhile is not counted. Changes from outside happen between
  reconciles or at the steps where they can be noticed (`At`): elsewhere they
  commute with the steps of the reconcile. The grant engine is one step here
  (`PrivilegeLedger` has its steps). Reserved and duplicate names, adoption lists,
  databases that refuse connections, Database settings and the resolution of object
  grants are left out.
* `Backups`: a pass of the BackupRun controller is one step, because its status
  write carries the version it read; passes that change nothing are left out; an
  outage of the archive lasts until a segment is dropped. Logical backups, the
  suspend flag, several Backups of a Cluster, the deletion of a Backup and the
  condition mirrored from the Cluster are left out.

## 3. Runs

| Run | Question | Bounds and why they suffice |
|---|---|---|
| `grants` | does the status ledger implement the intent log and stay within its limit, does no REVOKE cascade to foreign grants, do the grants converge? | 2 targets and room for one entry, so every second entry is over the limit; 1 privilege, plain or with option; 2 edits (declare, remove), 1 fault, 2 DBA statements (grant, pass on) |
| `password` | is no bad password set, every rotation accounted for, no replaced password set again; do PostgreSQL and Secret end in step? | 2 user passwords, one unusable; 2 edits, one stale cache, one tick of the rotation interval, one fault; with and without `patient` |
| `settings` | does the ledger cover what pgop stored, but for lost status updates that the next reconcile makes good; do settings and Database not wait for each other; do the stored settings converge? | one global name and one in the database, any initial spec; 3 edits (add, remove while the reconcile runs, and a policy change, drift or dropped database), 1 failing statement or crash |
| `memberships` | does the ledger cover what pgop granted, but for lost status updates that the next reconcile makes good; are undeclared memberships kept, do declared ones converge? | 2 groups, 4 edits, so one declared membership can be removed, forbidden or re-declared while its status update conflicts; 2 failing statements or crashes |
| `ownership` | are foreign roles untouched, is a role dropped only by its manager, do deletions complete, do recorded roles end Ready? | 2 Roles of one name, re-created Roles, Clusters and keys, 2 edits, 1 fault |
| `restore_safe` | do pods never run next to a Job, on a partial directory, with an old standby volume; is a Job created only while its Restore holds the Cluster? | 1 name, 6 user actions (create, confirm, delete, and again), 2 faults |
| `restore_live` | do Restores conclude and does the Cluster start? | 2 Restores that wait for each other, the two controllers interleaved, Jobs deleted and interruptions lifted by hand, a lost backup that comes back, 4 user actions, 1 fault |
| `replication` | does a slot live as long as the volume that needs it, is a volume in use kept, is an empty primary refused, do scaling and password rollouts end? | 2 standbys, so one is scaled away while the other stays and a rollout has a next one; one change by a user and one fault at any moment |
| `parameters` | does Applied mean in effect, does the ConfigMap outlive its mounts, is there no restart onto a rejected file, does the last configuration settle? | a good value, one the server rejects and one pgop refuses for each of two parameters; 2 edits (set, then change or remove), 1 trouble; a primary and a standby, whose files arrive at different times |
| `tls` | do clients verify the server through renewals and a rollover, is no mounted Secret removed, does a rotation only reload, does the server end with the current certificate? | a policy with the order of the default one in the smallest numbers its assumptions allow, time enough for both steps of a rollover; one change by a user, one fault |
| `database` | are PUBLIC's defaults recorded and restored, do untrusted scripts run in superusers' schemas and trusted ones in checked schemas, is only pgop's own dropped, do deletions, removals and creations end? | 2 edits (remove and delete, or delete the Role too), 1 change in PostgreSQL (enough to create, open or replace the schema once between a check and the script), 1 fault |
| `backups` | does a run tell its Job's outcome once, is a gap reported until a later backup, does the status settle? | one Job with one retry, two dropped segments (before and during it), one edit, one fault |

Where a run asks several related questions they are one property that names its
parts: `PasswordInv`, `SettingsInv`, `MembershipsInv`, `RestoreInv`,
`ReplicationInv`, `ParametersInv`, `TLSInv`, `DatabaseInv` and `BackupsInv` are the
type invariant and the state invariants of a module, `SettingsConverge`,
`MembershipsSettle`, `RolesSettle`, `RestoresSettle`, `DatabaseSettles` and
`RunsSettle` what holds once changes stop. Such a property has a mutant for each of
its parts.

Deadlock is checked in `grants`, `password`, `settings`, `memberships` and
`parameters`; it is not where the system may rest: with the changes used up and
everything in place there is nothing left to do.

### Where the code and its documentation disagree

Each property here is one of its module; TLC refutes it with the constants named.
The passing runs leave these behaviours out, by a constant or in the property
itself.

| Property (module) | Constants | Line, and what it contradicts |
|---|---|---|
| `OutsideGrantsKept` (`PrivilegeLedger`) | those of `grants` | `privilege_grants.go:298`: the intent of a GRANT that failed claims a grant someone else makes later; lines 44-45 say such a grant is never revoked |
| `LedgerCoversGrants` (`PrivilegeLedger`) | `grants` with `RacyDBA = TRUE` | `privilege_grants.go:342`: a DBA revokes between the read of the ACL and the GRANT of an option; lines 240-243 |
| `InStep` (`RolePassword`), without its first disjunct | those of `password` | `role_controller.go:214`: a rotation request is withdrawn after ALTER ROLE succeeded and the Secret write failed, and the Secret keeps the old password; `roles.md:907-908`. `role_password.go:307`: a role lost in PostgreSQL is made again with the password of a lagging Secret cache; `roles.md:829-832` |
| `EditsKept` (`RolePassword`) | those of `password` | `role_controller.go:797`: a retry overwrites a second edit; `roles.md:837` |
| `RemovedSettingsReset` (`TrackedSettings`) | those of `settings` | `settings.go:116`: the entry is removed while the reconcile that applied it runs; the status update conflicts and the setting is never reset; `roles.md:452-455` |
| `RemovedMembershipsRevoked` (`RoleMemberships`) | those of `memberships` | `role_memberships.go:144`: the same for a membership; `roles.md:301-302` |
| `NotManagedMeansForeign` (`RoleOwnership`) | those of `ownership` | `role_controller.go:205`: `status.roleName` is lost with the status update; `access-patterns.md:641` |
| `DropWithoutKey` (`RoleOwnership`) | 1 Role, 3 edits | `role_policy.go:109`: without a key a signed marker is not recognised; `role_controller.go:379-383` |
| `RecordedRoleDropped` (`RoleOwnership`) | `ownership` with 3 edits | `role_controller.go:684`: ties of the creation second; `roles.md:513` |
| `OneWriter` (`PhysicalRestore`) | `restore_safe` with 2 Restores, 5 edits, no fault | `restore_physical.go:556`: a running Restore is deleted and the Cluster is free for a second one before the first one's Job has stopped; `restores.md:212-214` |
| `NeverBoth` (`PhysicalRestore`) | `restore_safe` with `Overlap = TRUE` | `restore_physical.go:641`: a Cluster reconcile that read the Cluster before it was held scales up afterwards; lines 226-228 |
| `NeverBoth` (`PhysicalRestore`) | `restore_safe` with `Lag = TRUE` | `restore_physical.go:173`: the hold is recognised by name in a stale Cluster; `restores.md:251` |
| `NeverBoth` (`PhysicalRestore`) | `restore_safe` with `Reappear = TRUE`, 4 edits, 1 fault | `restore_physical.go:430`: with the name of the Job recorded, a BackupRun that is gone makes the Restore release the Cluster; the status update is lost, the BackupRun is there again, and the Job is created while the Cluster starts; lines 226-228 |
| `NeverBoth` (`PhysicalRestore`) | `restore_safe` with `Manual = TRUE`, 4 edits | `restore_physical.go:556`: a Job or an annotation that somebody removes lets the Cluster start, or the Job be created again, at the wrong moment; lines 226-228 |
| `JobConfirmed` (`PhysicalRestore`) | `restore_safe` with `Manual = TRUE`, 5 edits, 1 fault | `restore_physical.go:266`: a Job failed and the Cluster was released, the status update conflicts, the Job is deleted by hand, and it is created again without a look at the annotation that holds the Cluster; lines 226-228 |
| `ClusterStarts` (`PhysicalRestore`) | `RestoreFairSpec`, `Lag = TRUE`, 1 Restore, 4 edits, no fault | `restore_physical.go:182`: a stale copy of a failed Restore holds the Cluster again; `restores.md:248-250` |
| `FreshVolumesKept` (`PhysicalRestore`) | those of `restore_safe` | `restore_physical.go:472`: run again after the release, it deletes new volumes; `restores.md:204-206` |
| `DeletionStarts` (`PhysicalRestore`) | `RestoreFairSpec`, 1 Restore, 3 edits, 1 fault | `restore_physical.go:522`: a failed Restore that is deleted leaves the Cluster stopped; lines 61-62 |
| `OneAtATime` (`Replication`) | those of `replication` | `replication.go:1179`: a standby that is still terminating is not waited for, so the next one is deleted beside it; `replication.md:286-290` |
| `ReplicationSettles` (`Replication`) | `replication` with `Early = TRUE` | `replication.go:1149`: a password edited before its first fingerprint is recorded starts no rollout; `replication.md:286` |
| `AppliedInEffect` (`Parameters`) | `parameters` with `Reverts = TRUE` | `pgconfig.go:420`: from A to B and back while `status.parametersHash` is still A; the server loaded B through a pod restart or a reload for another reason, no reload follows and the condition says Applied; `clusters.md:131` |

Disagreements that properties except in their statement, each seen as a
counterexample while the property was being formulated:

* `Parameters`: a configuration has one restart (`pgconfig.go:549`), so a restart
  that ALTER SYSTEM makes necessary stays pending although `clusters.md:135` says
  "the pod is being restarted". A bad value for a parameter that already waits for
  a restart is not reported (`pgconfig.go:305`), and the pod is restarted onto it,
  although `clusters.md:136` says nothing is restarted until it is fixed. A bad value
  that ALTER SYSTEM overrides is not reported either; a restart is decided on it, and
  the override may be the last thing that keeps the file from being rejected
  (`covered` remembers which parameters were overridden when or after the restart
  was decided). While a signalled reload is not done, or before the pod with the
  generated file has replaced the one without, the condition may already say Applied.
* `Database`: when the spec both revoked a privilege from PUBLIC and granted it, the
  default may be lost after both are removed (`database_grants.go:352`, `mixed`). If
  the operator stops, or its update conflicts, after CREATE DATABASE
  (`database_controller.go:398`), the Database reports DatabaseNotManaged for good.
  An extension whose OID was not saved is not taken for pgop's
  (`database_extensions.go:180`), so it stays when it leaves the spec, although the
  comment at line 538 says that the record keeps pgop from forgetting it. Schemas
  are recorded by name only.
* `Backups`: a run is Failed after the first failed attempt
  (`backuprun_controller.go:156`) although its Job may still succeed; a failed Job has
  no completion time, so its expired run is made again (`backup_physical.go:285`). A
  Backup that becomes invalid keeps the condition mirrored from the Cluster.
* `RolePassword`: a rotation request is recorded in a status update that may
  conflict (`role_password.go:368`), and is acted on again then, although
  `roles.md:927` says once; `RotationsAccounted` counts only rotations whose record
  was not lost.
* Logical restores, read and not modelled: a Job that was created before its name
  was saved is not found again, so the Restore retries into AlreadyExists, and after
  the Job's TTL into a second Job.

`restore_safe` has one Restore name, because two Restores can write at once and the
Cluster can then start under the first one's Job; it has no `Lag`, `Overlap`,
`Manual` or `Reappear`, because each of them alone lets a pod start beside a Job.
`restore_live` has all of them but `Lag`. `RestoresConclude` excepts a Restore that waits for a volume deleted under
running pods, the consequence of `FreshVolumesKept` failing: such a Restore waits
until a pod restarts.

### Fairness

Weak fairness of the steps of a reconcile: a started reconcile goes on (or fails,
which is bounded). Fairness of the start of a reconcile, strong where several
resources share a worker: the work queue is FIFO and every event, error and
requeue puts a resource back. Weak fairness of the caches: informers catch up.
For restores also of Kubernetes: pods start and stop, Jobs end, deleted objects
go. In `Replication`, `ServerTLS` and `Parameters` also of the StatefulSet
controller, the kubelet, cert-manager and signalled servers; nothing is assumed of
the rollout's timeout. In `Backups` nothing is assumed of Jobs or of the clock: an
outcome is asked for only where a Job has one. Nothing is assumed of users and
DBAs.

## 4. Proofs

Every theorem holds for every value of the constants that satisfies the named
assumptions of its module: any (finite, where a cardinality is counted) set of
targets, groups, settings, Roles, parameters, pods or standbys, and any bound on
edits and faults. Six theorems have a further hypothesis, `RacyDBA = FALSE`,
`Reverts = FALSE` or `Undisturbed`; TLC shows each of them, and each part of the last
one, to be necessary (section 3). So it does for each part of the assumption on the
rotation policy.

| Module | Theorems | Statement |
|---|---|---|
| `PrivilegeLedgerProofs` | `TypeCorrect`, `LedgerLimited` | `Spec => []TypeOK`, `Spec => []LedgerWithinLimit` |
| | `LedgerCovers`, `LedgerImplementsLog` | `RacyDBA = FALSE` implies `Spec => []LedgerCoversGrants` and `Spec => ImplementsIntentLog` |
| | `CascadesOwn` | `Spec => NoForeignCascade` |
| `RoleStatusProofs` | `SettingsLedgerCovers` | `Spec => []SettingsInv` |
| | `MembershipsLedgerCovers`, `UndeclaredLeftAlone` | `MembershipsSpec => []MembershipsInv`, `MembershipsSpec => UndeclaredKept` |
| `RoleOwnershipProofs` | `TypeCorrect`, `ForeignLeftAlone`, `DropsOwn` | `Spec => []TypeOK`, `Spec => ForeignUntouched`, `Spec => DroppedByManager` |
| `RolePasswordProofs` | `PasswordSound`, `PasswordNeverRollsBack` | `Spec => []PasswordInv`, `Spec => NeverRollsBack` |
| `DatabaseProofs` | `RevokedIsRecorded`, `ScriptsInCheckedSchema`, `DropsOwn` | `Spec => []DatabaseInv`, `Spec => ScriptInCheckedSchema`, `Spec => OnlyOwnDropped` |
| `ServerConfigProofs` | `MountsExist`, `RestartsSafe` | `Spec => []ParametersInv`, `Spec => RestartsOntoValidFile` |
| | `AppliedIsInEffect` | `Reverts = FALSE` implies `Spec => []AppliedInEffect` |
| | `SecretsHoldTogether`, `ClientsAlwaysVerify`, `RotationsReload` | `TLSSpec => []TLSInv`, `TLSSpec => []ClientsVerify`, `TLSSpec => RotationReloads` |
| `ReplicationProofs` | `ReplicationSound`, `VolumesInUseKept`, `PrimaryNotEmptied` | `Spec => []ReplicationInv`, `Spec => UsedVolumesKept`, `Spec => NoEmptyPrimary` |
| `BackupRestoreProofs` | `NoGapHidden`, `ExpiredStaysDeleted` | `Spec => []BackupsInv`, `Spec => NotRecreated` |
| | `RestoreTypes` | `RestoreSpec => []RestoreTypeOK` |
| | `NeverBothRunning`, `OnlyFitVolumes`, `JobsConfirmed` | `Undisturbed` implies `RestoreSpec => []NeverBoth`, `RestoreSpec => []RestoreInv` and `RestoreSpec => JobConfirmed` |

None of the invariants is inductive as it stands: each speaks of what is durable,
while a reconcile acts on copies, plans and verdicts. The strengthening says what
those copies may be. In every module it is called `IInv` (`RoomInv` for the limit of
the ledger; `RestoreIInv`, `TLSIInv` and `MembershipIInv` where a module of proofs has
two), and its proof has one step per action; those of the larger modules were
model-checked before they were proved.

**Grants.** `LedgerCoversGrants` speaks of the ledger in the API server, GRANTs are
made from the reconcile's copy. `IInv` adds: a copy whose version is current equals
the ledger's content or extends it (`Versions`); that copy covers what was granted
(`TrackedCovers`); planned grants are in the durable ledger before the first GRANT
(`PlanRecorded`); options are planned only for privileges that are held or planned
(`OptionsPlanned`); targets not yet read have no plan (`UnreadUnplanned`); a dropped
grantee holds nothing (`GoneHoldsNothing`). The refinement uses the same invariant:
the first status write of a reconcile is an `Announce` of the log, the last one a
`Forget`, a GRANT is a `Make` of what was announced, a REVOKE, a DBA's too, a
`Withdraw`, and every other step stutters. With
`RacyDBA = TRUE` TLC refutes both. `LedgerWithinLimit`: the code counts once, when
the reconcile starts, and writes twice later. `RoomInv` adds that everything the
reconcile may still record (`Reserved`: its tracked entries, its plan and the targets
it has yet to plan) fits; `BeginRoom` shows that the count establishes it,
`ReservedShrinks` that no later step adds to it.

**Settings and memberships** are recorded after they were applied, so between the
statement and the status update the ledger is behind, and a status update may
conflict. `RunCovers`: what the ledger misses is in the working copy or was lost
before, and a status update that will not conflict forgets nothing that is recorded;
this needs that the copy which a reconcile starts from is the Role, if their
versions agree (`CacheFollows`). `SettingsWanted` and `MembershipsWanted`: what the
ledger misses is still declared and allowed or was taken away, in the cache and in
the running reconcile as in PostgreSQL, so the next reconcile records it. `PlanScope` of `RoleMemberships` says
at which steps there is a plan, `OnlyDeclared` that what is planned or recorded was
declared once.

**Ownership.** `MarkerNamesManager`: a marker names the Role that managed the role
last. `RecordNamesManager`: where the comment tells nothing, only that Role's status
records the role, in the API server, the cache and the worker's copy; this needs that
no status records a Cluster which does not exist yet (`RecordsBounded`).
`VerdictStands` and `DropJustified` carry the verdict to the statement it leads to.

**Passwords.** A resource version stands for one content of the Secret
(`SecretVersions`) and of the Role (`RoleVersions`), generated passwords are numbered
in the order they are made (`Numbered`), a fingerprint belongs to a usable password
(`Fingerprints`, `UsableRecords`), and what a decision says about its password
(`Chosen`) holds at each later step although Secret and Role move on. `Counted` and
`Accounted` say which rotations the status accounts for.

**Databases.** `RevokedSaved` and `CopyKnows`: what the working copy says was revoked
is in the status, which the finalizer keeps; `DecisionRecorded`: going on with an
existing database rests on the recorded name; `MixedKnown` delimits the exempt case.
For extensions: a recorded OID is that of an installation of pgop or of one that is
gone (`OidsOwn`); and from the check to the script a schema that was found a superuser's
stays so, and one that did not pass the rules for its version stops the reconcile
(`SchemaChecked`), which makes the strict rules hold at the script itself and the
others at the check.

**Parameters.** `SafeInv`: the ConfigMap is the one the running reconcile wrote
(`ConfigMapWritten`), a server that mounts the file has one (`FileMounted`), and from
the decision to the restart nothing invalidates the assessment (`RestartAssessed`).
`EffectInv` adds that a configuration whose reload was recorded is served
(`ReloadedServed`), which fails exactly when users return to a configuration they
gave up while its hash is still recorded. The first attempt at these proofs showed
that both properties needed their exceptions stated: see `Parameters` in section 3.

**Replication.** `Scaled`: after the StatefulSet was written no pod is created that
the reconcile does not want, so what it listed of the pods (`SeenGone`) and of the
volumes (`KeptThere`) of unwanted standbys stays true until it deletes volumes and
drops slots. `Untouched`: until the marker is set or the guard lifted there are no
slots, hence no cloned data, except the volume of a predecessor before the first
reconcile; `Waived`: the guard is lifted while the annotation is set, in the Cluster
or in the reconcile's copy. Together they make the marker enough for
`NoEmptyPrimary`. Nothing is assumed about `Early`, which only liveness depends on.

**TLS.** `Sound` holds whatever users do: certificates stay with the mode they were
made for (`Origins`), a CA is prepared at the earliest `CAPrepareBefore` the active one
ends (`CAOrder`), the Secret a reconcile has loaded outlives its switch and its
clean-up (`Kept`). `Bridged` is the argument about time. Between two moments at which
everybody was done there is a `Window`: the time t, the active CA a and the prepared
CA n of the earlier moment. At most two units have passed (`Span`); every certificate
that is stored, planned, mounted or presented is signed by a or n and lasts beyond
those units (`Signed`); every bundle that is stored, planned or given to clients has
both (`Trusts`); and if a is due for the switch, n was prepared and is next
(`Rolling`). So whichever certificate the pod presents, and whichever bundle the client
read, they fit. `RollingPlan` is the lemma about `planSelfManagedTLS` on which this
rests: in a window it signs with a or n and drops neither. It needs two units between
preparing a CA and the switch, between the switch and the end of the CA, and between
the renewal and the end of a certificate, and a CA that lives two units longer than
the time before its end at which the next one is prepared. `PolicyAssumption` says just
that, and without any one of these TLC refutes `ClientsVerify`; the default policy
meets it for units of up to 15 days.

**Backups.** `GapReported` compares a dropped segment with what a later backup covers,
and the condition is cleared by the start time of a run. The invariant says that times
are of the past and agree between a Job and its run (`JobTimes`, `RunAgrees`), that
segments are dropped in the order of time (`DropsInOrder`), and what an attempt that may
succeed, a successful run and a closed gap cover (`JobCovers`, `RunCovers`,
`ClosedCovers`). The latest of a set of times exists by the well-foundedness of the
natural numbers, from the library's theorems.

**Restores.** `RestoreTypes` needs no hypothesis: caches may lag, the controllers
interleave, users delete what they like. The others are about a Restore that is
`Undisturbed`: one Restore name (it may be deleted and created again), no `Lag`,
`Overlap`, `Manual` or `Reappear`. `RestoreIInv` relates the Restore, its Job, the
annotations and the pods: who is who (`Idents`), what the reconcile's copy may miss
(`Twin`), what both controllers may rely on because they take turns (`Interlock`), that
a writing pod belongs to the Restore's active Job and the Cluster is down and paused
(`OneJob`), what a Job and a phase say of each other (`JobPhase`), that the Cluster is
held from the recording of the Job's name to its creation (`Announced`), that what led
to an outcome still holds when it is written (`Finishing`) and that the Cluster's record
precedes the Restore's (`Recording`), and where a partial data directory or an old
volume may exist (`Unfit`). There is one lemma for each action.

Only model-checked:

* every liveness property (`GrantsConverge`, `InStep`, `SettingsConverge`,
  `MembershipsSettle` except `UndeclaredKept`, `RolesSettle`, `RestoresSettle`,
  `ReplicationSettles`, `ParametersSettle`, `TLSConverges`, `DatabaseSettles`,
  `RunsSettle` except `NotRecreated`, `GapCloses`): liveness under fairness is
  outside the proof system's reach.

Every safety property of every run is proved. The safety of restores is claimed for
`Undisturbed` ones only: outside it TLC refutes it (section 3).

## 5. Plan

Done: all modules of section 2, their runs, and the proofs of section 4.

Next: the certificates of pgBackRest and of Jobs with `ServerTLS`'s plan; the grants of
schemas and objects in `Database`; logical restores.

### Not modelled

What holds no state of its own or is not pgop's: SQL quoting and DSN building, pod
templates and paths, certificate encoding, SCRAM, cloning and streaming inside
PostgreSQL, pgBackRest itself, Helm charts and manifests, flags and manager set-up.
Logical restores and logical backups copy the status of one Job. Parameter, schema,
object and extension grants call the grant engine that `PrivilegeLedger` models; the
resolution of their targets to objects is not modelled. The steps of one Cluster
reconcile are spread over the modules of the parts they serve and are not composed:
the product of their states is out of TLC's reach.
