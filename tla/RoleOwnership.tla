--------------------------- MODULE RoleOwnership ---------------------------
(***************************************************************************)
(* Which PostgreSQL role a Role may create, alter and drop: the Roles of a *)
(* Cluster that resolve to one PostgreSQL name, the status that records    *)
(* it, the finalizer, the signed marker in the role's comment and its key, *)
(* the Cluster with its UID and its list of adoptable roles, and the       *)
(* single worker that reconciles the Roles one after the other, next to    *)
(* users, Cluster editors and DBAs.                                        *)
(*                                                                         *)
(* Role resources are numbered in the order of their names.  Creation      *)
(* times have the resolution of clock, so two Roles can share one.         *)
(***************************************************************************)
EXTENDS Naturals

CONSTANTS Roles,      \* Role resources with the same PostgreSQL name
          MaxEdits,   \* bound on what users, editors and DBAs do
          MaxTicks,   \* bound on the clock
          MaxFaults   \* bound on failing calls and crashes

ASSUME RolesAssumption == Roles \subseteq Nat \ {0}
ASSUME BoundsAssumption == MaxEdits \in Nat /\ MaxTicks \in Nat /\ MaxFaults \in Nat

VARIABLES
  \* API server: the Roles, the last UID given out, and the Roles that control
  \* a credentials Secret for the Cluster.
  res, uids, secrets,
  \* The informer cache of the Roles, and those it is behind on.
  cache, behind,
  \* The Cluster: its UID (0: there is none), the last one, its marker key (0:
  \* no Secret), the last key, whether the name is in adoptableRoles.
  cluster, clusters, key, keys, adoptable,
  \* PostgreSQL: the role of the name.
  pg,
  clock,
  \* The worker: control state, Role it reconciles, its copy, is that still the
  \* version in the API server, the verdict on the role with the key it was made
  \* with, and the state to report.
  pc, me, copy, current, verdict, lkey, outcome,
  edits, faults

roles == <<res, uids, secrets, cache, behind>>
cl    == <<cluster, clusters, key, keys, adoptable>>
local == <<pc, me, copy, current, verdict, lkey, outcome>>
vars  == <<roles, cl, pg, clock, local, edits, faults>>

Legacy == 1

\* A Role: UID, creation time, deletionTimestamp set, finalizer set;
\* status.roleName with the clusterUID it was recorded for (0: nothing; Legacy:
\* by an earlier pgop, without a clusterUID),
\* and the Available condition.
States == {"new", "ready", "duplicate", "notManaged", "refused", "error", "blocked"}
Resources == [uid : Nat, at : Nat, deleting : BOOLEAN, fin : BOOLEAN,
              rec : Nat, state : States]
Absent == [uid |-> 0, at |-> 0, deleting |-> FALSE, fin |-> FALSE,
           rec |-> 0, state |-> "new"]

\* The comment of a role: the Role a marker names and the key that signed it.
Comments == [by : Roles \cup {0}, key : Nat]
Unmarked == [by |-> 0, key |-> 0]
Unrelated == [by |-> 0, key |-> 1]
V1Marker(r) == [by |-> r, key |-> 0]
Marker(r, k) == [by |-> r, key |-> k]

\* A PostgreSQL role: who created it, its comment, whether something depends
\* on it, whether adopting it is against the policy (a superuser, ...).
\* Observation only: the Role that last created, altered or adopted it, and
\* the UID of that Role.
PgRoles == [maker : {"none", "dba", "pgop"}, comment : Comments, needed : BOOLEAN,
            unfit : BOOLEAN, by : Roles \cup {0}, uid : Nat]
NoPg == [maker |-> "none", comment |-> Unmarked, needed |-> FALSE, unfit |-> FALSE, by |-> 0, uid |-> 0]

Exists(r) == res[r] # Absent
PgExists == pg.maker # "none"

Verdicts == {"none", "absent", "owned", "remark", "adoptable", "notOwned"}

TypeOK ==
  /\ res \in [Roles -> Resources] /\ cache \in [Roles -> Resources] /\ behind \subseteq Roles
  /\ uids \in Nat /\ secrets \subseteq Roles /\ cluster \in Nat /\ clusters \in Nat /\ key \in Nat /\ keys \in Nat /\ adoptable \in BOOLEAN
  /\ pg \in PgRoles /\ clock \in 0..MaxTicks
  /\ pc \in {"idle", "addfin", "own", "apply", "save", "dropcheck", "drop", "finalize"}
  /\ me \in Roles \cup {0} /\ copy \in Resources /\ current \in BOOLEAN
  /\ verdict \in Verdicts /\ lkey \in Nat /\ outcome \in States
  /\ edits \in 0..MaxEdits /\ faults \in 0..MaxFaults
  /\ \A r \in Roles \ behind : cache[r] = res[r]
  /\ current /\ pc # "idle" => Exists(me) /\ copy.uid = res[me].uid

\* A new Cluster; or one an earlier pgop managed a Role on, that recorded no
\* clusterUID and left its role unmarked or with an unsigned marker.
Init ==
  /\ \/ res = [r \in Roles |-> Absent] /\ uids = 0 /\ secrets = {} /\ pg = NoPg
     \/ \E r \in Roles : \E s \in SUBSET {r}, c \in {Unmarked, V1Marker(r)} :
          /\ res = [x \in Roles |-> IF x # r THEN Absent
                                    ELSE [Absent EXCEPT !.uid = 1, !.fin = TRUE, !.rec = Legacy,
                                                        !.state = "ready"]]
          /\ uids = 1 /\ secrets = s
          /\ pg = [NoPg EXCEPT !.maker = "pgop", !.comment = c, !.by = r, !.uid = 1]
  /\ cache = res /\ behind = {}
  /\ cluster = 2 /\ clusters = 2 /\ key = 1 /\ keys = 1 /\ adoptable = FALSE
  /\ clock = 0
  /\ pc = "idle" /\ me = 0 /\ copy = Absent /\ current = FALSE /\ verdict = "none" /\ lkey = 0 /\ outcome = "new"
  /\ edits = 0 /\ faults = 0

-----------------------------------------------------------------------------
(* Ownership. *)

\* Mutant of Recorded: the Cluster's UID is not compared.
RecordedAnywhere(r, c) == c.rec # 0

\* roleRecorded: the status records the role on this Cluster; without a
\* clusterUID the Role's credentials Secret has to prove it.
Recorded(r, c) == IF c.rec = Legacy THEN r \in secrets ELSE c.rec # 0 /\ c.rec = cluster

\* verify, otherKeyMarker and refreshableComment of a signer with the key k (0:
\* a signer without a key).
Verifies(c, r, k) == k # 0 /\ c = Marker(r, k)
OtherKey(c, r, k) == c.by = r /\ c.key # 0 /\ c.key # k
Refreshable(c, r, k) == c = Unmarked \/ c = V1Marker(r) \/ OtherKey(c, r, k)

\* Mutant of Decide: a marker signed with a lost key is not refreshed.
DecideKeyLost(r, k, recorded, allowed) ==
  IF ~PgExists THEN "absent"
  ELSE IF recorded /\ Verifies(pg.comment, r, k) THEN "owned"
  ELSE IF recorded /\ pg.comment \in {Unmarked, V1Marker(r)} THEN "remark"
  ELSE IF allowed THEN "adoptable" ELSE "notOwned"

\* decideOwnership.
Decide(r, k, recorded, allowed) ==
  IF ~PgExists THEN "absent"
  ELSE IF recorded /\ Verifies(pg.comment, r, k) THEN "owned"
  ELSE IF recorded /\ Refreshable(pg.comment, r, k) THEN "remark"
  ELSE IF allowed THEN "adoptable" ELSE "notOwned"

\* createdBefore, on two Roles of the map m.
CreatedBefore(m, a, b) == m[a].at < m[b].at \/ (m[a].at = m[b].at /\ a < b)

\* checkRoleName: an older Role of the cached list has the name.
Duplicate(r) == \E o \in Roles \ {r} : cache[o] # Absent /\ CreatedBefore(cache, o, r)

-----------------------------------------------------------------------------
(* Users, Cluster editors, DBAs, the Cluster controller, the cache. *)

Edit == edits < MaxEdits /\ edits' = edits + 1

\* A write of a Role: the cache is behind, and so is the copy of a worker that
\* did not write it.  The Secret goes with its Role.
WriteRole(r, c) ==
  /\ res' = [res EXCEPT ![r] = c] /\ behind' = behind \cup {r}
  /\ secrets' = IF c = Absent THEN secrets \ {r} ELSE secrets
  /\ UNCHANGED cache
UserWrites(r, c) ==
  /\ Edit /\ WriteRole(r, c) /\ current' = (current /\ r # me)
  /\ UNCHANGED <<cl, pg, clock, pc, me, copy, verdict, lkey, outcome, faults>>

CreateResource(r) ==
  /\ ~Exists(r) /\ UserWrites(r, [Absent EXCEPT !.uid = uids + 1, !.at = clock])
  /\ uids' = uids + 1
DeleteResource(r) ==
  /\ Exists(r) /\ ~res[r].deleting
  /\ UserWrites(r, IF res[r].fin THEN [res[r] EXCEPT !.deleting = TRUE] ELSE Absent)
  /\ UNCHANGED uids
TouchResource(r) == Exists(r) /\ UserWrites(r, res[r]) /\ UNCHANGED uids

\* The name is listed in or removed from rolePolicy.adoptableRoles.
ListAdoptable ==
  /\ Edit /\ adoptable' = ~adoptable
  /\ UNCHANGED <<roles, cluster, clusters, key, keys, pg, clock, local, faults>>

\* The Cluster is deleted, and its marker key with it, and created again under
\* the same name on the same data or on new ones.
DeleteCluster ==
  /\ Edit /\ pc = "idle" /\ cluster # 0 /\ cluster' = 0 /\ key' = 0
  /\ \/ UNCHANGED pg \/ pg' = NoPg
  /\ UNCHANGED <<roles, clusters, keys, adoptable, clock, local, faults>>
CreateCluster ==
  /\ cluster = 0 /\ cluster' = clusters + 1 /\ clusters' = clusters + 1
  /\ UNCHANGED <<roles, key, keys, adoptable, pg, clock, local, edits, faults>>
LoseKey ==
  /\ Edit /\ key # 0 /\ key' = 0
  /\ UNCHANGED <<roles, cluster, clusters, keys, adoptable, pg, clock, local, faults>>

\* ensureMarkerKeySecret, by the Cluster controller.
EnsureKey ==
  /\ cluster # 0 /\ key = 0 /\ key' = keys + 1 /\ keys' = keys + 1
  /\ UNCHANGED <<roles, cluster, clusters, adoptable, pg, clock, local, edits, faults>>

\* No Role records the name on this Cluster, or did so a moment ago.
NameFree ==
  \A c \in {copy} \cup {res[r] : r \in Roles} \cup {cache[r] : r \in Roles} : c.rec \notin {cluster, Legacy}

\* Someone else creates the role, under a name no Role records: pgop knows its
\* roles by name, so an unmarked role that replaces a recorded one is taken for
\* the recorded one.
DBACreate(unfit) ==
  /\ Edit /\ cluster # 0 /\ ~PgExists
  /\ NameFree
  /\ pg' = [NoPg EXCEPT !.maker = "dba", !.unfit = unfit]
  /\ UNCHANGED <<roles, cl, clock, local, faults>>

\* The role is dropped, commented, or gets or loses objects; nobody replaces
\* it between the worker's look at its comment and its statement.
DBADrop ==
  /\ Edit /\ PgExists /\ ~pg.needed /\ pc \notin {"apply", "drop"}
  /\ pg' = NoPg
  /\ UNCHANGED <<roles, cl, clock, local, faults>>
DBAComment ==
  /\ Edit /\ PgExists /\ pg.comment # Unrelated
  /\ pg' = [pg EXCEPT !.comment = Unrelated]
  /\ UNCHANGED <<roles, cl, clock, local, faults>>
DBAObjects ==
  /\ Edit /\ PgExists /\ pg' = [pg EXCEPT !.needed = ~@]
  /\ UNCHANGED <<roles, cl, clock, local, faults>>

CacheSync ==
  /\ behind # {} /\ cache' = res /\ behind' = {}
  /\ UNCHANGED <<res, uids, secrets, cl, pg, clock, local, edits, faults>>
Tick ==
  /\ clock < MaxTicks /\ clock' = clock + 1
  /\ UNCHANGED <<roles, cl, pg, local, edits, faults>>

-----------------------------------------------------------------------------
(* The worker. *)

Env == UNCHANGED <<uids, cl, clock, edits>>

Stop == pc' = "idle" /\ me' = 0 /\ copy' = Absent /\ current' = FALSE /\ verdict' = "none" /\ lkey' = 0 /\ outcome' = "new"

Report(s) == pc' = "save" /\ outcome' = s

\* Read the Role from the cache.  A deleted Role is cleaned up, a duplicate
\* left alone, and a live one gets its finalizer before anything else.
Begin(r) ==
  /\ pc = "idle" /\ cache[r] # Absent
  /\ me' = r /\ copy' = cache[r] /\ current' = (r \notin behind)
  /\ \/ /\ cache[r].deleting
        /\ pc' = IF cluster = 0 THEN "finalize" ELSE "dropcheck"
        /\ UNCHANGED outcome
     \/ ~cache[r].deleting /\ Duplicate(r) /\ Report("duplicate")
     \/ ~cache[r].deleting /\ ~Duplicate(r) /\ cluster = 0 /\ Report("error")
     \/ /\ ~cache[r].deleting /\ ~Duplicate(r) /\ cluster # 0
        /\ pc' = IF cache[r].fin THEN "own" ELSE "addfin"
        /\ UNCHANGED outcome
  /\ Env /\ UNCHANGED <<res, secrets, cache, behind, pg, verdict, lkey, faults>>

\* Every write of the Role carries the version that was read.
AddFinalizer ==
  /\ pc = "addfin" /\ current
  /\ WriteRole(me, [copy EXCEPT !.fin = TRUE])
  /\ copy' = res'[me] /\ pc' = "own"
  /\ Env /\ UNCHANGED <<pg, me, current, verdict, lkey, outcome, faults>>

\* roleOwnership: without the marker key the Role is not reconciled; an
\* existing role is altered only if owned, or listed and fit for adoption.
CheckOwnership ==
  /\ pc = "own"
  /\ lkey' = key
  /\ verdict' = IF key = 0 THEN "none" ELSE Decide(me, key, Recorded(me, copy), adoptable)
  /\ \/ verdict' = "none" /\ Report("error")
     \/ verdict' = "notOwned" /\ Report("notManaged")
     \/ verdict' = "adoptable" /\ pg.unfit /\ Report("refused")
     \/ /\ verdict' \in {"absent", "owned", "remark"} \/ (verdict' = "adoptable" /\ ~pg.unfit)
        /\ pc' = "apply" /\ UNCHANGED outcome
  /\ Env /\ UNCHANGED <<res, secrets, cache, behind, pg, me, copy, current, faults>>

\* CREATE or ALTER ROLE, with its comment in one transaction, and then the
\* credentials Secret.  A role found absent is only created: it fails if someone
\* created one meanwhile.
NameTaken ==
  /\ pc = "apply" /\ verdict = "absent" /\ PgExists /\ Report("notManaged")
  /\ Env /\ UNCHANGED <<res, secrets, cache, behind, pg, me, copy, current, verdict, lkey, faults>>
Apply ==
  /\ pc = "apply" /\ ~(verdict = "absent" /\ PgExists)
  /\ pg' = [pg EXCEPT !.maker = IF PgExists THEN @ ELSE "pgop",
                      !.comment = IF verdict = "owned" THEN @ ELSE Marker(me, lkey),
                      !.by = me, !.uid = copy.uid]
  /\ secrets' = secrets \cup {me}
  /\ copy' = [copy EXCEPT !.rec = cluster]
  /\ Report("ready")
  /\ Env /\ UNCHANGED <<res, cache, behind, me, current, verdict, lkey, faults>>

\* writeStatus; a conflict is not retried.
Save ==
  /\ pc = "save" /\ current
  /\ IF [copy EXCEPT !.state = outcome] = res[me] THEN UNCHANGED <<res, secrets, cache, behind>>
     ELSE WriteRole(me, [copy EXCEPT !.state = outcome])
  /\ Stop /\ Env /\ UNCHANGED <<pg, faults>>
Conflict ==
  /\ pc \in {"addfin", "save", "finalize"} /\ ~current
  /\ Stop /\ Env /\ UNCHANGED <<res, secrets, cache, behind, pg, faults>>

\* Mutant of DropAllowed: whatever the status records is dropped.
DropAllowedUnmarked == Recorded(me, copy) /\ PgExists

\* dropPostgresRole: the role recorded on this Cluster is dropped while it
\* carries this Role's marker or a refreshable one, and no older Role has the
\* name.  The key may be missing.
DropAllowed ==
  /\ Recorded(me, copy) /\ ~Duplicate(me) /\ PgExists
  /\ Decide(me, key, TRUE, FALSE) \in {"owned", "remark"}

\* Mutant of CheckDrop: a role that may not be dropped blocks the deletion.
CheckDropBlocks ==
  /\ pc = "dropcheck"
  /\ IF DropAllowed THEN pc' = "drop" /\ UNCHANGED outcome ELSE Report("blocked")
  /\ Env /\ UNCHANGED <<res, secrets, cache, behind, pg, me, copy, current, verdict, lkey, faults>>

\* Otherwise nothing is dropped and the Role goes.
CheckDrop ==
  /\ pc = "dropcheck"
  /\ pc' = IF DropAllowed THEN "drop" ELSE "finalize"
  /\ Env /\ UNCHANGED <<res, secrets, cache, behind, pg, me, copy, current, verdict, lkey, outcome, faults>>

\* A failure to list the Roles counts as another Role that has the name.
ListFails ==
  /\ pc = "dropcheck" /\ Recorded(me, copy) /\ faults < MaxFaults /\ faults' = faults + 1
  /\ pc' = "finalize"
  /\ Env /\ UNCHANGED <<res, secrets, cache, behind, pg, me, copy, current, verdict, lkey, outcome>>

\* Grants are revoked and the role dropped, unless something depends on it.
Drop ==
  /\ pc = "drop"
  /\ IF pg.needed THEN Report("blocked") /\ UNCHANGED pg
     ELSE pg' = NoPg /\ pc' = "finalize" /\ UNCHANGED outcome
  /\ Env /\ UNCHANGED <<res, secrets, cache, behind, me, copy, current, verdict, lkey, faults>>

\* Mutant of RemoveFinalizer: no return after it, the status is written next.
RemoveFinalizerFallsThrough ==
  /\ pc = "finalize" /\ current
  /\ WriteRole(me, Absent)
  /\ Report("ready") /\ Env /\ UNCHANGED <<pg, me, copy, current, verdict, lkey, faults>>

RemoveFinalizer ==
  /\ pc = "finalize" /\ current
  /\ WriteRole(me, Absent)
  /\ Stop /\ Env /\ UNCHANGED <<pg, faults>>

\* A call fails, or the operator stops.
Fail ==
  /\ pc # "idle" /\ faults < MaxFaults /\ faults' = faults + 1
  /\ Stop /\ Env /\ UNCHANGED <<res, secrets, cache, behind, pg>>

-----------------------------------------------------------------------------
Reconcile == AddFinalizer \/ CheckOwnership \/ NameTaken \/ Apply \/ Save \/ Conflict
             \/ CheckDrop \/ Drop \/ RemoveFinalizer

Others ==
  \/ \E r \in Roles : CreateResource(r) \/ DeleteResource(r) \/ TouchResource(r)
  \/ ListAdoptable \/ DeleteCluster \/ LoseKey
  \/ \E unfit \in BOOLEAN : DBACreate(unfit)
  \/ DBADrop \/ DBAComment \/ DBAObjects

Next == Reconcile \/ (\E r \in Roles : Begin(r)) \/ Others \/ CreateCluster \/ EnsureKey
        \/ CacheSync \/ Tick \/ ListFails \/ Fail

Spec == Init /\ [][Next]_vars

\* The queue serves every Role again and again (events, requeues after an
\* error, the periodic resync); the Cluster controller and the cache work on.
Fairness ==
  /\ WF_vars(Reconcile) /\ \A r \in Roles : SF_vars(Begin(r))
  /\ WF_vars(CreateCluster) /\ WF_vars(EnsureKey) /\ WF_vars(CacheSync)

FairSpec == Spec /\ Fairness
-----------------------------------------------------------------------------
(* Properties. *)

\* A role that pgop did not create is altered or dropped by pgop only after a
\* Role adopted it, and adopted only when it was listed and fit - whatever
\* comment it carries, and across re-created Roles, Clusters and keys.
ForeignUntouched ==
  [][(pc = "apply" \/ pc = "drop") /\ pc' # pc /\ pg.maker = "dba" /\ pg.by = 0 =>
       pg' = pg \/ (verdict = "adoptable" /\ ~pg.unfit)]_vars

\* A role is dropped only for the Role that managed it last: a duplicate, or a
\* Role whose role another one adopted, never drops it.
DroppedByManager ==
  [][pc = "drop" /\ pg.maker # "none" /\ pg'.maker = "none" => pg.by = me]_vars

\* Of two Roles with the name, the one that wins it.
Winner(r) == Exists(r) /\ ~\E o \in Roles \ {r} : Exists(o) /\ CreatedBefore(res, o, r)

\* Once changes stop, deleted Roles are gone, unless something depends on the
\* PostgreSQL role.
DeletionsComplete == <>[](\A r \in Roles : res[r].deleting => pg.needed)

\* "Nothing has to be done by hand" when the marker key is lost: once changes
\* stop, a Role that recorded its role, or finds none, is Ready and the role
\* carries its marker under the current key - unless the comment is someone
\* else's.
RecordedReady ==
  <>[](\A r \in Roles :
         Winner(r) /\ ~res[r].deleting /\ (~PgExists \/ (Recorded(r, res[r]) /\ pg.comment.by = r)) =>
           res[r].state = "ready" /\ pg.comment = Marker(r, key))

\* access-patterns.md: RoleNotManaged means "The object exists but pgop did not
\* create it".  The code does not keep it: when the status update that records
\* the new role conflicts, the next reconcile takes the role for someone else's.
NotManagedMeansForeign ==
  [][pc = "save" /\ pc' = "idle" /\ current /\ outcome = "notManaged" =>
       ~(pg.uid = copy.uid /\ pg.comment = Marker(me, lkey))]_vars

\* dropPostgresRole: without the key only an unmarked role, or one with an
\* unsigned marker, is dropped.  The code drops a role with a signed one too.
DropWithoutKey ==
  [][pc = "dropcheck" /\ pc' = "drop" /\ key = 0 => pg.comment \in {Unmarked, V1Marker(me)}]_vars

\* roles.md: deleting a Role drops the role its status records.  The code does
\* not where a Role created in the same second, with a lower name, counts as
\* the older one.
RecordedRoleDropped ==
  [][pc = "finalize" /\ pc' = "idle" /\ current /\ key # 0 /\ Recorded(me, copy) =>
       ~(pg.uid = copy.uid /\ pg.comment = Marker(me, key))]_vars

\* Once changes stop, Roles that go are gone and those that stay are Ready.
RolesSettle == DeletionsComplete /\ RecordedReady
=============================================================================
