------------------------ MODULE RoleOwnershipProofs ------------------------
(***************************************************************************)
(* Proofs about RoleOwnership, for every set of Roles with the name and    *)
(* every bound on what users, Cluster editors, DBAs and faults do: the     *)
(* state stays well formed, a PostgreSQL role that pgop did not create is  *)
(* left alone unless it was adopted, and a role is dropped only for the    *)
(* Role that managed it last.                                              *)
(***************************************************************************)
EXTENDS RoleOwnership, TLAPS

-----------------------------------------------------------------------------
(* The inductive invariant. *)

\* The status (or a copy of it) records the role on this Cluster, or would if
\* a credentials Secret proves it: what Recorded needs.
Claims(c) == c.rec = Legacy \/ (cluster # 0 /\ c.rec = cluster)

\* No status records a Cluster that does not exist yet: a new Cluster starts
\* without recorded roles.
RecordsBounded ==
  /\ 2 <= clusters /\ cluster <= clusters /\ copy.rec <= clusters
  /\ \A r \in Roles : res[r].rec <= clusters /\ cache[r].rec <= clusters

\* A running worker has a Role, and one that looks at the role a Cluster.
WorkerBusy ==
  /\ pc # "idle" => me \in Roles
  /\ pc \in {"addfin", "own", "apply", "dropcheck", "drop"} => cluster # 0

\* A marker names the Role that last managed the role.
MarkerNamesManager ==
  PgExists /\ pg.comment.by # 0 => pg.by = pg.comment.by

\* Where the comment tells nothing - no Role ever managed the role, or it is
\* unmarked - only the Role that managed it last records it.
RecordNamesManager ==
  PgExists /\ (pg.by = 0 \/ pg.comment = Unmarked) =>
    \A r \in Roles :
      Claims(res[r]) \/ Claims(cache[r]) \/ (me = r /\ Claims(copy)) => pg.by = r

\* What the verdict found is still so when the worker acts on it.
VerdictStands ==
  pc = "apply" =>
    /\ verdict \in {"absent", "owned", "remark", "adoptable"}
    /\ verdict # "absent" => PgExists
    /\ verdict \in {"owned", "remark"} => pg.by = me
    /\ verdict = "owned" => pg.comment # Unmarked /\ pg.comment.by \in {0, me}
    /\ verdict = "adoptable" => ~pg.unfit

\* The role to be dropped is there and managed by the Role it is dropped for.
DropJustified == pc = "drop" => PgExists /\ pg.by = me

OwnInv ==
  RecordsBounded /\ WorkerBusy /\ MarkerNamesManager /\ RecordNamesManager /\ VerdictStands
  /\ DropJustified

\* TypeOK and who manages the role.
IInv == TypeOK /\ OwnInv
-----------------------------------------------------------------------------
(* Types. *)

\* What is written in a role's comment.
LEMMA CommentTypes ==
  /\ Unmarked \in Comments /\ Unrelated \in Comments
  /\ \A r \in Roles : V1Marker(r) \in Comments
  /\ \A r \in Roles, k \in Nat : Marker(r, k) \in Comments
  BY DEF Comments, Unmarked, Unrelated, Marker, V1Marker

\* Having no role, the role of a DBA and one of pgop's.
LEMMA PgTypes ==
  /\ NoPg \in PgRoles
  /\ \A u \in BOOLEAN : [NoPg EXCEPT !.maker = "dba", !.unfit = u] \in PgRoles
  /\ \A p \in PgRoles : [p EXCEPT !.comment = Unrelated] \in PgRoles
  /\ \A p \in PgRoles : [p EXCEPT !.needed = ~@] \in PgRoles
  /\ \A p \in PgRoles, m \in {"none", "dba", "pgop"}, c \in Comments, r \in Roles, u \in Nat :
       [p EXCEPT !.maker = m, !.comment = c, !.by = r, !.uid = u] \in PgRoles
<1>1. NoPg \in PgRoles
  BY CommentTypes DEF NoPg, PgRoles
<1>2. ASSUME NEW u \in BOOLEAN PROVE [NoPg EXCEPT !.maker = "dba", !.unfit = u] \in PgRoles
  BY CommentTypes DEF NoPg, PgRoles
<1>3. ASSUME NEW p \in PgRoles PROVE [p EXCEPT !.comment = Unrelated] \in PgRoles
  BY CommentTypes DEF PgRoles
<1>4. ASSUME NEW p \in PgRoles PROVE [p EXCEPT !.needed = ~@] \in PgRoles
  BY DEF PgRoles
<1>5. ASSUME NEW p \in PgRoles, NEW m \in {"none", "dba", "pgop"}, NEW c \in Comments,
             NEW r \in Roles, NEW u \in Nat
      PROVE  [p EXCEPT !.maker = m, !.comment = c, !.by = r, !.uid = u] \in PgRoles
  BY DEF PgRoles
<1>6. QED
  BY <1>1, <1>2, <1>3, <1>4, <1>5

\* What the worker and the users write are Roles.
LEMMA ResourceTypes ==
  /\ Absent \in Resources
  /\ \A c \in Resources : [c EXCEPT !.fin = TRUE] \in Resources /\ [c EXCEPT !.deleting = TRUE] \in Resources
  /\ \A c \in Resources, s \in States : [c EXCEPT !.state = s] \in Resources
  /\ \A c \in Resources, n \in Nat : [c EXCEPT !.rec = n] \in Resources
  BY DEF Absent, Resources, States

\* TypeOK in three parts: the flags, the other types, and the two copies of a
\* Role that follow the one in the API server.
Flags == adoptable \in BOOLEAN /\ current \in BOOLEAN

Rest ==
  /\ res \in [Roles -> Resources] /\ cache \in [Roles -> Resources] /\ behind \subseteq Roles
  /\ uids \in Nat /\ secrets \subseteq Roles
  /\ cluster \in Nat /\ clusters \in Nat /\ key \in Nat /\ keys \in Nat
  /\ pg \in PgRoles /\ clock \in 0..MaxTicks
  /\ pc \in {"idle", "addfin", "own", "apply", "save", "dropcheck", "drop", "finalize"}
  /\ me \in Roles \cup {0} /\ copy \in Resources
  /\ verdict \in Verdicts /\ lkey \in Nat /\ outcome \in States
  /\ edits \in 0..MaxEdits /\ faults \in 0..MaxFaults

Copies ==
  /\ \A r \in Roles \ behind : cache[r] = res[r]
  /\ current /\ pc # "idle" => Exists(me) /\ copy.uid = res[me].uid

\* The three parts are TypeOK.
LEMMA TypeParts == TypeOK <=> Flags /\ Rest /\ Copies
  BY DEF TypeOK, Flags, Rest, Copies

\* The initial states are well formed.
LEMMA InitTypeOK == Init => TypeOK
<1> SUFFICES ASSUME Init PROVE TypeOK
  OBVIOUS
<1>1. Flags
  BY Zenon DEF Init, Flags
<1>2. res \in [Roles -> Resources] /\ uids \in Nat /\ secrets \subseteq Roles /\ pg \in PgRoles
  <2>1. CASE res = [r \in Roles |-> Absent] /\ uids = 0 /\ secrets = {} /\ pg = NoPg
    BY <2>1, ResourceTypes, PgTypes
  <2>2. ASSUME NEW r \in Roles, NEW s \in SUBSET {r}, NEW c \in {Unmarked, V1Marker(r)},
               res = [x \in Roles |-> IF x # r THEN Absent
                                      ELSE [Absent EXCEPT !.uid = 1, !.fin = TRUE, !.rec = Legacy,
                                                          !.state = "ready"]],
               uids = 1, secrets = s,
               pg = [NoPg EXCEPT !.maker = "pgop", !.comment = c, !.by = r, !.uid = 1]
        PROVE  res \in [Roles -> Resources] /\ uids \in Nat /\ secrets \subseteq Roles /\ pg \in PgRoles
    <3>1. c \in Comments
      BY CommentTypes
    <3>2. pg \in PgRoles
      BY <2>2, <3>1, PgTypes
    <3>3. [Absent EXCEPT !.uid = 1, !.fin = TRUE, !.rec = Legacy, !.state = "ready"] \in Resources
      BY DEF Absent, Resources, States, Legacy
    <3>4. QED
      BY <2>2, <3>2, <3>3, ResourceTypes
  <2>3. QED
    BY <2>1, <2>2 DEF Init
<1>3. Rest
  <2>1. cache \in [Roles -> Resources] /\ copy \in Resources
    BY <1>2, ResourceTypes DEF Init
  <2>2. /\ behind = {} /\ cluster = 2 /\ clusters = 2 /\ key = 1 /\ keys = 1 /\ clock = 0
        /\ pc = "idle" /\ me = 0 /\ verdict = "none" /\ lkey = 0 /\ outcome = "new"
        /\ edits = 0 /\ faults = 0
    BY DEF Init
  <2>3. QED
    BY <1>2, <2>1, <2>2, BoundsAssumption DEF Rest, Verdicts, States
<1>4. Copies
  BY DEF Init, Copies
<1>5. QED
  BY <1>1, <1>3, <1>4, TypeParts

\* The flags stay flags.
LEMMA NextFlags == Flags /\ [Next]_vars => Flags'
<1> SUFFICES ASSUME Flags, [Next]_vars PROVE Flags'
  OBVIOUS
<1> USE DEF Flags
<1>1. ASSUME NEW r \in Roles, CreateResource(r) \/ DeleteResource(r) \/ TouchResource(r) PROVE Flags'
  BY <1>1, Zenon DEF CreateResource, DeleteResource, TouchResource, UserWrites, cl
<1>2. CASE ListAdoptable \/ DeleteCluster \/ LoseKey \/ CreateCluster \/ EnsureKey
  BY <1>2, Zenon DEF ListAdoptable, DeleteCluster, LoseKey, CreateCluster, EnsureKey, local
<1>3. ASSUME NEW unfit \in BOOLEAN, DBACreate(unfit) PROVE Flags'
  BY <1>3, Zenon DEF DBACreate, cl, local
<1>4. CASE DBADrop \/ DBAComment \/ DBAObjects \/ CacheSync \/ Tick \/ UNCHANGED vars
  BY <1>4, Zenon DEF DBADrop, DBAComment, DBAObjects, CacheSync, Tick, vars, cl, local
<1>5. ASSUME NEW r \in Roles, Begin(r) PROVE Flags'
  BY <1>5, Zenon DEF Begin, Env, cl
<1>6. CASE AddFinalizer \/ CheckOwnership \/ NameTaken \/ Apply \/ CheckDrop \/ ListFails \/ Drop
  BY <1>6, Zenon DEF AddFinalizer, CheckOwnership, NameTaken, Apply, CheckDrop, ListFails, Drop, Env, cl
<1>7. CASE Save \/ Conflict \/ RemoveFinalizer \/ Fail
  BY <1>7, Zenon DEF Save, Conflict, RemoveFinalizer, Fail, Stop, Env, cl
<1>8. QED
  BY <1>1, <1>2, <1>3, <1>4, <1>5, <1>6, <1>7, Zenon DEF Next, Reconcile, Others

\* Every step keeps the types.
LEMMA NextRest == Rest /\ WorkerBusy /\ [Next]_vars => Rest'
<1> SUFFICES ASSUME Rest, WorkerBusy, [Next]_vars PROVE Rest'
  OBVIOUS
<1> USE BoundsAssumption DEF Rest, WorkerBusy
<1>1. ASSUME NEW r \in Roles, NEW c \in Resources, UserWrites(r, c), uids' \in Nat PROVE Rest'
  BY <1>1 DEF UserWrites, WriteRole, Edit, cl
<1>2. ASSUME NEW r \in Roles, CreateResource(r) \/ DeleteResource(r) \/ TouchResource(r) PROVE Rest'
  <2>1. CASE CreateResource(r)
    <3>1. uids + 1 \in Nat /\ clock \in Nat
      OBVIOUS
    <3>2. [Absent EXCEPT !.uid = uids + 1, !.at = clock] \in Resources
      BY <3>1 DEF Absent, Resources, States
    <3>3. QED
      BY <1>1, <2>1, <3>1, <3>2 DEF CreateResource
  <2>2. CASE DeleteResource(r)
    BY <1>1, <2>2, ResourceTypes DEF DeleteResource
  <2>3. CASE TouchResource(r)
    BY <1>1, <2>3 DEF TouchResource
  <2>4. QED
    BY <1>2, <2>1, <2>2, <2>3
<1>3. CASE ListAdoptable \/ LoseKey \/ CreateCluster \/ EnsureKey
  BY <1>3 DEF ListAdoptable, LoseKey, CreateCluster, EnsureKey, Edit, roles, local
<1>4. CASE DeleteCluster \/ DBADrop
  <2>1. pg' \in PgRoles
    BY <1>4, PgTypes DEF DeleteCluster, DBADrop
  <2>2. QED
    BY <1>4, <2>1 DEF DeleteCluster, DBADrop, Edit, roles, cl, local
<1>5. ASSUME NEW unfit \in BOOLEAN, DBACreate(unfit) PROVE Rest'
  <2>1. pg' \in PgRoles
    BY <1>5, PgTypes DEF DBACreate
  <2>2. QED
    BY <1>5, <2>1 DEF DBACreate, Edit, roles, cl, local
<1>6. CASE DBAComment \/ DBAObjects
  <2>1. pg' \in PgRoles
    BY <1>6, PgTypes DEF DBAComment, DBAObjects
  <2>2. QED
    BY <1>6, <2>1 DEF DBAComment, DBAObjects, Edit, roles, cl, local
<1>7. CASE CacheSync \/ Tick \/ UNCHANGED vars
  BY <1>7 DEF CacheSync, Tick, vars, roles, cl, local
<1>8. ASSUME NEW r \in Roles, Begin(r) PROVE Rest'
  BY <1>8 DEF Begin, Report, Env, cl, States
<1>9. CASE AddFinalizer
  <2>1. me \in Roles /\ [copy EXCEPT !.fin = TRUE] \in Resources
    BY <1>9, ResourceTypes DEF AddFinalizer
  <2>2. QED
    BY <1>9, <2>1 DEF AddFinalizer, WriteRole, Env, cl
<1>10. CASE CheckOwnership
  <2>1. verdict' \in Verdicts
    BY <1>10 DEF CheckOwnership, Decide, Verdicts
  <2>2. QED
    BY <1>10, <2>1 DEF CheckOwnership, Report, Env, cl, States
<1>11. CASE NameTaken \/ CheckDrop \/ ListFails
  BY <1>11 DEF NameTaken, CheckDrop, ListFails, Report, Env, cl, States
<1>12. CASE Apply
  <2>1. me \in Roles /\ copy.uid \in Nat /\ pg.maker \in {"none", "dba", "pgop"} /\ pg.comment \in Comments
    BY <1>12 DEF Apply, PgRoles, Resources
  <2>2. pg' \in PgRoles
    BY <1>12, <2>1, PgTypes, CommentTypes DEF Apply
  <2>3. copy' \in Resources
    BY <1>12, ResourceTypes DEF Apply
  <2>4. QED
    BY <1>12, <2>1, <2>2, <2>3 DEF Apply, Report, Env, cl, States
<1>13. CASE Drop
  <2>1. pg' \in PgRoles
    BY <1>13, PgTypes DEF Drop
  <2>2. QED
    BY <1>13, <2>1 DEF Drop, Report, Env, cl, States
<1>14. CASE Conflict \/ Fail
  <2>1. copy' \in Resources
    BY <1>14, ResourceTypes DEF Conflict, Fail, Stop
  <2>2. QED
    BY <1>14, <2>1 DEF Conflict, Fail, Stop, Env, cl, States, Verdicts
<1>15. ASSUME NEW c \in Resources, WriteRole(me, c), me \in Roles, Stop, Env, UNCHANGED <<pg, faults>>
       PROVE  Rest'
  BY <1>15, ResourceTypes DEF WriteRole, Stop, Env, cl, States, Verdicts
<1>16. CASE Save
  <2>1. CASE UNCHANGED <<res, secrets, cache, behind>>
    BY <1>16, <2>1, ResourceTypes DEF Save, Stop, Env, cl, States, Verdicts
  <2>2. CASE WriteRole(me, [copy EXCEPT !.state = outcome])
    BY <1>15, <1>16, <2>2, ResourceTypes DEF Save
  <2>3. QED
    BY <1>16, <2>1, <2>2 DEF Save
<1>17. CASE RemoveFinalizer
  BY <1>15, <1>17, ResourceTypes DEF RemoveFinalizer
<1>18. QED
  BY <1>2, <1>3, <1>4, <1>5, <1>6, <1>7, <1>8, <1>9, <1>10, <1>11, <1>12, <1>13, <1>14, <1>16, <1>17
  DEF Next, Reconcile, Others

\* The cache is right about the Roles it is not behind on, and the worker about
\* its own as long as nobody else wrote it.
LEMMA NextCopies == Flags /\ Rest /\ Copies /\ WorkerBusy /\ [Next]_vars => Copies'
<1> SUFFICES ASSUME Flags, Rest, Copies, WorkerBusy, [Next]_vars PROVE Copies'
  OBVIOUS
<1> USE DEF Copies, Exists
<1>1. ASSUME NEW r \in Roles, NEW c, UserWrites(r, c) PROVE Copies'
  <2>1. current' => current /\ r # me
    BY <1>1, Zenon DEF UserWrites
  <2>2. QED
    BY <1>1, <2>1 DEF UserWrites, WriteRole, Rest
<1>2. ASSUME NEW r \in Roles, CreateResource(r) \/ DeleteResource(r) \/ TouchResource(r) PROVE Copies'
  BY <1>1, <1>2 DEF CreateResource, DeleteResource, TouchResource
<1>3. CASE ListAdoptable \/ LoseKey \/ CreateCluster \/ EnsureKey \/ DeleteCluster
  BY <1>3 DEF ListAdoptable, LoseKey, CreateCluster, EnsureKey, DeleteCluster, roles, local
<1>4. ASSUME NEW unfit \in BOOLEAN, DBACreate(unfit) PROVE Copies'
  BY <1>4 DEF DBACreate, roles, local
<1>5. CASE DBADrop \/ DBAComment \/ DBAObjects \/ CacheSync \/ Tick \/ UNCHANGED vars
  BY <1>5 DEF DBADrop, DBAComment, DBAObjects, CacheSync, Tick, vars, roles, local
<1>6. ASSUME NEW r \in Roles, Begin(r) PROVE Copies'
  <2>1. current' => r \notin behind
    BY <1>6, Zenon DEF Begin
  <2>2. QED
    BY <1>6, <2>1 DEF Begin
<1>7. CASE AddFinalizer
  <2>1. me \in Roles /\ [copy EXCEPT !.fin = TRUE] # Absent
    BY <1>7 DEF AddFinalizer, WorkerBusy, Rest, Resources, Absent
  <2>2. QED
    BY <1>7, <2>1 DEF AddFinalizer, WriteRole, Rest
<1>8. CASE Apply
  <2>1. copy'.uid = copy.uid
    BY <1>8 DEF Apply, Rest, Resources
  <2>2. QED
    BY <1>8, <2>1 DEF Apply
<1>9. CASE CheckOwnership \/ NameTaken \/ CheckDrop \/ ListFails \/ Drop
  BY <1>9 DEF CheckOwnership, NameTaken, CheckDrop, ListFails, Drop, Report
<1>10. CASE Save \/ Conflict \/ RemoveFinalizer \/ Fail
  BY <1>10 DEF Save, Conflict, RemoveFinalizer, Fail, WriteRole, Stop, Rest
<1>11. QED
  BY <1>2, <1>3, <1>4, <1>5, <1>6, <1>7, <1>8, <1>9, <1>10 DEF Next, Reconcile, Others

\* Every step keeps the state well formed.
LEMMA NextTypeOK == TypeOK /\ WorkerBusy /\ [Next]_vars => TypeOK'
  BY TypeParts, NextFlags, NextRest, NextCopies, PTL
-----------------------------------------------------------------------------
(* Who manages the role. *)

\* The invariant holds at first: a Role of an earlier pgop manages its role.
LEMMA InitOwn == Init => OwnInv
<1> SUFFICES ASSUME Init PROVE OwnInv
  OBVIOUS
<1>1. /\ cluster = 2 /\ clusters = 2 /\ pc = "idle" /\ me = 0 /\ copy.rec = 0 /\ cache = res
  BY DEF Init, Absent
<1>2. CASE res = [r \in Roles |-> Absent] /\ pg = NoPg
  BY <1>1, <1>2 DEF OwnInv, RecordsBounded, WorkerBusy, MarkerNamesManager, RecordNamesManager,
     VerdictStands, DropJustified, PgExists, NoPg, Absent
<1>3. ASSUME NEW r \in Roles, NEW c \in {Unmarked, V1Marker(r)},
             res = [x \in Roles |-> IF x # r THEN Absent
                                    ELSE [Absent EXCEPT !.uid = 1, !.fin = TRUE, !.rec = Legacy,
                                                        !.state = "ready"]],
             pg = [NoPg EXCEPT !.maker = "pgop", !.comment = c, !.by = r, !.uid = 1]
      PROVE  OwnInv
  <2>1. \A x \in Roles : res[x].rec = IF x # r THEN 0 ELSE 1
    BY <1>3 DEF Absent, Legacy
  <2>2. pg.by = r /\ pg.comment = c /\ (c.by = 0 \/ c.by = r)
    BY <1>3 DEF NoPg, Unmarked, V1Marker
  <2>3. QED
    BY <1>1, <2>1, <2>2 DEF OwnInv, RecordsBounded, WorkerBusy, MarkerNamesManager,
       RecordNamesManager, VerdictStands, DropJustified, Claims, Legacy
<1>4. QED
  BY <1>2, <1>3 DEF Init

\* A verdict that lets the worker alter the role names the Role that manages
\* it: by the marker where there is one, by the record where there is none.
LEMMA DecideNamesManager ==
  ASSUME TypeOK, OwnInv, pc # "idle", NEW k \in Nat, Recorded(me, copy),
         PgExists, Verifies(pg.comment, me, k) \/ Refreshable(pg.comment, me, k)
  PROVE  pg.by = me
<1>1. me \in Roles /\ me # 0
  BY RolesAssumption DEF OwnInv, WorkerBusy
<1>2. CASE pg.comment = Unmarked
  <2>1. Claims(copy)
    BY DEF Recorded, Claims
  <2>2. QED
    BY <1>1, <1>2, <2>1 DEF OwnInv, RecordNamesManager
<1>3. CASE pg.comment # Unmarked
  <2>1. pg.comment.by = me
    BY <1>3 DEF Verifies, Refreshable, OtherKey, Marker, V1Marker
  <2>2. QED
    BY <1>1, <2>1 DEF OwnInv, MarkerNamesManager
<1>4. QED
  BY <1>2, <1>3

\* Steps of the users: a Role that is written keeps its record or has none.
LEMMA WriteKeepsOwn ==
  ASSUME TypeOK, OwnInv, NEW r \in Roles, NEW c \in Resources, c.rec \in {0, res[r].rec},
         UserWrites(r, c)
  PROVE  OwnInv'
<1>1. \A x \in Roles : res'[x].rec \in {0, res[x].rec}
  BY DEF UserWrites, WriteRole, TypeOK
<1>2. \A x \in Roles : Claims(res[x])' => Claims(res[x])
  BY <1>1 DEF Claims, Legacy, UserWrites, cl
<1>3. UNCHANGED <<cache, cluster, clusters, pg, pc, me, copy, verdict>>
  BY DEF UserWrites, WriteRole, cl
<1>4. RecordsBounded'
  BY <1>1, <1>3 DEF OwnInv, RecordsBounded, TypeOK
<1>5. RecordNamesManager'
  BY <1>2, <1>3 DEF OwnInv, RecordNamesManager, PgExists, Claims
<1>6. QED
  BY <1>3, <1>4, <1>5 DEF OwnInv, WorkerBusy, MarkerNamesManager, VerdictStands, DropJustified,
     PgExists

\* One case per kind of step.
LEMMA NextOwn == TypeOK /\ OwnInv /\ [Next]_vars => OwnInv'
<1> SUFFICES ASSUME TypeOK, OwnInv, [Next]_vars PROVE OwnInv'
  OBVIOUS
<1> USE DEF OwnInv, RecordsBounded, WorkerBusy, MarkerNamesManager, RecordNamesManager,
            VerdictStands, DropJustified, Claims, PgExists
<1>1. ASSUME NEW r \in Roles, CreateResource(r) \/ DeleteResource(r) \/ TouchResource(r) PROVE OwnInv'
  <2> HIDE DEF OwnInv
  <2>1. PICK c \in Resources : c.rec \in {0, res[r].rec} /\ UserWrites(r, c)
    <3>1. res[r] \in Resources /\ uids + 1 \in Nat /\ clock \in Nat
      BY BoundsAssumption DEF TypeOK
    <3>2. CASE CreateResource(r)
      <4>1. [Absent EXCEPT !.uid = uids + 1, !.at = clock] \in {c \in Resources : c.rec = 0}
        BY <3>1 DEF Absent, Resources, States
      <4>2. QED
        BY <3>2, <4>1 DEF CreateResource
    <3>3. CASE DeleteResource(r)
      <4>1. /\ [res[r] EXCEPT !.deleting = TRUE] \in {c \in Resources : c.rec = res[r].rec}
            /\ Absent \in {c \in Resources : c.rec = 0}
        BY <3>1 DEF Absent, Resources, States
      <4>2. QED
        BY <3>3, <4>1 DEF DeleteResource
    <3>4. CASE TouchResource(r)
      BY <3>1, <3>4 DEF TouchResource
    <3>5. QED
      BY <1>1, <3>2, <3>3, <3>4
  <2>2. QED
    BY <2>1, WriteKeepsOwn
<1>2. CASE ListAdoptable \/ LoseKey \/ EnsureKey \/ Tick \/ UNCHANGED vars
  BY <1>2 DEF ListAdoptable, LoseKey, EnsureKey, Tick, vars, roles, cl, local
<1>3. CASE DeleteCluster
  BY <1>3 DEF DeleteCluster, NoPg, roles, local, TypeOK
<1>4. CASE CreateCluster
  BY <1>4 DEF CreateCluster, roles, local, TypeOK, Resources, Legacy
<1>5. ASSUME NEW unfit \in BOOLEAN, DBACreate(unfit) PROVE OwnInv'
  BY <1>5 DEF DBACreate, NameFree, NoPg, Unmarked, roles, cl, local
<1>6. CASE DBADrop
  BY <1>6 DEF DBADrop, NoPg, roles, cl, local
<1>7. CASE DBAComment \/ DBAObjects
  BY <1>7 DEF DBAComment, DBAObjects, Unrelated, Unmarked, roles, cl, local, TypeOK, PgRoles
<1>8. CASE CacheSync
  BY <1>8 DEF CacheSync, cl, local
<1>9. ASSUME NEW r \in Roles, Begin(r) PROVE OwnInv'
  BY <1>9 DEF Begin, Report, Env, cl
<1>10. CASE AddFinalizer
  BY <1>10 DEF AddFinalizer, WriteRole, Env, cl, TypeOK, Resources
<1>11. CASE CheckOwnership
  <2>1. verdict' \in {"owned", "remark"} => pg.by = me
    BY <1>11, DecideNamesManager DEF CheckOwnership, Decide, TypeOK
  <2>2. verdict' = "owned" => pg.comment # Unmarked /\ pg.comment.by = me
    BY <1>11, RolesAssumption DEF CheckOwnership, Decide, Verifies, Marker, Unmarked
  <2>3. QED
    BY <1>11, <2>1, <2>2 DEF CheckOwnership, Decide, Report, Env, cl
<1>12. CASE NameTaken \/ ListFails
  BY <1>12 DEF NameTaken, ListFails, Report, Env, cl
<1>13. CASE Apply
  BY <1>13, RolesAssumption DEF Apply, Report, Env, cl, Marker, Unmarked, TypeOK, PgRoles, Resources
<1>14. CASE CheckDrop
  <2>1. DropAllowed => pg.by = me
    BY <1>14, DecideNamesManager DEF CheckDrop, DropAllowed, Decide, TypeOK
  <2>2. QED
    BY <1>14, <2>1 DEF CheckDrop, DropAllowed, Env, cl
<1>15. CASE Drop
  BY <1>15 DEF Drop, NoPg, Report, Env, cl
<1>16. CASE Save
  BY <1>16 DEF Save, WriteRole, Stop, Env, cl, Absent, TypeOK, Resources, Legacy
<1>17. CASE RemoveFinalizer
  BY <1>17 DEF RemoveFinalizer, WriteRole, Stop, Env, cl, Absent, TypeOK, Legacy
<1>18. CASE Conflict \/ Fail
  BY <1>18 DEF Conflict, Fail, Stop, Env, cl, Absent, TypeOK, Legacy
<1>19. QED
  BY <1>1, <1>2, <1>3, <1>4, <1>5, <1>6, <1>7, <1>8, <1>9, <1>10, <1>11, <1>12, <1>13, <1>14,
     <1>15, <1>16, <1>17, <1>18
  DEF Next, Reconcile, Others
-----------------------------------------------------------------------------
(* The theorems. *)

\* The inductive invariant holds throughout.
LEMMA IInvHolds == Spec => []IInv
<1>1. Init => IInv
  BY InitTypeOK, InitOwn DEF IInv
<1>2. IInv /\ [Next]_vars => IInv'
  BY NextTypeOK, NextOwn DEF IInv, OwnInv
<1>3. QED
  BY <1>1, <1>2, PTL DEF Spec

\* The state stays well formed; in particular a worker nobody interfered with
\* holds the Role the API server has, also when Roles are deleted and created
\* again under its hands.
THEOREM TypeCorrect == Spec => []TypeOK
  BY IInvHolds, PTL DEF IInv

\* The step that ForeignUntouched allows.
KeepsForeign ==
  (pc = "apply" \/ pc = "drop") /\ pc' # pc /\ pg.maker = "dba" /\ pg.by = 0 =>
    pg' = pg \/ (verdict = "adoptable" /\ ~pg.unfit)

\* A role pgop did not create is altered or dropped only once it was adopted,
\* and adopted only when listed and fit: decideOwnership over any sequence of
\* deleted and re-created Roles, Clusters and keys.
THEOREM ForeignLeftAlone == Spec => ForeignUntouched
<1>1. IInv /\ [Next]_vars => [KeepsForeign]_vars
  <2> SUFFICES ASSUME IInv, Next, pc = "apply" \/ pc = "drop", pc' # pc, pg.maker = "dba", pg.by = 0
               PROVE  pg' = pg \/ (verdict = "adoptable" /\ ~pg.unfit)
    BY DEF KeepsForeign, vars
  <2>1. pc = "apply" /\ verdict \in {"absent", "adoptable"} /\ (verdict = "adoptable" => ~pg.unfit)
    BY RolesAssumption DEF IInv, OwnInv, VerdictStands, DropJustified, WorkerBusy
  <2>2. CASE Apply
    BY <2>1, <2>2 DEF Apply, PgExists
  <2>3. CASE NameTaken \/ Fail
    BY <2>3 DEF NameTaken, Fail
  <2>4. ~\E r \in Roles : CreateResource(r) \/ DeleteResource(r) \/ TouchResource(r) \/ Begin(r)
    BY <2>1 DEF CreateResource, DeleteResource, TouchResource, UserWrites, Begin
  <2>5. ~(ListAdoptable \/ DeleteCluster \/ LoseKey \/ CreateCluster \/ EnsureKey \/ CacheSync \/ Tick)
    BY DEF ListAdoptable, DeleteCluster, LoseKey, CreateCluster, EnsureKey, CacheSync, Tick, local
  <2>6. ~((\E u \in BOOLEAN : DBACreate(u)) \/ DBADrop \/ DBAComment \/ DBAObjects)
    BY DEF DBACreate, DBADrop, DBAComment, DBAObjects, local
  <2>7. ~(AddFinalizer \/ CheckOwnership \/ Save \/ Conflict \/ CheckDrop \/ ListFails \/ Drop \/ RemoveFinalizer)
    BY <2>1 DEF AddFinalizer, CheckOwnership, Save, Conflict, CheckDrop, ListFails, Drop, RemoveFinalizer
  <2>8. QED
    BY <2>2, <2>3, <2>4, <2>5, <2>6, <2>7 DEF Next, Reconcile, Others
<1>2. QED
  BY <1>1, IInvHolds, PTL DEF Spec, ForeignUntouched, KeepsForeign

\* A role is dropped only for the Role that managed it last: dropPostgresRole
\* never drops for a duplicate, nor for a Role whose role another one took over.
THEOREM DropsOwn == Spec => DroppedByManager
<1> DEFINE Own == pc = "drop" /\ pg.maker # "none" /\ pg'.maker = "none" => pg.by = me
<1>1. IInv => [Own]_vars
  BY DEF IInv, OwnInv, DropJustified
<1>2. QED
  BY <1>1, IInvHolds, PTL DEF DroppedByManager
=============================================================================
