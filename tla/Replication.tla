---------------------------- MODULE Replication ----------------------------
(***************************************************************************)
(* Streaming replication of one Cluster: the Cluster controller, which     *)
(* scales the StatefulSet, removes the volumes and replication slots of    *)
(* standbys that were scaled away, keeps the replication password and      *)
(* labels the standbys that stream, next to the StatefulSet controller,    *)
(* the bootstrap script of every pod, the PostgreSQL primary, and users    *)
(* who scale the Cluster, change the password and lose volumes.            *)
(*                                                                         *)
(* Pod 0 is the primary.  A reconcile works on the Cluster, the Secret and *)
(* the pods it read; the world moves on between its steps.                 *)
(***************************************************************************)
EXTENDS Integers, FiniteSets

CONSTANTS N,            \* the largest number of standbys
          Early,        \* may the password change before the operator recorded one
          MaxPasswords, \* bound on replication passwords
          MaxEdits,     \* bound on what users do
          MaxFaults     \* bound on failing calls, crashes and lost pods and slots

ASSUME NAssumption == N \in Nat \ {0}
ASSUME BoundsAssumption == Early \in BOOLEAN /\ MaxPasswords \in Nat \ {0} /\ MaxEdits \in Nat /\ MaxFaults \in Nat

Standbys == 1..N
Ordinals == 0..N

VARIABLES
  \* Cluster: spec.replicas and the annotation allow-primary-init; is the guard
  \* of the primary's data lifted: since the marker was last written the
  \* annotation was set, or the Cluster wanted a single instance; the Secret.
  want, allow, waived, secret,
  \* The StatefulSet, the read-only Service, the initialized marker in the
  \* pg_hba ConfigMap, the pods and the data volumes.
  sts, ro, marker, pod, vol,
  \* The primary: password of the replication role (0: no role), the slots,
  \* and the standbys that stream.
  rolepw, slot, stream,
  \* The reconcile: control state, the Cluster and Secret it read, is that
  \* Secret current, the pods it listed and which of them are still there,
  \* the pods there when it changed the password, the volumes that remain,
  \* may it drop slots.
  pc, cl, sec, current, seen, known, before, kept, drops,
  edits, faults

spec   == <<want, allow, waived, secret>>
kube   == <<sts, ro, marker, pod, vol>>
server == <<rolepw, slot, stream>>
local  == <<cl, sec, current, seen, known, before, kept, drops>>
vars   == <<spec, kube, server, pc, local, edits, faults>>

\* The replication password, the password whose fingerprint is recorded (0:
\* none) and the annotation of a rollout in progress.
Secrets == [pw : 1..MaxPasswords, recorded : 0..MaxPasswords, rollout : BOOLEAN]

\* A pod: in its init container, up (ready), terminating or not there; does it
\* have the replication template; the password in its password file; was it
\* created before the rollout was recorded; is the rollout tired of waiting for
\* it; is it labelled streaming.
Pods == [st : {"none", "boot", "up", "gone"}, tmpl : BOOLEAN, pw : 0..MaxPasswords,
         old : BOOLEAN, late : BOOLEAN, label : BOOLEAN]
NoPod == [st |-> "none", tmpl |-> FALSE, pw |-> 0, old |-> FALSE, late |-> FALSE, label |-> FALSE]
Live(p) == p.st \in {"boot", "up"}
Ready(p) == p.st = "up"

\* A data volume: its directory, and its deletionTimestamp.  A standby on
\* "good" data can catch up with the primary, one on "stale" data cannot.
Volumes == [data : {"none", "empty", "good", "stale"}, del : BOOLEAN]
Volume(d) == [data |-> d, del |-> FALSE]
NoVolume == Volume("none")

\* wal_status of a slot; an idle one reserves nothing.
Slots == {"none", "idle", "keep", "lost"}

TypeOK ==
  /\ want \in 1..N+1 /\ allow \in BOOLEAN /\ waived \in BOOLEAN /\ secret \in Secrets
  /\ sts \in [n : -1..N+1, tmpl : BOOLEAN] /\ ro \in BOOLEAN /\ marker \in BOOLEAN
  /\ pod \in [Ordinals -> Pods] /\ vol \in [Ordinals -> Volumes]
  /\ \A o \in Standbys : pod[o].st # "none" => pod[o].tmpl
  /\ rolepw \in 0..MaxPasswords /\ slot \in [Standbys -> Slots] /\ stream \in [Standbys -> BOOLEAN]
  /\ \A o \in Standbys : stream[o] => Ready(pod[o]) /\ slot[o] = "keep"
  /\ pc \in {"idle", "sts", "list", "volumes", "primary", "role", "save", "slots", "label", "rollout"}
  /\ cl \in [want : 1..N+1, allow : BOOLEAN] /\ sec \in Secrets /\ current \in BOOLEAN
  /\ seen \in [Ordinals -> Pods] /\ known \subseteq Ordinals /\ before \subseteq Ordinals /\ kept \subseteq Ordinals /\ drops \in BOOLEAN
  /\ edits \in 0..MaxEdits /\ faults \in 0..MaxFaults

\* A new Cluster, one recreated on the volume of a standby of its predecessor,
\* or one that ran a single instance so far.
Init ==
  /\ want \in 1..N+1 /\ allow = FALSE /\ waived = FALSE
  /\ secret = [pw |-> 1, recorded |-> 0, rollout |-> FALSE]
  /\ ro = FALSE /\ marker = FALSE
  /\ \/ /\ sts = [n |-> -1, tmpl |-> FALSE] /\ pod = [o \in Ordinals |-> NoPod]
        /\ \E d \in {"none", "stale"} : vol = [o \in Ordinals |-> IF o = 1 THEN Volume(d) ELSE NoVolume]
     \/ /\ sts = [n |-> 1, tmpl |-> FALSE]
        /\ pod = [o \in Ordinals |-> IF o = 0 THEN [NoPod EXCEPT !.st = "up", !.pw = 1] ELSE NoPod]
        /\ vol = [o \in Ordinals |-> IF o = 0 THEN Volume("good") ELSE NoVolume]
  /\ rolepw = 0 /\ slot = [o \in Standbys |-> "none"] /\ stream = [o \in Standbys |-> FALSE]
  /\ pc = "idle" /\ cl = [want |-> 1, allow |-> FALSE] /\ sec = secret /\ current = FALSE
  /\ seen = [o \in Ordinals |-> NoPod] /\ known = {} /\ before = {} /\ kept = {} /\ drops = FALSE
  /\ edits = 0 /\ faults = 0

-----------------------------------------------------------------------------
(* Users. *)

Edit == edits < MaxEdits /\ edits' = edits + 1

ScaleTo(n) ==
  /\ Edit /\ n # want /\ want' = n
  /\ UNCHANGED <<allow, waived, secret, kube, server, pc, local, faults>>
ChangePassword ==
  /\ Edit /\ secret.pw < MaxPasswords /\ (Early \/ (secret.recorded # 0 /\ rolepw # 0))
  /\ secret' = [secret EXCEPT !.pw = @ + 1] /\ current' = FALSE
  /\ UNCHANGED <<want, allow, waived, kube, server, pc, cl, sec, seen, known, before, kept, drops, faults>>
\* Somebody writes another key or an annotation of the Secret, where a write of
\* the reconcile may be refused for it.
TouchSecret ==
  /\ Edit /\ pc \in {"save", "rollout"} /\ current /\ current' = FALSE
  /\ UNCHANGED <<spec, kube, server, pc, cl, sec, seen, known, before, kept, drops, faults>>
SetAllow(b) ==
  /\ Edit /\ allow # b /\ allow' = b /\ waived' = (waived \/ b)
  /\ UNCHANGED <<want, secret, kube, server, pc, local, faults>>

\* kubectl scale: down, or up again as far as the Cluster wants it, once the
\* replication template is rolled out; and kubectl delete of a volume together
\* with its pod: an accident (the primary) or the way to clone a standby again.
ManualScale(n) ==
  /\ Edit /\ n # sts.n /\ sts.n # -1 /\ sts' = [sts EXCEPT !.n = n]
  /\ n > sts.n => /\ sts.tmpl /\ \A o \in Ordinals : pod[o].st # "none" => pod[o].tmpl
                  /\ n <= (IF pc = "idle" THEN want ELSE cl.want)
  /\ UNCHANGED <<spec, ro, marker, pod, vol, server, pc, local, faults>>

\* A pod goes away: its connections close, and those of the primary's standbys.
Kill(o) ==
  /\ pod' = [pod EXCEPT ![o].st = "gone"]
  /\ stream' = IF o = 0 THEN [s \in Standbys |-> FALSE] ELSE [stream EXCEPT ![o] = FALSE]
DeleteVolume(o) ==
  /\ Edit /\ Live(pod[o]) /\ Kill(o) /\ ~vol[o].del /\ vol' = [vol EXCEPT ![o].del = TRUE]
  /\ UNCHANGED <<spec, sts, ro, marker, rolepw, slot, pc, local, faults>>

-----------------------------------------------------------------------------
(* Kubernetes: the StatefulSet controller starts pods in order, each once the *)
(* ones before it are ready, stops them in the reverse order, and updates the *)
(* template of the last one that lags once all of them are ready.             *)

CreatePod(o) ==
  /\ pod[o].st = "none" /\ o < sts.n /\ \A p \in 0..o-1 : Ready(pod[p])
  /\ ~vol[o].del
  /\ pod' = [pod EXCEPT ![o] = [NoPod EXCEPT !.st = "boot", !.tmpl = sts.tmpl, !.pw = secret.pw]]
  /\ vol' = IF vol[o].data = "none" THEN [vol EXCEPT ![o] = Volume("empty")] ELSE vol
  /\ before' = before \ {o} /\ known' = known \ {o}
  /\ UNCHANGED <<spec, sts, ro, marker, server, pc, cl, sec, current, seen, kept, drops, edits, faults>>

ScaleDownPod(o) ==
  /\ Live(pod[o]) /\ o >= sts.n /\ sts.n # -1 /\ \A p \in o+1..N : pod[p].st = "none"
  /\ Kill(o)
  /\ UNCHANGED <<spec, sts, ro, marker, vol, rolepw, slot, pc, local, edits, faults>>
UpdatePod(o) ==
  /\ \A p \in Ordinals : p < sts.n => Ready(pod[p])
  /\ o < sts.n /\ pod[o].tmpl # sts.tmpl /\ \A p \in o+1..N : pod[p].st # "none" => pod[p].tmpl = sts.tmpl
  /\ Kill(o)
  /\ UNCHANGED <<spec, sts, ro, marker, vol, rolepw, slot, pc, local, edits, faults>>
PodGone(o) ==
  /\ pod[o].st = "gone" /\ pod' = [pod EXCEPT ![o] = NoPod]
  /\ UNCHANGED <<spec, sts, ro, marker, vol, server, pc, local, edits, faults>>
VolumeGone(o) ==
  /\ vol[o].del /\ pod[o].st = "none" /\ vol' = [vol EXCEPT ![o] = NoVolume]
  /\ UNCHANGED <<spec, sts, ro, marker, pod, server, pc, local, edits, faults>>

-----------------------------------------------------------------------------
(* The pods: bootstrapScript, and the WAL receiver of the standbys. *)

PrimaryUp == Ready(pod[0])
RefusesInit == pod[0].tmpl /\ (marker \/ (ro /\ \E o \in Standbys : Ready(pod[o]) /\ pod[o].label))

\* The primary on existing data, or on an empty directory: initdb, which leaves
\* the standbys with data of another primary.
StartPrimary ==
  /\ pod[0].st = "boot" /\ vol[0].data = "good"
  /\ pod' = [pod EXCEPT ![0].st = "up"]
  /\ UNCHANGED <<spec, sts, ro, marker, vol, server, pc, local, edits, faults>>
InitPrimary ==
  /\ pod[0].st = "boot" /\ vol[0].data = "empty" /\ ~RefusesInit
  /\ pod' = [pod EXCEPT ![0].st = "up"]
  /\ vol' = [o \in Ordinals |-> IF o = 0 THEN Volume("good")
                                ELSE IF vol[o].data = "good" THEN [vol[o] EXCEPT !.data = "stale"] ELSE vol[o]]
  /\ rolepw' = 0 /\ slot' = [o \in Standbys |-> "none"] /\ UNCHANGED stream
  /\ UNCHANGED <<spec, sts, ro, marker, pc, local, edits, faults>>

\* The primary accepts a replication connection of a standby over its slot.
Accepts(o) == PrimaryUp /\ pod[0].tmpl /\ pod[o].pw = rolepw /\ slot[o] \in {"idle", "keep"}

\* A standby uses the data directory it finds; an empty one is cloned.
StartStandby(o) ==
  /\ pod[o].st = "boot"
  /\ \/ vol[o].data \in {"good", "stale"} /\ UNCHANGED <<vol, slot>>
     \/ /\ vol[o].data = "empty" /\ Accepts(o)
        /\ vol' = [vol EXCEPT ![o].data = "good"] /\ slot' = [slot EXCEPT ![o] = "keep"]
  /\ pod' = [pod EXCEPT ![o].st = "up"]
  /\ UNCHANGED <<spec, sts, ro, marker, rolepw, stream, pc, local, edits, faults>>
Connect(o) ==
  /\ Ready(pod[o]) /\ vol[o].data = "good" /\ ~stream[o] /\ Accepts(o)
  /\ stream' = [stream EXCEPT ![o] = TRUE] /\ slot' = [slot EXCEPT ![o] = "keep"]
  /\ UNCHANGED <<spec, kube, rolepw, pc, local, edits, faults>>

\* Faults: a pod is evicted, a connection breaks, or a standby that does not
\* stream falls behind max_slot_wal_keep_size.
Fault == faults < MaxFaults /\ faults' = faults + 1
Evict(o) ==
  /\ Fault /\ Live(pod[o]) /\ Kill(o)
  /\ UNCHANGED <<spec, sts, ro, marker, vol, rolepw, slot, pc, local, edits>>
Disconnect(o) ==
  /\ Fault /\ stream[o] /\ stream' = [stream EXCEPT ![o] = FALSE]
  /\ UNCHANGED <<spec, kube, rolepw, slot, pc, local, edits>>
Invalidate(o) ==
  /\ Fault /\ slot[o] = "keep" /\ ~stream[o] /\ slot' = [slot EXCEPT ![o] = "lost"]
  /\ vol' = IF vol[o].data = "good" THEN [vol EXCEPT ![o].data = "stale"] ELSE vol
  /\ UNCHANGED <<spec, sts, ro, marker, pod, rolepw, stream, pc, local, edits>>

\* rolloutStandbyTimeout passes for a restarted standby.
Late(o) ==
  /\ secret.rollout /\ Live(pod[o]) /\ ~pod[o].old /\ ~pod[o].late /\ ~(Ready(pod[o]) /\ pod[o].label)
  /\ pod' = [pod EXCEPT ![o].late = TRUE]
  /\ UNCHANGED <<spec, sts, ro, marker, vol, server, pc, local, edits, faults>>

-----------------------------------------------------------------------------
(* The reconcile. *)

Enabled == cl.want > 1 \/ sts.tmpl
Idle == pc' = "idle" /\ cl' = [want |-> 1, allow |-> FALSE] /\ sec' = [pw |-> 1, recorded |-> 0, rollout |-> FALSE]
        /\ current' = FALSE /\ seen' = [o \in Ordinals |-> NoPod] /\ known' = {} /\ before' = {} /\ kept' = {} /\ drops' = FALSE

\* A standby's volume is there and the primary's is not.
PrimaryVolumeMissing == vol[0].data = "none" /\ \E o \in Standbys : vol[o].data # "none" /\ ~vol[o].del

\* Reads the Cluster and the Secret; the Services; the pg_hba ConfigMap with the
\* marker, which is kept, set when the primary's volume is missing, or removed.
Begin ==
  /\ pc = "idle" /\ pc' = "sts"
  /\ cl' = [want |-> want, allow |-> allow] /\ sec' = secret /\ current' = TRUE
  /\ ro' = (want > 1)
  /\ IF want > 1 \/ sts.tmpl
     THEN /\ marker' = (~allow /\ (marker \/ PrimaryVolumeMissing))
          /\ waived' = (waived /\ ~(marker' /\ ~marker))
     ELSE waived' = TRUE /\ UNCHANGED marker
  /\ UNCHANGED <<want, allow, secret, sts, pod, vol, server, seen, known, before, kept, drops, edits, faults>>

\* The first standby waits until the primary runs the replication template.
RolledOut == /\ sts.tmpl /\ \A o \in Ordinals : pod[o].st # "none" => pod[o].tmpl
             /\ \E o \in Ordinals : Ready(pod[o])
\* Mutant: spec.replicas counts the standbys.
ReplicasOfStandbys ==
  IF sts.n = -1 \/ cl.want <= 1 THEN cl.want + 1
  ELSE IF sts.n <= 1 /\ ~RolledOut THEN 1 ELSE cl.want + 1
\* Mutant: the first standby does not wait.
ReplicasAtOnce == cl.want
StatefulSetReplicas ==
  IF sts.n = -1 \/ cl.want <= 1 THEN cl.want
  ELSE IF sts.n <= 1 /\ ~RolledOut THEN 1 ELSE cl.want
ReconcileStatefulSet ==
  /\ pc = "sts" /\ pc' = "list"
  /\ sts' = [n |-> StatefulSetReplicas, tmpl |-> Enabled]
  /\ UNCHANGED <<spec, ro, marker, pod, vol, server, local, edits, faults>>

ListPods ==
  /\ pc = "list"
  /\ IF Enabled
     THEN /\ pc' = "volumes" /\ seen' = [o \in Ordinals |-> [pod[o] EXCEPT !.pw = 0, !.tmpl = FALSE]]
          /\ known' = {o \in Ordinals : pod[o].st # "none"}
          /\ UNCHANGED <<cl, sec, current, before, kept, drops>>
     ELSE Idle
  /\ UNCHANGED <<spec, kube, server, edits, faults>>

\* The volumes of standbys that neither the Cluster nor the StatefulSet wants
\* and that have no pod are deleted.  If a call fails no slot is dropped.
Larger(a, b) == IF a > b THEN a ELSE b
\* Mutant: without looking at the pods.
UnwantedByCount == {o \in Standbys : vol[o].data # "none" /\ ~vol[o].del /\ o >= Larger(cl.want, sts.n)}
Unwanted == {o \in Standbys : /\ vol[o].data # "none" /\ ~vol[o].del
                              /\ o >= Larger(cl.want, sts.n) /\ seen[o].st = "none"}
Remaining(deleted) == {o \in Ordinals : vol[o].data # "none" /\ ~vol[o].del} \ deleted
\* Mutant: a failing call does not stop the drops.
CleanupDropsAnyway ==
  /\ pc = "volumes" /\ pc' = "primary"
  /\ \E deleted \in SUBSET Unwanted :
       /\ vol' = [o \in Ordinals |-> IF o \in deleted THEN [vol[o] EXCEPT !.del = TRUE] ELSE vol[o]]
       /\ kept' = (IF deleted = Unwanted THEN Remaining(deleted) ELSE {}) /\ drops' = TRUE
       /\ IF deleted = Unwanted THEN UNCHANGED faults ELSE Fault
  /\ UNCHANGED <<spec, sts, ro, marker, pod, server, cl, sec, current, seen, known, before, edits>>
CleanupStandbyVolumes ==
  /\ pc = "volumes" /\ pc' = "primary"
  /\ \E deleted \in SUBSET Unwanted :
       /\ vol' = [o \in Ordinals |-> IF o \in deleted THEN [vol[o] EXCEPT !.del = TRUE] ELSE vol[o]]
       /\ \/ deleted = Unwanted /\ kept' = Remaining(deleted) /\ drops' = TRUE /\ UNCHANGED faults
          \/ deleted # Unwanted /\ kept' = {} /\ drops' = FALSE /\ Fault
  /\ UNCHANGED <<spec, sts, ro, marker, pod, server, cl, sec, current, seen, known, before, edits>>

\* A primary that is not ready, or cannot be reached, is tried again later.
Unreachable ==
  /\ \/ pc = "primary" /\ ~(Ready(seen[0]) /\ PrimaryUp)
     \/ pc \in {"role", "slots", "label"} /\ ~PrimaryUp
  /\ Idle /\ UNCHANGED <<spec, kube, server, edits, faults>>

\* Mutant: only a missing primary volume sets the marker.
MarkNever ==
  /\ pc = "primary" /\ Ready(seen[0]) /\ PrimaryUp /\ pc' = "role"
  /\ waived' = (waived /\ (cl.allow \/ allow))
  /\ UNCHANGED <<want, allow, secret, kube, server, local, edits, faults>>
MarkInitialized ==
  /\ pc = "primary" /\ Ready(seen[0]) /\ PrimaryUp /\ pc' = "role"
  /\ marker' = (marker \/ ~cl.allow) /\ waived' = (waived /\ (cl.allow \/ allow))
  /\ UNCHANGED <<want, allow, secret, sts, ro, pod, vol, server, local, edits, faults>>

\* The password is sent when the role is missing or its fingerprint differs; a
\* changed one starts a rollout, recorded together with the fingerprint.
EnsureReplicationRole ==
  /\ pc = "role" /\ PrimaryUp
  /\ IF rolepw # 0 /\ sec.recorded = sec.pw
     THEN pc' = "slots" /\ UNCHANGED <<rolepw, sec, before>>
     ELSE /\ pc' = "save" /\ rolepw' = sec.pw
          /\ sec' = [sec EXCEPT !.recorded = sec.pw, !.rollout = @ \/ (rolepw # 0 /\ sec.recorded # 0)]
          /\ before' = IF rolepw # 0 /\ sec.recorded # 0 THEN {o \in Ordinals : pod[o].st # "none"} ELSE {}
  /\ UNCHANGED <<spec, kube, slot, stream, cl, current, seen, known, kept, drops, edits, faults>>
SaveSecret ==
  /\ pc = "save" /\ current /\ pc' = "slots" /\ secret' = sec
  /\ pod' = [o \in Ordinals |-> IF o \in before THEN [pod[o] EXCEPT !.old = TRUE, !.late = FALSE] ELSE pod[o]]
  /\ seen' = [o \in Ordinals |-> IF before # {} THEN [seen[o] EXCEPT !.old = TRUE] ELSE seen[o]]
  /\ before' = {}
  /\ UNCHANGED <<want, allow, waived, sts, ro, marker, vol, server, cl, sec, current, known, kept, drops, edits, faults>>

\* The slots of standbys that are gone are dropped unless their volume remains;
\* lost ones are replaced, without reserving WAL; a missing one is created once
\* the pod of its standby exists.
Reconciled(o) ==
  LET exists == seen[o].st # "none" IN
  IF o >= cl.want
  THEN IF ~drops \/ stream[o] \/ o \in kept THEN slot[o] ELSE "none"
  ELSE CASE slot[o] = "lost" /\ ~stream[o] -> IF exists THEN "idle" ELSE "none"
         [] slot[o] = "none" /\ exists -> "keep"
         [] OTHER -> slot[o]
ReconcileReplicationSlots ==
  /\ pc = "slots" /\ PrimaryUp
  /\ slot' = [o \in Standbys |-> Reconciled(o)]
  /\ IF cl.want > 1
     THEN pc' = "label" /\ kept' = {} /\ drops' = FALSE /\ UNCHANGED <<cl, sec, current, seen, known, before>>
     ELSE Idle
  /\ UNCHANGED <<spec, kube, rolepw, stream, edits, faults>>

\* The streaming label of the standbys listed, from pg_stat_replication.
LabelStreaming ==
  /\ pc = "label" /\ PrimaryUp /\ pc' = "rollout"
  /\ LET relabel == {o \in Standbys : Live(seen[o]) /\ seen[o].label # stream[o]} IN
       /\ seen' = [o \in Ordinals |-> IF o \in relabel THEN [seen[o] EXCEPT !.label = stream[o]] ELSE seen[o]]
       /\ pod' = [o \in Ordinals |-> IF o \in relabel /\ pod[o].st # "none"
                                     THEN [pod[o] EXCEPT !.label = stream[o]] ELSE pod[o]]
  /\ UNCHANGED <<spec, sts, ro, marker, vol, server, cl, sec, current, known, before, kept, drops, edits, faults>>

\* The standbys created before the new password are restarted, the last first,
\* unless one created after it is not back yet; a terminating standby, or one
\* that is not there, is not waited for.
Waiting == \E o \in Standbys : Live(seen[o]) /\ ~seen[o].old /\ ~seen[o].late /\ ~(Ready(seen[o]) /\ seen[o].label)
Stale == {o \in Standbys : Live(seen[o]) /\ seen[o].old}
Last(S) == CHOOSE o \in S : \A p \in S : p <= o
RolloutPassword ==
  /\ pc = "rollout" /\ sec.rollout /\ ~Waiting /\ Stale # {}
  /\ IF Last(Stale) \in known /\ Live(pod[Last(Stale)]) THEN Kill(Last(Stale)) ELSE UNCHANGED <<pod, stream>>
  /\ Idle /\ UNCHANGED <<spec, sts, ro, marker, vol, rolepw, slot, edits, faults>>
EndRollout ==
  /\ pc = "rollout" /\ sec.rollout /\ ~Waiting /\ Stale = {} /\ current
  /\ secret' = [secret EXCEPT !.rollout = FALSE]
  /\ Idle /\ UNCHANGED <<want, allow, waived, kube, server, edits, faults>>
Done ==
  /\ pc = "rollout" /\ (sec.rollout => Waiting)
  /\ Idle /\ UNCHANGED <<spec, kube, server, edits, faults>>

\* The Secret changed since it was read; or a call fails, or the operator stops.
Conflict ==
  /\ ~current
  /\ pc = "save" \/ (pc = "rollout" /\ sec.rollout /\ ~Waiting /\ Stale = {})
  /\ Idle /\ UNCHANGED <<spec, kube, server, edits, faults>>
Fail ==
  /\ pc # "idle" /\ Fault
  /\ Idle /\ UNCHANGED <<spec, kube, server, edits>>

-----------------------------------------------------------------------------
Reconcile == \/ ReconcileStatefulSet \/ ListPods \/ CleanupStandbyVolumes \/ Unreachable \/ MarkInitialized
             \/ EnsureReplicationRole \/ SaveSecret \/ ReconcileReplicationSlots \/ LabelStreaming
             \/ RolloutPassword \/ EndRollout \/ Done \/ Conflict

Users == \/ \E n \in 1..N+1 : ScaleTo(n)
         \/ \E n \in 0..N+1 : ManualScale(n)
         \/ \E b \in BOOLEAN : SetAllow(b)
         \/ \E o \in Ordinals : DeleteVolume(o)
         \/ ChangePassword \/ TouchSecret

Kubernetes(o) == CreatePod(o) \/ ScaleDownPod(o) \/ UpdatePod(o) \/ PodGone(o) \/ VolumeGone(o)
Boot(o) == (o = 0 /\ (StartPrimary \/ InitPrimary)) \/ (o # 0 /\ (StartStandby(o) \/ Connect(o)))
Faults == \/ \E o \in Ordinals : Evict(o)
          \/ \E o \in Standbys : Disconnect(o) \/ Invalidate(o)

Next == \/ Begin \/ Reconcile \/ Users \/ Faults \/ Fail
        \/ \E o \in Ordinals : Kubernetes(o) \/ Boot(o)
        \/ \E o \in Standbys : Late(o)

Spec == Init /\ [][Next]_vars

\* The Cluster is reconciled again and again (pod events, requeues), the
\* StatefulSet controller and the pods do their work.  Nothing is assumed of a
\* rollout's timeout.
Fairness ==
  /\ WF_vars(Begin) /\ WF_vars(Reconcile)
  /\ \A o \in Ordinals : WF_vars(Kubernetes(o)) /\ WF_vars(Boot(o))
FairSpec == Spec /\ Fairness

-----------------------------------------------------------------------------
(* Properties. *)

\* reconcileReplicationSlots: the WAL a standby needs is kept as long as its
\* volume: a kept volume whose standby could still catch up has its slot, also
\* while the standby is scaled away, whatever call failed.
SlotOutlivesVolume == \A o \in Standbys : vol[o].data = "good" /\ ~vol[o].del => slot[o] = "keep"

\* cleanupStandbyVolumes never deletes the volume of a pod, or one that the
\* StatefulSet is about to use.
UsedVolumesKept ==
  [][\A o \in Standbys : pc = "volumes" /\ edits' = edits /\ ~vol[o].del /\ vol'[o].del => pod[o].st = "none" /\ o >= sts.n]_vars

\* The primary of a replicated Cluster never starts an empty database next to
\* the volume of a standby that holds data, unless allow-primary-init said so or it had
\* a single instance.
NoEmptyPrimary ==
  [][vol[0].data = "empty" /\ vol'[0].data = "good" /\ pod[0].tmpl
     => waived \/ \A o \in Standbys : vol[o].data \in {"none", "empty"} \/ vol[o].del]_vars

\* Replication is as the Cluster wants it: every standby streams with the
\* current password and serves reads, and nothing is left of the others.
Settled ==
  /\ \A o \in 1..want-1 : stream[o] /\ pod[o].label /\ pod[o].pw = secret.pw
  /\ \A o \in want..N : pod[o].st = "none" /\ vol[o] = NoVolume /\ slot[o] = "none"
  /\ rolepw = secret.pw /\ ~secret.rollout
\* A primary that refuses an empty volume, and a standby whose data is stale,
\* wait for somebody to act.
NeedsHelp == (pod[0].st = "boot" /\ vol[0].data = "empty") \/ \E o \in Standbys : vol[o].data = "stale"

\* Once changes stop, replication settles: scaling, template and password
\* rollouts end, although a standby that was restarted may never come back.
\* The code does not keep it for a password edited before the operator recorded
\* the first one (Early): no rollout is recorded then.
ReplicationSettles == <>[](want > 1 => Settled \/ NeedsHelp)

\* replication.md: the standbys restart "one at a time (... the next one only
\* once the previous one streams again, or after 10 minutes)".  The code does
\* not keep it: a standby that is still terminating is not waited for.
OneAtATime ==
  [][\A o, p \in Standbys : o # p /\ pc = "rollout" /\ Live(pod[o]) /\ pod'[o].st = "gone" => pod[p].st # "gone"]_vars

\* The state is well-formed, and slots and volumes belong together.
ReplicationInv == TypeOK /\ SlotOutlivesVolume
=============================================================================
