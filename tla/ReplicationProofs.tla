------------------------- MODULE ReplicationProofs -------------------------
(***************************************************************************)
(* Proofs about Replication, for every number of standbys and every bound  *)
(* on users and faults: the WAL a kept volume needs is kept, no volume in  *)
(* use is deleted, and the primary starts no empty database next to the    *)
(* data of a standby unless somebody allowed it.                           *)
(***************************************************************************)
EXTENDS Replication, TLAPS

-----------------------------------------------------------------------------
(* The inductive invariant. *)

\* Standbys stream from a primary that is up, and a StatefulSet with standbys
\* has the replication template.
Streaming == \A o \in Standbys : stream[o] => PrimaryUp
Templated == sts.n > 1 => sts.tmpl

\* From the update of the StatefulSet on, no pod that the reconcile does not
\* want is created: what it saw of the pods and volumes of those stays true.
Scaled == pc \notin {"idle", "sts"} => sts.n <= cl.want
SeenGone == pc = "volumes" => \A o \in Standbys : o >= cl.want /\ seen[o].st = "none" => pod[o].st = "none"
KeptThere ==
  pc \in {"primary", "role", "save", "slots"} /\ drops =>
    \A o \in Standbys : o >= cl.want /\ o \notin kept => vol[o].data = "none" \/ vol[o].del

\* A volume of a standby that holds data.
Holds(o) == vol[o].data \in {"good", "stale"} /\ ~vol[o].del

\* The guard of the primary's data is the marker, unless it was lifted.  Until
\* either is so, no standby was cloned: there are no slots, and no data except
\* that of a predecessor before the first reconcile.
Guarded == marker \/ waived
Waived == (allow => waived) /\ (cl.allow => waived)
Untouched ==
  ~Guarded =>
    /\ pc \in {"idle", "sts", "list", "volumes", "primary"}
    /\ \A o \in Standbys : slot[o] = "none"
    /\ \/ \A o \in Standbys : ~Holds(o)
       \/ pc = "idle" /\ sts.n = -1 /\ vol[0].data = "none"

IInv ==
  /\ TypeOK /\ Streaming /\ Templated
  /\ Scaled /\ SeenGone /\ KeptThere /\ SlotOutlivesVolume
  /\ Waived /\ Untouched
-----------------------------------------------------------------------------
(* Types, variable group by variable group. *)

Flags ==
  /\ allow \in BOOLEAN /\ waived \in BOOLEAN /\ ro \in BOOLEAN /\ marker \in BOOLEAN
  /\ current \in BOOLEAN /\ drops \in BOOLEAN
Counts ==
  /\ want \in 1..N+1 /\ secret \in Secrets /\ sts \in [n : -1..N+1, tmpl : BOOLEAN]
  /\ rolepw \in 0..MaxPasswords /\ edits \in 0..MaxEdits /\ faults \in 0..MaxFaults
Local ==
  /\ pc \in {"idle", "sts", "list", "volumes", "primary", "role", "save", "slots", "label", "rollout"}
  /\ cl \in [want : 1..N+1, allow : BOOLEAN] /\ sec \in Secrets
  /\ seen \in [Ordinals -> Pods] /\ known \subseteq Ordinals /\ before \subseteq Ordinals /\ kept \subseteq Ordinals
PodsOK ==
  /\ pod \in [Ordinals -> Pods] /\ \A o \in Standbys : pod[o].st # "none" => pod[o].tmpl
StandbysOK ==
  /\ vol \in [Ordinals -> Volumes] /\ slot \in [Standbys -> Slots] /\ stream \in [Standbys -> BOOLEAN]
  /\ \A o \in Standbys : stream[o] => Ready(pod[o]) /\ slot[o] = "keep"

LEMMA TypeParts ==
  /\ TypeOK <=> Flags /\ Counts /\ Local /\ PodsOK /\ StandbysOK
  /\ TypeOK' <=> Flags' /\ Counts' /\ Local' /\ PodsOK' /\ StandbysOK'
  BY DEF TypeOK, Flags, Counts, Local, PodsOK, StandbysOK

\* Ordinals and bounds.
LEMMA Ranges ==
  /\ N \in Nat /\ N >= 1 /\ MaxPasswords \in Nat /\ MaxPasswords >= 1 /\ MaxEdits \in Nat /\ MaxFaults \in Nat
  /\ 0 \in Ordinals /\ 0 \notin Standbys /\ Standbys \subseteq Ordinals /\ Standbys \subseteq Nat
  /\ \A o \in Ordinals : o # 0 => o \in Standbys
  BY NAssumption, BoundsAssumption DEF Ordinals, Standbys

\* The records that stand for nothing.
LEMMA EmptyTypes ==
  /\ NoPod \in Pods /\ NoVolume \in Volumes /\ NoVolume.data = "none" /\ NoPod.st = "none"
  /\ [pw |-> 1, recorded |-> 0, rollout |-> FALSE] \in Secrets /\ [want |-> 1, allow |-> FALSE] \in [want : 1..N+1, allow : BOOLEAN]
<1>1. NoPod \in Pods /\ NoPod.st = "none"
  <2>1. 0 \in 0..MaxPasswords
    BY Ranges
  <2>2. QED
    BY <2>1 DEF NoPod, Pods
<1>2. NoVolume \in Volumes /\ NoVolume.data = "none"
  BY DEF NoVolume, Volume, Volumes
<1>3. [pw |-> 1, recorded |-> 0, rollout |-> FALSE] \in Secrets
  <2>1. 0 \in 0..MaxPasswords /\ 1 \in 1..MaxPasswords
    BY Ranges
  <2>2. QED
    BY <2>1 DEF Secrets
<1>4. [want |-> 1, allow |-> FALSE] \in [want : 1..N+1, allow : BOOLEAN]
  <2>1. 1 \in 1..N+1
    BY Ranges
  <2>2. QED
    BY <2>1
<1>5. QED
  BY <1>1, <1>2, <1>3, <1>4

\* A pod with some fields changed.
LEMMA PodTypes ==
  ASSUME NEW p \in Pods, NEW b \in BOOLEAN, NEW s \in {"none", "boot", "up", "gone"}
  PROVE  /\ [p EXCEPT !.st = s] \in Pods
         /\ [p EXCEPT !.late = b] \in Pods /\ [p EXCEPT !.label = b] \in Pods /\ [p EXCEPT !.old = b] \in Pods
         /\ [p EXCEPT !.old = TRUE, !.late = FALSE] \in Pods
         /\ [p EXCEPT !.pw = 0, !.tmpl = FALSE] \in Pods
<1>1. 0 \in 0..MaxPasswords
  BY Ranges
<1>2. QED
  BY <1>1 DEF Pods

LEMMA PodState ==
  ASSUME NEW p \in Pods, NEW s \in {"none", "boot", "up", "gone"}
  PROVE  \E x \in Pods : x = [p EXCEPT !.st = s] /\ x.st = s /\ x.tmpl = p.tmpl
<1>1. [p EXCEPT !.st = s].st = s /\ [p EXCEPT !.st = s].tmpl = p.tmpl
  BY DEF Pods
<1>2. QED
  BY <1>1, PodTypes

\* A new pod.
LEMMA NewPod ==
  ASSUME sts.tmpl \in BOOLEAN, secret.pw \in 1..MaxPasswords
  PROVE  LET p == [NoPod EXCEPT !.st = "boot", !.tmpl = sts.tmpl, !.pw = secret.pw]
         IN p \in Pods /\ p.st = "boot" /\ p.tmpl = sts.tmpl
<1>1. secret.pw \in 0..MaxPasswords
  BY Ranges
<1>2. QED
  BY <1>1 DEF NoPod, Pods

\* The end of a reconcile.
LEMMA IdleTypes ==
  ASSUME Idle
  PROVE  /\ Local' /\ current' = FALSE /\ drops' = FALSE /\ pc' = "idle" /\ cl'.allow = FALSE
<1>1. /\ cl' = [want |-> 1, allow |-> FALSE] /\ sec' = [pw |-> 1, recorded |-> 0, rollout |-> FALSE]
      /\ seen' = [o \in Ordinals |-> NoPod] /\ known' = {} /\ before' = {} /\ kept' = {}
      /\ current' = FALSE /\ drops' = FALSE /\ pc' = "idle"
  BY DEF Idle
<1>2. [o \in Ordinals |-> NoPod] \in [Ordinals -> Pods]
  BY EmptyTypes
<1>3. Local'
  BY <1>1, <1>2, EmptyTypes DEF Local
<1>4. QED
  BY <1>1, <1>3

\* The Boolean variables.
LEMMA NextFlags == TypeOK /\ Next => Flags'
<1> SUFFICES ASSUME TypeOK, Next PROVE Flags'
  OBVIOUS
<1>0. Flags
  BY TypeParts
<1>1. CASE Users
  <2>1. /\ UNCHANGED <<ro, marker, drops>> /\ (current' = current \/ current' = FALSE)
        /\ \/ UNCHANGED <<allow, waived>>
           \/ \E b \in BOOLEAN : allow' = b /\ waived' = (waived \/ b)
    BY <1>1 DEF Users, ScaleTo, ManualScale, SetAllow, DeleteVolume, ChangePassword, TouchSecret, spec, kube, server, local
  <2>2. QED
    BY <1>0, <2>1, Zenon DEF Flags
<1>2. CASE Begin
  <2>1. /\ UNCHANGED <<allow, drops>> /\ current' = TRUE /\ ro' = (want > 1)
        /\ \/ marker' = (~allow /\ (marker \/ PrimaryVolumeMissing)) /\ waived' = (waived /\ ~(marker' /\ ~marker))
           \/ waived' = TRUE /\ UNCHANGED marker
    BY <1>2 DEF Begin
  <2>2. ro' \in BOOLEAN
    BY <2>1
  <2>3. waived' \in BOOLEAN /\ marker' \in BOOLEAN
    BY <1>0, <2>1, Zenon DEF Flags
  <2>4. QED
    BY <1>0, <2>1, <2>2, <2>3, Zenon DEF Flags
<1>3. CASE Reconcile \/ Faults \/ Fail \/ (\E o \in Ordinals : Kubernetes(o) \/ Boot(o)) \/ \E o \in Standbys : Late(o)
  <2>1. UNCHANGED <<allow, ro>>
    BY <1>3 DEF Reconcile, Faults, Fail, Kubernetes, Boot, Late, CreatePod, ScaleDownPod, UpdatePod, PodGone, VolumeGone,
       StartPrimary, InitPrimary, StartStandby, Connect, Evict, Disconnect, Invalidate, ReconcileStatefulSet, ListPods,
       CleanupStandbyVolumes, Unreachable, MarkInitialized, EnsureReplicationRole, SaveSecret, ReconcileReplicationSlots,
       LabelStreaming, RolloutPassword, EndRollout, Done, Conflict, spec, kube
  <2>2. UNCHANGED <<waived, marker>> \/ (marker' = (marker \/ ~cl.allow) /\ waived' = (waived /\ (cl.allow \/ allow)))
    BY <1>3 DEF Reconcile, Faults, Fail, Kubernetes, Boot, Late, CreatePod, ScaleDownPod, UpdatePod, PodGone, VolumeGone,
       StartPrimary, InitPrimary, StartStandby, Connect, Evict, Disconnect, Invalidate, ReconcileStatefulSet, ListPods,
       CleanupStandbyVolumes, Unreachable, MarkInitialized, EnsureReplicationRole, SaveSecret, ReconcileReplicationSlots,
       LabelStreaming, RolloutPassword, EndRollout, Done, Conflict, spec, kube
  <2>3. (UNCHANGED current \/ current' = FALSE) /\ (UNCHANGED drops \/ drops' = FALSE \/ drops' = TRUE)
    BY <1>3 DEF Reconcile, Faults, Fail, Kubernetes, Boot, Late, CreatePod, ScaleDownPod, UpdatePod, PodGone, VolumeGone,
       StartPrimary, InitPrimary, StartStandby, Connect, Evict, Disconnect, Invalidate, ReconcileStatefulSet, ListPods,
       CleanupStandbyVolumes, Unreachable, MarkInitialized, EnsureReplicationRole, SaveSecret, ReconcileReplicationSlots,
       LabelStreaming, RolloutPassword, EndRollout, Done, Conflict, Idle, local
  <2>4. QED
    BY <1>0, <2>1, <2>2, <2>3, Zenon DEF Flags
<1>4. QED
  BY <1>1, <1>2, <1>3 DEF Next
-----------------------------------------------------------------------------
(* Counters, the Cluster, the Secret and the StatefulSet. *)

LEMMA NextBudgets == TypeOK /\ Next => edits' \in 0..MaxEdits /\ faults' \in 0..MaxFaults
<1> SUFFICES ASSUME TypeOK, Next PROVE edits' \in 0..MaxEdits /\ faults' \in 0..MaxFaults
  OBVIOUS
<1>1. edits \in 0..MaxEdits /\ faults \in 0..MaxFaults
  BY DEF TypeOK
<1>2. Edit \/ UNCHANGED edits
  BY DEF Next, Users, ScaleTo, ManualScale, SetAllow, DeleteVolume, ChangePassword, TouchSecret, Faults, Fail, Kubernetes,
       Boot, Late, CreatePod, ScaleDownPod, UpdatePod, PodGone, VolumeGone, StartPrimary, InitPrimary, StartStandby, Connect,
       Evict, Disconnect, Invalidate, Begin, Reconcile, ReconcileStatefulSet, ListPods, CleanupStandbyVolumes, Unreachable,
       MarkInitialized, EnsureReplicationRole, SaveSecret, ReconcileReplicationSlots, LabelStreaming, RolloutPassword,
       EndRollout, Done, Conflict
<1>3. Fault \/ UNCHANGED faults
  BY DEF Next, Users, ScaleTo, ManualScale, SetAllow, DeleteVolume, ChangePassword, TouchSecret, Faults, Fail, Kubernetes,
       Boot, Late, CreatePod, ScaleDownPod, UpdatePod, PodGone, VolumeGone, StartPrimary, InitPrimary, StartStandby, Connect,
       Evict, Disconnect, Invalidate, Begin, Reconcile, ReconcileStatefulSet, ListPods, CleanupStandbyVolumes, Unreachable,
       MarkInitialized, EnsureReplicationRole, SaveSecret, ReconcileReplicationSlots, LabelStreaming, RolloutPassword,
       EndRollout, Done, Conflict
<1>4. QED
  BY <1>1, <1>2, <1>3, Ranges DEF Edit, Fault

\* The StatefulSet that the reconcile wants.
LEMMA WantedReplicas ==
  ASSUME TypeOK
  PROVE  /\ StatefulSetReplicas \in 1..N+1 /\ StatefulSetReplicas <= cl.want
         /\ StatefulSetReplicas > 1 => Enabled
         /\ Enabled \in BOOLEAN
<1>1. cl.want \in 1..N+1 /\ sts.tmpl \in BOOLEAN
  BY DEF TypeOK
<1>2. StatefulSetReplicas \in {1, cl.want}
  <2>1. sts.n = -1 \/ cl.want <= 1 => StatefulSetReplicas = cl.want
    BY DEF StatefulSetReplicas
  <2>2. ~(sts.n = -1 \/ cl.want <= 1) => StatefulSetReplicas \in {1, cl.want}
    BY DEF StatefulSetReplicas
  <2>3. QED
    BY <2>1, <2>2
<1>3. Enabled \in BOOLEAN
  BY <1>1 DEF Enabled
<1>4. StatefulSetReplicas \in 1..N+1 /\ StatefulSetReplicas <= cl.want
  BY <1>1, <1>2, Ranges
<1>5. StatefulSetReplicas > 1 => Enabled
  BY <1>1, <1>2, Ranges DEF Enabled
<1>6. QED
  BY <1>3, <1>4, <1>5

LEMMA NextSts ==
  TypeOK /\ Templated /\ Scaled /\ Next => sts' \in [n : -1..N+1, tmpl : BOOLEAN] /\ Templated' /\ Scaled'
<1> SUFFICES ASSUME TypeOK, Templated, Scaled, Next
             PROVE  sts' \in [n : -1..N+1, tmpl : BOOLEAN] /\ Templated' /\ Scaled'
  OBVIOUS
<1>0. sts \in [n : -1..N+1, tmpl : BOOLEAN] /\ cl.want \in 1..N+1
  BY DEF TypeOK
<1>1. CASE ReconcileStatefulSet
  <2>1. sts' = [n |-> StatefulSetReplicas, tmpl |-> Enabled] /\ UNCHANGED cl
    BY <1>1 DEF ReconcileStatefulSet, local
  <2>2. StatefulSetReplicas \in -1..N+1
    BY WantedReplicas, Ranges
  <2>3. QED
    BY <2>1, <2>2, WantedReplicas DEF Templated, Scaled
<1>2. ASSUME NEW n \in 0..N+1, ManualScale(n) PROVE sts' \in [n : -1..N+1, tmpl : BOOLEAN] /\ Templated' /\ Scaled'
  <2>1. /\ sts' = [sts EXCEPT !.n = n] /\ UNCHANGED <<pc, cl>>
        /\ n <= sts.n \/ (sts.tmpl /\ (pc = "idle" \/ n <= cl.want))
    BY <1>0, <1>2, Ranges DEF ManualScale, local
  <2>2. n \in -1..N+1
    BY <1>2, Ranges
  <2>3. sts' \in [n : -1..N+1, tmpl : BOOLEAN] /\ sts'.n = n /\ sts'.tmpl = sts.tmpl
    BY <1>0, <2>1, <2>2
  <2>4. QED
    BY <1>0, <1>2, <2>1, <2>3, Ranges DEF Templated, Scaled
<1>3. CASE ~ReconcileStatefulSet /\ ~\E n \in 0..N+1 : ManualScale(n)
  <2>1. UNCHANGED sts
    BY <1>3 DEF Next, Users, ScaleTo, ManualScale, SetAllow, DeleteVolume, ChangePassword, TouchSecret, Faults, Fail, Kubernetes,
       Boot, Late, CreatePod, ScaleDownPod, UpdatePod, PodGone, VolumeGone, StartPrimary, InitPrimary, StartStandby, Connect,
       Evict, Disconnect, Invalidate, Begin, Reconcile, ReconcileStatefulSet, ListPods, CleanupStandbyVolumes, Unreachable,
       MarkInitialized, EnsureReplicationRole, SaveSecret, ReconcileReplicationSlots, LabelStreaming, RolloutPassword,
       EndRollout, Done, Conflict, kube
  <2>2. pc' \in {"idle", "sts"} \/ (UNCHANGED cl /\ pc \notin {"idle", "sts"})
        \/ UNCHANGED <<pc, cl>>
    BY <1>3 DEF Next, Users, ScaleTo, ManualScale, SetAllow, DeleteVolume, ChangePassword, TouchSecret, Faults, Fail, Kubernetes,
       Boot, Late, CreatePod, ScaleDownPod, UpdatePod, PodGone, VolumeGone, StartPrimary, InitPrimary, StartStandby, Connect,
       Evict, Disconnect, Invalidate, Begin, Reconcile, ReconcileStatefulSet, ListPods, CleanupStandbyVolumes, Unreachable,
       MarkInitialized, EnsureReplicationRole, SaveSecret, ReconcileReplicationSlots, LabelStreaming, RolloutPassword,
       EndRollout, Done, Conflict, Idle, local
  <2>3. QED
    BY <1>0, <2>1, <2>2 DEF Templated, Scaled
<1>4. QED
  BY <1>1, <1>2, <1>3

LEMMA NextCounts == TypeOK /\ Templated /\ Scaled /\ Next => Counts'
<1> SUFFICES ASSUME TypeOK, Templated, Scaled, Next PROVE Counts'
  OBVIOUS
<1>0. Counts /\ sec \in Secrets
  BY TypeParts DEF Local
<1>1. want' \in 1..N+1
  <2>1. UNCHANGED want \/ \E n \in 1..N+1 : want' = n
    BY DEF Next, Users, ScaleTo, ManualScale, SetAllow, DeleteVolume, ChangePassword, TouchSecret, Faults, Fail, Kubernetes,
       Boot, Late, CreatePod, ScaleDownPod, UpdatePod, PodGone, VolumeGone, StartPrimary, InitPrimary, StartStandby, Connect,
       Evict, Disconnect, Invalidate, Begin, Reconcile, ReconcileStatefulSet, ListPods, CleanupStandbyVolumes, Unreachable,
       MarkInitialized, EnsureReplicationRole, SaveSecret, ReconcileReplicationSlots, LabelStreaming, RolloutPassword,
       EndRollout, Done, Conflict, spec
  <2>2. QED
    BY <1>0, <2>1 DEF Counts
<1>2. rolepw' \in 0..MaxPasswords
  <2>1. rolepw' \in {rolepw, 0, sec.pw}
    BY DEF Next, Users, ScaleTo, ManualScale, SetAllow, DeleteVolume, ChangePassword, TouchSecret, Faults, Fail, Kubernetes,
       Boot, Late, CreatePod, ScaleDownPod, UpdatePod, PodGone, VolumeGone, StartPrimary, InitPrimary, StartStandby, Connect,
       Evict, Disconnect, Invalidate, Begin, Reconcile, ReconcileStatefulSet, ListPods, CleanupStandbyVolumes, Unreachable,
       MarkInitialized, EnsureReplicationRole, SaveSecret, ReconcileReplicationSlots, LabelStreaming, RolloutPassword,
       EndRollout, Done, Conflict, server
  <2>2. sec.pw \in 1..MaxPasswords
    BY <1>0 DEF Secrets
  <2>3. QED
    BY <1>0, <2>1, <2>2, Ranges DEF Counts
<1>3. secret' \in Secrets
  <2>1. \/ secret' \in {secret, sec} \/ secret' = [secret EXCEPT !.rollout = FALSE]
        \/ secret.pw < MaxPasswords /\ secret' = [secret EXCEPT !.pw = @ + 1]
    BY DEF Next, Users, ScaleTo, ManualScale, SetAllow, DeleteVolume, ChangePassword, TouchSecret, Faults, Fail, Kubernetes,
       Boot, Late, CreatePod, ScaleDownPod, UpdatePod, PodGone, VolumeGone, StartPrimary, InitPrimary, StartStandby, Connect,
       Evict, Disconnect, Invalidate, Begin, Reconcile, ReconcileStatefulSet, ListPods, CleanupStandbyVolumes, Unreachable,
       MarkInitialized, EnsureReplicationRole, SaveSecret, ReconcileReplicationSlots, LabelStreaming, RolloutPassword,
       EndRollout, Done, Conflict, spec
  <2>2. secret.pw \in 1..MaxPasswords /\ (secret.pw < MaxPasswords => secret.pw + 1 \in 1..MaxPasswords)
    BY <1>0, Ranges DEF Counts, Secrets
  <2>3. secret.pw < MaxPasswords => [secret EXCEPT !.pw = @ + 1] \in Secrets
    BY <1>0, <2>2 DEF Counts, Secrets
  <2>4. [secret EXCEPT !.rollout = FALSE] \in Secrets
    BY <1>0 DEF Counts, Secrets
  <2>5. QED
    BY <1>0, <2>1, <2>3, <2>4 DEF Counts
<1>4. QED
  BY <1>1, <1>2, <1>3, NextSts, NextBudgets DEF Counts

\* The state of the reconcile.
LEMMA NextLocal == TypeOK /\ Next => Local'
<1> SUFFICES ASSUME TypeOK, Next PROVE Local'
  OBVIOUS
<1>0. Local /\ Counts /\ Flags /\ pod \in [Ordinals -> Pods] /\ stream \in [Standbys -> BOOLEAN]
  BY TypeParts DEF PodsOK, StandbysOK
<1>1. CASE Users
  BY <1>0, <1>1 DEF Users, ScaleTo, ManualScale, SetAllow, DeleteVolume, ChangePassword, TouchSecret, local, Local
<1>2. CASE Idle
  BY <1>2, IdleTypes
<1>3. CASE Begin
  <2>1. cl' = [want |-> want, allow |-> allow] /\ sec' = secret /\ pc' = "sts" /\ UNCHANGED <<seen, known, before, kept>>
    BY <1>3 DEF Begin
  <2>2. [want |-> want, allow |-> allow] \in [want : 1..N+1, allow : BOOLEAN]
    BY <1>0, Zenon DEF Counts, Flags
  <2>3. QED
    BY <1>0, <2>1, <2>2 DEF Local, Counts
<1>4. CASE ReconcileStatefulSet \/ MarkInitialized
  BY <1>0, <1>4 DEF ReconcileStatefulSet, MarkInitialized, local, Local
<1>5. CASE ListPods /\ ~Idle
  <2>1. /\ pc' = "volumes" /\ seen' = [o \in Ordinals |-> [pod[o] EXCEPT !.pw = 0, !.tmpl = FALSE]]
        /\ known' = {o \in Ordinals : pod[o].st # "none"} /\ UNCHANGED <<cl, sec, before, kept>>
    BY <1>5 DEF ListPods
  <2>2. \A o \in Ordinals : [pod[o] EXCEPT !.pw = 0, !.tmpl = FALSE] \in Pods
    BY <1>0, PodTypes
  <2>3. seen' \in [Ordinals -> Pods]
    BY <2>1, <2>2
  <2>4. QED
    BY <1>0, <2>1, <2>3 DEF Local
<1>6. CASE CleanupStandbyVolumes
  <2>1. kept' \subseteq Ordinals /\ pc' = "primary" /\ UNCHANGED <<cl, sec, seen, known, before>>
    BY <1>6 DEF CleanupStandbyVolumes, Remaining
  <2>2. QED
    BY <1>0, <2>1 DEF Local
<1>7. CASE EnsureReplicationRole
  <2>1. /\ pc' \in {"slots", "save"} /\ UNCHANGED <<cl, seen, known, kept>> /\ (before' \subseteq Ordinals \/ UNCHANGED before)
        /\ UNCHANGED sec \/ \E b \in BOOLEAN : sec' = [sec EXCEPT !.recorded = sec.pw, !.rollout = b]
    <3>1. sec.rollout \in BOOLEAN
      BY <1>0 DEF Local, Secrets
    <3>2. (sec.rollout \/ (rolepw # 0 /\ sec.recorded # 0)) \in BOOLEAN
      BY <3>1
    <3>3. QED
      BY <1>7, <3>2 DEF EnsureReplicationRole
  <2>2. \A b \in BOOLEAN : [sec EXCEPT !.recorded = sec.pw, !.rollout = b] \in Secrets
    <3>1. sec.pw \in 0..MaxPasswords
      BY <1>0, Ranges DEF Local, Secrets
    <3>2. QED
      BY <1>0, <3>1 DEF Local, Secrets
  <2>3. QED
    BY <1>0, <2>1, <2>2 DEF Local
<1>8. CASE SaveSecret
  <2>1. /\ pc' = "slots" /\ before' = {} /\ UNCHANGED <<cl, sec, known, kept>>
        /\ seen' = [o \in Ordinals |-> IF before # {} THEN [seen[o] EXCEPT !.old = TRUE] ELSE seen[o]]
    BY <1>8 DEF SaveSecret
  <2>2. \A o \in Ordinals : seen[o] \in Pods /\ [seen[o] EXCEPT !.old = TRUE] \in Pods
    BY <1>0, PodTypes DEF Local
  <2>3. seen' \in [Ordinals -> Pods]
    BY <2>1, <2>2
  <2>4. QED
    BY <1>0, <2>1, <2>3 DEF Local
<1>9. CASE ReconcileReplicationSlots /\ ~Idle
  BY <1>0, <1>9 DEF ReconcileReplicationSlots, Local
<1>10. CASE LabelStreaming
  <2> DEFINE relabel == {o \in Standbys : Live(seen[o]) /\ seen[o].label # stream[o]}
  <2>1. /\ pc' = "rollout" /\ UNCHANGED <<cl, sec, known, before, kept>>
        /\ seen' = [o \in Ordinals |-> IF o \in relabel THEN [seen[o] EXCEPT !.label = stream[o]] ELSE seen[o]]
    BY <1>10 DEF LabelStreaming
  <2>2. \A o \in Ordinals : seen[o] \in Pods /\ (o \in relabel => stream[o] \in BOOLEAN)
    BY <1>0 DEF Local
  <2> HIDE DEF relabel
  <2>3. \A o \in Ordinals : (IF o \in relabel THEN [seen[o] EXCEPT !.label = stream[o]] ELSE seen[o]) \in Pods
    BY <2>2, PodTypes
  <2>4. seen' \in [Ordinals -> Pods]
    BY <2>1, <2>3
  <2>5. QED
    BY <1>0, <2>1, <2>4 DEF Local
<1>11. CASE Unreachable \/ RolloutPassword \/ EndRollout \/ Done \/ Conflict \/ Fail
  BY <1>2, <1>11 DEF Unreachable, RolloutPassword, EndRollout, Done, Conflict, Fail
<1>12. CASE Faults \/ (\E o \in Ordinals : Kubernetes(o) \/ Boot(o)) \/ \E o \in Standbys : Late(o)
  <2>1. UNCHANGED <<pc, cl, sec, seen, kept>> /\ known' \subseteq known /\ before' \subseteq before
    BY <1>12 DEF Faults, Kubernetes, Boot, Late, CreatePod, ScaleDownPod, UpdatePod, PodGone, VolumeGone, StartPrimary,
       InitPrimary, StartStandby, Connect, Evict, Disconnect, Invalidate, local
  <2>2. QED
    BY <1>0, <2>1 DEF Local
<1>13. QED
  BY <1>1, <1>2, <1>3, <1>4, <1>5, <1>6, <1>7, <1>8, <1>9, <1>10, <1>11, <1>12 DEF Next, Reconcile
-----------------------------------------------------------------------------
(* Pods and the standbys that stream. *)

Streams ==
  /\ stream \in [Standbys -> BOOLEAN]
  /\ \A o \in Standbys : stream[o] => Ready(pod[o]) /\ slot[o] = "keep"
PodInv == PodsOK /\ Streams /\ Streaming

\* A pod that does not run changes, and the slots of standbys that stream do
\* not.
LEMMA PodStep ==
  ASSUME PodInv, NEW o \in Ordinals, NEW p \in Pods, pod' = [pod EXCEPT ![o] = p],
         o \in Standbys /\ p.st # "none" => p.tmpl, UNCHANGED stream, ~Ready(pod[o]),
         \A q \in Standbys : stream[q] => slot'[q] = slot[q]
  PROVE  PodInv'
<1>1. pod' \in [Ordinals -> Pods] /\ pod'[o] = p /\ \A q \in Ordinals : q # o => pod'[q] = pod[q]
  BY DEF PodInv, PodsOK
<1>2. PodsOK'
  BY <1>1, Ranges DEF PodInv, PodsOK
<1>3. \A q \in Standbys : stream[q] => q # o /\ 0 # o
  BY DEF PodInv, Streams, Streaming, PrimaryUp
<1>4. Streams'
  BY <1>1, <1>3, Ranges DEF PodInv, Streams, Ready
<1>5. Streaming'
  BY <1>1, <1>3, Ranges DEF PodInv, Streaming, PrimaryUp, Ready
<1>6. QED
  BY <1>2, <1>4, <1>5 DEF PodInv

\* What is recorded about pods changes, but not the pods.
LEMMA PodNotes ==
  ASSUME PodInv, pod' \in [Ordinals -> Pods], UNCHANGED stream,
         \A q \in Ordinals : pod'[q].st = pod[q].st /\ pod'[q].tmpl = pod[q].tmpl,
         \A q \in Standbys : stream[q] => slot'[q] = slot[q]
  PROVE  PodInv'
<1>1. PodsOK'
  BY Ranges DEF PodInv, PodsOK
<1>2. Streams'
  BY Ranges DEF PodInv, Streams, Ready
<1>3. Streaming'
  BY Ranges DEF PodInv, Streaming, PrimaryUp, Ready
<1>4. QED
  BY <1>1, <1>2, <1>3 DEF PodInv

\* A pod goes away, and its connections with it.
LEMMA KillStep ==
  ASSUME PodInv, NEW o \in Ordinals, Kill(o), pod[o].st # "none", UNCHANGED slot
  PROVE  PodInv'
<1>0. pod \in [Ordinals -> Pods]
  BY DEF PodInv, PodsOK
<1>1. PICK p \in Pods : p = [pod[o] EXCEPT !.st = "gone"] /\ p.tmpl = pod[o].tmpl
  BY <1>0, PodState
<1>2. /\ pod' \in [Ordinals -> Pods] /\ pod'[o].tmpl = pod[o].tmpl
      /\ \A q \in Ordinals : q # o => pod'[q] = pod[q]
  <2>1. pod' = [pod EXCEPT ![o] = p]
    BY <1>1, Zenon DEF Kill
  <2>2. QED
    BY <1>0, <1>1, <2>1
<1>3. PodsOK'
  BY <1>2, Ranges DEF PodInv, PodsOK
<1>4. /\ stream' \in [Standbys -> BOOLEAN]
      /\ \A q \in Standbys : stream'[q] => stream[q] /\ q # o /\ o # 0
  <2>1. CASE o = 0
    BY <2>1 DEF Kill
  <2>2. CASE o # 0
    BY <2>2, Ranges DEF Kill, PodInv, Streams
  <2>3. QED
    BY <2>1, <2>2
<1>5. Streams' /\ Streaming'
  BY <1>2, <1>4, Ranges DEF PodInv, Streams, Streaming, PrimaryUp, Ready
<1>6. QED
  BY <1>3, <1>5 DEF PodInv

LEMMA NextPods == TypeOK /\ Streaming /\ Templated /\ Next => PodInv'
<1> SUFFICES ASSUME TypeOK, Streaming, Templated, Next PROVE PodInv'
  OBVIOUS
<1>0. PodInv /\ pod \in [Ordinals -> Pods] /\ stream \in [Standbys -> BOOLEAN] /\ slot \in [Standbys -> Slots] /\ Local
  BY TypeParts DEF PodInv, Streams, PodsOK, StandbysOK
<1>1. CASE UNCHANGED <<pod, slot, stream>>
  BY <1>0, <1>1, PodNotes
<1>2. ASSUME NEW o \in Ordinals, DeleteVolume(o) \/ ScaleDownPod(o) \/ UpdatePod(o) \/ Evict(o) PROVE PodInv'
  <2>1. Kill(o) /\ UNCHANGED slot /\ pod[o].st # "none"
    BY <1>2 DEF DeleteVolume, ScaleDownPod, UpdatePod, Evict, Live, Ready
  <2>2. QED
    BY <1>0, <2>1, KillStep
<1>3. ASSUME NEW o \in Ordinals, CreatePod(o) PROVE PodInv'
  <2> DEFINE p == [NoPod EXCEPT !.st = "boot", !.tmpl = sts.tmpl, !.pw = secret.pw]
  <2>1. sts.tmpl \in BOOLEAN /\ secret.pw \in 1..MaxPasswords /\ sts.n \in Int
    BY DEF TypeOK, Secrets
  <2>2. p \in Pods /\ p.st = "boot" /\ p.tmpl = sts.tmpl
    BY <2>1, NewPod
  <2>3. pod' = [pod EXCEPT ![o] = p] /\ UNCHANGED <<slot, stream>> /\ pod[o].st = "none" /\ o < sts.n
    BY <1>3 DEF CreatePod, server
  <2> HIDE DEF p
  <2>4. o \in Standbys => p.tmpl
    BY <2>1, <2>2, <2>3 DEF Templated, Standbys
  <2>5. QED
    BY <1>0, <2>2, <2>3, <2>4, PodStep DEF Ready
<1>4. ASSUME NEW o \in Ordinals, PodGone(o) PROVE PodInv'
  BY <1>0, <1>4, PodStep, EmptyTypes DEF PodGone, server, Ready
<1>5. ASSUME NEW o \in Ordinals, pod[o].st = "boot", pod' = [pod EXCEPT ![o].st = "up"], UNCHANGED stream,
             \A q \in Standbys : stream[q] => slot'[q] = slot[q]
      PROVE  PodInv'
  <2>0. PICK p \in Pods : p = [pod[o] EXCEPT !.st = "up"] /\ p.tmpl = pod[o].tmpl
    BY <1>0, PodState
  <2>1. pod' = [pod EXCEPT ![o] = p]
    BY <1>5, <2>0, Zenon
  <2>2. o \in Standbys => p.tmpl
    BY <1>0, <1>5, <2>0 DEF PodInv, PodsOK
  <2>3. QED
    BY <1>0, <1>5, <2>0, <2>1, <2>2, PodStep DEF Ready
<1>6. CASE StartPrimary \/ InitPrimary
  <2>1. pod[0].st = "boot" /\ pod' = [pod EXCEPT ![0].st = "up"] /\ UNCHANGED stream
    BY <1>6 DEF StartPrimary, InitPrimary, server
  <2>2. \A q \in Standbys : ~stream[q]
    BY <2>1 DEF Streaming, PrimaryUp, Ready
  <2>3. QED
    BY <1>5, <2>1, <2>2, Ranges
<1>7. ASSUME NEW o \in Standbys, StartStandby(o) PROVE PodInv'
  <2>1. /\ pod[o].st = "boot" /\ pod' = [pod EXCEPT ![o].st = "up"] /\ UNCHANGED stream
        /\ slot' = slot \/ slot' = [slot EXCEPT ![o] = "keep"]
    BY <1>7 DEF StartStandby
  <2>2. ~stream[o]
    BY <1>0, <2>1 DEF PodInv, Streams, Ready
  <2>3. \A q \in Standbys : stream[q] => slot'[q] = slot[q]
    BY <1>0, <2>1, <2>2
  <2>4. QED
    BY <1>5, <2>1, <2>3, Ranges
<1>8. ASSUME NEW o \in Standbys, Connect(o) \/ Disconnect(o) PROVE PodInv'
  <2>1. UNCHANGED pod
    BY <1>8 DEF Connect, Disconnect, kube
  <2>2. \/ stream' = [stream EXCEPT ![o] = FALSE] /\ UNCHANGED slot
        \/ stream' = [stream EXCEPT ![o] = TRUE] /\ slot' = [slot EXCEPT ![o] = "keep"] /\ Ready(pod[o]) /\ PrimaryUp
    BY <1>8 DEF Connect, Disconnect, Accepts
  <2>3. PodsOK'
    BY <1>0, <2>1 DEF PodInv, PodsOK
  <2>4. Streams' /\ Streaming'
    BY <1>0, <2>1, <2>2 DEF PodInv, Streams, Streaming, PrimaryUp, Ready
  <2>5. QED
    BY <2>3, <2>4 DEF PodInv
<1>9. ASSUME NEW o \in Standbys, Invalidate(o) PROVE PodInv'
  <2>1. UNCHANGED <<pod, stream>> /\ ~stream[o] /\ slot' = [slot EXCEPT ![o] = "lost"]
    BY <1>9 DEF Invalidate
  <2>2. \A q \in Standbys : stream[q] => slot'[q] = slot[q]
    BY <1>0, <2>1
  <2>3. QED
    BY <1>0, <2>1, <2>2, PodNotes
<1>10. ASSUME NEW o \in Standbys, Late(o) PROVE PodInv'
  <2>1. pod' = [pod EXCEPT ![o].late = TRUE] /\ UNCHANGED <<slot, stream>>
    BY <1>10 DEF Late, server
  <2>2. pod' \in [Ordinals -> Pods] /\ \A q \in Ordinals : pod'[q].st = pod[q].st /\ pod'[q].tmpl = pod[q].tmpl
    <3>1. \A x \in Pods : LET y == [x EXCEPT !.late = TRUE] IN y \in Pods /\ y.st = x.st /\ y.tmpl = x.tmpl
      BY DEF Pods
    <3>2. PICK y \in Pods : y = [pod[o] EXCEPT !.late = TRUE] /\ y.st = pod[o].st /\ y.tmpl = pod[o].tmpl
      BY <1>0, <3>1, Ranges
    <3>3. pod' = [pod EXCEPT ![o] = y]
      BY <2>1, <3>2, Zenon
    <3>4. QED
      BY <1>0, <3>2, <3>3, Ranges
  <2>3. QED
    BY <1>0, <2>1, <2>2, PodNotes
<1>11. CASE SaveSecret
  <2>1. /\ pod' = [o \in Ordinals |-> IF o \in before THEN [pod[o] EXCEPT !.old = TRUE, !.late = FALSE] ELSE pod[o]]
        /\ UNCHANGED <<slot, stream>>
    BY <1>11 DEF SaveSecret, server
  <2>2. \A q \in Ordinals : /\ pod'[q] \in Pods /\ pod'[q].st = pod[q].st /\ pod'[q].tmpl = pod[q].tmpl
    <3>1. \A x \in Pods : LET y == [x EXCEPT !.old = TRUE, !.late = FALSE] IN y \in Pods /\ y.st = x.st /\ y.tmpl = x.tmpl
      BY DEF Pods
    <3>2. QED
      BY <1>0, <2>1, <3>1
  <2>3. pod' \in [Ordinals -> Pods]
    BY <2>1, <2>2
  <2>4. QED
    BY <1>0, <2>1, <2>2, <2>3, PodNotes
<1>12. CASE LabelStreaming
  <2> DEFINE relabel == {o \in Standbys : Live(seen[o]) /\ seen[o].label # stream[o]}
  <2>1. /\ pod' = [o \in Ordinals |-> IF o \in relabel /\ pod[o].st # "none" THEN [pod[o] EXCEPT !.label = stream[o]] ELSE pod[o]]
        /\ UNCHANGED <<slot, stream>> /\ relabel \subseteq Standbys
    BY <1>12 DEF LabelStreaming, server
  <2> HIDE DEF relabel
  <2>2. \A q \in Ordinals : /\ pod'[q] \in Pods /\ pod'[q].st = pod[q].st /\ pod'[q].tmpl = pod[q].tmpl
    <3>1. \A x \in Pods, b \in BOOLEAN : LET y == [x EXCEPT !.label = b] IN y \in Pods /\ y.st = x.st /\ y.tmpl = x.tmpl
      BY DEF Pods
    <3>2. \A q \in relabel : stream[q] \in BOOLEAN
      BY <1>0, <2>1
    <3>3. QED
      BY <1>0, <2>1, <3>1, <3>2
  <2>3. pod' \in [Ordinals -> Pods]
    BY <2>1, <2>2
  <2>4. QED
    BY <1>0, <2>1, <2>2, <2>3, PodNotes
<1>13. CASE ReconcileReplicationSlots
  <2>1. UNCHANGED <<pod, stream>> /\ slot' = [o \in Standbys |-> Reconciled(o)]
    BY <1>13 DEF ReconcileReplicationSlots, kube
  <2>2. \A q \in Standbys : stream[q] => Reconciled(q) = slot[q]
    BY <1>0 DEF Reconciled, PodInv, Streams
  <2>3. QED
    BY <1>0, <2>1, <2>2, PodNotes
<1>14. CASE RolloutPassword
  <2>1. UNCHANGED slot /\ (UNCHANGED <<pod, stream>> \/ (Kill(Last(Stale)) /\ Last(Stale) \in known /\ Live(pod[Last(Stale)])))
    BY <1>14 DEF RolloutPassword
  <2>2. CASE Kill(Last(Stale)) /\ Last(Stale) \in known /\ Live(pod[Last(Stale)])
    <3>1. PICK o : o = Last(Stale)
      OBVIOUS
    <3>2. Kill(o) /\ o \in Ordinals /\ pod[o].st # "none"
      BY <1>0, <2>2, <3>1 DEF Local, Live
    <3>3. QED
      BY <1>0, <2>1, <3>2, KillStep
  <2>3. QED
    BY <1>1, <2>1, <2>2
<1>15. CASE \/ (Users /\ ~\E o \in Ordinals : DeleteVolume(o)) \/ Begin \/ ReconcileStatefulSet \/ ListPods \/ CleanupStandbyVolumes
            \/ Unreachable \/ MarkInitialized \/ EnsureReplicationRole \/ EndRollout \/ Done \/ Conflict \/ Fail
            \/ \E o \in Ordinals : VolumeGone(o)
  <2>1. UNCHANGED <<pod, slot, stream>>
    BY <1>15 DEF Users, ScaleTo, ManualScale, SetAllow, ChangePassword, TouchSecret, Begin, ReconcileStatefulSet, ListPods,
       CleanupStandbyVolumes, Unreachable, MarkInitialized, EnsureReplicationRole, EndRollout, Done, Conflict, Fail,
       VolumeGone, kube, server
  <2>2. QED
    BY <1>1, <2>1
<1>16. QED
  BY <1>2, <1>3, <1>4, <1>6, <1>7, <1>8, <1>9, <1>10, <1>11, <1>12, <1>13, <1>14, <1>15, Ranges
  DEF Next, Reconcile, Users, Faults, Kubernetes, Boot
-----------------------------------------------------------------------------
(* Volumes and slots. *)

\* A volume with some fields changed.
LEMMA VolumeTypes ==
  /\ \A v \in Volumes, d \in {"none", "empty", "good", "stale"} :
       LET w == [v EXCEPT !.data = d] IN w \in Volumes /\ w.data = d /\ w.del = v.del
  /\ \A v \in Volumes : LET w == [v EXCEPT !.del = TRUE] IN w \in Volumes /\ w.data = v.data /\ w.del
  /\ \A d \in {"none", "empty", "good", "stale"} :
       Volume(d) \in Volumes /\ Volume(d).data = d /\ Volume(d).del = FALSE
  BY DEF Volumes, Volume

LEMMA VolumeData ==
  ASSUME NEW v \in Volumes, NEW d \in {"none", "empty", "good", "stale"}
  PROVE  \E w \in Volumes : w = [v EXCEPT !.data = d] /\ w.data = d /\ w.del = v.del
<1>1. [v EXCEPT !.data = d] \in Volumes
  BY DEF Volumes
<1>2. [v EXCEPT !.data = d].data = d /\ [v EXCEPT !.data = d].del = v.del
  BY DEF Volumes
<1>3. QED
  BY <1>1, <1>2

LEMMA VolumeDeleted ==
  ASSUME NEW v \in Volumes
  PROVE  \E w \in Volumes : w = [v EXCEPT !.del = TRUE] /\ w.data = v.data /\ w.del
<1>1. [v EXCEPT !.del = TRUE] \in Volumes
  BY DEF Volumes
<1>2. [v EXCEPT !.del = TRUE].data = v.data /\ [v EXCEPT !.del = TRUE].del
  BY DEF Volumes
<1>3. QED
  BY <1>1, <1>2

\* What a step does to the volume of a standby: nothing, it is marked for
\* deletion, it is gone, created for a pod, left behind by a new primary or by
\* the slot, or cloned over the slot.
VolumeMove(q) ==
  \/ vol'[q] = vol[q]
  \/ vol'[q].data = vol[q].data /\ vol'[q].del
  \/ vol'[q].data = "none"
  \/ vol[q].data = "none" /\ vol'[q].data = "empty" /\ q < sts.n
  \/ vol[q].data = "good" /\ vol'[q].data = "stale" /\ vol'[q].del = vol[q].del
  \/ vol[q].data = "empty" /\ vol'[q].data = "good" /\ vol'[q].del = vol[q].del
     /\ slot[q] \in {"idle", "keep"} /\ slot'[q] = "keep"

\* What it does to its slot: it is kept, reserves WAL, is dropped with the data
\* of another primary or with a volume that is gone, or was no use.  Only the
\* reconcile creates one.
SlotMove(q) ==
  /\ \/ slot'[q] \in {slot[q], "keep"} \/ vol'[q].data # "good" \/ slot[q] # "keep"
     \/ pc = "slots" /\ drops /\ q >= cl.want /\ q \notin kept /\ vol' = vol
  /\ slot[q] = "none" /\ slot'[q] # "none" => pc = "slots"

Moves ==
  /\ vol' \in [Ordinals -> Volumes] /\ slot' \in [Standbys -> Slots]
  /\ \A q \in Standbys : VolumeMove(q) /\ SlotMove(q)

\* One volume changes.
LEMMA VolumeStep ==
  ASSUME vol \in [Ordinals -> Volumes], slot \in [Standbys -> Slots],
         NEW o \in Ordinals, NEW v \in Volumes, vol' = [vol EXCEPT ![o] = v],
         slot' \in [Standbys -> Slots],
         \A q \in Standbys : q # o => slot'[q] = slot[q],
         o \in Standbys => VolumeMove(o) /\ SlotMove(o)
  PROVE  Moves
<1>1. vol' \in [Ordinals -> Volumes] /\ \A q \in Standbys : q # o => vol'[q] = vol[q]
  BY Ranges
<1>2. \A q \in Standbys : q # o => VolumeMove(q) /\ SlotMove(q)
  BY <1>1 DEF VolumeMove, SlotMove
<1>3. QED
  BY <1>1, <1>2 DEF Moves

LEMMA NextMoves == TypeOK /\ Next => Moves
<1> SUFFICES ASSUME TypeOK, Next PROVE Moves
  OBVIOUS
<1>0. vol \in [Ordinals -> Volumes] /\ slot \in [Standbys -> Slots] /\ sts.n \in Int
  BY DEF TypeOK
<1>1. CASE UNCHANGED <<vol, slot>>
  BY <1>0, <1>1 DEF Moves, VolumeMove, SlotMove
<1>2. ASSUME NEW o \in Ordinals, DeleteVolume(o) PROVE Moves
  <2>1. PICK v \in Volumes : v = [vol[o] EXCEPT !.del = TRUE] /\ v.data = vol[o].data /\ v.del
    BY <1>0, VolumeTypes
  <2>2. vol' = [vol EXCEPT ![o] = v] /\ slot' = slot
    BY <1>2, <2>1, Zenon DEF DeleteVolume
  <2>3. QED
    BY <1>0, <2>1, <2>2, VolumeStep DEF VolumeMove, SlotMove
<1>3. ASSUME NEW o \in Ordinals, CreatePod(o) PROVE Moves
  <2>1. slot' = slot /\ o < sts.n /\ (vol' = vol \/ (vol[o].data = "none" /\ vol' = [vol EXCEPT ![o] = Volume("empty")]))
    BY <1>3 DEF CreatePod, server
  <2>2. CASE vol[o].data = "none" /\ vol' = [vol EXCEPT ![o] = Volume("empty")]
    <3>1. PICK v \in Volumes : v = Volume("empty") /\ v.data = "empty"
      BY VolumeTypes
    <3>2. QED
      BY <1>0, <2>1, <2>2, <3>1, VolumeStep DEF VolumeMove, SlotMove
  <2>3. QED
    BY <1>1, <2>1, <2>2
<1>4. ASSUME NEW o \in Ordinals, VolumeGone(o) PROVE Moves
  <2>1. slot' = slot /\ vol' = [vol EXCEPT ![o] = NoVolume]
    BY <1>4 DEF VolumeGone, server
  <2>2. QED
    BY <1>0, <2>1, EmptyTypes, VolumeStep DEF VolumeMove, SlotMove
<1>5. CASE InitPrimary
  <2>1. /\ vol' = [o \in Ordinals |-> IF o = 0 THEN Volume("good")
                                      ELSE IF vol[o].data = "good" THEN [vol[o] EXCEPT !.data = "stale"] ELSE vol[o]]
        /\ slot' = [o \in Standbys |-> "none"]
    BY <1>5 DEF InitPrimary
  <2>2. \A q \in Standbys : /\ vol[q].data = "good" => vol'[q].data = "stale" /\ vol'[q].del = vol[q].del
                            /\ vol[q].data # "good" => vol'[q] = vol[q]
    <3> SUFFICES ASSUME NEW q \in Standbys
                 PROVE  /\ vol[q].data = "good" => vol'[q].data = "stale" /\ vol'[q].del = vol[q].del
                        /\ vol[q].data # "good" => vol'[q] = vol[q]
      OBVIOUS
    <3>1. vol[q] \in Volumes /\ vol'[q] = IF vol[q].data = "good" THEN [vol[q] EXCEPT !.data = "stale"] ELSE vol[q]
      BY <1>0, <2>1, Ranges
    <3>2. QED
      BY <3>1, VolumeTypes
  <2>3. vol' \in [Ordinals -> Volumes]
    <3>1. \A o \in Ordinals : vol[o] \in Volumes /\ [vol[o] EXCEPT !.data = "stale"] \in Volumes /\ Volume("good") \in Volumes
      BY <1>0, VolumeTypes
    <3>2. QED
      BY <2>1, <3>1
  <2>4. slot' \in [Standbys -> Slots] /\ \A q \in Standbys : slot'[q] = "none"
    BY <2>1 DEF Slots
  <2>5. QED
    BY <2>2, <2>3, <2>4 DEF Moves, VolumeMove, SlotMove
<1>6. ASSUME NEW o \in Standbys, StartStandby(o) PROVE Moves
  <2>1. \/ UNCHANGED <<vol, slot>>
        \/ /\ vol[o].data = "empty" /\ slot[o] \in {"idle", "keep"}
           /\ vol' = [vol EXCEPT ![o].data = "good"] /\ slot' = [slot EXCEPT ![o] = "keep"]
    BY <1>6 DEF StartStandby, Accepts
  <2>2. CASE /\ vol[o].data = "empty" /\ slot[o] \in {"idle", "keep"}
             /\ vol' = [vol EXCEPT ![o].data = "good"] /\ slot' = [slot EXCEPT ![o] = "keep"]
    <3>1. PICK v \in Volumes : v = [vol[o] EXCEPT !.data = "good"] /\ v.data = "good" /\ v.del = vol[o].del
      <4>1. vol[o] \in Volumes
        BY <1>0, Ranges
      <4>2. QED
        BY <4>1, VolumeData
    <3>2. vol' = [vol EXCEPT ![o] = v]
      BY <2>2, <3>1, Zenon
    <3>3. slot' \in [Standbys -> Slots] /\ slot'[o] = "keep" /\ \A q \in Standbys : q # o => slot'[q] = slot[q]
      BY <1>0, <2>2 DEF Slots
    <3>4. o \in Ordinals /\ vol'[o] = v
      BY <1>0, <3>2, Ranges
    <3>5. VolumeMove(o) /\ SlotMove(o)
      BY <2>2, <3>1, <3>3, <3>4 DEF VolumeMove, SlotMove
    <3>6. QED
      BY <1>0, <3>2, <3>3, <3>4, <3>5, VolumeStep
  <2>3. QED
    BY <1>1, <2>1, <2>2
<1>7. ASSUME NEW o \in Standbys, Connect(o) PROVE Moves
  <2>1. vol' = vol /\ slot' = [slot EXCEPT ![o] = "keep"] /\ slot[o] \in {"idle", "keep"}
    BY <1>7 DEF Connect, kube, Accepts
  <2>2. QED
    BY <1>0, <2>1 DEF Moves, VolumeMove, SlotMove, Slots
<1>8. ASSUME NEW o \in Standbys, Invalidate(o) PROVE Moves
  <2>1. /\ slot[o] = "keep" /\ slot' = [slot EXCEPT ![o] = "lost"]
        /\ vol' = IF vol[o].data = "good" THEN [vol EXCEPT ![o].data = "stale"] ELSE vol
    BY <1>8 DEF Invalidate
  <2>2. slot' \in [Standbys -> Slots] /\ slot'[o] = "lost" /\ \A q \in Standbys : q # o => slot'[q] = slot[q]
    BY <1>0, <2>1 DEF Slots
  <2>3. CASE vol[o].data = "good"
    <3>1. PICK v \in Volumes : v = [vol[o] EXCEPT !.data = "stale"] /\ v.data = "stale" /\ v.del = vol[o].del
      <4>1. vol[o] \in Volumes
        BY <1>0, Ranges
      <4>2. QED
        BY <4>1, VolumeData
    <3>2. vol' = [vol EXCEPT ![o] = v]
      BY <2>1, <2>3, <3>1, Zenon
    <3>3. o \in Ordinals /\ vol'[o] = v
      BY <1>0, <3>2, Ranges
    <3>4. VolumeMove(o) /\ SlotMove(o)
      BY <2>1, <2>2, <2>3, <3>1, <3>3 DEF VolumeMove, SlotMove
    <3>5. QED
      BY <1>0, <2>2, <3>2, <3>3, <3>4, VolumeStep
  <2>4. CASE vol[o].data # "good"
    BY <1>0, <2>1, <2>2, <2>4 DEF Moves, VolumeMove, SlotMove
  <2>5. QED
    BY <2>3, <2>4
<1>9. CASE CleanupStandbyVolumes
  <2>1. PICK deleted \in SUBSET Unwanted :
          vol' = [o \in Ordinals |-> IF o \in deleted THEN [vol[o] EXCEPT !.del = TRUE] ELSE vol[o]]
    BY <1>9 DEF CleanupStandbyVolumes
  <2>2. slot' = slot
    BY <1>9 DEF CleanupStandbyVolumes, server
  <2>3. \A o \in Ordinals : vol'[o] \in Volumes /\ (vol'[o] = vol[o] \/ (vol'[o].data = vol[o].data /\ vol'[o].del))
    <3> SUFFICES ASSUME NEW o \in Ordinals
                 PROVE  vol'[o] \in Volumes /\ (vol'[o] = vol[o] \/ (vol'[o].data = vol[o].data /\ vol'[o].del))
      OBVIOUS
    <3>1. vol[o] \in Volumes /\ vol'[o] = IF o \in deleted THEN [vol[o] EXCEPT !.del = TRUE] ELSE vol[o]
      BY <1>0, <2>1
    <3>2. QED
      BY <3>1, VolumeTypes
  <2>4. vol' \in [Ordinals -> Volumes]
    BY <2>1, <2>3
  <2>5. QED
    BY <1>0, <2>2, <2>3, <2>4, Ranges DEF Moves, VolumeMove, SlotMove
<1>10. CASE ReconcileReplicationSlots
  <2>1. vol' = vol /\ pc = "slots" /\ slot' = [o \in Standbys |-> Reconciled(o)]
    BY <1>10 DEF ReconcileReplicationSlots, kube
  <2>2. \A q \in Standbys : /\ Reconciled(q) \in Slots
                            /\ Reconciled(q) \in {slot[q], "keep"} \/ slot[q] # "keep" \/ (drops /\ q >= cl.want /\ q \notin kept)
    <3> SUFFICES ASSUME NEW q \in Standbys
                 PROVE  /\ Reconciled(q) \in Slots
                        /\ Reconciled(q) \in {slot[q], "keep"} \/ slot[q] # "keep" \/ (drops /\ q >= cl.want /\ q \notin kept)
      OBVIOUS
    <3>1. CASE q >= cl.want
      BY <1>0, <3>1 DEF Reconciled, Slots
    <3>2. CASE ~(q >= cl.want) /\ slot[q] = "lost" /\ ~stream[q]
      <4>1. Reconciled(q) = IF seen[q].st # "none" THEN "idle" ELSE "none"
        BY <3>2 DEF Reconciled
      <4>2. QED
        BY <3>2, <4>1 DEF Slots
    <3>3. CASE ~(q >= cl.want) /\ slot[q] = "none" /\ seen[q].st # "none"
      <4>1. Reconciled(q) = "keep"
        BY <3>3 DEF Reconciled
      <4>2. QED
        BY <4>1 DEF Slots
    <3>4. CASE ~(q >= cl.want) /\ ~(slot[q] = "lost" /\ ~stream[q]) /\ ~(slot[q] = "none" /\ seen[q].st # "none")
      <4>1. Reconciled(q) = slot[q]
        BY <3>4 DEF Reconciled
      <4>2. QED
        BY <1>0, <4>1
    <3>5. QED
      BY <3>1, <3>2, <3>3, <3>4
  <2>3. slot' \in [Standbys -> Slots] /\ \A q \in Standbys : slot'[q] = Reconciled(q)
    BY <2>1, <2>2
  <2>4. \A q \in Standbys : VolumeMove(q) /\ SlotMove(q)
    BY <2>1, <2>2, <2>3 DEF VolumeMove, SlotMove
  <2>5. QED
    BY <1>0, <2>1, <2>3, <2>4 DEF Moves
<1>11. CASE \/ (Users /\ ~\E o \in Ordinals : DeleteVolume(o)) \/ Begin \/ Fail \/ StartPrimary
            \/ (Reconcile /\ ~CleanupStandbyVolumes /\ ~ReconcileReplicationSlots)
            \/ (\E o \in Ordinals : ScaleDownPod(o) \/ UpdatePod(o) \/ PodGone(o) \/ Evict(o))
            \/ (\E o \in Standbys : Disconnect(o) \/ Late(o))
  <2>1. UNCHANGED <<vol, slot>>
    BY <1>11 DEF Users, ScaleTo, ManualScale, SetAllow, ChangePassword, TouchSecret, Begin, Fail, StartPrimary, Reconcile,
       ReconcileStatefulSet, ListPods, Unreachable, MarkInitialized, EnsureReplicationRole, SaveSecret, LabelStreaming,
       RolloutPassword, EndRollout, Done, Conflict, ScaleDownPod, UpdatePod, PodGone, Evict, Disconnect, Late, kube, server
  <2>2. QED
    BY <1>1, <2>1
<1>12. QED
  BY <1>2, <1>3, <1>4, <1>5, <1>6, <1>7, <1>8, <1>9, <1>10, <1>11, Ranges
  DEF Next, Users, Faults, Kubernetes, Boot
-----------------------------------------------------------------------------
(* The invariants, part by part. *)

LEMMA NextTypeOK == TypeOK /\ Streaming /\ Templated /\ Scaled /\ Next => TypeOK' /\ Streaming'
<1> SUFFICES ASSUME TypeOK, Streaming, Templated, Scaled, Next PROVE TypeOK' /\ Streaming'
  OBVIOUS
<1>1. PodInv' /\ Moves
  BY NextPods, NextMoves
<1>2. StandbysOK' /\ PodsOK' /\ Streaming'
  BY <1>1 DEF PodInv, Moves, StandbysOK, Streams
<1>3. QED
  BY <1>2, TypeParts, NextFlags, NextCounts, NextLocal

\* How the reconcile moves on: it ends, starts, goes one step, or stays.
LEMMA ReconcileSteps ==
  Next => /\ \/ pc' \in {"idle", "sts", "list"}
             \/ ListPods /\ pc' = "volumes"
             \/ CleanupStandbyVolumes
             \/ MarkInitialized
             \/ pc \in {"role", "save"} /\ UNCHANGED <<cl, kept, drops>> /\ pc' \in {"save", "slots"}
             \/ pc' \in {"label", "rollout"} /\ pc \in {"slots", "label"}
             \/ UNCHANGED <<pc, cl, seen, kept, drops>>
          /\ pc' = "sts" => Begin \/ UNCHANGED pc
          /\ pc' = "list" => ReconcileStatefulSet \/ UNCHANGED pc
          /\ ReconcileStatefulSet => pc = "sts" /\ UNCHANGED <<vol, slot>>
          /\ sts' # sts => ReconcileStatefulSet \/ \E n \in 0..N+1 : ManualScale(n)
<1> SUFFICES ASSUME Next
             PROVE  /\ \/ pc' \in {"idle", "sts", "list"}
                       \/ ListPods /\ pc' = "volumes"
                       \/ CleanupStandbyVolumes
                       \/ MarkInitialized
                       \/ pc \in {"role", "save"} /\ UNCHANGED <<cl, kept, drops>> /\ pc' \in {"save", "slots"}
                       \/ pc' \in {"label", "rollout"} /\ pc \in {"slots", "label"}
                       \/ UNCHANGED <<pc, cl, seen, kept, drops>>
                    /\ pc' = "sts" => Begin \/ UNCHANGED pc
                    /\ pc' = "list" => ReconcileStatefulSet \/ UNCHANGED pc
                    /\ ReconcileStatefulSet => pc = "sts" /\ UNCHANGED <<vol, slot>>
                    /\ sts' # sts => ReconcileStatefulSet \/ \E n \in 0..N+1 : ManualScale(n)
  OBVIOUS
<1>1. CASE Begin \/ Fail
  BY <1>1 DEF Begin, Fail, Idle, kube, ReconcileStatefulSet
<1>2. CASE Users
  BY <1>2 DEF Users, ScaleTo, ManualScale, SetAllow, DeleteVolume, ChangePassword, TouchSecret, local, kube, server, ReconcileStatefulSet
<1>3. CASE Reconcile
  BY <1>3 DEF Reconcile, ReconcileStatefulSet, ListPods, CleanupStandbyVolumes, Unreachable, MarkInitialized,
     EnsureReplicationRole, SaveSecret, ReconcileReplicationSlots, LabelStreaming, RolloutPassword, EndRollout, Done,
     Conflict, Idle, local, kube, server
<1>4. CASE Faults \/ (\E o \in Ordinals : Kubernetes(o) \/ Boot(o)) \/ \E o \in Standbys : Late(o)
  BY <1>4 DEF Faults, Kubernetes, Boot, Late, CreatePod, ScaleDownPod, UpdatePod, PodGone, VolumeGone, StartPrimary,
     InitPrimary, StartStandby, Connect, Evict, Disconnect, Invalidate, local, kube, server, ReconcileStatefulSet
<1>5. QED
  BY <1>1, <1>2, <1>3, <1>4 DEF Next

\* A pod that was not there is created by the StatefulSet.
LEMMA NewPods == TypeOK /\ Next => \A q \in Standbys : pod[q].st = "none" => pod'[q].st = "none" \/ q < sts.n
<1> SUFFICES ASSUME TypeOK, Next, NEW q \in Standbys, pod[q].st = "none" PROVE pod'[q].st = "none" \/ q < sts.n
  OBVIOUS
<1>0. pod \in [Ordinals -> Pods] /\ pod[q] \in Pods /\ stream \in [Standbys -> BOOLEAN] /\ known \subseteq Ordinals
  BY Ranges DEF TypeOK
<1>1. CASE pod' = pod
  BY <1>1
<1>2. ASSUME NEW o \in Ordinals, NEW p, pod' = [pod EXCEPT ![o] = p], pod[o].st # "none" \/ p.st = "none" \/ o < sts.n
      PROVE  pod'[q].st = "none" \/ q < sts.n
  BY <1>0, <1>2, Ranges
<1>3. ASSUME NEW o \in Ordinals, NEW s, pod[o].st # "none", pod' = [pod EXCEPT ![o].st = s]
      PROVE  pod'[q].st = "none" \/ q < sts.n
  <2>1. pod' = [pod EXCEPT ![o] = [pod[o] EXCEPT !.st = s]]
    BY <1>3, Zenon
  <2>2. QED
    BY <1>2, <1>3, <2>1
<1>4. ASSUME NEW o \in Ordinals,
             DeleteVolume(o) \/ ScaleDownPod(o) \/ UpdatePod(o) \/ Evict(o) \/ (o = 0 /\ (StartPrimary \/ InitPrimary)) \/ StartStandby(o)
      PROVE  pod'[q].st = "none" \/ q < sts.n
  <2>1. pod[o].st # "none" /\ \E s \in {"gone", "up"} : pod' = [pod EXCEPT ![o].st = s]
    BY <1>4 DEF DeleteVolume, ScaleDownPod, UpdatePod, Evict, StartPrimary, InitPrimary, StartStandby, Kill, Live, Ready
  <2>2. QED
    BY <1>3, <2>1
<1>5. ASSUME NEW o \in Ordinals, CreatePod(o) \/ PodGone(o) PROVE pod'[q].st = "none" \/ q < sts.n
  <2>1. CASE CreatePod(o)
    BY <1>2, <2>1 DEF CreatePod
  <2>2. CASE PodGone(o)
    BY <1>2, <2>2 DEF PodGone
  <2>3. QED
    BY <1>5, <2>1, <2>2
<1>6. CASE RolloutPassword
  <2>1. PICK o : o = Last(Stale)
    OBVIOUS
  <2>2. pod' = pod \/ (o \in Ordinals /\ pod[o].st # "none" /\ pod' = [pod EXCEPT ![o].st = "gone"])
    BY <1>0, <1>6, <2>1 DEF RolloutPassword, Kill, Live
  <2>3. QED
    BY <1>1, <1>3, <2>2
<1>7. ASSUME NEW o \in Standbys, Late(o) PROVE pod'[q].st = "none" \/ q < sts.n
  <2>1. pod' = [pod EXCEPT ![o] = [pod[o] EXCEPT !.late = TRUE]] /\ pod[o].st # "none"
    BY <1>7 DEF Late, Live
  <2>2. QED
    BY <1>2, <2>1, Ranges
<1>8. CASE SaveSecret \/ LabelStreaming
  <2>1. /\ \A x \in Pods : [x EXCEPT !.old = TRUE, !.late = FALSE].st = x.st
        /\ \A x \in Pods : [x EXCEPT !.label = stream[q]].st = x.st
    BY DEF Pods
  <2>2. \/ pod'[q] = pod[q] \/ pod'[q] = [pod[q] EXCEPT !.old = TRUE, !.late = FALSE]
        \/ pod'[q] = [pod[q] EXCEPT !.label = stream[q]]
    BY <1>8, Ranges DEF SaveSecret, LabelStreaming
  <2>3. QED
    BY <1>0, <2>1, <2>2
<1>9. CASE \/ (Users /\ ~\E o \in Ordinals : DeleteVolume(o)) \/ Begin \/ Fail
           \/ (Reconcile /\ ~SaveSecret /\ ~LabelStreaming /\ ~RolloutPassword)
           \/ (\E o \in Ordinals : VolumeGone(o)) \/ (\E o \in Standbys : Connect(o) \/ Disconnect(o) \/ Invalidate(o))
  <2>1. pod' = pod
    BY <1>9 DEF Users, ScaleTo, ManualScale, SetAllow, ChangePassword, TouchSecret, Begin, Fail, Reconcile,
       ReconcileStatefulSet, ListPods, CleanupStandbyVolumes, Unreachable, MarkInitialized, EnsureReplicationRole,
       ReconcileReplicationSlots, EndRollout, Done, Conflict, VolumeGone, Connect, Disconnect, Invalidate, kube
  <2>2. QED
    BY <1>1, <2>1
<1>10. QED
  BY <1>4, <1>5, <1>6, <1>7, <1>8, <1>9, Ranges DEF Next, Users, Faults, Kubernetes, Boot

LEMMA NextSeenGone == TypeOK /\ Scaled /\ SeenGone /\ Next => SeenGone'
<1> SUFFICES ASSUME TypeOK, Scaled, SeenGone, Next, pc' = "volumes", NEW q \in Standbys, q >= cl'.want, seen'[q].st = "none"
             PROVE  pod'[q].st = "none"
  BY DEF SeenGone
<1>0. pod \in [Ordinals -> Pods] /\ pod[q] \in Pods /\ cl.want \in Int /\ sts.n \in Int /\ q \in Int
  BY Ranges DEF TypeOK
<1>1. CASE ListPods
  <2>1. seen' = [o \in Ordinals |-> [pod[o] EXCEPT !.pw = 0, !.tmpl = FALSE]] /\ pod' = pod
    BY <1>1 DEF ListPods, Idle, kube
  <2>2. seen'[q] = [pod[q] EXCEPT !.pw = 0, !.tmpl = FALSE]
    BY <2>1, Ranges
  <2>3. [pod[q] EXCEPT !.pw = 0, !.tmpl = FALSE].st = pod[q].st
    BY <1>0 DEF Pods
  <2>4. QED
    BY <2>1, <2>2, <2>3
<1>2. CASE UNCHANGED <<pc, cl, seen>>
  <2>1. pod[q].st = "none" /\ q >= cl.want /\ sts.n <= cl.want
    BY <1>2 DEF SeenGone, Scaled
  <2>2. QED
    BY <1>0, <2>1, NewPods
<1>3. QED
  BY <1>1, <1>2, ReconcileSteps DEF CleanupStandbyVolumes, MarkInitialized

LEMMA NextKeptThere == TypeOK /\ Scaled /\ KeptThere /\ Next => KeptThere'
<1> SUFFICES ASSUME TypeOK, Scaled, KeptThere, Next, pc' \in {"primary", "role", "save", "slots"}, drops',
                    NEW q \in Standbys, q >= cl'.want, q \notin kept'
             PROVE  vol'[q].data = "none" \/ vol'[q].del
  BY DEF KeptThere
<1>0. vol \in [Ordinals -> Volumes] /\ vol[q] \in Volumes /\ cl.want \in Int /\ sts.n \in Int /\ q \in Int /\ q \in Ordinals
  BY Ranges DEF TypeOK
<1>1. CASE CleanupStandbyVolumes
  <2>1. /\ vol' = [o \in Ordinals |-> IF o \in Unwanted THEN [vol[o] EXCEPT !.del = TRUE] ELSE vol[o]]
        /\ kept' = Remaining(Unwanted)
    BY <1>1 DEF CleanupStandbyVolumes
  <2>2. q \in Unwanted => vol'[q] = [vol[q] EXCEPT !.del = TRUE]
    BY <1>0, <2>1
  <2>3. q \notin Unwanted => vol'[q] = vol[q] /\ (vol[q].data = "none" \/ vol[q].del)
    BY <1>0, <2>1 DEF Remaining
  <2>4. QED
    BY <1>0, <2>2, <2>3, VolumeTypes
<1>2. CASE UNCHANGED <<cl, kept, drops>> /\ pc \in {"primary", "role", "save", "slots"}
  <2>1. (vol[q].data = "none" \/ vol[q].del) /\ sts.n <= cl.want
    BY <1>2 DEF KeptThere, Scaled
  <2>2. VolumeMove(q)
    BY NextMoves DEF Moves
  <2>3. QED
    BY <1>0, <1>2, <2>1, <2>2 DEF VolumeMove
<1>3. CASE MarkInitialized
  BY <1>2, <1>3 DEF MarkInitialized, local
<1>4. QED
  BY <1>1, <1>2, <1>3, ReconcileSteps

LEMMA NextSlots == TypeOK /\ KeptThere /\ SlotOutlivesVolume /\ Next => SlotOutlivesVolume'
<1> SUFFICES ASSUME TypeOK, KeptThere, SlotOutlivesVolume, Next, NEW q \in Standbys, vol'[q].data = "good", ~vol'[q].del
             PROVE  slot'[q] = "keep"
  BY DEF SlotOutlivesVolume
<1>1. VolumeMove(q) /\ SlotMove(q)
  BY NextMoves DEF Moves
<1>2. slot'[q] = "keep" \/ (vol[q].data = "good" /\ ~vol[q].del)
  BY <1>1 DEF VolumeMove
<1>3. CASE vol[q].data = "good" /\ ~vol[q].del
  BY <1>1, <1>3 DEF SlotOutlivesVolume, SlotMove, KeptThere
<1>4. QED
  BY <1>2, <1>3
-----------------------------------------------------------------------------
(* The guard of the primary's data. *)

\* What a step does to the data of the primary.
LEMMA PrimaryVolume ==
  TypeOK /\ Next => \/ vol'[0].data \in {vol[0].data, "none"}
                    \/ 0 < sts.n /\ vol[0].data = "none"
                    \/ InitPrimary
<1> SUFFICES ASSUME TypeOK, Next, ~InitPrimary
             PROVE  vol'[0].data \in {vol[0].data, "none"} \/ (0 < sts.n /\ vol[0].data = "none")
  OBVIOUS
<1>0. vol \in [Ordinals -> Volumes] /\ vol[0] \in Volumes
  BY Ranges DEF TypeOK
<1>1. CASE vol' = vol
  BY <1>1
<1>2. ASSUME NEW o \in Ordinals, NEW v \in Volumes, vol' = [vol EXCEPT ![o] = v],
             o = 0 => v.data \in {vol[0].data, "none"} \/ (0 < sts.n /\ vol[0].data = "none")
      PROVE  vol'[0].data \in {vol[0].data, "none"} \/ (0 < sts.n /\ vol[0].data = "none")
  BY <1>0, <1>2, Ranges
<1>3. ASSUME NEW o \in Ordinals, DeleteVolume(o)
      PROVE  vol'[0].data \in {vol[0].data, "none"} \/ (0 < sts.n /\ vol[0].data = "none")
  <2>1. PICK v \in Volumes : v = [vol[o] EXCEPT !.del = TRUE] /\ v.data = vol[o].data
    BY <1>0, VolumeDeleted
  <2>2. vol' = [vol EXCEPT ![o] = v]
    BY <1>3, <2>1, Zenon DEF DeleteVolume
  <2>3. QED
    BY <1>2, <2>1, <2>2
<1>4. ASSUME NEW o \in Ordinals, CreatePod(o)
      PROVE  vol'[0].data \in {vol[0].data, "none"} \/ (0 < sts.n /\ vol[0].data = "none")
  <2>1. o < sts.n /\ (vol' = vol \/ (vol[o].data = "none" /\ vol' = [vol EXCEPT ![o] = Volume("empty")]))
    BY <1>4 DEF CreatePod
  <2>2. Volume("empty") \in Volumes
    BY VolumeTypes
  <2>3. QED
    BY <1>1, <1>2, <2>1, <2>2
<1>5. ASSUME NEW o \in Ordinals, VolumeGone(o)
      PROVE  vol'[0].data \in {vol[0].data, "none"} \/ (0 < sts.n /\ vol[0].data = "none")
  <2>1. vol' = [vol EXCEPT ![o] = NoVolume]
    BY <1>5 DEF VolumeGone
  <2>2. QED
    BY <1>2, <2>1, EmptyTypes
<1>6. ASSUME NEW o \in Standbys, StartStandby(o) \/ Invalidate(o)
      PROVE  vol'[0].data \in {vol[0].data, "none"} \/ (0 < sts.n /\ vol[0].data = "none")
  <2>1. vol' = vol \/ \E d \in {"good", "stale"} : vol' = [vol EXCEPT ![o].data = d]
    BY <1>6 DEF StartStandby, Invalidate
  <2>2. ASSUME NEW d \in {"good", "stale"}, vol' = [vol EXCEPT ![o].data = d] PROVE vol'[0] = vol[0]
    BY <1>0, <2>2, Ranges
  <2>3. QED
    BY <2>1, <2>2
<1>7. CASE CleanupStandbyVolumes
  <2>1. PICK deleted \in SUBSET Unwanted :
          vol' = [o \in Ordinals |-> IF o \in deleted THEN [vol[o] EXCEPT !.del = TRUE] ELSE vol[o]]
    BY <1>7 DEF CleanupStandbyVolumes
  <2>2. 0 \notin deleted
    BY Ranges DEF Unwanted
  <2>3. vol'[0] = vol[0]
    BY <2>1, <2>2, Ranges
  <2>4. QED
    BY <2>3
<1>8. CASE \/ (Users /\ ~\E o \in Ordinals : DeleteVolume(o)) \/ Begin \/ Fail \/ StartPrimary
           \/ (Reconcile /\ ~CleanupStandbyVolumes)
           \/ (\E o \in Ordinals : ScaleDownPod(o) \/ UpdatePod(o) \/ PodGone(o) \/ Evict(o))
           \/ (\E o \in Standbys : Connect(o) \/ Disconnect(o) \/ Late(o))
  <2>1. vol' = vol
    BY <1>8 DEF Users, ScaleTo, ManualScale, SetAllow, ChangePassword, TouchSecret, Begin, Fail, StartPrimary, Reconcile,
       ReconcileStatefulSet, ListPods, Unreachable, MarkInitialized, EnsureReplicationRole, SaveSecret,
       ReconcileReplicationSlots, LabelStreaming, RolloutPassword, EndRollout, Done, Conflict, ScaleDownPod, UpdatePod,
       PodGone, Evict, Connect, Disconnect, Late, kube
  <2>2. QED
    BY <1>1, <2>1
<1>9. QED
  BY <1>3, <1>4, <1>5, <1>6, <1>7, <1>8, Ranges DEF Next, Users, Faults, Kubernetes, Boot

\* Only these steps touch the guard.
LEMMA GuardSteps ==
  ASSUME Next, ~Begin, ~MarkInitialized
  PROVE  /\ UNCHANGED marker
         /\ \/ UNCHANGED <<allow, waived>> /\ (UNCHANGED cl \/ cl'.allow = FALSE)
            \/ UNCHANGED cl /\ \E b \in BOOLEAN : allow' = b /\ waived' = (waived \/ b)
<1>1. CASE Fail \/ Reconcile
  <2>1. UNCHANGED <<marker, allow, waived>>
    BY <1>1 DEF Fail, Reconcile, ReconcileStatefulSet, ListPods, CleanupStandbyVolumes, Unreachable, EnsureReplicationRole,
       SaveSecret, ReconcileReplicationSlots, LabelStreaming, RolloutPassword, EndRollout, Done, Conflict, spec, kube
  <2>2. UNCHANGED cl \/ Idle
    BY <1>1 DEF Fail, Reconcile, ReconcileStatefulSet, ListPods, CleanupStandbyVolumes, Unreachable, EnsureReplicationRole,
       SaveSecret, ReconcileReplicationSlots, LabelStreaming, RolloutPassword, EndRollout, Done, Conflict, local
  <2>3. QED
    BY <2>1, <2>2, IdleTypes
<1>2. CASE Users
  BY <1>2 DEF Users, ScaleTo, ManualScale, SetAllow, DeleteVolume, ChangePassword, TouchSecret, spec, kube, local
<1>3. CASE Faults \/ (\E o \in Ordinals : Kubernetes(o) \/ Boot(o)) \/ \E o \in Standbys : Late(o)
  BY <1>3 DEF Faults, Kubernetes, Boot, Late, CreatePod, ScaleDownPod, UpdatePod, PodGone, VolumeGone, StartPrimary,
     InitPrimary, StartStandby, Connect, Evict, Disconnect, Invalidate, spec, kube, local
<1>4. QED
  BY <1>1, <1>2, <1>3 DEF Next

\* The guard stays, and stays lifted while the annotation is set.
LEMMA NextGuard == TypeOK /\ Waived /\ Next => Waived' /\ (Guarded => Guarded') /\ (MarkInitialized => Guarded')
<1> SUFFICES ASSUME TypeOK, Waived, Next PROVE Waived' /\ (Guarded => Guarded') /\ (MarkInitialized => Guarded')
  OBVIOUS
<1>0. Flags /\ cl.allow \in BOOLEAN
  <2>1. cl \in [want : 1..N+1, allow : BOOLEAN]
    BY DEF TypeOK
  <2>2. QED
    BY <2>1, TypeParts
<1>1. CASE Begin
  <2>1. /\ UNCHANGED allow /\ cl'.allow = allow
        /\ \/ marker' = (~allow /\ (marker \/ PrimaryVolumeMissing)) /\ waived' = (waived /\ ~(marker' /\ ~marker))
           \/ waived' = TRUE /\ UNCHANGED marker
    BY <1>1 DEF Begin
  <2>2. ~MarkInitialized
    BY <1>1 DEF Begin, MarkInitialized
  <2>3. QED
    BY <1>0, <2>1, <2>2, Zenon DEF Flags, Waived, Guarded
<1>2. CASE MarkInitialized
  <2>1. UNCHANGED <<allow, cl>> /\ marker' = (marker \/ ~cl.allow) /\ waived' = (waived /\ (cl.allow \/ allow))
    BY <1>2 DEF MarkInitialized, local
  <2>2. QED
    BY <1>0, <2>1, Zenon DEF Flags, Waived, Guarded
<1>3. CASE ~Begin /\ ~MarkInitialized
  <2>1. /\ UNCHANGED marker
        /\ \/ UNCHANGED <<allow, waived>> /\ (UNCHANGED cl \/ cl'.allow = FALSE)
           \/ UNCHANGED cl /\ \E b \in BOOLEAN : allow' = b /\ waived' = (waived \/ b)
    BY <1>3, GuardSteps
  <2>2. CASE UNCHANGED <<marker, allow, waived>> /\ (UNCHANGED cl \/ cl'.allow = FALSE)
    BY <1>3, <2>2 DEF Waived, Guarded
  <2>3. ASSUME NEW b \in BOOLEAN, UNCHANGED <<marker, cl>>, allow' = b, waived' = (waived \/ b)
        PROVE  Waived' /\ (Guarded => Guarded')
    BY <2>3 DEF Waived, Guarded
  <2>4. QED
    BY <1>3, <2>1, <2>2, <2>3
<1>4. QED
  BY <1>1, <1>2, <1>3

LEMMA NextUntouched == TypeOK /\ Waived /\ Untouched /\ Next => Untouched'
<1> SUFFICES ASSUME TypeOK, Waived, Untouched, Next, ~Guarded'
             PROVE  /\ pc' \in {"idle", "sts", "list", "volumes", "primary"}
                    /\ \A o \in Standbys : slot'[o] = "none"
                    /\ (\A o \in Standbys : ~Holds(o)') \/ (pc' = "idle" /\ sts'.n = -1 /\ vol'[0].data = "none")
  BY DEF Untouched
<1>0. ~Guarded /\ ~MarkInitialized
  BY NextGuard
<1>1. /\ pc \in {"idle", "sts", "list", "volumes", "primary"} /\ \A o \in Standbys : slot[o] = "none"
      /\ (\A o \in Standbys : ~Holds(o)) \/ (pc = "idle" /\ sts.n = -1 /\ vol[0].data = "none")
  BY <1>0 DEF Untouched
<1>2. pc' \in {"idle", "sts", "list", "volumes", "primary"}
  BY <1>0, <1>1, ReconcileSteps DEF ListPods, CleanupStandbyVolumes
<1>3. \A o \in Standbys : slot'[o] = "none"
  BY <1>1, NextMoves DEF Moves, SlotMove
<1>4. CASE \A o \in Standbys : ~Holds(o)
  <2>1. \A o \in Standbys : ~Holds(o)'
    BY <1>1, <1>4, NextMoves DEF Moves, VolumeMove, Holds
  <2>2. QED
    BY <1>2, <1>3, <2>1
<1>5. CASE pc = "idle" /\ sts.n = -1 /\ vol[0].data = "none"
  <2>1. CASE Begin
    <3>1. vol' = vol /\ marker' = (~allow /\ (marker \/ PrimaryVolumeMissing))
      <4>1. waived' \in BOOLEAN
        BY NextFlags DEF Flags
      <4>2. waived' # TRUE
        BY DEF Guarded
      <4>3. QED
        BY <2>1, <4>2 DEF Begin
    <3>2. ~allow
      BY <1>0 DEF Waived, Guarded
    <3>3. ~PrimaryVolumeMissing
      BY <3>1, <3>2 DEF Guarded
    <3>4. \A o \in Standbys : ~Holds(o)
      BY <1>5, <3>3 DEF PrimaryVolumeMissing, Holds
    <3>5. QED
      BY <1>4, <3>4
  <2>2. CASE ~Begin
    <3>1. pc' = "idle"
      BY <1>0, <1>5, <2>2, ReconcileSteps DEF ListPods, CleanupStandbyVolumes, ReconcileStatefulSet
    <3>2. sts' = sts
      BY <1>5, ReconcileSteps DEF ReconcileStatefulSet, ManualScale
    <3>3. vol'[0].data = "none"
      BY <1>5, PrimaryVolume DEF InitPrimary
    <3>4. QED
      BY <1>2, <1>3, <1>5, <3>1, <3>2, <3>3
  <2>3. QED
    BY <2>1, <2>2
<1>6. QED
  BY <1>1, <1>4, <1>5
-----------------------------------------------------------------------------
(* The inductive invariant holds. *)

LEMMA InitInv == Init => IInv
<1> SUFFICES ASSUME Init PROVE IInv
  OBVIOUS
<1> DEFINE Fresh == \/ /\ sts = [n |-> -1, tmpl |-> FALSE] /\ pod = [o \in Ordinals |-> NoPod]
                       /\ \E d \in {"none", "stale"} : vol = [o \in Ordinals |-> IF o = 1 THEN Volume(d) ELSE NoVolume]
                    \/ /\ sts = [n |-> 1, tmpl |-> FALSE]
                       /\ pod = [o \in Ordinals |-> IF o = 0 THEN [NoPod EXCEPT !.st = "up", !.pw = 1] ELSE NoPod]
                       /\ vol = [o \in Ordinals |-> IF o = 0 THEN Volume("good") ELSE NoVolume]
<1>1. Flags
  BY DEF Init, Flags
<1>2. Fresh /\ slot = [o \in Standbys |-> "none"] /\ stream = [o \in Standbys |-> FALSE] /\ pc = "idle"
  BY DEF Init
<1>3. Local /\ secret \in Secrets
  <2>1. [o \in Ordinals |-> NoPod] \in [Ordinals -> Pods]
    BY EmptyTypes
  <2>2. /\ cl = [want |-> 1, allow |-> FALSE] /\ sec = secret /\ secret = [pw |-> 1, recorded |-> 0, rollout |-> FALSE]
        /\ seen = [o \in Ordinals |-> NoPod] /\ known = {} /\ before = {} /\ kept = {} /\ pc = "idle"
    BY DEF Init
  <2>3. QED
    BY <2>1, <2>2, EmptyTypes DEF Local
<1>4. Counts
  <2>1. sts \in [n : -1..N+1, tmpl : BOOLEAN]
    <3>1. -1 \in -1..N+1 /\ 1 \in -1..N+1
      BY Ranges
    <3>2. [n |-> -1, tmpl |-> FALSE] \in [n : -1..N+1, tmpl : BOOLEAN] /\ [n |-> 1, tmpl |-> FALSE] \in [n : -1..N+1, tmpl : BOOLEAN]
      BY <3>1
    <3>3. sts = [n |-> -1, tmpl |-> FALSE] \/ sts = [n |-> 1, tmpl |-> FALSE]
      BY <1>2
    <3>4. QED
      BY <3>2, <3>3
  <2>2. want \in 1..N+1 /\ rolepw = 0 /\ edits = 0 /\ faults = 0
    BY DEF Init
  <2>3. QED
    BY <1>3, <2>1, <2>2, Ranges DEF Counts
<1>5. PodsOK /\ \A o \in Standbys : pod[o].st = "none"
  <2>1. [NoPod EXCEPT !.st = "up", !.pw = 1] \in Pods
    <3>1. 1 \in 0..MaxPasswords
      BY Ranges
    <3>2. QED
      BY <3>1 DEF NoPod, Pods
  <2>2. pod \in [Ordinals -> Pods]
    BY <1>2, <2>1, EmptyTypes
  <2>3. \A o \in Standbys : pod[o] = NoPod
    BY <1>2, Ranges
  <2>4. QED
    BY <2>2, <2>3, EmptyTypes DEF PodsOK
<1>6. vol \in [Ordinals -> Volumes] /\ \A o \in Standbys : vol[o].data \in {"none", "stale"}
  <2>1. \A d \in {"none", "stale"} : Volume(d) \in Volumes /\ Volume(d).data = d
    BY VolumeTypes
  <2>2. Volume("good") \in Volumes
    BY VolumeTypes
  <2>3. CASE \E d \in {"none", "stale"} : vol = [o \in Ordinals |-> IF o = 1 THEN Volume(d) ELSE NoVolume]
    BY <2>1, <2>3, EmptyTypes, Ranges
  <2>4. CASE vol = [o \in Ordinals |-> IF o = 0 THEN Volume("good") ELSE NoVolume]
    BY <2>2, <2>4, EmptyTypes, Ranges
  <2>5. QED
    BY <1>2, <2>3, <2>4
<1>7. StandbysOK /\ Streaming
  BY <1>2, <1>6 DEF StandbysOK, Slots, Streaming
<1>8. Templated /\ Scaled /\ SeenGone /\ KeptThere /\ SlotOutlivesVolume
  BY <1>2, <1>6 DEF Templated, Scaled, SeenGone, KeptThere, SlotOutlivesVolume
<1>9. Waived
  BY DEF Init, Waived
<1>10. Untouched
  <2>1. CASE sts = [n |-> -1, tmpl |-> FALSE]
    <3>1. sts.n = -1
      BY <2>1
    <3>2. vol[0] = NoVolume
      BY <1>2, <3>1, Ranges
    <3>3. QED
      BY <1>2, <3>1, <3>2, EmptyTypes DEF Untouched
  <2>2. CASE vol = [o \in Ordinals |-> IF o = 0 THEN Volume("good") ELSE NoVolume]
    <3>1. \A o \in Standbys : vol[o] = NoVolume
      BY <2>2, Ranges
    <3>2. QED
      BY <1>2, <3>1, EmptyTypes DEF Untouched, Holds
  <2>3. QED
    BY <1>2, <2>1, <2>2
<1>11. QED
  BY <1>1, <1>3, <1>4, <1>5, <1>7, <1>8, <1>9, <1>10, TypeParts DEF IInv

LEMMA NextInv == IInv /\ [Next]_vars => IInv'
<1> SUFFICES ASSUME IInv, [Next]_vars PROVE IInv'
  OBVIOUS
<1>1. CASE Next
  <2>1. TypeOK' /\ Streaming'
    BY <1>1, NextTypeOK DEF IInv
  <2>2. Templated' /\ Scaled'
    BY <1>1, NextSts DEF IInv
  <2>3. SeenGone' /\ KeptThere' /\ SlotOutlivesVolume'
    BY <1>1, NextSeenGone, NextKeptThere, NextSlots DEF IInv
  <2>4. Waived' /\ Untouched'
    BY <1>1, NextGuard, NextUntouched DEF IInv
  <2>5. QED
    BY <2>1, <2>2, <2>3, <2>4 DEF IInv
<1>2. CASE UNCHANGED vars
  <2>1. /\ UNCHANGED <<want, allow, waived, secret, sts, ro, marker, pod, vol, rolepw, slot, stream>>
        /\ UNCHANGED <<pc, cl, sec, current, seen, known, before, kept, drops, edits, faults>>
    BY <1>2 DEF vars, spec, kube, server, local
  <2>2. TypeOK'
    BY <2>1 DEF IInv, TypeOK
  <2>3. Streaming' /\ Templated' /\ Scaled' /\ SeenGone' /\ KeptThere' /\ SlotOutlivesVolume'
    BY <2>1 DEF IInv, Streaming, PrimaryUp, Templated, Scaled, SeenGone, KeptThere, SlotOutlivesVolume
  <2>4. Waived' /\ Untouched'
    BY <2>1 DEF IInv, Waived, Untouched, Guarded, Holds
  <2>5. QED
    BY <2>2, <2>3, <2>4 DEF IInv
<1>3. QED
  BY <1>1, <1>2

LEMMA Invariance == Spec => []IInv
  BY InitInv, NextInv, PTL DEF Spec

\* reconcileReplicationSlots and cleanupStandbyVolumes keep, whatever fails and
\* however often the Cluster is scaled, the slot of every volume whose standby
\* could still catch up; streaming standbys are ready, and have their slot.
THEOREM ReplicationSound == Spec => []ReplicationInv
<1>1. IInv => ReplicationInv
  BY DEF IInv, ReplicationInv
<1>2. QED
  BY <1>1, Invariance, PTL

\* cleanupStandbyVolumes deletes no volume of a pod, nor one that the
\* StatefulSet is about to use, although it decides on pods it listed before.
THEOREM VolumesInUseKept == Spec => UsedVolumesKept
<1>1. ASSUME IInv, [Next]_vars, NEW o \in Standbys, pc = "volumes", edits' = edits, ~vol[o].del, vol'[o].del
      PROVE  pod[o].st = "none" /\ o >= sts.n
  <2>0. /\ vol \in [Ordinals -> Volumes] /\ vol[o] \in Volumes /\ o \in Ordinals /\ o \in Int /\ sts.n \in Int /\ cl.want \in Int
        /\ edits \in Int
    BY <1>1, Ranges DEF IInv, TypeOK
  <2>1. CASE CleanupStandbyVolumes
    <3>1. o \in Unwanted
      BY <1>1, <2>0, <2>1 DEF CleanupStandbyVolumes
    <3>2. o >= cl.want /\ o >= sts.n /\ seen[o].st = "none"
      BY <2>0, <3>1 DEF Unwanted, Larger
    <3>3. QED
      BY <1>1, <3>2 DEF IInv, SeenGone
  <2>2. ASSUME NEW p \in Ordinals, CreatePod(p) \/ VolumeGone(p) \/ StartStandby(p) \/ Invalidate(p) PROVE FALSE
    <3>1. \/ vol' = vol \/ vol' = [vol EXCEPT ![p] = Volume("empty")] \/ vol' = [vol EXCEPT ![p] = NoVolume]
          \/ \E d \in {"good", "stale"} : vol' = [vol EXCEPT ![p].data = d]
      BY <2>2 DEF CreatePod, VolumeGone, StartStandby, Invalidate
    <3>2. ASSUME NEW d \in {"good", "stale"}, vol' = [vol EXCEPT ![p].data = d] PROVE FALSE
      <4>1. PICK v \in Volumes : v = [vol[p] EXCEPT !.data = d] /\ v.data = d /\ v.del = vol[p].del
        <5>1. vol[p] \in Volumes
          BY <2>0
        <5>2. d \in {"none", "empty", "good", "stale"}
          OBVIOUS
        <5>3. QED
          BY <5>1, <5>2, VolumeData
      <4>2. vol' = [vol EXCEPT ![p] = v]
        BY <3>2, <4>1, Zenon
      <4>3. QED
        BY <1>1, <2>0, <4>1, <4>2
    <3>3. Volume("empty").del = FALSE /\ NoVolume.del = FALSE
      BY DEF Volume, NoVolume
    <3>4. QED
      BY <1>1, <2>0, <3>1, <3>2, <3>3
  <2>3. CASE InitPrimary
    <3>1. vol'[o] = IF vol[o].data = "good" THEN [vol[o] EXCEPT !.data = "stale"] ELSE vol[o]
      BY <2>0, <2>3, Ranges DEF InitPrimary
    <3>2. QED
      BY <1>1, <2>0, <3>1, VolumeTypes
  <2>4. CASE UNCHANGED vol
    BY <1>1, <2>4
  <2>5. ~\E p \in Ordinals : DeleteVolume(p)
    BY <1>1, <2>0 DEF DeleteVolume, Edit
  <2>6. CASE \/ Users \/ Begin \/ Fail \/ StartPrimary
             \/ (Reconcile /\ ~CleanupStandbyVolumes)
             \/ (\E p \in Ordinals : ScaleDownPod(p) \/ UpdatePod(p) \/ PodGone(p) \/ Evict(p))
             \/ (\E p \in Standbys : Connect(p) \/ Disconnect(p) \/ Late(p))
             \/ UNCHANGED vars
    <3>1. UNCHANGED vol
      BY <2>5, <2>6 DEF Users, ScaleTo, ManualScale, SetAllow, ChangePassword, TouchSecret, Begin, Fail, StartPrimary, Reconcile,
         ReconcileStatefulSet, ListPods, Unreachable, MarkInitialized, EnsureReplicationRole, SaveSecret,
         ReconcileReplicationSlots, LabelStreaming, RolloutPassword, EndRollout, Done, Conflict, ScaleDownPod, UpdatePod,
         PodGone, Evict, Connect, Disconnect, Late, kube, vars
    <3>2. QED
      BY <2>4, <3>1
  <2>7. QED
    BY <1>1, <2>1, <2>2, <2>3, <2>6, Ranges DEF Next, Faults, Kubernetes, Boot
<1>2. IInv /\ [Next]_vars
      => [\A o \in Standbys : pc = "volumes" /\ edits' = edits /\ ~vol[o].del /\ vol'[o].del => pod[o].st = "none" /\ o >= sts.n]_vars
  BY <1>1
<1>3. QED
  BY <1>2, Invariance, PTL DEF Spec, UsedVolumesKept

\* bootstrapScript and the initialized marker: the primary of a replicated
\* Cluster never starts an empty database next to the data of a standby, unless
\* allow-primary-init said so or the Cluster had a single instance.
THEOREM PrimaryNotEmptied == Spec => NoEmptyPrimary
<1>1. ASSUME IInv, [Next]_vars, vol[0].data = "empty", vol'[0].data = "good", pod[0].tmpl
      PROVE  waived \/ \A o \in Standbys : vol[o].data \in {"none", "empty"} \/ vol[o].del
  <2>1. InitPrimary
    <3>1. CASE Next
      BY <1>1, <3>1, PrimaryVolume DEF IInv
    <3>2. CASE UNCHANGED vars
      BY <1>1, <3>2 DEF vars, kube
    <3>3. QED
      BY <1>1, <3>1, <3>2
  <2>2. ~marker
    BY <1>1, <2>1 DEF InitPrimary, RefusesInit
  <2>3. waived \/ \A o \in Standbys : ~Holds(o)
    BY <1>1, <2>2 DEF IInv, Untouched, Guarded
  <2>4. \A o \in Standbys : vol[o].data \in {"none", "empty", "good", "stale"}
    BY <1>1, Ranges DEF IInv, TypeOK, Volumes
  <2>5. QED
    BY <2>3, <2>4 DEF Holds
<1>2. IInv /\ [Next]_vars
      => [vol[0].data = "empty" /\ vol'[0].data = "good" /\ pod[0].tmpl
          => waived \/ \A o \in Standbys : vol[o].data \in {"none", "empty"} \/ vol[o].del]_vars
  BY <1>1
<1>3. QED
  BY <1>2, Invariance, PTL DEF Spec, NoEmptyPrimary
=============================================================================
