-------------------------- MODULE PhysicalRestore --------------------------
(***************************************************************************)
(* Physical Restores of one Cluster: the Restore controller, which stops   *)
(* the Cluster, runs a Job that rewrites the primary's data volume and     *)
(* starts the Cluster again, next to the Cluster controller, which scales  *)
(* the StatefulSet, to Kubernetes, which runs the pods and the Job, and to *)
(* users who create, confirm and delete Restores.                          *)
(*                                                                         *)
(* Both controllers read Restores, the Cluster, the StatefulSet and its    *)
(* pods from caches; Jobs and their pods are read from the API server.     *)
(***************************************************************************)
EXTENDS Faults, FiniteSets

CONSTANTS Restores,   \* names of Restores
          Lag,        \* may a reconcile start from caches that are behind
          Overlap,    \* may the two controllers work at the same time
          Manual,     \* does the user delete Jobs and lift the interruption
          Reappear    \* may a BackupRun or Backup that was gone be there again

ASSUME RestoresAssumption == Restores \subseteq Nat \ {0}
ASSUME FlagsAssumption == {Lag, Overlap, Manual, Reappear} \subseteq BOOLEAN

VARIABLES
  \* API server: Restores, the last UID given out, the annotations and the
  \* lastRestore of the Cluster, the Jobs, and what a Restore restores into:
  \* can it be resolved (BackupRun, Backup), is the data volume there.
  res, uids, cluster, jobs, target,
  \* The caches and what they are behind on.
  rcache, behind, ccache, cbehind, pcache,
  \* Kubernetes: replicas wanted, is there a PostgreSQL pod, the standby's
  \* volume and its deletionTimestamp, the Job pods, the primary's data.
  sts, pg, vol, volDel, writers, data,
  \* The Cluster controller: at work, and does it take the Cluster for paused.
  cpc, cpaused,
  \* The Restore controller: control state, Restore, its copy, is that still
  \* the version in the API server, the step to save, the outcome to record on
  \* the Cluster and where to go on after that.
  pc, me, copy, current, want, out, after,
  edits

api    == <<res, uids, cluster, jobs, target>>
caches == <<rcache, behind, ccache, cbehind, pcache>>
workload == <<sts, pg, vol, volDel, writers, data>>
ctl    == <<cpc, cpaused>>
local  == <<pc, me, copy, current, want, out, after>>
rvars  == <<api, caches, workload, ctl, local, edits, faults>>

Names == Restores \cup {0}

\* The phase and reason of a Restore.  status.jobName is set from "creating" on.
Steps == {"new", "awaiting", "waiting", "creating", "restoring", "Succeeded", "Failed"}
Objects == [uid : Nat, deleting : BOOLEAN, fin : BOOLEAN, step : Steps]
Absent == [uid |-> 0, deleting |-> FALSE, fin |-> FALSE, step |-> "new"]

\* restore-in-progress, restore-interrupted, allow-restore (a name, and a UID
\* unless that is 0) and the UID of status.lastRestore.
Clusters == [holder : Names, broken : Names, allow : Names, allowUID : Nat, last : Nat]

JobObjects == [owner : Nat, state : {"active", "complete", "failed"}, deleting : BOOLEAN]
NoRestoreJob == [owner |-> 0, state |-> "active", deleting |-> FALSE]

Outcomes == {"released", "succeeded", "failed", "interrupted"}

Finished(o) == o.step \in {"Succeeded", "Failed"}
Paused(c) == c.holder # 0 \/ c.broken # 0
Ours(r, o) == jobs[r] # NoRestoreJob /\ jobs[r].owner = o.uid

RestoreTypeOK ==
  /\ res \in [Restores -> Objects] /\ uids \in Nat /\ cluster \in Clusters
  /\ jobs \in [Restores -> JobObjects] /\ target \in {"ok", "invalid", "novolume"}
  /\ rcache \in [Restores -> Objects] /\ behind \subseteq Restores
  /\ ccache \in Clusters /\ cbehind \in BOOLEAN
  /\ pcache \in [sts : BOOLEAN, pg : BOOLEAN]
  /\ sts \in BOOLEAN /\ pg \in BOOLEAN /\ vol \in {"none", "stale", "fresh"} /\ volDel \in BOOLEAN
  /\ writers \subseteq Restores \X Nat /\ data \in {"good", "partial"}
  /\ cpc \in {"idle", "write"} /\ cpaused \in BOOLEAN
  /\ pc \in {"idle", "fin", "decide", "create", "volumes", "finalize", "finish", "record",
             "stopjob", "save", "unfin"}
  /\ me \in Names /\ copy \in Objects /\ current \in BOOLEAN /\ want \in Steps
  /\ out \in Outcomes /\ after \in {"save", "stopjob", "unfin"}
  /\ edits \in 0..MaxEdits /\ faults \in 0..MaxFaults
  /\ current /\ pc # "idle" => res[me] = copy
  /\ pc \in {"volumes", "save", "unfin"} => copy.fin

RestoreInit ==
  /\ res = [r \in Restores |-> Absent] /\ uids = 0
  /\ cluster = [holder |-> 0, broken |-> 0, allow |-> 0, allowUID |-> 0, last |-> 0]
  /\ jobs = [r \in Restores |-> NoRestoreJob] /\ target = "ok"
  /\ rcache = res /\ behind = {} /\ ccache = cluster /\ cbehind = FALSE
  /\ pcache = [sts |-> TRUE, pg |-> TRUE]
  /\ sts = TRUE /\ pg = TRUE /\ vol = "fresh" /\ volDel = FALSE /\ writers = {} /\ data = "good"
  /\ cpc = "idle" /\ cpaused = FALSE
  /\ pc = "idle" /\ me = 0 /\ copy = Absent /\ current = FALSE /\ want = "new"
  /\ out = "released" /\ after = "save"
  /\ edits = 0 /\ faults = 0

WriteRestore(r, o) == res' = [res EXCEPT ![r] = o] /\ behind' = behind \cup {r}
WriteCluster(c) == cluster' = c /\ cbehind' = TRUE

-----------------------------------------------------------------------------
(* Users. *)

Edit == edits < MaxEdits /\ edits' = edits + 1

UserWrites(r, o) ==
  /\ Edit /\ WriteRestore(r, o) /\ current' = (current /\ r # me)
  /\ UNCHANGED <<cluster, jobs, target, rcache, ccache, cbehind, pcache, workload, ctl,
                 pc, me, copy, want, out, after, faults>>

CreateRestore(r) ==
  /\ res[r] = Absent /\ UserWrites(r, [Absent EXCEPT !.uid = uids + 1]) /\ uids' = uids + 1
DeleteRestore(r) ==
  /\ res[r] # Absent /\ ~res[r].deleting
  /\ UserWrites(r, IF res[r].fin THEN [res[r] EXCEPT !.deleting = TRUE] ELSE Absent)
  /\ UNCHANGED uids
TouchRestore(r) == res[r] # Absent /\ UserWrites(r, res[r]) /\ UNCHANGED uids

UserAnnotates(c) ==
  /\ Edit /\ WriteCluster(c)
  /\ UNCHANGED <<res, uids, jobs, target, rcache, behind, ccache, pcache, workload, ctl, local, faults>>

\* allow-restore, by name or for one Restore object.
Confirm(r, uid) == UserAnnotates([cluster EXCEPT !.allow = r, !.allowUID = uid])

\* "to start PostgreSQL on the data directory as it is, remove" restore-interrupted.
LiftInterruption ==
  Manual /\ cluster.broken # 0 /\ UserAnnotates([cluster EXCEPT !.broken = 0])

\* The Job is deleted by hand; its pod goes later.
DeleteJob(r) ==
  /\ Manual /\ Edit /\ jobs[r] # NoRestoreJob /\ jobs' = [jobs EXCEPT ![r] = NoRestoreJob]
  /\ UNCHANGED <<res, uids, cluster, target, caches, workload, ctl, local, faults>>

\* The BackupRun or the Backup goes; the data volume of a stopped Cluster goes.
LoseTarget ==
  /\ Edit /\ target = "ok"
  /\ \/ target' = "invalid"
     \/ target' = "novolume" /\ ~sts /\ ~pg /\ pc = "idle"
        /\ \A r \in Restores : res[r].step \notin {"creating", "restoring"}
  /\ UNCHANGED <<res, uids, cluster, jobs, caches, workload, ctl, local, faults>>

\* The BackupRun or the Backup is created again.
RecoverTarget ==
  /\ Reappear /\ Edit /\ target = "invalid" /\ target' = "ok"
  /\ UNCHANGED <<res, uids, cluster, jobs, caches, workload, ctl, local, faults>>

-----------------------------------------------------------------------------
(* Kubernetes. *)

Kube == UNCHANGED <<res, uids, cluster, caches, ctl, local, edits, faults>>

SyncRestores ==
  /\ behind # {} /\ rcache' = res /\ behind' = {}
  /\ UNCHANGED <<api, ccache, cbehind, pcache, workload, ctl, local, edits, faults>>
SyncCluster ==
  /\ cbehind /\ ccache' = cluster /\ cbehind' = FALSE
  /\ UNCHANGED <<api, rcache, behind, pcache, workload, ctl, local, edits, faults>>
SyncPods ==
  /\ pcache # [sts |-> sts, pg |-> pg] /\ pcache' = [sts |-> sts, pg |-> pg]
  /\ UNCHANGED <<api, rcache, behind, ccache, cbehind, workload, ctl, local, edits, faults>>

\* The StatefulSet's pods come (with a volume) and go; standbys are cloned.
StartPods ==
  /\ sts /\ ~pg /\ pg' = TRUE /\ target' = IF target = "novolume" THEN "ok" ELSE target
  /\ Kube /\ UNCHANGED <<jobs, sts, vol, volDel, writers, data>>
StopPods ==
  /\ ~sts /\ pg /\ pg' = FALSE
  /\ Kube /\ UNCHANGED <<jobs, target, sts, vol, volDel, writers, data>>
CloneStandby ==
  /\ pg /\ vol = "none" /\ data = "good" /\ vol' = "fresh"
  /\ Kube /\ UNCHANGED <<jobs, target, sts, pg, volDel, writers, data>>
\* A volume goes once no pod uses it.
RemoveVolume ==
  /\ volDel /\ ~pg /\ vol' = "none" /\ volDel' = FALSE
  /\ Kube /\ UNCHANGED <<jobs, target, sts, pg, writers, data>>

\* A Job pod writes the data directory, and ends.
JobWrites(w) ==
  /\ w \in writers /\ data # "partial" /\ data' = "partial"
  /\ Kube /\ UNCHANGED <<jobs, target, sts, pg, vol, volDel, writers>>
JobEnds(r) ==
  /\ jobs[r].state = "active" /\ ~jobs[r].deleting /\ <<r, jobs[r].owner>> \in writers
  /\ writers' = writers \ {<<r, jobs[r].owner>>}
  /\ \/ /\ jobs' = [jobs EXCEPT ![r].state = "complete"]
        /\ data' = "good" /\ vol' = IF vol = "none" THEN vol ELSE "stale"
     \/ /\ faults < MaxFaults
        /\ jobs' = [jobs EXCEPT ![r].state = "failed"] /\ UNCHANGED <<data, vol>>
  /\ faults' = IF jobs'[r].state = "failed" THEN faults + 1 ELSE faults
  /\ UNCHANGED <<res, uids, cluster, target, caches, ctl, local, edits, sts, pg, volDel>>
\* The pod of a deleted Job ends; then the Job itself goes.
JobPodGone(w) ==
  /\ w \in writers /\ (jobs[w[1]].owner # w[2] \/ jobs[w[1]].deleting)
  /\ writers' = writers \ {w}
  /\ Kube /\ UNCHANGED <<jobs, target, sts, pg, vol, volDel, data>>
JobGone(r) ==
  /\ jobs[r].deleting /\ <<r, jobs[r].owner>> \notin writers
  /\ jobs' = [jobs EXCEPT ![r] = NoRestoreJob]
  /\ Kube /\ UNCHANGED <<target, workload>>
\* A Job is garbage once its Restore is gone.
CollectJob(r) ==
  /\ jobs[r] # NoRestoreJob /\ jobs[r].owner # res[r].uid
  /\ jobs' = [jobs EXCEPT ![r] = NoRestoreJob]
  /\ Kube /\ UNCHANGED <<target, workload>>

-----------------------------------------------------------------------------
(* The Cluster controller: reconcileStatefulSet, with the Cluster it read. *)

Synced == Lag \/ (behind = {} /\ ~cbehind /\ pcache = [sts |-> sts, pg |-> pg])

ClusterRead ==
  /\ cpc = "idle" /\ Synced /\ (Overlap \/ pc = "idle")
  /\ sts = Paused(ccache)
  /\ cpc' = "write" /\ cpaused' = Paused(ccache)
  /\ UNCHANGED <<api, caches, workload, local, edits, faults>>
ClusterWrite ==
  /\ cpc = "write" /\ cpc' = "idle" /\ cpaused' = FALSE /\ sts' = ~cpaused
  /\ UNCHANGED <<api, caches, pg, vol, volDel, writers, data, local, edits, faults>>

-----------------------------------------------------------------------------
(* The Restore controller. *)

Env == UNCHANGED <<uids, target, rcache, ccache, pcache, ctl, edits>>

Stop == pc' = "idle" /\ me' = 0 /\ copy' = Absent /\ current' = FALSE /\ want' = "new"
        /\ out' = "released" /\ after' = "save"

\* Mutants: no finalizer is added; the phase is looked at before the deletion.
BeginUnprotected(r) ==
  /\ pc = "idle" /\ Synced /\ (Overlap \/ cpc = "idle")
  /\ LET o == rcache[r] IN
       /\ o # Absent /\ (o.deleting \/ ~Finished(o))
       /\ me' = r /\ copy' = o /\ current' = (r \notin behind)
       /\ pc' = IF o.deleting THEN "finalize" ELSE "decide"
  /\ Env /\ UNCHANGED <<res, cluster, jobs, behind, cbehind, workload, want, out, after, faults>>
BeginUnfinished(r) ==
  /\ pc = "idle" /\ Synced /\ (Overlap \/ cpc = "idle")
  /\ LET o == rcache[r] IN
       /\ o # Absent /\ ~Finished(o)
       /\ me' = r /\ copy' = o /\ current' = (r \notin behind)
       /\ pc' = IF o.deleting THEN "finalize" ELSE IF o.fin THEN "decide" ELSE "fin"
  /\ Env /\ UNCHANGED <<res, cluster, jobs, behind, cbehind, workload, want, out, after, faults>>

Begin(r) ==
  /\ pc = "idle" /\ Synced /\ (Overlap \/ cpc = "idle")
  /\ LET o == rcache[r] IN
       /\ o # Absent /\ (o.deleting \/ ~Finished(o))
       /\ me' = r /\ copy' = o /\ current' = (r \notin behind)
       /\ pc' = IF o.deleting THEN "finalize" ELSE IF o.fin THEN "decide" ELSE "fin"
  /\ Env /\ UNCHANGED <<res, cluster, jobs, behind, cbehind, workload, want, out, after, faults>>

AddFinalizer ==
  /\ pc = "fin" /\ current /\ WriteRestore(me, [copy EXCEPT !.fin = TRUE])
  /\ copy' = res'[me] /\ pc' = "decide"
  /\ Env /\ UNCHANGED <<cluster, jobs, cbehind, workload, me, current, want, out, after, faults>>

\* What the reads of a reconcile lead to, with nothing written yet.
GoTo(p) == pc' = p /\ UNCHANGED <<want, out, after>>
Report(s) == pc' = "save" /\ want' = s /\ UNCHANGED <<out, after>>
FinishOn(o, s) == pc' = "finish" /\ out' = o /\ want' = s /\ after' = "save"
ReadsOnly == Env /\ UNCHANGED <<res, cluster, jobs, behind, cbehind, workload, me, copy, current, faults>>

Started == copy.step \in {"creating", "restoring"}

\* restoreConfirmation.
Confirmed ==
  /\ ccache.allow = me /\ ccache.allowUID \in {0, copy.uid}
  /\ ccache.last \in {0, copy.uid} \/ ccache.allowUID = copy.uid

\* Mutant: a Cluster that an earlier restore left stopped counts as held.
HeldOrInterrupted == ccache.holder = me \/ ccache.broken # 0
\* restore-in-progress names this Restore.
Held == ccache.holder = me

\* restoreActive and clusterStopped, from the caches.
Active(r) == r # 0 /\ rcache[r] # Absent /\ ~Finished(rcache[r])
\* Mutant: pods that are still terminating are not looked for.
StoppedScaled == ~pcache.sts
Stopped == ~pcache.sts /\ ~pcache.pg

\* Before the Job: a target that cannot be restored, the confirmation, another
\* Restore, the Cluster's pods, the Job of an earlier Restore.
Prepare ==
  /\ pc = "decide" /\ ~Started
  /\ \/ target = "invalid" /\ FinishOn("released", "Failed")
     \/ target # "invalid" /\ ~Held /\ ~Confirmed /\ Report("awaiting")
     \/ /\ target # "invalid" /\ ~Held /\ Confirmed
        /\ Active(ccache.holder) /\ Report("waiting")
     \/ target # "invalid" /\ Held /\ ~Stopped /\ Report("waiting")
     \/ target = "novolume" /\ Held /\ Stopped /\ FinishOn("released", "Failed")
     \/ target = "ok" /\ Held /\ Stopped /\ jobs[me] # NoRestoreJob /\ ~Ours(me, copy) /\ Report("waiting")
     \* The Job's name is recorded before the Job is created.
     \/ target = "ok" /\ Held /\ Stopped /\ (jobs[me] = NoRestoreJob \/ Ours(me, copy)) /\ Report("creating")
  /\ ReadsOnly

\* The Cluster is annotated, and stopped by the Cluster controller.
Hold ==
  /\ pc = "decide" /\ ~Started /\ target # "invalid" /\ ~Held /\ Confirmed
  /\ ~Active(ccache.holder)
  /\ ~cbehind /\ WriteCluster([cluster EXCEPT !.holder = me])
  /\ Report("waiting")
  /\ Env /\ UNCHANGED <<res, jobs, behind, workload, me, copy, current, faults>>

\* followPhysicalRestoreJob.
Follow ==
  /\ pc = "decide" /\ Started
  /\ LET creating == jobs[me] = NoRestoreJob /\ copy.step = "creating" IN
     \/ creating /\ target # "invalid" /\ GoTo("create")
     \/ creating /\ target = "invalid" /\ FinishOn("released", "Failed")
     \/ ~creating /\ ~Ours(me, copy) /\ FinishOn("interrupted", "Failed")
     \/ Ours(me, copy) /\ jobs[me].state = "complete" /\ GoTo("volumes")
     \/ Ours(me, copy) /\ jobs[me].state = "failed" /\ FinishOn("failed", "Failed")
     \/ Ours(me, copy) /\ jobs[me].state = "active" /\ Report("restoring")
  /\ ReadsOnly

\* createRestoreJob; a Job that exists already is left alone.
CreateJob ==
  /\ pc = "create"
  /\ IF jobs[me] = NoRestoreJob
     THEN /\ jobs' = [jobs EXCEPT ![me] = [NoRestoreJob EXCEPT !.owner = copy.uid]]
          /\ writers' = writers \cup {<<me, copy.uid>>}
     ELSE UNCHANGED <<jobs, writers>>
  /\ Report("restoring")
  /\ Env /\ UNCHANGED <<res, cluster, behind, cbehind, sts, pg, vol, volDel, data, me, copy, current, faults>>

\* Mutant: the volumes are deleted and not waited for.
DeleteVolumesNoWait ==
  /\ pc = "volumes" /\ FinishOn("succeeded", "Succeeded") /\ volDel' = (vol # "none")
  /\ Env /\ UNCHANGED <<res, cluster, jobs, behind, cbehind, sts, pg, vol, writers, data, me, copy, current, faults>>

\* completePhysicalRestore: the standbys' volumes go first.
DeleteVolumes ==
  /\ pc = "volumes"
  /\ IF vol = "none" THEN FinishOn("succeeded", "Succeeded") /\ UNCHANGED volDel
     ELSE Report("restoring") /\ volDel' = TRUE
  /\ Env /\ UNCHANGED <<res, cluster, jobs, behind, cbehind, sts, pg, vol, writers, data, me, copy, current, faults>>

\* finishOnCluster, on the cached Cluster: nothing is written where that shows
\* nothing to change.  A Job of the Restore turns "released" into "interrupted".
Outcome == IF out = "released" /\ Ours(me, copy) THEN "interrupted" ELSE out
\* Mutants: a failed Job does not count as an interruption; the Cluster is
\* never released.
SettledFailureForgotten(c, o) ==
  [c EXCEPT !.holder = IF @ = me THEN 0 ELSE @,
            !.allow = IF @ = me THEN 0 ELSE @,
            !.allowUID = IF c.allow = me THEN 0 ELSE @,
            !.broken = CASE o = "succeeded" -> 0 [] o = "interrupted" -> me [] OTHER -> @]
SettledStillHeld(c, o) ==
  [c EXCEPT !.allow = IF @ = me THEN 0 ELSE @,
            !.allowUID = IF c.allow = me THEN 0 ELSE @,
            !.broken = CASE o = "succeeded" -> 0 [] o = "released" -> @ [] OTHER -> me]
Settled(c, o) ==
  [c EXCEPT !.holder = IF c.holder = me THEN 0 ELSE c.holder,
            !.allow = IF c.allow = me THEN 0 ELSE c.allow,
            !.allowUID = IF c.allow = me THEN 0 ELSE c.allowUID,
            !.broken = CASE o = "succeeded" -> 0 [] o = "released" -> c.broken [] OTHER -> me]
Finish ==
  /\ pc = "finish"
  /\ IF Settled(ccache, Outcome) = ccache THEN UNCHANGED <<cluster, cbehind>>
     ELSE ~cbehind /\ WriteCluster(Settled(cluster, Outcome))
  /\ out' = Outcome /\ pc' = IF Outcome = "released" THEN after ELSE "record"
  /\ Env /\ UNCHANGED <<res, jobs, behind, workload, me, copy, current, want, after, faults>>
RecordLast ==
  /\ pc = "record" /\ pc' = after
  /\ IF cluster.last = copy.uid THEN UNCHANGED <<cluster, cbehind>>
     ELSE WriteCluster([cluster EXCEPT !.last = copy.uid])
  /\ Env /\ UNCHANGED <<res, jobs, behind, workload, me, copy, current, want, out, after, faults>>

\* finalizeRestoreJob, of a deleted Restore.
Finalize ==
  /\ pc = "finalize"
  /\ \/ Finished(copy) /\ GoTo("unfin")
     \/ /\ ~Finished(copy) /\ ~Ours(me, copy) /\ copy.step # "restoring"
        /\ pc' = "finish" /\ out' = "released" /\ after' = "unfin" /\ UNCHANGED want
     \/ /\ ~Finished(copy) /\ Ours(me, copy) /\ ~jobs[me].deleting /\ jobs[me].state = "complete"
        /\ GoTo("volumes")
     \/ /\ ~Finished(copy)
        /\ IF Ours(me, copy) THEN jobs[me].deleting \/ jobs[me].state # "complete" ELSE copy.step = "restoring"
        /\ pc' = "finish" /\ out' = "interrupted" /\ after' = "stopjob" /\ UNCHANGED want
  /\ ReadsOnly
\* The Job is deleted in the foreground; the finalizer waits for its pods.
StopJob ==
  /\ pc = "stopjob" /\ Ours(me, copy)
  /\ jobs' = [jobs EXCEPT ![me].deleting = TRUE]
  /\ Stop /\ Env /\ UNCHANGED <<res, cluster, behind, cbehind, workload, faults>>
AwaitPods ==
  /\ pc = "stopjob" /\ ~Ours(me, copy)
  /\ IF \E w \in writers : w[1] = me THEN Stop ELSE GoTo("unfin") /\ UNCHANGED <<me, copy, current>>
  /\ Env /\ UNCHANGED <<res, cluster, jobs, behind, cbehind, workload, faults>>

\* The status update; a Restore deleted meanwhile goes on once it Succeeded.
Save ==
  /\ pc = "save" /\ current
  /\ LET o == [copy EXCEPT !.step = want] IN
       /\ IF o = copy THEN UNCHANGED <<res, behind>> ELSE WriteRestore(me, o)
       /\ IF copy.deleting /\ want = "Succeeded"
          THEN pc' = "unfin" /\ copy' = o /\ UNCHANGED <<me, current, want, out, after>>
          ELSE Stop
  /\ Env /\ UNCHANGED <<cluster, jobs, cbehind, workload, faults>>
RemoveFinalizer ==
  /\ pc = "unfin" /\ current /\ WriteRestore(me, Absent)
  /\ Stop /\ Env /\ UNCHANGED <<cluster, jobs, cbehind, workload, faults>>

\* A write that does not match the version in the API server is refused, and
\* the reconcile is tried again.
Conflict ==
  /\ \/ pc \in {"fin", "save", "unfin"} /\ ~current
     \/ pc = "finish" /\ cbehind /\ Settled(ccache, Outcome) # ccache
     \/ /\ pc = "decide" /\ ~Started /\ target # "invalid" /\ ~Held /\ Confirmed /\ cbehind
        /\ ~Active(ccache.holder)
  /\ Stop /\ Env /\ UNCHANGED <<res, cluster, jobs, behind, cbehind, workload, faults>>

\* A call fails, or the operator stops.
Fail ==
  /\ pc # "idle" /\ faults < MaxFaults /\ faults' = faults + 1
  /\ Stop /\ Env /\ UNCHANGED <<res, cluster, jobs, behind, cbehind, workload>>

-----------------------------------------------------------------------------
Reconcile == AddFinalizer \/ Prepare \/ Hold \/ Follow \/ CreateJob \/ DeleteVolumes \/ Finish
             \/ RecordLast \/ Finalize \/ StopJob \/ AwaitPods \/ Save \/ RemoveFinalizer \/ Conflict

Users == \/ \E r \in Restores : CreateRestore(r) \/ DeleteRestore(r) \/ TouchRestore(r) \/ DeleteJob(r)
         \/ \E r \in Restores : \E uid \in {0, res[r].uid} : Confirm(r, uid)
         \/ LiftInterruption \/ LoseTarget \/ RecoverTarget

Sync == SyncRestores \/ SyncCluster \/ SyncPods

Pods == \/ StartPods \/ StopPods \/ CloneStandby \/ RemoveVolume
        \/ \E w \in writers : JobWrites(w) \/ JobPodGone(w)
        \/ \E r \in Restores : JobEnds(r) \/ JobGone(r) \/ CollectJob(r)

ClusterReconcile == ClusterRead \/ ClusterWrite

RestoreNext == Reconcile \/ (\E r \in Restores : Begin(r)) \/ ClusterReconcile \/ Sync \/ Pods \/ Users \/ Fail

RestoreSpec == RestoreInit /\ [][RestoreNext]_rvars

\* Restores and the Cluster are reconciled again and again (events, requeues),
\* caches catch up, Kubernetes starts and stops pods, and Jobs end.
RestoreFairness ==
  /\ WF_rvars(Reconcile) /\ \A r \in Restores : SF_rvars(Begin(r))
  /\ SF_rvars(ClusterRead) /\ WF_rvars(ClusterWrite)
  /\ WF_rvars(SyncRestores) /\ WF_rvars(SyncCluster) /\ WF_rvars(SyncPods)
  /\ WF_rvars(StartPods) /\ WF_rvars(StopPods) /\ WF_rvars(RemoveVolume)
  /\ \A r \in Restores : WF_rvars(JobEnds(r)) /\ WF_rvars(JobGone(r)) /\ WF_rvars(CollectJob(r))
  /\ WF_rvars(\E w \in writers : JobPodGone(w))

RestoreFairSpec == RestoreSpec /\ RestoreFairness
-----------------------------------------------------------------------------
(* Properties. *)

\* PostgreSQL and a restore Job never run on the volume at the same time: "the
\* Cluster can never start while the Job may write its volume".
NeverBoth == pg => writers = {}

\* PostgreSQL never runs on a partly restored data directory that nobody told
\* it to run on.
NeverPartial == pg => data = "good"

\* A standby never comes back with a volume from before the restore.
StandbysCloned == pg => vol # "stale"

\* One pgBackRest at a time writes the volume: a second Restore waits,
\* "including for a Restore that is being deleted until its Job has stopped".
\* The code does not keep it: finalizeRestoreJob frees the Cluster first.
OneWriter == Cardinality(writers) <= 1

\* Only volumes "which no longer match the restored primary" are deleted.  The
\* code does not keep it when it completes a restore again.
FreshVolumesKept == [][~volDel /\ volDel' => vol = "stale"]_rvars

\* A Job is only ever created while the Cluster's annotation names its Restore.
\* The code does not keep it when a Job is deleted by hand or a lost Backup is
\* back: createRestoreJob does not look at the annotation.
JobConfirmed ==
  [][\A r \in Restores : jobs'[r] # NoRestoreJob /\ jobs[r] = NoRestoreJob => cluster.holder = r]_rvars

\* Once changes stop, every Restore is gone, has finished or waits for its
\* confirmation; or its Job is done and it waits for a volume that was deleted
\* under running pods (see FreshVolumesKept).
RestoresConclude ==
  <>[](\A r \in Restores :
         \/ res[r] = Absent
         \/ ~res[r].deleting /\ res[r].step \in {"awaiting", "Succeeded", "Failed"}
         \/ jobs[r].state = "complete" /\ volDel /\ pg)

\* Once changes stop the Cluster runs, unless a restore was interrupted.
ClusterStarts == <>[](cluster.broken = 0 => pg)

\* restore_physical.go: "deleting the Restore starts it again", of a Cluster
\* that a failed restore left stopped.  The code does not do so: it leaves the
\* annotation restore-interrupted.
DeletionStarts == \A r \in Restores : res[r].step = "Failed" /\ res[r].deleting ~> pg

\* The state is well-formed, and PostgreSQL runs on volumes that are fit: the
\* data directory is whole and no standby has one from before the restore.
RestoreInv == RestoreTypeOK /\ NeverPartial /\ StandbysCloned

\* Once changes stop, Restores have concluded and the Cluster runs.
RestoresSettle == RestoresConclude /\ ClusterStarts
=============================================================================
