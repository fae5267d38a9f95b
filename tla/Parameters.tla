----------------------------- MODULE Parameters -----------------------------
(***************************************************************************)
(* spec.parameters of a Cluster on its way into the running servers: the   *)
(* ConfigMap with the generated file, the pod template that mounts it, the *)
(* kubelet that brings a new file into each pod late, pg_reload_conf()     *)
(* that only signals the server, and the restart through a pod template    *)
(* annotation for parameters that need one.                                *)
(*                                                                         *)
(* A configuration gives each parameter a value or Unset; its hash is the  *)
(* configuration itself.  Without a parameter set there is no ConfigMap,   *)
(* so Empty also stands for an absent ConfigMap.                           *)
(***************************************************************************)
EXTENDS Naturals, FiniteSets

CONSTANTS Params,       \* the parameters
          Postmaster,   \* those of context postmaster: they need a restart
          Values,       \* values users give them
          BadValues,    \* those the server rejects
          Refused,      \* those with a line break, which pgop reports itself
          Primary, Standbys,
          Reverts,      \* may users return to a configuration they gave up
          MaxEdits,     \* bound on changes of spec.parameters
          MaxTroubles   \* bound on ALTER SYSTEM and reloads outside pgop, and on
                        \* crashes of servers and of the operator

ASSUME ParamsAssumption == Postmaster \subseteq Params
ASSUME PodsAssumption == Primary \notin Standbys
ASSUME BoundsAssumption == Reverts \in BOOLEAN /\ {MaxEdits, MaxTroubles} \subseteq Nat

Pods == {Primary} \cup Standbys
Unset == "unset"
AutoConf == "auto"
ASSUME ValuesAssumption == /\ BadValues \subseteq Values /\ Refused \subseteq Values \ BadValues
                           /\ {Unset, AutoConf} \cap Values = {}

Confs == [Params -> Values \cup {Unset}]
Empty == [p \in Params |-> Unset]

VARIABLES
  cluster,   \* the Cluster: spec.parameters and status
  past,      \* configurations given up
  cm,        \* the ConfigMap
  template,  \* the StatefulSet's pod template
  seen,      \* status.updateRevision
  done,      \* status.currentRevision
  pods,      \* the pods, their mounted file and their server
  altered,   \* parameters in the primary's postgresql.auto.conf
  pc, l, todo,  \* the reconcile: control, its copy of the Cluster, servers to reload
  covered,   \* observation only: parameters altered since a restart was decided
  troubles

vars == <<cluster, past, cm, template, seen, done, pods, altered, pc, l, todo, covered, troubles>>

Reasons == {"None", "WaitingForServer", "WaitingForSync", "InvalidParameter", "Reloading",
            "PendingRestart", "OverriddenByAlterSystem", "Applied"}

\* gen: generation; hash: status.parametersHash; cond, observed: the
\* ParametersApplied condition and its observedGeneration.
Clusters == [gen : 0..MaxEdits, spec : Confs, hash : Confs, cond : Reasons, observed : 0..MaxEdits]
NoCluster == [gen |-> 0, spec |-> Empty, hash |-> Empty, cond |-> "None", observed |-> 0]

\* mounts: the file is mounted and the server started with it; restart: the
\* parameters-restart annotation.
Templates == [mounts : BOOLEAN, restart : Confs]

\* rev: the template the pod was made of; file: what is mounted; sig: a reload
\* was asked for; val, pending and auto: pg_settings (value, pending_restart,
\* source file postgresql.auto.conf).
PodStates == [up : BOOLEAN, rev : Templates, file : Confs, sig : BOOLEAN,
              val : [Params -> Values \cup {Unset, AutoConf}], pending : SUBSET Params,
              auto : SUBSET Params]

TypeOK ==
  /\ cluster \in Clusters /\ l \in Clusters /\ past \subseteq Confs
  /\ cm \in Confs /\ {template, seen, done} \subseteq Templates
  /\ pods \in [Pods -> PodStates] /\ altered \subseteq Params
  /\ pc \in {"idle", "converge", "cleanup", "assess", "reload", "restart", "status"}
  /\ todo \subseteq Pods /\ (todo # {} => pc = "reload")
  /\ covered \subseteq Params /\ (covered # {} => pc = "restart")
  /\ \A i \in Pods : pods[i].pending \subseteq Postmaster
  /\ troubles \in 0..MaxTroubles

\* A Cluster without parameters, or one that runs with some.
InitWith(c) ==
  LET t == [mounts |-> c # Empty, restart |-> Empty]
  IN /\ cluster = [NoCluster EXCEPT !.spec = c, !.hash = c, !.cond = IF c = Empty THEN "None" ELSE "Applied"]
     /\ past = {} /\ cm = c /\ template = t /\ seen = t /\ done = t
     /\ pods = [i \in Pods |-> [up |-> TRUE, rev |-> t, file |-> c, sig |-> FALSE,
                                val |-> c, pending |-> {}, auto |-> {}]]
     /\ altered = {} /\ pc = "idle" /\ l = NoCluster /\ todo = {} /\ covered = {}
     /\ troubles = 0
Init == \E c \in {Empty} \cup {[p \in Params |-> v] : v \in Values \ (BadValues \cup Refused)} : InitWith(c)

-----------------------------------------------------------------------------
(* The server. *)

\* The entry that counts for p: postgresql.auto.conf is read last.
Entry(i, file, p) == IF i = Primary /\ p \in altered THEN AutoConf ELSE file[p]
Rejects(i, file) == {p \in Params : Entry(i, file, p) \in BadValues}

\* The file a pod's server reads.
FileOf(s) == IF s.rev.mounts THEN s.file ELSE Empty

\* What a server is like once it started, or read its file again.  At a reload
\* valid entries take effect, those of context postmaster only become pending.
\* An invalid entry changes nothing, its pending_restart included.
Started(i) ==
  LET s == pods[i]  f == FileOf(s)
  IN [s EXCEPT !.up = TRUE, !.sig = FALSE, !.pending = {},
               !.val = [p \in Params |-> Entry(i, f, p)],
               !.auto = {p \in Params : Entry(i, f, p) = AutoConf}]
Reloaded(i) ==
  LET s == pods[i]  f == FileOf(s)
      new == [p \in Params |-> Entry(i, f, p)]
      bad == Rejects(i, f)
      hot == Params \ (bad \cup Postmaster)
  IN [s EXCEPT !.sig = FALSE,
               !.val = [p \in Params |-> IF p \in hot THEN new[p] ELSE s.val[p]],
               !.auto = {p \in hot : new[p] = AutoConf} \cup (s.auto \ hot),
               !.pending = {p \in Postmaster : IF p \in bad THEN p \in s.pending ELSE new[p] # s.val[p]}]

\* Any invalid entry keeps a server from starting.
StartServer(i) ==
  /\ ~pods[i].up /\ (pods[i].rev.mounts => pods[i].file # Empty) /\ Rejects(i, FileOf(pods[i])) = {}
  /\ pods' = [pods EXCEPT ![i] = Started(i)]
  /\ UNCHANGED <<cluster, past, cm, template, seen, done, altered, pc, l, todo, covered, troubles>>
ReloadServer(i) ==
  /\ pods[i].up /\ pods[i].sig
  /\ pods' = [pods EXCEPT ![i] = Reloaded(i)]
  /\ UNCHANGED <<cluster, past, cm, template, seen, done, altered, pc, l, todo, covered, troubles>>

-----------------------------------------------------------------------------
(* Users, DBAs and Kubernetes. *)

\* spec.parameters is edited: one parameter is set or removed, or all are.
Edit(c) ==
  /\ cluster.gen < MaxEdits /\ c # cluster.spec
  /\ Reverts \/ c = Empty \/ c \notin past
  /\ cluster' = [cluster EXCEPT !.gen = @ + 1, !.spec = c]
  /\ past' = past \cup {cluster.spec}
  /\ UNCHANGED <<cm, template, seen, done, pods, altered, pc, l, todo, covered, troubles>>
EditParameters ==
  \/ \E p \in Params, v \in Values \cup {Unset} : Edit([cluster.spec EXCEPT ![p] = v])
  \/ Edit(Empty)

Trouble == troubles < MaxTroubles /\ troubles' = troubles + 1

\* ALTER SYSTEM SET or RESET on the primary, or a reload outside pgop.
AlterSystem(p) ==
  /\ Trouble
  /\ altered' = IF p \in altered THEN altered \ {p} ELSE altered \cup {p}
  /\ covered' = IF pc = "restart" THEN covered \cup {p} ELSE covered
  /\ UNCHANGED <<cluster, past, cm, template, seen, done, pods, pc, l, todo>>
ReloadOutside ==
  /\ Trouble /\ pods[Primary].up
  /\ pods' = [pods EXCEPT ![Primary].sig = TRUE]
  /\ UNCHANGED <<cluster, past, cm, template, seen, done, altered, pc, l, todo, covered>>

\* The kubelet brings the ConfigMap into a pod.
SyncFile(i) ==
  /\ pods[i].rev.mounts /\ cm # Empty /\ pods[i].file # cm
  /\ pods' = [pods EXCEPT ![i].file = cm]
  /\ UNCHANGED <<cluster, past, cm, template, seen, done, altered, pc, l, todo, covered, troubles>>

\* The StatefulSet controller sees a new template, replaces the pods one at a
\* time with the primary last, and reports the rollout done.  A pod that does
\* not start is deleted by hand, as the user guide says.
ObserveTemplate ==
  /\ seen # template /\ seen' = template
  /\ UNCHANGED <<cluster, past, cm, template, done, pods, altered, pc, l, todo, covered, troubles>>
ReplacePod(i) ==
  /\ pods[i].rev # seen
  /\ pods[i].up => \A j \in Pods : pods[j].up /\ (i = Primary /\ j # i => pods[j].rev = seen)
  /\ pods' = [pods EXCEPT ![i].up = FALSE, ![i].rev = seen, ![i].file = Empty]
  /\ UNCHANGED <<cluster, past, cm, template, seen, done, altered, pc, l, todo, covered, troubles>>
CompleteRollout ==
  /\ done # seen /\ \A i \in Pods : pods[i].up /\ pods[i].rev = seen
  /\ done' = seen
  /\ UNCHANGED <<cluster, past, cm, template, seen, pods, altered, pc, l, todo, covered, troubles>>

Crash(i) ==
  /\ pods[i].up /\ Trouble
  /\ pods' = [pods EXCEPT ![i].up = FALSE]
  /\ UNCHANGED <<cluster, past, cm, template, seen, done, altered, pc, l, todo, covered>>

-----------------------------------------------------------------------------
(* The reconcile. *)

\* Mutant: a ConfigMap no longer needed is deleted at once.
ReconcileConfigMapAtOnce ==
  /\ pc = "idle" /\ pc' = "converge" /\ l' = cluster /\ cm' = l'.spec
  /\ UNCHANGED <<cluster, past, template, seen, done, pods, altered, todo, covered, troubles>>

\* Read the Cluster; reconcileConfigMap: before a pod that mounts it starts.
ReconcileConfigMap ==
  /\ pc = "idle" /\ pc' = "converge" /\ l' = cluster
  /\ cm' = IF l'.spec = Empty THEN cm ELSE l'.spec
  /\ UNCHANGED <<cluster, past, template, seen, done, pods, altered, todo, covered, troubles>>

\* reconcileStatefulSet: the volume and the config_file argument; annotations
\* of the template are kept.
ReconcileStatefulSet ==
  /\ pc = "converge" /\ pc' = "cleanup"
  /\ template' = [template EXCEPT !.mounts = l.spec # Empty]
  /\ UNCHANGED <<cluster, past, cm, seen, done, pods, altered, l, todo, covered, troubles>>

\* cleanupConfigMap: after the StatefulSet stopped referencing it.
CleanupConfigMap ==
  /\ pc = "cleanup" /\ pc' = "assess"
  /\ cm' = IF l.spec = Empty THEN Empty ELSE cm
  /\ UNCHANGED <<cluster, past, template, seen, done, pods, altered, l, todo, covered, troubles>>

\* Mutants of the assessment: the file is not awaited, and a removed parameter
\* needs no restart.
SyncedAlways == TRUE
RestartNeededForDesired == \E p \in pods[Primary].pending : l.spec[p] # Unset

\* assessParameters, for what the primary reports: pg_file_settings and
\* pg_settings.  An entry of context postmaster shows an error also while its
\* value only waits for a restart.
Server == pods[Primary]
Desired == {p \in Params : l.spec[p] # Unset}
UsesGeneratedFile == Server.rev.mounts
Synced == Server.file = l.spec
Erroneous ==
  {p \in Params : /\ Server.file[p] # Unset /\ p \notin altered
                  /\ \/ Server.file[p] \in BadValues
                     \/ p \in Postmaster /\ Server.file[p] # Server.val[p]}
Invalid == Erroneous \ Postmaster
InvalidAfterReload == (Erroneous \cap Postmaster) \ Server.pending
FromFile(p) == Server.val[p] \notin {Unset, AutoConf}
RestartNeeded == \E p \in Server.pending : p \in Desired \/ FromFile(p)
Overridden == Desired \cap Server.auto

\* Set the condition and go on to the status update.
Report(reason) ==
  /\ l' = [l EXCEPT !.cond = reason, !.observed = l.gen]
  /\ pc' = "status" /\ todo' = {} /\ covered' = {}

\* Mutant: every error of a parameter that needs a restart is taken for a
\* pending one.
VerdictRestartsOnError ==
  IF ~Server.up \/ seen # done THEN "WaitingForServer"
  ELSE IF ~UsesGeneratedFile \/ ~Synced THEN "WaitingForSync"
  ELSE IF Invalid # {} THEN "InvalidParameter"
  ELSE IF l.hash # l.spec THEN "Reloading"
  ELSE IF RestartNeeded \/ Erroneous # {} THEN "PendingRestart"
  ELSE IF Overridden # {} THEN "OverriddenByAlterSystem"
  ELSE "Applied"

\* The outcome of reconcileParameters as far as the server is concerned.
Verdict ==
  IF ~Server.up \/ seen # done THEN "WaitingForServer"
  ELSE IF ~UsesGeneratedFile \/ ~Synced THEN "WaitingForSync"
  ELSE IF Invalid # {} THEN "InvalidParameter"
  ELSE IF l.hash # l.spec THEN "Reloading"
  ELSE IF InvalidAfterReload # {} THEN "InvalidParameter"
  ELSE IF RestartNeeded THEN "PendingRestart"
  ELSE IF Overridden # {} THEN "OverriddenByAlterSystem"
  ELSE "Applied"

\* No parameters: the status is cleared.
ClearParameters ==
  /\ pc = "assess" /\ l.spec = Empty
  /\ l' = [l EXCEPT !.cond = "None", !.hash = Empty] /\ pc' = "status"
  /\ UNCHANGED <<cluster, past, cm, template, seen, done, pods, altered, todo, covered, troubles>>

\* Line breaks are reported without looking at the server.
RefuseParameters ==
  /\ pc = "assess" /\ \E p \in Params : l.spec[p] \in Refused
  /\ Report("InvalidParameter")
  /\ UNCHANGED <<cluster, past, cm, template, seen, done, pods, altered, troubles>>

Assess ==
  /\ pc = "assess" /\ l.spec # Empty /\ \A p \in Params : l.spec[p] \notin Refused
  /\ CASE Verdict = "Reloading" ->
            /\ pc' = "reload" /\ todo' = {i \in Pods : pods[i].up} /\ UNCHANGED <<l, covered>>
       [] Verdict = "PendingRestart" ->
            /\ pc' = "restart" /\ covered' = altered /\ UNCHANGED <<l, todo>>
       [] OTHER -> Report(Verdict)
  /\ UNCHANGED <<cluster, past, cm, template, seen, done, pods, altered, troubles>>

\* reloadForParameters: pg_reload_conf() on the primary, then on the standbys
\* that were ready.  After the last one the hash is recorded.
Reload(i) ==
  /\ pc = "reload" /\ i \in todo /\ (i = Primary \/ Primary \notin todo)
  /\ pods[i].up
  /\ pods' = [pods EXCEPT ![i].sig = TRUE]
  /\ IF todo = {i}
     THEN /\ l' = [l EXCEPT !.hash = l.spec, !.cond = "Reloading", !.observed = l.gen]
          /\ pc' = "status" /\ todo' = {}
     ELSE todo' = todo \ {i} /\ UNCHANGED <<l, pc>>
  /\ UNCHANGED <<cluster, past, cm, template, seen, done, altered, covered, troubles>>

\* Mutant: the standbys that are left are not given up.
ReloadFailsKeeps ==
  /\ pc = "reload" /\ \E i \in todo : ~pods[i].up
  /\ l' = [l EXCEPT !.cond = "WaitingForServer", !.observed = l.gen] /\ pc' = "status"
  /\ UNCHANGED <<cluster, past, cm, template, seen, done, pods, altered, todo, covered, troubles>>

\* A server cannot be reached: the hash is not recorded, so that all are
\* reloaded again.
ReloadFails ==
  /\ pc = "reload" /\ \E i \in todo : (i = Primary \/ Primary \notin todo) /\ ~pods[i].up
  /\ Report("WaitingForServer")
  /\ UNCHANGED <<cluster, past, cm, template, seen, done, pods, altered, troubles>>

\* The server does not answer, or the StatefulSet cannot be patched: neither
\* fails the reconcile.
ReadFails ==
  /\ pc = "assess" /\ l.spec # Empty /\ \A p \in Params : l.spec[p] \notin Refused
  /\ Trouble /\ Report("WaitingForServer")
  /\ UNCHANGED <<cluster, past, cm, template, seen, done, pods, altered>>
RestartFails ==
  /\ pc = "restart" /\ Trouble /\ Report("PendingRestart")
  /\ UNCHANGED <<cluster, past, cm, template, seen, done, pods, altered>>

\* restartForParameters: once per configuration.
RestartForParameters ==
  /\ pc = "restart"
  /\ template' = [template EXCEPT !.restart = l.spec]
  /\ Report("PendingRestart")
  /\ UNCHANGED <<cluster, past, cm, seen, done, pods, altered, troubles>>

Done == pc' = "idle" /\ l' = NoCluster /\ todo' = {} /\ covered' = {}

\* updateStatus, under an optimistic lock: only users change the Cluster while
\* a reconcile runs.
UpdateStatus ==
  /\ pc = "status" /\ cluster.gen = l.gen
  /\ cluster' = l /\ Done
  /\ UNCHANGED <<past, cm, template, seen, done, pods, altered, troubles>>
Conflict ==
  /\ pc = "status" /\ cluster.gen # l.gen /\ Done
  /\ UNCHANGED <<cluster, past, cm, template, seen, done, pods, altered, troubles>>

\* A call fails, or the operator stops.
Fail ==
  /\ pc # "idle" /\ Trouble /\ Done
  /\ UNCHANGED <<cluster, past, cm, template, seen, done, pods, altered>>

-----------------------------------------------------------------------------
Reconcile ==
  \/ ReconcileConfigMap \/ ReconcileStatefulSet \/ CleanupConfigMap
  \/ ClearParameters \/ RefuseParameters \/ Assess
  \/ \E i \in Pods : Reload(i)
  \/ ReloadFails \/ RestartForParameters \/ UpdateStatus \/ Conflict

StatefulSetController ==
  ObserveTemplate \/ CompleteRollout \/ \E i \in Pods : ReplacePod(i)

Next ==
  \/ Reconcile \/ ReadFails \/ RestartFails \/ Fail \/ StatefulSetController
  \/ EditParameters \/ ReloadOutside \/ \E p \in Params : AlterSystem(p)
  \/ \E i \in Pods : StartServer(i) \/ ReloadServer(i) \/ SyncFile(i) \/ Crash(i)

\* Watch events and requeues run the reconcile again; Kubernetes and the
\* servers do their part.
Fairness ==
  /\ WF_vars(Reconcile) /\ WF_vars(StatefulSetController)
  /\ \A i \in Pods : WF_vars(StartServer(i)) /\ WF_vars(ReloadServer(i)) /\ WF_vars(SyncFile(i))

Spec == Init /\ [][Next]_vars
FairSpec == Spec /\ Fairness

-----------------------------------------------------------------------------
(* Properties. *)

\* "Every parameter is in effect": once the server has done a reload it was
\* asked for, a condition Applied for the current generation means that a
\* primary with the generated file runs with every declared value it accepts,
\* and with no value of a parameter that was removed, up to what ALTER SYSTEM
\* overrides and what the server reports as pending - although the file arrives
\* late, the reload is only signalled, and status updates are lost.
AppliedInEffect ==
  cluster.cond = "Applied" /\ cluster.observed = cluster.gen
    /\ Server.up /\ Server.rev.mounts /\ ~Server.sig
    => \A p \in Params \ Server.pending :
         cluster.spec[p] \in BadValues \/ Server.val[p] \in {cluster.spec[p], AutoConf}

\* "The ConfigMaps must exist before a pod that mounts them starts", and go
\* only after the StatefulSet stopped referencing them, wherever the operator
\* stops and however the spec changes in between.
MountedConfigExists == template.mounts => cm # Empty

\* A running server is never restarted onto a file that it rejects, which would
\* keep it down.  (Exempt are entries of parameters that still wait for the
\* restart of an earlier value: the server reports them as pending; and those
\* ALTER SYSTEM overrode when or after the restart was decided.)
RestartsOntoValidFile ==
  [][template'.restart # template.restart /\ Server.up =>
       Rejects(Primary, Server.file) \subseteq Server.pending \cup covered]_vars

\* Whatever failed or crashed on the way, the last configuration takes effect
\* or is reported: a removed one leaves nothing behind, an invalid one is
\* named (or keeps a pod that is replaced for another reason from starting),
\* and a valid one is applied up to what ALTER SYSTEM overrides.  (A restart
\* that ALTER SYSTEM makes necessary may stay pending: the configuration had
\* its one restart.)
Settled ==
  LET c == cluster.spec  s == pods[Primary] IN
  IF c = Empty THEN
    /\ cm = Empty /\ ~template.mounts /\ cluster.cond = "None"
    /\ \A i \in Pods : pods[i].up /\ ~pods[i].rev.mounts
  ELSE IF \E p \in Params : c[p] \in Refused THEN cluster.cond = "InvalidParameter"
  ELSE IF \E p \in Params : c[p] \in BadValues THEN
    \/ Rejects(Primary, c) = {}
    \/ cluster.cond \in {"InvalidParameter", "WaitingForServer", "WaitingForSync"}
  ELSE
    /\ s.up /\ \A p \in Params \ altered : s.val[p] \in {c[p], AutoConf}
    /\ \/ cluster.cond \in {"Applied", "OverriddenByAlterSystem"}
       \/ /\ cluster.cond = "PendingRestart" /\ template.restart = c
          /\ \E p \in Params : AutoConf \in {s.val[p], Entry(Primary, c, p)}
ParametersSettle == <>[]Settled

\* The state is well-formed, and what the pod template mounts exists.
ParametersInv == TypeOK /\ MountedConfigExists
=============================================================================
