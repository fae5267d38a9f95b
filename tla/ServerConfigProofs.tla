------------------------- MODULE ServerConfigProofs -------------------------
(***************************************************************************)
(* Proofs about what pgop gives the running servers: the parameters of     *)
(* Parameters and the certificates of ServerTLS.                           *)
(*                                                                         *)
(* Parameters, for every set of parameters, values and pods and every      *)
(* bound: the state stays well formed, what the pod template mounts        *)
(* exists, no restart is asked for onto a file the running server rejects, *)
(* and Applied means in effect as long as users do not return to a         *)
(* configuration they gave up.                                             *)
(*                                                                         *)
(* ServerTLS, for every policy that leaves room for a missed unit of time  *)
(* and every bound: the Secrets hold together, clients verify the server   *)
(* through renewals and rotations of the CA, and neither restarts the pod. *)
(***************************************************************************)
EXTENDS Parameters, ServerTLS, TLAPS


-----------------------------------------------------------------------------
(* Parameters: the inductive invariant. *)

\* A server that mounts the generated file runs with one, and a pod that does
\* not mount it has none.
FileMounted ==
  /\ Server.up /\ Server.rev.mounts => Server.file # Empty
  /\ ~Server.rev.mounts => Server.file = Empty

\* The ConfigMap is the one the running reconcile wrote, and the template no
\* longer refers to it once it is to be deleted.
ConfigMapWritten ==
  /\ pc # "idle" /\ l.spec # Empty => cm = l.spec
  /\ pc = "cleanup" /\ l.spec = Empty => ~template.mounts
  /\ pc = "reload" => l.spec # Empty /\ todo # {}
  /\ pc = "restart" => l.spec # Empty

\* The configurations a reload was recorded for, and the copy of the Cluster,
\* are the current one or were given up.
CopyFollows ==
  /\ cluster.observed <= cluster.gen /\ l.observed <= l.gen /\ l.gen <= cluster.gen
  /\ pc # "idle" /\ l.gen = cluster.gen => l.spec = cluster.spec
  /\ {cluster.hash, l.hash, l.spec} \subseteq past \cup {cluster.spec, Empty}

\* The primary has the values of c, up to those it rejects, those ALTER SYSTEM
\* overrides and those that are pending.
Loaded(c) ==
  \A p \in Params \ Server.pending : c[p] \in BadValues \/ Server.val[p] \in {c[p], AutoConf}

\* No other file than that of c reaches the primary, and once it has done the
\* reload it was asked for it has the values of c.
HasFile(c) == Server.file \in {c, Empty}
Serves(c) == HasFile(c) /\ (Server.up /\ Server.rev.mounts /\ ~Server.sig => Loaded(c))

\* A configuration whose reload was recorded is served, and no reconcile that
\* started before it was recorded is still running.
ReloadedServed ==
  /\ cluster.hash = cluster.spec /\ cluster.spec # Empty =>
       cm = cluster.spec /\ Serves(cluster.spec) /\ (pc # "idle" => l.gen = cluster.gen)
  /\ pc # "idle" /\ l.hash = l.spec /\ l.spec # Empty => Serves(l.spec)
  /\ pc = "reload" => HasFile(l.spec) /\ (Primary \notin todo => Serves(l.spec))

\* Applied is reported only for a configuration whose reload was recorded.
AppliedReloaded ==
  /\ cluster.cond = "Applied" /\ cluster.observed = cluster.gen =>
       cluster.hash = cluster.spec /\ cluster.spec # Empty
  /\ l.cond = "Applied" /\ l.observed = l.gen => l.hash = l.spec /\ l.spec # Empty

\* From the decision to the restart the server stays with the file that was
\* assessed, and keeps reporting what it rejects in it as pending.
RestartAssessed ==
  pc = "restart" =>
    /\ altered \subseteq covered /\ HasFile(l.spec)
    /\ Server.up /\ Server.rev.mounts =>
         \A p \in Params : l.spec[p] \in BadValues => p \in Server.pending \cup covered

\* The safe part of the invariant, and the part that needs users not to return
\* to a configuration they gave up.
SafeInv == TypeOK /\ FileMounted /\ ConfigMapWritten /\ MountedConfigExists /\ RestartAssessed
EffectInv == CopyFollows /\ ReloadedServed /\ AppliedReloaded

IInv == SafeInv /\ EffectInv
-----------------------------------------------------------------------------
(* Types. *)

\* The records the steps write.
LEMMA ConfTypes ==
  /\ Empty \in Confs /\ NoCluster \in Clusters
  /\ \A c \in Confs, p \in Params, v \in Values \cup {Unset} : [c EXCEPT ![p] = v] \in Confs
<1>1. Empty \in Confs
  BY DEF Empty, Confs
<1>2. NoCluster \in Clusters
  BY <1>1, BoundsAssumption DEF NoCluster, Clusters, Reasons
<1>3. QED
  BY <1>1, <1>2 DEF Confs

\* The template with or without the mount, or with a restart.
LEMMA TemplateTypes ==
  ASSUME NEW t \in Templates, NEW b \in BOOLEAN, NEW c \in Confs
  PROVE  [t EXCEPT !.mounts = b] \in Templates /\ [t EXCEPT !.restart = c] \in Templates
  BY DEF Templates

\* The copy of the Cluster with a new condition or a recorded hash.
LEMMA ClusterTypes ==
  ASSUME NEW k \in Clusters, NEW r \in Reasons, NEW c \in Confs
  PROVE  /\ [k EXCEPT !.cond = r, !.observed = k.gen] \in Clusters
         /\ [k EXCEPT !.hash = k.spec, !.cond = r, !.observed = k.gen] \in Clusters
         /\ [k EXCEPT !.cond = r, !.hash = c] \in Clusters
         /\ k.gen < MaxEdits => [k EXCEPT !.gen = @ + 1, !.spec = c] \in Clusters
<1>1. k.gen < MaxEdits => k.gen + 1 \in 0..MaxEdits
  BY BoundsAssumption DEF Clusters
<1>2. QED
  BY <1>1 DEF Clusters

\* What the server reads at a start or a reload are values.
LEMMA EntryTypes ==
  ASSUME NEW i, NEW c \in Confs, NEW p \in Params
  PROVE  Entry(i, c, p) \in Values \cup {Unset, AutoConf}
<1>1. c[p] \in Values \cup {Unset}
  BY DEF Confs
<1>2. QED
  BY <1>1, Zenon DEF Entry

\* A step of one pod keeps the types of the pods.
LEMMA PodKeepsTypes ==
  ASSUME TypeOK, NEW i \in Pods, NEW s \in PodStates, s.pending \subseteq Postmaster,
         pods' = [pods EXCEPT ![i] = s]
  PROVE  pods' \in [Pods -> PodStates] /\ \A j \in Pods : pods'[j].pending \subseteq Postmaster
  BY DEF TypeOK

\* The rest of TypeOK, for the steps of pods and servers.
Rest ==
  /\ cluster \in Clusters /\ l \in Clusters /\ past \subseteq Confs
  /\ cm \in Confs /\ {template, seen, done} \subseteq Templates
  /\ altered \subseteq Params
  /\ pc \in {"idle", "converge", "cleanup", "assess", "reload", "restart", "status"}
  /\ todo \subseteq Pods /\ (todo # {} => pc = "reload")
  /\ covered \subseteq Params /\ (covered # {} => pc = "restart")
  /\ troubles \in 0..MaxTroubles
PodsOK == pods \in [Pods -> PodStates] /\ \A i \in Pods : pods[i].pending \subseteq Postmaster

\* TypeOK is these two.
LEMMA TypeParts == TypeOK <=> Rest /\ PodsOK
  BY DEF TypeOK, Rest, PodsOK

\* The steps on pods, as one record written into pods each.
LEMMA PodSteps ==
  ASSUME TypeOK, NEW i \in Pods
  PROVE  /\ SyncFile(i) => pods' = [pods EXCEPT ![i] = [pods[i] EXCEPT !.file = cm]]
         /\ Crash(i) => pods' = [pods EXCEPT ![i] = [pods[i] EXCEPT !.up = FALSE]]
         /\ ReplacePod(i) =>
              pods' = [pods EXCEPT ![i] = [pods[i] EXCEPT !.up = FALSE, !.rev = seen, !.file = Empty]]
         /\ Reload(i) => pods' = [pods EXCEPT ![i] = [pods[i] EXCEPT !.sig = TRUE]]
         /\ ReloadOutside => pods' = [pods EXCEPT ![Primary] = [pods[Primary] EXCEPT !.sig = TRUE]]
  BY DEF SyncFile, Crash, ReplacePod, Reload, ReloadOutside, TypeOK, PodStates

\* A server is well formed after a start and after a reload.
LEMMA ServerTypes ==
  ASSUME TypeOK, NEW i \in Pods
  PROVE  /\ Started(i) \in PodStates /\ Started(i).pending \subseteq Postmaster
         /\ Reloaded(i) \in PodStates /\ Reloaded(i).pending \subseteq Postmaster
<1> DEFINE s == pods[i]
           f == FileOf(s)
           new == [p \in Params |-> Entry(i, f, p)]
           bad == Rejects(i, f)
           hot == Params \ (bad \cup Postmaster)
           auto == {p \in Params : Entry(i, f, p) = AutoConf}
           val == [p \in Params |-> IF p \in hot THEN new[p] ELSE s.val[p]]
           auto2 == {p \in hot : new[p] = AutoConf} \cup (s.auto \ hot)
           pending == {p \in Postmaster : IF p \in bad THEN p \in s.pending ELSE new[p] # s.val[p]}
<1>1. s \in PodStates
  BY DEF TypeOK
<1>2. f \in Confs
  BY <1>1, ConfTypes DEF FileOf, PodStates
<1>3. new \in [Params -> Values \cup {Unset, AutoConf}]
  BY <1>2, EntryTypes
<1>4. val \in [Params -> Values \cup {Unset, AutoConf}]
  BY <1>1, <1>3 DEF PodStates
<1>5. auto \subseteq Params /\ auto2 \subseteq Params /\ pending \subseteq Postmaster /\ pending \subseteq Params
  BY <1>1, ParamsAssumption DEF PodStates
<1>6. Started(i) = [s EXCEPT !.up = TRUE, !.sig = FALSE, !.pending = {}, !.val = new, !.auto = auto]
  BY Zenon DEF Started
<1>7. Reloaded(i) = [s EXCEPT !.sig = FALSE, !.val = val, !.auto = auto2, !.pending = pending]
  BY Zenon DEF Reloaded
<1> HIDE DEF s, new, auto, val, auto2, pending
<1>8. QED
  BY <1>1, <1>3, <1>4, <1>5, <1>6, <1>7 DEF PodStates

\* The Cluster starts with a configuration, or with none.
LEMMA InitConfs ==
  Init => \E c \in Confs : InitWith(c)
  BY ConfTypes, Zenon DEF Init, Confs

\* The initial states are well formed.
LEMMA InitTypeOK == Init => TypeOK
<1> SUFFICES ASSUME NEW c \in Confs, InitWith(c) PROVE TypeOK
  BY InitConfs
<1> DEFINE t == [mounts |-> c # Empty, restart |-> Empty]
<1>1. t \in Templates
  BY ConfTypes DEF Templates
<1>2. cluster \in Clusters
  BY ConfTypes, BoundsAssumption DEF InitWith, NoCluster, Clusters, Reasons
<1>3. c \in [Params -> Values \cup {Unset, AutoConf}]
  BY DEF Confs
<1>4. PodsOK
  BY <1>1, <1>3 DEF InitWith, PodStates, PodsOK
<1>5. template = t /\ seen = t /\ done = t
  BY DEF InitWith
<1> HIDE DEF t
<1>6. Rest
  BY <1>1, <1>2, <1>5, ConfTypes, BoundsAssumption DEF InitWith, Rest
<1>7. QED
  BY <1>4, <1>6, TypeParts

\* Every step keeps the pods well formed.
LEMMA NextPodsOK == TypeOK /\ [Next]_vars => PodsOK'
<1> SUFFICES ASSUME TypeOK, [Next]_vars PROVE PodsOK'
  OBVIOUS
<1>1. Primary \in Pods /\ cm \in Confs /\ seen \in Templates
  BY DEF Pods, TypeOK
<1>2. \A i \in Pods : pods[i] \in PodStates /\ pods[i].pending \subseteq Postmaster
  BY DEF TypeOK
<1>3. ASSUME NEW i \in Pods, NEW s \in PodStates, s.pending \subseteq Postmaster,
             pods' = [pods EXCEPT ![i] = s]
      PROVE  PodsOK'
  BY <1>3, PodKeepsTypes DEF PodsOK
<1>4. ASSUME NEW i \in Pods,
             SyncFile(i) \/ Crash(i) \/ ReplacePod(i) \/ Reload(i) \/ ReloadOutside
      PROVE  PodsOK'
  <2>1. PICK j \in Pods, s \in PodStates : s.pending = pods[j].pending /\ pods' = [pods EXCEPT ![j] = s]
    <3>1. /\ [pods[i] EXCEPT !.file = cm] \in {s \in PodStates : s.pending = pods[i].pending}
          /\ [pods[i] EXCEPT !.up = FALSE] \in {s \in PodStates : s.pending = pods[i].pending}
          /\ [pods[i] EXCEPT !.up = FALSE, !.rev = seen, !.file = Empty]
               \in {s \in PodStates : s.pending = pods[i].pending}
          /\ [pods[i] EXCEPT !.sig = TRUE] \in {s \in PodStates : s.pending = pods[i].pending}
          /\ [pods[Primary] EXCEPT !.sig = TRUE] \in {s \in PodStates : s.pending = pods[Primary].pending}
      BY <1>1, <1>2, ConfTypes DEF PodStates
    <3>2. QED
      BY <1>1, <1>4, <3>1, PodSteps
  <2>2. QED
    BY <1>2, <1>3, <2>1
<1>5. ASSUME NEW i \in Pods, StartServer(i) \/ ReloadServer(i) PROVE PodsOK'
  BY <1>3, <1>5, ServerTypes DEF StartServer, ReloadServer
<1>6. CASE UNCHANGED pods
  BY <1>6 DEF TypeOK, PodsOK
<1>7. EditParameters \/ (\E p \in Params : AlterSystem(p)) => UNCHANGED pods
  BY DEF EditParameters, Edit, AlterSystem
<1>8. ObserveTemplate \/ CompleteRollout \/ ReadFails \/ RestartFails \/ Fail \/ UNCHANGED vars => UNCHANGED pods
  BY DEF ObserveTemplate, CompleteRollout, ReadFails, RestartFails, Fail, vars
<1>9. Reconcile /\ ~(\E i \in Pods : Reload(i)) => UNCHANGED pods
  BY DEF Reconcile, ReconcileConfigMap, ReconcileStatefulSet, CleanupConfigMap, ClearParameters,
     RefuseParameters, Assess, ReloadFails, RestartForParameters, UpdateStatus, Conflict
<1>10. QED
  BY <1>1, <1>4, <1>5, <1>6, <1>7, <1>8, <1>9 DEF Next, StatefulSetController

\* The steps of the pods, the servers and the StatefulSet controller: they
\* leave the Cluster, the ConfigMap, the template and the reconcile alone.
PodStep(i) == StartServer(i) \/ ReloadServer(i) \/ SyncFile(i) \/ Crash(i) \/ ReplacePod(i)
Outside == ReloadOutside \/ ObserveTemplate \/ CompleteRollout \/ \E i \in Pods : PodStep(i)

\* At most the StatefulSet's status moves on with them.
LEMMA OutsideKeeps ==
  Outside => /\ UNCHANGED <<cluster, past, cm, template, altered, pc, l, todo, covered>>
             /\ seen' \in {seen, template} /\ done' \in {done, seen}
             /\ troubles' = troubles \/ (troubles < MaxTroubles /\ troubles' = troubles + 1)
  BY DEF Outside, PodStep, ReloadOutside, ObserveTemplate, CompleteRollout, StartServer, ReloadServer,
     SyncFile, Crash, ReplacePod, Trouble

\* Next by who takes the step.
LEMMA NextCases ==
  Next => \/ Outside \/ EditParameters \/ (\E p \in Params : AlterSystem(p))
          \/ Reconcile \/ ReadFails \/ RestartFails \/ Fail
  BY Zenon DEF Next, StatefulSetController, Outside, PodStep

\* What the assessment reports is a reason.
LEMMA VerdictType == Verdict \in Reasons
  BY DEF Verdict, Reasons

\* Every step keeps the rest well formed.
LEMMA NextRest == TypeOK /\ [Next]_vars => Rest'
<1> SUFFICES ASSUME TypeOK, [Next]_vars PROVE Rest'
  OBVIOUS
<1>0. Rest /\ l.spec \in Confs /\ cluster.spec \in Confs
  BY TypeParts DEF Rest, Clusters
<1> USE <1>0, BoundsAssumption DEF Rest
<1>1. CASE Outside
  BY <1>1, OutsideKeeps
<1>2. ASSUME NEW c \in Confs, Edit(c) PROVE Rest'
  <2>1. cluster' \in Clusters
    BY <1>2, ClusterTypes DEF Edit, Reasons
  <2>2. QED
    BY <1>2, <2>1 DEF Edit
<1>3. CASE EditParameters
  BY <1>2, <1>3, ConfTypes DEF EditParameters
<1>4. ASSUME NEW p \in Params, AlterSystem(p) PROVE Rest'
  BY <1>4 DEF AlterSystem, Trouble
<1>5. ASSUME NEW r \in Reasons, Report(r) PROVE l' \in Clusters /\ pc' = "status" /\ todo' = {} /\ covered' = {}
  BY <1>5, ClusterTypes DEF Report
<1>6. CASE ReconcileConfigMap \/ CleanupConfigMap
  BY <1>6, ConfTypes DEF ReconcileConfigMap, CleanupConfigMap
<1>7. CASE ReconcileStatefulSet
  <2>1. template' \in Templates
    BY <1>7, TemplateTypes DEF ReconcileStatefulSet
  <2>2. QED
    BY <1>7, <2>1 DEF ReconcileStatefulSet
<1>8. CASE ClearParameters
  <2>1. l' \in Clusters
    BY <1>8, ClusterTypes, ConfTypes DEF ClearParameters, Reasons
  <2>2. QED
    BY <1>8, <2>1 DEF ClearParameters
<1>9. CASE RefuseParameters \/ ReloadFails \/ ReadFails \/ RestartFails
  <2>1. {"InvalidParameter", "WaitingForServer", "PendingRestart"} \subseteq Reasons
    BY DEF Reasons
  <2>2. QED
    BY <1>5, <1>9, <2>1 DEF RefuseParameters, ReloadFails, ReadFails, RestartFails, Trouble
<1>10. CASE Assess
  <2>1. CASE Report(Verdict)
    BY <1>5, <1>10, <2>1, VerdictType DEF Assess
  <2>2. CASE ~Report(Verdict)
    <3>1. UNCHANGED l /\ \/ pc' = "reload" /\ todo' = {i \in Pods : pods[i].up} /\ UNCHANGED covered
                         \/ pc' = "restart" /\ covered' = altered /\ UNCHANGED todo
      BY <1>10, <2>2 DEF Assess
    <3>2. QED
      BY <1>10, <3>1 DEF Assess
  <2>3. QED
    BY <2>1, <2>2
<1>11. ASSUME NEW i \in Pods, Reload(i) PROVE Rest'
  <2>1. l' \in Clusters
    BY <1>11, ClusterTypes DEF Reload, Reasons
  <2>2. QED
    BY <1>11, <2>1 DEF Reload
<1>12. CASE RestartForParameters
  <2>1. template' \in Templates /\ "PendingRestart" \in Reasons
    BY <1>12, TemplateTypes DEF RestartForParameters, Reasons
  <2>2. QED
    BY <1>5, <1>12, <2>1 DEF RestartForParameters
<1>13. CASE UpdateStatus \/ Conflict \/ Fail
  BY <1>13, ConfTypes DEF UpdateStatus, Conflict, Fail, Done, Trouble
<1>14. CASE UNCHANGED vars
  BY <1>14 DEF vars
<1>15. QED
  BY <1>1, <1>3, <1>4, <1>6, <1>7, <1>8, <1>9, <1>10, <1>11, <1>12, <1>13, <1>14, NextCases
  DEF Reconcile

\* Every step keeps the state well formed.
LEMMA NextTypeOK == TypeOK /\ [Next]_vars => TypeOK'
  BY TypeParts, NextRest, NextPodsOK, PTL
-----------------------------------------------------------------------------
(* The server of the primary. *)

\* A start, field by field.
LEMMA StartedFields ==
  ASSUME TypeOK
  PROVE  LET s == Started(Primary) IN
         /\ s.up /\ ~s.sig /\ s.pending = {} /\ s.rev = Server.rev /\ s.file = Server.file
         /\ \A p \in Params : s.val[p] = Entry(Primary, FileOf(Server), p)
<1>1. Server \in PodStates
  BY DEF TypeOK, Server, Pods
<1>2. QED
  BY <1>1 DEF Started, Server, PodStates

\* The same for a reload.
LEMMA ReloadedFields ==
  ASSUME TypeOK
  PROVE  LET s == Reloaded(Primary)
             f == FileOf(Server)
         IN /\ s.up = Server.up /\ ~s.sig /\ s.rev = Server.rev /\ s.file = Server.file
            /\ \A p \in Params :
                 IF p \in Rejects(Primary, f) \cup Postmaster
                 THEN s.val[p] = Server.val[p] ELSE s.val[p] = Entry(Primary, f, p)
            /\ \A p \in Postmaster :
                 IF p \in Rejects(Primary, f)
                 THEN p \in s.pending <=> p \in Server.pending
                 ELSE p \in s.pending <=> Entry(Primary, f, p) # Server.val[p]
<1>1. Server \in PodStates
  BY DEF TypeOK, Server, Pods
<1>2. QED
  BY <1>1, ParamsAssumption DEF Reloaded, Server, PodStates

\* What can happen to the primary's server in a step.
ServerMoves ==
  \/ Server' = Server
  \/ Server' = [Server EXCEPT !.sig = TRUE]
  \/ Server' = [Server EXCEPT !.up = FALSE]
  \/ Server' = [Server EXCEPT !.up = FALSE, !.rev = seen, !.file = Empty]
  \/ Server' = [Server EXCEPT !.file = cm] /\ Server.rev.mounts /\ cm # Empty
  \/ /\ Server' = Started(Primary) /\ Rejects(Primary, FileOf(Server)) = {}
     /\ Server.rev.mounts => Server.file # Empty
  \/ Server' = Reloaded(Primary) /\ Server.up

\* Every step is one of these.
LEMMA StepsMoveServer ==
  ASSUME TypeOK, Outside \/ \E i \in Pods : Reload(i)
  PROVE  ServerMoves
<1>1. Primary \in Pods /\ pods \in [Pods -> PodStates]
  BY DEF Pods, TypeOK
<1>2. CASE ReloadOutside
  BY <1>1, <1>2, PodSteps DEF Server, ServerMoves
<1>3. CASE ObserveTemplate \/ CompleteRollout
  BY <1>3 DEF ObserveTemplate, CompleteRollout, Server, ServerMoves
<1>4. ASSUME NEW i \in Pods, NEW s, pods' = [pods EXCEPT ![i] = s]
      PROVE  Server' = Server \/ (i = Primary /\ Server' = s)
  BY <1>1, <1>4 DEF Server
<1>5. ASSUME NEW i \in Pods, Crash(i) PROVE ServerMoves
  <2>1. pods' = [pods EXCEPT ![i] = [pods[i] EXCEPT !.up = FALSE]]
    BY <1>5, PodSteps
  <2>2. Server' = Server \/ (i = Primary /\ Server' = [pods[i] EXCEPT !.up = FALSE])
    BY <1>4, <2>1
  <2>3. QED
    BY <1>5, <2>2 DEF Server, ServerMoves
<1>6. ASSUME NEW i \in Pods, ReplacePod(i) PROVE ServerMoves
  <2>1. pods' = [pods EXCEPT ![i] = [pods[i] EXCEPT !.up = FALSE, !.rev = seen, !.file = Empty]]
    BY <1>6, PodSteps
  <2>2. Server' = Server \/ (i = Primary /\ Server' = [pods[i] EXCEPT !.up = FALSE, !.rev = seen, !.file = Empty])
    BY <1>4, <2>1
  <2>3. QED
    BY <1>6, <2>2 DEF Server, ServerMoves
<1>7. ASSUME NEW i \in Pods, Reload(i) PROVE ServerMoves
  <2>1. pods' = [pods EXCEPT ![i] = [pods[i] EXCEPT !.sig = TRUE]]
    BY <1>7, PodSteps
  <2>2. Server' = Server \/ (i = Primary /\ Server' = [pods[i] EXCEPT !.sig = TRUE])
    BY <1>4, <2>1
  <2>3. QED
    BY <1>7, <2>2 DEF Server, ServerMoves
<1>7a. ASSUME NEW i \in Pods, SyncFile(i) PROVE ServerMoves
  <2>1. pods' = [pods EXCEPT ![i] = [pods[i] EXCEPT !.file = cm]]
    BY <1>7a, PodSteps
  <2>2. Server' = Server \/ (i = Primary /\ Server' = [pods[i] EXCEPT !.file = cm])
    BY <1>4, <2>1
  <2>3. QED
    BY <1>7a, <2>2 DEF SyncFile, Server, ServerMoves
<1>8. ASSUME NEW i \in Pods, StartServer(i) PROVE ServerMoves
  BY <1>1, <1>8 DEF StartServer, Server, ServerMoves
<1>9. ASSUME NEW i \in Pods, ReloadServer(i) PROVE ServerMoves
  BY <1>1, <1>9 DEF ReloadServer, Server, ServerMoves
<1>10. QED
  BY <1>2, <1>3, <1>5, <1>6, <1>7, <1>7a, <1>8, <1>9 DEF Outside, PodStep

\* The server keeps the file it mounts, and serves what it served as long as
\* the ConfigMap does not change.
LEMMA MovesServe ==
  ASSUME TypeOK, FileMounted, ServerMoves, NEW c \in Confs, c # Empty, cm = c
  PROVE  /\ HasFile(c) => HasFile(c)'
         /\ Serves(c) => Serves(c)'
<1> USE DEF HasFile, Serves, Loaded
<1>1. Server \in PodStates /\ Empty \in Confs
  BY ConfTypes DEF TypeOK, Server, Pods
<1>2. CASE Server' = Server
  BY <1>2
<1>3. CASE Server' = [Server EXCEPT !.sig = TRUE] \/ Server' = [Server EXCEPT !.up = FALSE]
  BY <1>1, <1>3 DEF PodStates
<1>4. CASE Server' = [Server EXCEPT !.up = FALSE, !.rev = seen, !.file = Empty]
  BY <1>1, <1>4 DEF PodStates
<1>5. CASE Server' = [Server EXCEPT !.file = cm] /\ Server.rev.mounts /\ cm # Empty
  BY <1>1, <1>5 DEF PodStates
<1>6. ASSUME Server.rev.mounts, Server.file = c
      PROVE  FileOf(Server) = c
  BY <1>6 DEF FileOf
<1>7. CASE /\ Server' = Started(Primary) /\ Rejects(Primary, FileOf(Server)) = {}
           /\ Server.rev.mounts => Server.file # Empty
  BY <1>6, <1>7, StartedFields DEF Entry
<1>8. CASE Server' = Reloaded(Primary) /\ Server.up
  <2>1. HasFile(c) => HasFile(c)'
    BY <1>8, ReloadedFields
  <2>2. ASSUME Server.rev.mounts, Server.file = c, NEW p \in Params \ Server'.pending, c[p] \notin BadValues
        PROVE  Server'.val[p] \in {c[p], AutoConf}
    <3>1. FileOf(Server) = c
      BY <1>6, <2>2
    <3>2. p \notin Rejects(Primary, c)
      BY <2>2, ValuesAssumption DEF Rejects, Entry
    <3>3. Entry(Primary, c, p) \in {c[p], AutoConf}
      BY DEF Entry
    <3>4. CASE p \in Postmaster
      BY <1>8, <2>2, <3>1, <3>2, <3>3, <3>4, ReloadedFields
    <3>5. CASE p \notin Postmaster
      BY <1>8, <2>2, <3>1, <3>2, <3>3, <3>5, ReloadedFields
    <3>6. QED
      BY <3>4, <3>5
  <2>3. Server'.rev.mounts = Server.rev.mounts
    BY <1>8, ReloadedFields
  <2>4. QED
    BY <1>8, <2>1, <2>2, <2>3 DEF FileMounted
<1>9. QED
  BY <1>2, <1>3, <1>4, <1>5, <1>7, <1>8 DEF ServerMoves

\* FileMounted is kept.
LEMMA MovesMount == ASSUME TypeOK, FileMounted, ServerMoves PROVE FileMounted'
<1> USE DEF FileMounted
<1>1. Server \in PodStates
  BY DEF TypeOK, Server, Pods
<1>2. CASE \/ Server' = Server \/ Server' = [Server EXCEPT !.sig = TRUE]
           \/ Server' = [Server EXCEPT !.up = FALSE]
  BY <1>1, <1>2 DEF PodStates
<1>3. CASE Server' = [Server EXCEPT !.up = FALSE, !.rev = seen, !.file = Empty]
  BY <1>1, <1>3 DEF PodStates
<1>4. CASE Server' = [Server EXCEPT !.file = cm] /\ Server.rev.mounts /\ cm # Empty
  BY <1>1, <1>4 DEF PodStates
<1>5. CASE /\ Server' = Started(Primary) /\ Rejects(Primary, FileOf(Server)) = {}
           /\ Server.rev.mounts => Server.file # Empty
  BY <1>5, StartedFields
<1>6. CASE Server' = Reloaded(Primary) /\ Server.up
  BY <1>6, ReloadedFields
<1>7. QED
  BY <1>2, <1>3, <1>4, <1>5, <1>6 DEF ServerMoves

\* What is bad in the assessed configuration stays pending or covered.
LEMMA MovesAssessed ==
  ASSUME TypeOK, FileMounted, RestartAssessed, pc = "restart", cm = l.spec, l.spec # Empty, ServerMoves,
         UNCHANGED <<l, altered, covered, pc>>
  PROVE  RestartAssessed'
<1> DEFINE c == l.spec
           Covered(p) == p \in Server.pending \cup covered
<1>1. Server \in PodStates /\ Server.pending \subseteq Postmaster /\ c \in Confs
  BY DEF TypeOK, Server, Pods, Clusters
<1>2. altered \subseteq covered /\ HasFile(c) /\ HasFile(c)'
  BY <1>1, MovesServe DEF RestartAssessed
<1>3. SUFFICES ASSUME Server'.up, Server'.rev.mounts, NEW p \in Params, c[p] \in BadValues
               PROVE  p \in Server'.pending \cup covered
  BY <1>2 DEF RestartAssessed, HasFile
<1>4. ASSUME Server.up, Server.rev.mounts PROVE p \in Server.pending \cup covered
  BY <1>3, <1>4 DEF RestartAssessed
<1>5. CASE \/ Server' = Server \/ Server' = [Server EXCEPT !.sig = TRUE]
           \/ Server' = [Server EXCEPT !.file = cm] /\ Server.rev.mounts /\ cm # Empty
  BY <1>1, <1>3, <1>4, <1>5 DEF PodStates
<1>6. CASE \/ Server' = [Server EXCEPT !.up = FALSE]
           \/ Server' = [Server EXCEPT !.up = FALSE, !.rev = seen, !.file = Empty]
  BY <1>1, <1>3, <1>6 DEF PodStates
<1>7. ASSUME Server.rev.mounts, Server.file # Empty PROVE FileOf(Server) = c
  BY <1>2, <1>7 DEF FileOf, HasFile
<1>8. ASSUME p \notin Rejects(Primary, c) PROVE p \in covered
  BY <1>2, <1>3, <1>8 DEF Rejects, Entry
<1>9. CASE /\ Server' = Started(Primary) /\ Rejects(Primary, FileOf(Server)) = {}
           /\ Server.rev.mounts => Server.file # Empty
  BY <1>3, <1>7, <1>8, <1>9, StartedFields
<1>10. CASE Server' = Reloaded(Primary) /\ Server.up
  <2>1. Server.rev.mounts
    BY <1>3, <1>10, ReloadedFields
  <2>2. FileOf(Server) = c /\ p \in Server.pending \cup covered
    BY <1>4, <1>7, <1>10, <2>1 DEF FileMounted
  <2>3. QED
    BY <1>1, <1>8, <1>10, <2>2, ReloadedFields
<1>11. QED
  BY <1>5, <1>6, <1>9, <1>10 DEF ServerMoves

\* A restart is decided for a file whose bad values the server has pending.
LEMMA AssessedCovers ==
  ASSUME TypeOK, Assess, Verdict = "PendingRestart"
  PROVE  HasFile(l.spec) /\ \A p \in Params : l.spec[p] \in BadValues => p \in Server.pending \cup altered
<1>1. Server.file = l.spec /\ Invalid = {} /\ InvalidAfterReload = {}
  BY DEF Verdict, Synced
<1>2. SUFFICES ASSUME NEW p \in Params, l.spec[p] \in BadValues, p \notin altered PROVE p \in Server.pending
  BY <1>1 DEF HasFile
<1>3. p \in Erroneous
  BY <1>1, <1>2, ValuesAssumption DEF Erroneous
<1>4. QED
  BY <1>1, <1>3 DEF Invalid, InvalidAfterReload
-----------------------------------------------------------------------------
(* What the template mounts exists, and restarts are onto valid files. *)

\* It holds at first.
LEMMA InitSafe == Init => SafeInv
<1> SUFFICES ASSUME NEW c \in Confs, InitWith(c), TypeOK PROVE SafeInv
  BY InitConfs, InitTypeOK
<1>1. Server = [up |-> TRUE, rev |-> [mounts |-> c # Empty, restart |-> Empty], file |-> c, sig |-> FALSE,
                val |-> c, pending |-> {}, auto |-> {}]
  BY DEF InitWith, Server, Pods
<1>2. QED
  BY <1>1 DEF InitWith, SafeInv, FileMounted, ConfigMapWritten, MountedConfigExists, RestartAssessed

\* Every step keeps it.
LEMMA NextSafe == SafeInv /\ [Next]_vars => SafeInv'
<1> SUFFICES ASSUME SafeInv, [Next]_vars PROVE SafeInv'
  OBVIOUS
<1>0. TypeOK /\ TypeOK' /\ FileMounted /\ ConfigMapWritten /\ MountedConfigExists /\ RestartAssessed
  BY NextTypeOK DEF SafeInv
<1>1. SUFFICES FileMounted' /\ ConfigMapWritten' /\ MountedConfigExists' /\ RestartAssessed'
  BY <1>0 DEF SafeInv
<1> USE <1>0
<1>2. CASE Outside
  <2>1. UNCHANGED <<cluster, past, cm, template, altered, pc, l, todo, covered>>
    BY <1>2, OutsideKeeps
  <2>2. ServerMoves
    BY <1>2, StepsMoveServer
  <2>3. FileMounted'
    BY <2>2, MovesMount
  <2>4. ConfigMapWritten' /\ MountedConfigExists'
    BY <2>1 DEF ConfigMapWritten, MountedConfigExists
  <2>5. RestartAssessed'
    <3>1. CASE pc = "restart"
      BY <2>1, <2>2, <3>1, MovesAssessed DEF ConfigMapWritten
    <3>2. CASE pc # "restart"
      BY <2>1, <3>2 DEF RestartAssessed
    <3>3. QED
      BY <3>1, <3>2
  <2>6. QED
    BY <2>3, <2>4, <2>5
<1>3. ASSUME NEW i \in Pods, Reload(i) PROVE FileMounted' /\ ConfigMapWritten' /\ MountedConfigExists' /\ RestartAssessed'
  <2>1. FileMounted'
    BY <1>3, StepsMoveServer, MovesMount
  <2>2. l'.spec = l.spec /\ pc' \in {"reload", "status"}
    BY <1>3 DEF Reload, TypeOK, Clusters
  <2>3. ConfigMapWritten' /\ MountedConfigExists'
    BY <1>3, <2>2 DEF Reload, ConfigMapWritten, MountedConfigExists
  <2>4. QED
    BY <2>1, <2>2, <2>3 DEF RestartAssessed
<1>4. ASSUME UNCHANGED pods PROVE FileMounted'
  BY <1>4 DEF FileMounted, Server
<1>5. CASE EditParameters
  <2>1. UNCHANGED <<cm, template, pods, altered, pc, l, todo, covered>>
    BY <1>5 DEF EditParameters, Edit
  <2>2. QED
    BY <1>4, <2>1 DEF ConfigMapWritten, MountedConfigExists, RestartAssessed, HasFile, Server
<1>6. CASE \E p \in Params : AlterSystem(p)
  <2>1. UNCHANGED <<cm, template, pods, pc, l, todo>>
    BY <1>6 DEF AlterSystem
  <2>2. pc = "restart" => altered' \subseteq covered' /\ covered \subseteq covered'
    BY <1>6 DEF AlterSystem, RestartAssessed
  <2>3. QED
    BY <1>4, <2>1, <2>2 DEF ConfigMapWritten, MountedConfigExists, RestartAssessed, HasFile, Server
<1>7. CASE ReconcileConfigMap \/ CleanupConfigMap
  <2>1. UNCHANGED <<pods, template>> /\ pc' \in {"converge", "assess"}
    BY <1>7 DEF ReconcileConfigMap, CleanupConfigMap
  <2>2. ConfigMapWritten' /\ MountedConfigExists'
    BY <1>7, <2>1 DEF ReconcileConfigMap, CleanupConfigMap, ConfigMapWritten, MountedConfigExists
  <2>3. QED
    BY <1>4, <2>1, <2>2 DEF RestartAssessed
<1>8. CASE ReconcileStatefulSet
  <2>1. template'.mounts = (l.spec # Empty)
    BY <1>8 DEF ReconcileStatefulSet, TypeOK, Templates
  <2>2. QED
    BY <1>4, <1>8, <2>1 DEF ReconcileStatefulSet, ConfigMapWritten, MountedConfigExists, RestartAssessed
<1>9. ASSUME UNCHANGED <<cm, pods>>, template'.mounts = template.mounts, pc # "idle", pc' \in {"status", "idle"},
             l'.spec = l.spec \/ pc' = "idle"
      PROVE  FileMounted' /\ ConfigMapWritten' /\ MountedConfigExists' /\ RestartAssessed'
  BY <1>4, <1>9 DEF ConfigMapWritten, MountedConfigExists, RestartAssessed
<1>10. ASSUME NEW r, Report(r) PROVE l'.spec = l.spec /\ pc' = "status"
  BY <1>10 DEF Report, TypeOK, Clusters
<1>11. CASE ClearParameters
  <2>1. l'.spec = l.spec
    BY <1>11 DEF ClearParameters, TypeOK, Clusters
  <2>2. QED
    BY <1>9, <1>11, <2>1 DEF ClearParameters
<1>12. CASE RefuseParameters \/ ReloadFails \/ ReadFails \/ RestartFails
  BY <1>9, <1>10, <1>12 DEF RefuseParameters, ReloadFails, ReadFails, RestartFails
<1>13. CASE RestartForParameters
  <2>1. template'.mounts = template.mounts
    BY <1>13 DEF RestartForParameters, TypeOK, Templates
  <2>2. QED
    BY <1>9, <1>10, <1>13, <2>1 DEF RestartForParameters
<1>14. CASE UpdateStatus \/ Conflict \/ Fail
  BY <1>9, <1>14 DEF UpdateStatus, Conflict, Fail, Done
<1>15. CASE Assess
  <2>1. UNCHANGED <<cm, template, pods, altered>> /\ pc = "assess" /\ l.spec # Empty
    BY <1>15 DEF Assess
  <2>2. CASE Report(Verdict)
    BY <1>9, <1>10, <2>1, <2>2
  <2>3. CASE Verdict = "PendingRestart" /\ pc' = "restart" /\ covered' = altered /\ UNCHANGED l
    <3>1. HasFile(l.spec) /\ \A p \in Params : l.spec[p] \in BadValues => p \in Server.pending \cup altered
      BY <1>15, <2>3, AssessedCovers
    <3>2. QED
      BY <1>4, <2>1, <2>3, <3>1 DEF ConfigMapWritten, MountedConfigExists, RestartAssessed, HasFile, Server
  <2>4. CASE Verdict = "Reloading" /\ pc' = "reload" /\ todo' = {i \in Pods : pods[i].up} /\ UNCHANGED l
    <3>1. Primary \in todo'
      BY <2>4 DEF Verdict, Server, Pods
    <3>2. QED
      BY <1>4, <2>1, <2>4, <3>1 DEF ConfigMapWritten, MountedConfigExists, RestartAssessed
  <2>5. QED
    BY <1>15, <2>2, <2>3, <2>4 DEF Assess
<1>16. CASE UNCHANGED vars
  BY <1>4, <1>16 DEF vars, ConfigMapWritten, MountedConfigExists, RestartAssessed, HasFile, Server
<1>17. QED
  BY <1>2, <1>3, <1>5, <1>6, <1>7, <1>8, <1>11, <1>12, <1>13, <1>14, <1>15, <1>16, NextCases DEF Reconcile

\* A step that writes a new restart annotation asks for a restart onto a file
\* the server accepts.
LEMMA StepRestartsOntoValid ==
  ASSUME SafeInv, [Next]_vars, template'.restart # template.restart, Server.up
  PROVE  Rejects(Primary, Server.file) \subseteq Server.pending \cup covered
<1>1. RestartForParameters
  <2>1. Outside => UNCHANGED template
    BY OutsideKeeps
  <2>2. ReconcileStatefulSet => template'.restart = template.restart
    BY DEF SafeInv, ReconcileStatefulSet, TypeOK, Templates
  <2>3. EditParameters \/ (\E p \in Params : AlterSystem(p)) \/ ReadFails \/ RestartFails \/ Fail
          \/ UNCHANGED vars => UNCHANGED template
    BY DEF EditParameters, Edit, AlterSystem, ReadFails, RestartFails, Fail, vars
  <2>4. Reconcile => RestartForParameters \/ ReconcileStatefulSet \/ UNCHANGED template
    BY DEF Reconcile, ReconcileConfigMap, CleanupConfigMap, ClearParameters, RefuseParameters, Assess,
       Reload, ReloadFails, UpdateStatus, Conflict
  <2>5. QED
    BY <2>1, <2>2, <2>3, <2>4, NextCases
<1>2. pc = "restart" /\ RestartAssessed /\ FileMounted
  BY <1>1 DEF RestartForParameters, SafeInv
<1>3. \A p \in Params : Empty[p] \notin BadValues /\ AutoConf \notin BadValues
  BY ValuesAssumption DEF Empty
<1>4. QED
  BY <1>2, <1>3 DEF RestartAssessed, FileMounted, HasFile, Rejects, Entry

\* Well-formedness, and what the pod template mounts exists: reconcileConfigMap
\* comes before the StatefulSet refers to the ConfigMap, cleanupConfigMap only
\* after it stopped, wherever the operator fails in between.
THEOREM MountsExist == Spec => []ParametersInv
<1>1. Spec => []SafeInv
  BY InitSafe, NextSafe, PTL DEF Spec
<1>2. SafeInv => ParametersInv
  BY DEF SafeInv, ParametersInv
<1>3. QED
  BY <1>1, <1>2, PTL

\* restartForParameters is reached only through an assessment that found every
\* rejected entry pending: no restart onto a file that keeps the server down.
THEOREM RestartsSafe == Spec => RestartsOntoValidFile
<1>1. SafeInv /\ [Next]_vars =>
        [template'.restart # template.restart /\ Server.up =>
           Rejects(Primary, Server.file) \subseteq Server.pending \cup covered]_vars
  BY StepRestartsOntoValid
<1>2. QED
  BY InitSafe, NextSafe, <1>1, PTL DEF Spec, RestartsOntoValidFile
-----------------------------------------------------------------------------
(* Applied means in effect, as long as no configuration comes back. *)

\* It holds at first.
LEMMA InitEffect == Init => EffectInv
<1> SUFFICES ASSUME NEW c \in Confs, InitWith(c) PROVE EffectInv
  BY InitConfs
<1>1. Server = [up |-> TRUE, rev |-> [mounts |-> c # Empty, restart |-> Empty], file |-> c, sig |-> FALSE,
                val |-> c, pending |-> {}, auto |-> {}]
  BY DEF InitWith, Server, Pods
<1>2. cluster.gen = 0 /\ cluster.observed = 0 /\ cluster.spec = c /\ cluster.hash = c
  BY DEF InitWith, NoCluster
<1>3. cluster.cond = IF c = Empty THEN "None" ELSE "Applied"
  BY DEF InitWith, NoCluster
<1>4. l.gen = 0 /\ l.observed = 0 /\ l.spec = Empty /\ l.hash = Empty /\ l.cond = "None" /\ pc = "idle" /\ cm = c
  BY DEF InitWith, NoCluster
<1>5. CopyFollows
  BY <1>2, <1>4 DEF CopyFollows
<1>6. Serves(c)
  BY <1>1 DEF Serves, HasFile, Loaded
<1>7. ReloadedServed /\ AppliedReloaded
  BY <1>2, <1>3, <1>4, <1>6 DEF ReloadedServed, AppliedReloaded
<1>8. QED
  BY <1>5, <1>7 DEF EffectInv

\* A step that leaves the primary's server alone keeps what it serves.
LEMMA StillServes ==
  ASSUME UNCHANGED pods
  PROVE  \A c : Serves(c)' = Serves(c) /\ HasFile(c)' = HasFile(c)
  BY Zenon DEF Serves, HasFile, Loaded, Server

\* A new condition in the copy of the Cluster, other than Applied before the
\* reload was recorded.
LEMMA ReportEffect ==
  ASSUME IInv, NEW r, Report(r), pc # "idle", UNCHANGED <<cluster, past, cm, pods>>,
         r = "Applied" => l.hash = l.spec /\ l.spec # Empty
  PROVE  EffectInv'
<1>1. l'.gen = l.gen /\ l'.observed = l.gen /\ l'.spec = l.spec /\ l'.hash = l.hash /\ l'.cond = r /\ pc' = "status"
  BY DEF Report, IInv, SafeInv, TypeOK, Clusters
<1>2. l.gen \in Nat
  BY BoundsAssumption DEF IInv, SafeInv, TypeOK, Clusters
<1>3. CopyFollows'
  BY <1>1, <1>2 DEF IInv, EffectInv, CopyFollows
<1>4. ReloadedServed'
  BY <1>1, StillServes DEF IInv, EffectInv, ReloadedServed
<1>5. AppliedReloaded'
  BY <1>1 DEF IInv, EffectInv, AppliedReloaded
<1>6. QED
  BY <1>3, <1>4, <1>5 DEF EffectInv

\* The end of a reconcile.
LEMMA DoneEffect ==
  ASSUME IInv, Done, pc # "idle", UNCHANGED <<past, cm, pods>>,
         UNCHANGED cluster \/ (cluster.gen = l.gen /\ cluster' = l)
  PROVE  EffectInv'
<1>1. /\ l'.gen = 0 /\ l'.observed = 0 /\ l'.spec = Empty /\ l'.hash = Empty /\ l'.cond = "None" /\ pc' = "idle"
      /\ cluster.gen \in Nat
  BY BoundsAssumption DEF Done, NoCluster, IInv, SafeInv, TypeOK, Clusters
<1>2. cluster.gen = l.gen => l.spec = cluster.spec
  BY DEF IInv, EffectInv, CopyFollows
<1>3. CopyFollows'
  BY <1>1, <1>2 DEF IInv, EffectInv, CopyFollows
<1>4. ReloadedServed'
  BY <1>1, <1>2, StillServes DEF IInv, EffectInv, ReloadedServed, SafeInv, ConfigMapWritten
<1>5. AppliedReloaded'
  BY <1>1 DEF IInv, EffectInv, AppliedReloaded
<1>6. QED
  BY <1>3, <1>4, <1>5 DEF EffectInv

\* An edit ends the reign of the configuration before it.
LEMMA EditEffect ==
  ASSUME Reverts = FALSE, IInv, NEW c \in Confs, Edit(c)
  PROVE  EffectInv'
<1>1. /\ cluster'.gen = cluster.gen + 1 /\ cluster'.spec = c /\ cluster'.hash = cluster.hash
      /\ cluster'.observed = cluster.observed
      /\ cluster.gen \in Nat /\ l.gen \in Nat /\ cluster.observed \in Nat /\ l.observed \in Nat
  BY BoundsAssumption DEF Edit, IInv, SafeInv, TypeOK, Clusters
<1>2. UNCHANGED <<cm, pods, pc, l, todo>> /\ past' = past \cup {cluster.spec}
  BY DEF Edit
<1>3. CopyFollows /\ ReloadedServed /\ AppliedReloaded
  BY DEF IInv, EffectInv
<1>4. c # Empty => cluster.hash # c
  BY <1>3 DEF Edit, CopyFollows
<1>5. CopyFollows'
  BY <1>1, <1>2, <1>3 DEF CopyFollows
<1>6. ReloadedServed'
  BY <1>1, <1>2, <1>3, <1>4, StillServes DEF ReloadedServed
<1>7. AppliedReloaded'
  BY <1>1, <1>2, <1>3 DEF AppliedReloaded, CopyFollows
<1>8. QED
  BY <1>5, <1>6, <1>7 DEF EffectInv

\* A reload of the last server records the configuration.
LEMMA ReloadEffect ==
  ASSUME IInv, NEW i \in Pods, Reload(i)
  PROVE  EffectInv'
<1>0. TypeOK /\ FileMounted /\ CopyFollows /\ ReloadedServed /\ AppliedReloaded
  BY DEF IInv, SafeInv, EffectInv
<1>1. cm = l.spec /\ l.spec # Empty /\ l.spec \in Confs /\ l.gen \in Nat /\ pc = "reload"
  BY BoundsAssumption DEF Reload, IInv, SafeInv, ConfigMapWritten, TypeOK, Clusters
<1>2. PICK c \in Confs : c = l.spec
  BY <1>1
<1>3. ServerMoves
  BY <1>0, StepsMoveServer
<1>4. HasFile(c)' /\ (Serves(c) => Serves(c)')
  BY <1>0, <1>1, <1>2, <1>3, MovesServe DEF ReloadedServed
<1>5. i = Primary => Serves(c)'
  <2>1. pods' = [pods EXCEPT ![i] = [pods[i] EXCEPT !.sig = TRUE]]
    BY <1>0, PodSteps
  <2>2. i = Primary => Server'.sig
    BY <1>0, <2>1 DEF Server, TypeOK, PodStates
  <2>3. QED
    BY <1>4, <2>2 DEF Serves, HasFile
<1>6. i # Primary => Serves(c)
  BY <1>0, <1>1, <1>2 DEF Reload, ReloadedServed
<1>7. Serves(c)'
  BY <1>4, <1>5, <1>6
<1>8. UNCHANGED <<cluster, past, cm>>
  BY DEF Reload
<1>9. cluster.hash = cluster.spec /\ cluster.spec # Empty => cluster.spec = c /\ l.gen = cluster.gen
  BY <1>0, <1>1, <1>2 DEF ReloadedServed
<1>10. CASE todo = {i}
  <2>1. /\ l'.gen = l.gen /\ l'.observed = l.gen /\ l'.spec = l.spec /\ l'.hash = l.spec /\ l'.cond = "Reloading"
        /\ pc' = "status"
    BY <1>0, <1>10 DEF Reload, TypeOK, Clusters
  <2>2. CopyFollows'
    BY <1>0, <1>1, <1>8, <2>1 DEF CopyFollows
  <2>3. ReloadedServed'
    BY <1>1, <1>2, <1>7, <1>8, <1>9, <2>1 DEF ReloadedServed, Serves, HasFile, Loaded
  <2>4. AppliedReloaded'
    BY <1>0, <1>8, <2>1 DEF AppliedReloaded
  <2>5. QED
    BY <2>2, <2>3, <2>4 DEF EffectInv
<1>11. CASE todo # {i}
  <2>1. UNCHANGED <<l, pc>>
    BY <1>11 DEF Reload
  <2>2. CopyFollows' /\ AppliedReloaded'
    BY <1>0, <1>8, <2>1 DEF CopyFollows, AppliedReloaded
  <2>3. ReloadedServed'
    BY <1>1, <1>2, <1>7, <1>8, <1>9, <2>1 DEF ReloadedServed, Serves, HasFile, Loaded
  <2>4. QED
    BY <2>2, <2>3 DEF EffectInv
<1>12. QED
  BY <1>10, <1>11

\* The steps of the pods keep what is served: the ConfigMap they mount is that
\* of the recorded configuration.
LEMMA OutsideEffect ==
  ASSUME IInv, Outside
  PROVE  EffectInv'
<1>0. TypeOK /\ FileMounted /\ ConfigMapWritten /\ CopyFollows /\ ReloadedServed /\ AppliedReloaded
  BY DEF IInv, SafeInv, EffectInv
<1>1. UNCHANGED <<cluster, past, cm, pc, l, todo>>
  BY OutsideKeeps
<1>2. ServerMoves
  BY <1>0, StepsMoveServer
<1>3. PICK c \in Confs, d \in Confs : c = l.spec /\ d = cluster.spec
  BY <1>0 DEF TypeOK, Clusters
<1>4. cm = d /\ d # Empty => (Serves(d) => Serves(d)')
  BY <1>0, <1>2, MovesServe
<1>5. pc # "idle" /\ c # Empty => (Serves(c) => Serves(c)') /\ (HasFile(c) => HasFile(c)')
  BY <1>0, <1>2, <1>3, MovesServe DEF ConfigMapWritten
<1>6. CopyFollows' /\ AppliedReloaded'
  BY <1>0, <1>1 DEF CopyFollows, AppliedReloaded
<1>7. pc = "reload" => l.spec # Empty
  BY <1>0 DEF ConfigMapWritten
<1>8. ReloadedServed'
  BY <1>0, <1>1, <1>3, <1>4, <1>5, <1>7 DEF ReloadedServed, Serves, HasFile, Loaded
<1>9. QED
  BY <1>6, <1>8 DEF EffectInv

\* The reconcile up to the assessment.
LEMMA ConvergeEffect ==
  ASSUME IInv, ReconcileConfigMap \/ ReconcileStatefulSet \/ CleanupConfigMap \/ ClearParameters
  PROVE  EffectInv'
<1>0. TypeOK /\ ConfigMapWritten /\ CopyFollows /\ ReloadedServed /\ AppliedReloaded
  BY DEF IInv, SafeInv, EffectInv
<1>1. UNCHANGED <<cluster, past, pods>> /\ pc' \notin {"idle", "reload"}
  BY DEF ReconcileConfigMap, ReconcileStatefulSet, CleanupConfigMap, ClearParameters
<1>2. CASE ReconcileConfigMap
  <2>1. l' = cluster /\ cm' = (IF cluster.spec = Empty THEN cm ELSE cluster.spec) /\ cluster.gen \in Nat
    BY <1>0, <1>2, BoundsAssumption DEF ReconcileConfigMap, TypeOK, Clusters
  <2>2. CopyFollows' /\ AppliedReloaded'
    BY <1>0, <1>1, <2>1 DEF CopyFollows, AppliedReloaded
  <2>3. ReloadedServed'
    BY <1>0, <1>1, <2>1, StillServes DEF ReloadedServed
  <2>4. QED
    BY <2>2, <2>3 DEF EffectInv
<1>3. CASE ReconcileStatefulSet \/ CleanupConfigMap
  BY <1>0, <1>1, <1>3, StillServes
  DEF ReconcileStatefulSet, CleanupConfigMap, EffectInv, CopyFollows, ReloadedServed, AppliedReloaded
<1>4. CASE ClearParameters
  <2>1. /\ l'.gen = l.gen /\ l'.observed = l.observed /\ l'.spec = l.spec /\ l'.hash = Empty /\ l'.cond = "None"
        /\ l.spec = Empty /\ UNCHANGED cm /\ pc # "idle"
    BY <1>0, <1>4 DEF ClearParameters, TypeOK, Clusters
  <2>2. QED
    BY <1>0, <1>1, <2>1, StillServes DEF EffectInv, CopyFollows, ReloadedServed, AppliedReloaded
<1>5. QED
  BY <1>2, <1>3, <1>4

\* The assessment.
LEMMA AssessEffect ==
  ASSUME IInv, Assess
  PROVE  EffectInv'
<1>0. TypeOK /\ CopyFollows /\ ReloadedServed /\ AppliedReloaded
  BY DEF IInv, SafeInv, EffectInv
<1>1. UNCHANGED <<cluster, past, cm, pods>> /\ pc = "assess" /\ l.spec # Empty
  BY DEF Assess
<1>2. Verdict = "Applied" => l.hash = l.spec
  BY DEF Verdict
<1>3. CASE Report(Verdict)
  BY <1>1, <1>2, <1>3, ReportEffect
<1>4. CASE Verdict = "Reloading" /\ pc' = "reload" /\ todo' = {i \in Pods : pods[i].up} /\ UNCHANGED l
  <2>1. HasFile(l.spec) /\ Primary \in todo'
    BY <1>4 DEF Verdict, Synced, HasFile, Server, Pods
  <2>2. QED
    BY <1>0, <1>1, <1>4, <2>1, StillServes DEF EffectInv, CopyFollows, ReloadedServed, AppliedReloaded
<1>5. CASE pc' = "restart" /\ UNCHANGED l
  BY <1>0, <1>1, <1>5, StillServes DEF EffectInv, CopyFollows, ReloadedServed, AppliedReloaded
<1>6. QED
  BY <1>3, <1>4, <1>5 DEF Assess

\* Every step keeps it.
LEMMA NextEffect == ASSUME Reverts = FALSE PROVE IInv /\ [Next]_vars => EffectInv'
<1> SUFFICES ASSUME IInv, [Next]_vars PROVE EffectInv'
  OBVIOUS
<1>1. CASE EditParameters
  <2>1. cluster.spec \in Confs
    BY DEF IInv, SafeInv, TypeOK, Clusters
  <2>2. QED
    BY <1>1, <2>1, ConfTypes, EditEffect DEF EditParameters
<1>2. CASE \E p \in Params : AlterSystem(p)
  <2>1. UNCHANGED <<cluster, past, cm, pods, pc, l, todo>>
    BY <1>2 DEF AlterSystem
  <2>2. QED
    BY <2>1, StillServes DEF IInv, EffectInv, CopyFollows, ReloadedServed, AppliedReloaded
<1>3. CASE RefuseParameters \/ ReloadFails \/ ReadFails \/ RestartFails \/ RestartForParameters
  <2>1. PICK r \in {"InvalidParameter", "WaitingForServer", "PendingRestart"} : Report(r)
    BY <1>3 DEF RefuseParameters, ReloadFails, ReadFails, RestartFails, RestartForParameters
  <2>2. pc # "idle" /\ UNCHANGED <<cluster, past, cm, pods>>
    BY <1>3 DEF RefuseParameters, ReloadFails, ReadFails, RestartFails, RestartForParameters
  <2>3. QED
    BY <2>1, <2>2, ReportEffect
<1>4. CASE UpdateStatus \/ Conflict \/ Fail
  BY <1>4, DoneEffect DEF UpdateStatus, Conflict, Fail
<1>5. CASE UNCHANGED vars
  BY <1>5, StillServes DEF vars, IInv, EffectInv, CopyFollows, ReloadedServed, AppliedReloaded
<1>6. QED
  BY <1>1, <1>2, <1>3, <1>4, <1>5, OutsideEffect, ConvergeEffect, AssessEffect, ReloadEffect, NextCases
  DEF Reconcile

\* The condition Applied says what is in effect: a recorded reload was asked of
\* a server that had the file of this very configuration, and no later file
\* reached it.  With a configuration that comes back the hash may be that of
\* its first time, which only a run with Reverts shows.
THEOREM AppliedIsInEffect == ASSUME Reverts = FALSE PROVE Spec => []AppliedInEffect
<1>1. Init => IInv
  BY InitSafe, InitEffect DEF IInv
<1>2. IInv /\ [Next]_vars => IInv'
  <2>1. IInv /\ [Next]_vars => SafeInv' /\ EffectInv'
    BY NextSafe, NextEffect DEF IInv
  <2>2. QED
    BY <2>1 DEF IInv
<1>3. IInv => AppliedInEffect
  BY DEF IInv, EffectInv, AppliedReloaded, ReloadedServed, Serves, Loaded, AppliedInEffect
<1>4. QED
  BY <1>1, <1>2, <1>3, PTL DEF Spec

-----------------------------------------------------------------------------
(* ServerTLS: the inductive invariant, what always holds. *)

\* The CA of a certificate tells which mode it belongs to.
LeafOf(leaf, m) ==
  \/ leaf = NoLeaf
  \/ m = "self" /\ leaf.id > 0
  \/ m = "user" /\ leaf \in {External(-1), External(-2)}
  \/ m = "issuer" /\ leaf = External(-3)

\* A CA is prepared at the earliest CAPrepareBefore the active one ends.
CAOrder(c) ==
  /\ c.active = NoCA \/ c.active.id > 0
  /\ c.next = NoCA \/ c.next.id > 0
  /\ c.next # NoCA => c.next.exp + CAPrepareBefore >= c.active.exp + CAValidity

\* Certificates stay with the mode they were made for, also in the pod.
Origins ==
  /\ \A m \in Modes \ {"off"} : LeafOf(sec[m].leaf, m)
  /\ \A m \in {"user", "issuer"} : sec[m] = NoSecret \/ (sec[m].bundle = {sec[m].leaf} /\ sec[m].leaf # NoLeaf)
  /\ LeafOf(mount.leaf, pod.tmpl.mode) /\ LeafOf(pod.leaf, pod.tmpl.mode)

\* The steps of a reconcile before and after it has loaded the certificate.
Reading == {"provision", "server", "issue", "load"}
Applying == {"sts", "cleanup", "probe"}

\* The steps that only some modes reach; what was planned for the server Secret.
StageOfMode ==
  /\ at \in {"provision", "server"} => my.mode = "self"
  /\ at = "issue" => my.mode = "issuer"
  /\ at \in {"load", "probe"} => my.mode # "off"
  /\ at = "server" => plan.sec.leaf.id > 0

\* The Secret of a mode exists, unless its user deleted it.
Stored(m) == m \in Modes \ {"off"} => sec[m] # NoSecret \/ (m = "user" /\ userCA = -2)

\* What the template mounts is kept: until the template is written the old one,
\* from the reading of the Secret on the new one.
Kept ==
  /\ Stored(tmpl.mode)
  /\ at \in Reading /\ my.sec # NoSecret => Stored(my.mode)
  /\ at = "sts" => Stored(my.mode)
  /\ at = "cleanup" => tmpl.mode = my.mode

\* A certificate that was loaded comes with a CA.
Validated ==
  /\ at \in Applying /\ my.mode # "off" => mat.bundle # {}
  /\ found => at \in {"cred", "status"} /\ (my.mode # "off" => mat.bundle # {})

\* The parts of TLSTypeOK.
StoreTypes ==
  /\ now \in 0..MaxTime /\ mode \in Modes /\ cas \in Nat
  /\ ca \in CASecrets /\ sec \in [Modes \ {"off"} -> Secrets] /\ cert \in BOOLEAN /\ userCA \in {-1, -2}
PodTypes ==
  /\ tmpl \in PodTemplates /\ pod \in [tmpl : PodTemplates, up : BOOLEAN, leaf : CAs] /\ mount \in Secrets
  /\ pod.leaf # NoLeaf => pod.up /\ pod.tmpl.mode \notin {"none", "off"}
ClientTypes ==
  /\ cred \in [mode : SSLModes, ca : SUBSET CAs] /\ client \in [mode : SSLModes, ca : SUBSET CAs]
  /\ (cred.ca # {}) <=> (cred.mode = "verify")
  /\ (client.ca # {}) <=> (client.mode = "verify")
RunTypes ==
  /\ at \in Stages /\ my \in [mode : Modes, ca : CASecrets, sec : Secrets]
  /\ plan \in [ca : CASecrets, sec : Secrets] /\ mat \in Secrets
FlagTypes ==
  /\ ready \in BOOLEAN /\ found \in BOOLEAN
  /\ checked \in BOOLEAN /\ missed \in BOOLEAN /\ smooth \in BOOLEAN
  /\ edits \in 0..MaxChanges /\ faults \in 0..MaxFaults

Sound ==
  /\ StoreTypes /\ PodTypes /\ ClientTypes /\ RunTypes /\ FlagTypes
  /\ CAOrder(ca) /\ CAOrder(my.ca) /\ Origins /\ StageOfMode /\ Kept /\ Validated

LEMMA TLSTypeParts == TLSTypeOK <=> StoreTypes /\ PodTypes /\ ClientTypes /\ RunTypes /\ FlagTypes
<1>1. (\A c \in {cred, client} : (c.ca # {}) <=> (c.mode = "verify"))
      <=> ((cred.ca # {}) <=> (cred.mode = "verify")) /\ ((client.ca # {}) <=> (client.mode = "verify"))
  OBVIOUS
<1> QED BY <1>1, Zenon DEF TLSTypeOK, StoreTypes, PodTypes, ClientTypes, RunTypes, FlagTypes

\* The values for "nothing there".
LEMMA EmptyTyped ==
  /\ NoCA \in CAs /\ NoLeaf \in CAs /\ NoSecret \in Secrets /\ NoCASecret \in CASecrets
  /\ NoRead \in [mode : Modes, ca : CASecrets, sec : Secrets] /\ NoPlan \in [ca : CASecrets, sec : Secrets]
  /\ NotRunning \in [tmpl : PodTemplates, up : BOOLEAN, leaf : CAs]
  /\ CAOrder(NoCASecret) /\ NoSecret.leaf = NoLeaf /\ NoSecret.bundle = {}
  /\ \A i \in Int : External(i) \in CAs /\ External(i).id = i /\ External(i).exp = MaxTime + 1
  BY TLSBoundsAssumption
  DEF CAs, Secrets, CASecrets, NoCA, NoLeaf, NoSecret, NoCASecret, NoRead, NoPlan, NotRunning, Modes, PodTemplates,
      CAOrder, External

\* What the plan for a self-managed CA consists of.
LEMMA PlanTyped ==
  ASSUME NEW c \in CASecrets, NEW s \in Secrets, now \in Nat, cas \in Nat
  PROVE  /\ ActiveCA(c) \in CAs /\ PreparedCA(c) \in CAs /\ NextCA(c) \in CAs /\ Bundle(c) \in SUBSET CAs
         /\ IssueServerCert(c) \in CAs /\ PlanSelfManagedTLS(c, s) \in [ca : CASecrets, sec : Secrets]
<1>1. \A i \in Nat : GenerateCA(i) \in CAs
  BY PolicyAssumption DEF GenerateCA, CAs
<1>2. c.active \in CAs /\ c.next \in CAs /\ c.bundle \subseteq CAs /\ s.leaf \in CAs /\ NoCA \in CAs
  BY EmptyTyped DEF CASecrets, Secrets
<1>3. NextCA(c) \in CAs
  BY <1>2 DEF NextCA
<1>4. ActiveCA(c) \in CAs
  BY <1>1, <1>2, <1>3 DEF ActiveCA
<1>5. PreparedCA(c) \in CAs
  BY <1>1, <1>2, <1>3 DEF PreparedCA
<1>6. Bundle(c) \in SUBSET CAs
  BY <1>2, <1>4, <1>5 DEF Bundle
<1>7. IssueServerCert(c) \in CAs
  BY <1>4, PolicyAssumption DEF IssueServerCert, CAs
<1> QED
  BY <1>2, <1>3, <1>4, <1>5, <1>6, <1>7, Zenon DEF PlanSelfManagedTLS, CASecrets, Secrets

\* The active CA is the current one until the switch, then the prepared one if
\* it is valid, else a new one.
LEMMA ActiveCases ==
  ASSUME NEW c \in CASecrets, now \in Nat, cas \in Nat
  PROVE  /\ now + CASwitchBefore < c.active.exp => ActiveCA(c) = c.active
         /\ ~(now + CASwitchBefore < c.active.exp) /\ now < c.next.exp => ActiveCA(c) = c.next
         /\ ~(now + CASwitchBefore < c.active.exp) /\ ~(now < c.next.exp) => ActiveCA(c) = GenerateCA(cas + 1)
<1>1. c.active \in CAs /\ c.next \in CAs /\ NoCA \in CAs
  BY EmptyTyped DEF CASecrets
<1>2. c.active.exp \in Nat /\ c.next.exp \in Nat /\ (now < c.next.exp => c.next # NoCA)
  BY <1>1 DEF CAs, NoCA
<1> QED BY <1>2, PolicyAssumption DEF ActiveCA, NextCA

\* The plan keeps the order.
LEMMA PlanOrder ==
  ASSUME NEW c \in CASecrets, CAOrder(c), now \in Nat, cas \in Nat
  PROVE  /\ ActiveCA(c).id > 0 /\ (PreparedCA(c) = NoCA \/ PreparedCA(c).id > 0)
         /\ PreparedCA(c) # NoCA => PreparedCA(c).exp + CAPrepareBefore >= ActiveCA(c).exp + CAValidity
<1>1. c.active \in CAs /\ c.next \in CAs
  BY DEF CASecrets
<1>2. \A i \in Nat : GenerateCA(i).id = i /\ GenerateCA(i).exp = now + CAValidity
  BY DEF GenerateCA
<1>3. ActiveCA(c).id > 0
  BY <1>1, <1>2, ActiveCases, PolicyAssumption DEF CAOrder, CAs, NoCA
<1>4. CASE PreparedCA(c) = NoCA
  BY <1>3, <1>4
<1>5. CASE PreparedCA(c) = GenerateCA(cas + 2) /\ now >= ActiveCA(c).exp - CAPrepareBefore
  <2>1. ActiveCA(c).exp \in Nat
    BY PlanTyped, EmptyTyped DEF CAs
  <2> QED BY <1>2, <1>3, <1>5, <2>1, PolicyAssumption
<1>6. CASE PreparedCA(c) = c.next /\ now < c.next.exp /\ ActiveCA(c) # c.next
  <2>1. CASE now + CASwitchBefore < c.active.exp
    BY <1>3, <1>6, <2>1, ActiveCases DEF CAOrder
  <2>2. CASE ~(now + CASwitchBefore < c.active.exp)
    BY <1>6, <2>2, ActiveCases
  <2> QED BY <2>1, <2>2
<1> QED BY <1>4, <1>5, <1>6 DEF PreparedCA, NextCA

-----------------------------------------------------------------------------
(* ServerTLS: what always holds is preserved. *)

\* Which steps change what.
LEMMA TLSChanges ==
  TLSNext => /\ ca' = ca \/ ca' = NoCASecret \/ WriteCA
             /\ my' = my \/ Begin \/ my' = NoRead \/ LoadTLSMaterial
             /\ plan' = plan \/ plan' = NoPlan \/ WriteCA
             /\ mat' = mat \/ mat' = NoSecret \/ LoadTLSMaterial
             /\ sec' = sec \/ WriteServer \/ CleanupTLSResources \/ IssueCertificate
                  \/ \E s \in {NoSecret, [leaf |-> External(-2), bundle |-> {External(-2)}]} : ReplaceUserSecret(s)
             /\ UNCHANGED <<pod, mount>> \/ StopPod \/ StartPod \/ SyncMount \/ Evict \/ ProbeOutdated
             /\ tmpl' = tmpl \/ ReconcileStatefulSetTLS \/ ProbeUnverified
             /\ cred' = cred \/ ConvergeSecretConnectionInfo
             /\ client' = client \/ client' = cred
             /\ now' = now \/ Tick
             /\ cas' = cas \/ cas' = cas + 2
             /\ userCA' = userCA \/ userCA' = -2
             /\ mode' = mode \/ \E m \in Modes : SetMode(m)
             /\ cert' \in {cert, TRUE, FALSE}
  BY Zenon
  DEF TLSNext, ReconcileTLS, Provision, Apply, Users, Others, Begin, WriteCA, WriteServer, WriteConflict, ReconcileCertificate,
      LoadTLSMaterial, ReconcileStatefulSetTLS, CleanupTLSResources, ProbeFails, ProbeCurrent, ProbeUnverified, ProbeOutdated,
      ConvergeSecretConnectionInfo, UpdateStatusTLS, SetMode, ReplaceUserSecret, LoseCA, IssueCertificate, StopPod, StartPod,
      SyncMount, ReadCredentials, Evict, FailTLS, Tick, Change, StoreOnly, AtProbe, store, local, ghosts

LEMMA StoreTypesKept == ASSUME Sound, TLSNext PROVE StoreTypes'
<1>1. /\ now \in Nat /\ now \in 0..MaxTime /\ mode \in Modes /\ cas \in Nat /\ ca \in CASecrets /\ cert \in BOOLEAN
      /\ sec \in [Modes \ {"off"} -> Secrets] /\ userCA \in {-1, -2} /\ my.ca \in CASecrets /\ my.sec \in Secrets
      /\ plan.sec \in Secrets
  BY DEF Sound, StoreTypes, RunTypes
<1>2. ca' \in CASecrets
  <2>1. CASE WriteCA
    BY <1>1, <2>1, PlanTyped DEF WriteCA
  <2> QED BY <1>1, <2>1, TLSChanges, EmptyTyped
<1>3. sec' \in [Modes \ {"off"} -> Secrets]
  <2>1. CASE WriteServer
    BY <1>1, <2>1 DEF WriteServer
  <2>2. CASE CleanupTLSResources
    BY <1>1, <2>2, EmptyTyped DEF CleanupTLSResources
  <2>3. CASE IssueCertificate
    <3>1. [leaf |-> External(-3), bundle |-> {External(-3)}] \in Secrets
      BY EmptyTyped DEF Secrets
    <3> QED BY <1>1, <2>3, <3>1 DEF IssueCertificate
  <2>4. CASE \E s \in {NoSecret, [leaf |-> External(-2), bundle |-> {External(-2)}]} : ReplaceUserSecret(s)
    <3>1. [leaf |-> External(-2), bundle |-> {External(-2)}] \in Secrets
      BY EmptyTyped DEF Secrets
    <3>2. PICK s \in Secrets : ReplaceUserSecret(s)
      BY <2>4, <3>1, EmptyTyped
    <3>3. sec' = [sec EXCEPT !["user"] = s]
      BY <3>2 DEF ReplaceUserSecret
    <3> QED BY <1>1, <3>3
  <2> QED BY <1>1, <2>1, <2>2, <2>3, <2>4, TLSChanges
<1>4. now' \in 0..MaxTime
  BY <1>1, TLSChanges, TLSBoundsAssumption DEF Tick
<1>5. mode' \in Modes
  BY <1>1, TLSChanges, Zenon DEF SetMode
<1>6. cas' \in Nat /\ userCA' \in {-1, -2}
  BY <1>1, TLSChanges
<1>7. cert' \in BOOLEAN
  BY <1>1, TLSChanges, Zenon
<1> QED BY <1>2, <1>3, <1>4, <1>5, <1>6, <1>7 DEF StoreTypes

LEMMA PodTypesKept == ASSUME Sound, TLSNext PROVE PodTypes'
<1>1. /\ tmpl \in PodTemplates /\ pod \in [tmpl : PodTemplates, up : BOOLEAN, leaf : CAs] /\ mount \in Secrets
      /\ pod.leaf # NoLeaf => pod.up /\ pod.tmpl.mode \notin {"none", "off"}
      /\ sec \in [Modes \ {"off"} -> Secrets] /\ my.mode \in Modes /\ mat \in Secrets
  BY DEF Sound, StoreTypes, RunTypes, PodTypes
<1>2. Mounts \in Secrets /\ (pod.tmpl.mode \in {"none", "off"} => Mounts = NoSecret)
  BY <1>1, EmptyTyped DEF Mounts, Modes
<1>3. tmpl' \in PodTemplates
  <2>1. CASE ReconcileStatefulSetTLS
    BY <1>1, <2>1 DEF ReconcileStatefulSetTLS, PodTemplates
  <2>2. CASE ProbeUnverified
    BY <1>1, <2>2 DEF ProbeUnverified, PodTemplates
  <2> QED BY <1>1, <2>1, <2>2, TLSChanges
<1>4. /\ pod' \in [tmpl : PodTemplates, up : BOOLEAN, leaf : CAs] /\ mount' \in Secrets
      /\ pod'.leaf # NoLeaf => pod'.up /\ pod'.tmpl.mode \notin {"none", "off"}
  <2>1. CASE StopPod
    BY <1>1, <2>1, EmptyTyped DEF StopPod
  <2>2. CASE StartPod
    <3>1. Mounts.leaf \in CAs /\ (Mounts = NoSecret => Mounts.leaf = NoLeaf)
      BY <1>2, EmptyTyped DEF Secrets
    <3> QED BY <1>1, <1>2, <2>2, <3>1 DEF StartPod
  <2>3. CASE SyncMount
    BY <1>1, <1>2, <2>3 DEF SyncMount
  <2>4. CASE Evict
    BY <1>1, <2>4, EmptyTyped DEF Evict
  <2>5. CASE ProbeOutdated
    <3>1. mount.leaf \in CAs
      BY <1>1 DEF Secrets
    <3> QED BY <1>1, <2>5, <3>1 DEF ProbeOutdated, AtProbe
  <2> QED BY <1>1, <2>1, <2>2, <2>3, <2>4, <2>5, TLSChanges
<1> QED BY <1>3, <1>4 DEF PodTypes

LEMMA ClientTypesKept == ASSUME Sound, TLSNext PROVE ClientTypes'
<1>1. CASE ConvergeSecretConnectionInfo
  <2>1. ClientTLS \in [mode : SSLModes, ca : SUBSET CAs] /\ ((ClientTLS.ca # {}) <=> (ClientTLS.mode = "verify"))
    BY DEF Sound, RunTypes, Validated, ClientTLS, SSLModes, Secrets
  <2> QED BY <1>1, <2>1 DEF ConvergeSecretConnectionInfo, Sound, ClientTypes
<1> QED BY <1>1, TLSChanges DEF Sound, ClientTypes

LEMMA RunTypesKept == ASSUME Sound, TLSNext PROVE RunTypes'
<1>1. /\ now \in Nat /\ cas \in Nat /\ mode \in Modes /\ ca \in CASecrets /\ sec \in [Modes \ {"off"} -> Secrets]
      /\ at \in Stages /\ my \in [mode : Modes, ca : CASecrets, sec : Secrets]
      /\ plan \in [ca : CASecrets, sec : Secrets] /\ mat \in Secrets
  BY DEF Sound, StoreTypes, RunTypes
<1>2. my' \in [mode : Modes, ca : CASecrets, sec : Secrets]
  <2>1. CASE Begin
    BY <1>1, <2>1, EmptyTyped DEF Begin
  <2>2. CASE LoadTLSMaterial
    BY <1>1, <2>2, EmptyTyped DEF LoadTLSMaterial
  <2> QED BY <1>1, <2>1, <2>2, TLSChanges, EmptyTyped
<1>3. plan' \in [ca : CASecrets, sec : Secrets]
  BY <1>1, TLSChanges, EmptyTyped, PlanTyped DEF WriteCA
<1>4. mat' \in Secrets
  <2>1. CASE LoadTLSMaterial
    BY <1>1, <2>1, EmptyTyped DEF LoadTLSMaterial, Sound, StageOfMode
  <2> QED BY <1>1, <2>1, TLSChanges, EmptyTyped
<1>5. at' \in Stages
  BY <1>1, Zenon
  DEF TLSNext, ReconcileTLS, Provision, Apply, Users, Others, Begin, WriteCA, WriteServer, WriteConflict, ReconcileCertificate,
      LoadTLSMaterial, ReconcileStatefulSetTLS, CleanupTLSResources, Probing, ProbeFails, ProbeCurrent, ProbeUnverified,
      ProbeOutdated, ConvergeSecretConnectionInfo, UpdateStatusTLS, SetMode, ReplaceUserSecret, LoseCA, IssueCertificate,
      StopPod, StartPod, SyncMount, ReadCredentials, Evict, FailTLS, Tick, Step, Stages, Modes
<1> QED BY <1>2, <1>3, <1>4, <1>5 DEF RunTypes

LEMMA FlagTypesKept == ASSUME Sound, TLSNext PROVE FlagTypes'
<1>1. ready' \in BOOLEAN /\ found' \in BOOLEAN /\ checked' \in BOOLEAN /\ missed' \in BOOLEAN /\ smooth' \in BOOLEAN
  BY Zenon
  DEF Sound, FlagTypes, TLSNext, ReconcileTLS, Provision, Apply, Users, Others, Begin, WriteCA, WriteServer, WriteConflict,
      ReconcileCertificate, LoadTLSMaterial, ReconcileStatefulSetTLS, CleanupTLSResources, ProbeFails, ProbeCurrent,
      ProbeUnverified, ProbeOutdated, ConvergeSecretConnectionInfo, UpdateStatusTLS, SetMode, ReplaceUserSecret, LoseCA,
      IssueCertificate, StopPod, StartPod, SyncMount, ReadCredentials, Evict, FailTLS, Tick, Change, StoreOnly, AtProbe,
      local, ghosts
<1>2. (edits' = edits \/ (edits < MaxChanges /\ edits' = edits + 1)) /\ (faults' = faults \/ (faults < MaxFaults /\ faults' = faults + 1))
  BY Zenon
  DEF TLSNext, ReconcileTLS, Provision, Apply, Users, Others, Begin, WriteCA, WriteServer, WriteConflict, ReconcileCertificate,
      LoadTLSMaterial, ReconcileStatefulSetTLS, CleanupTLSResources, ProbeFails, ProbeCurrent, ProbeUnverified, ProbeOutdated,
      ConvergeSecretConnectionInfo, UpdateStatusTLS, SetMode, ReplaceUserSecret, LoseCA, IssueCertificate, StopPod, StartPod,
      SyncMount, ReadCredentials, Evict, FailTLS, Tick, Change, StoreOnly, AtProbe
<1>3. edits' \in 0..MaxChanges /\ faults' \in 0..MaxFaults
  BY <1>2, TLSBoundsAssumption DEF Sound, FlagTypes
<1> QED BY <1>1, <1>3 DEF FlagTypes

\* Only WriteCA changes the CAs, and its plan keeps them in order.
LEMMA CAOrderKept == ASSUME Sound, TLSNext PROVE CAOrder(ca)' /\ CAOrder(my.ca)'
<1>1. /\ now \in Nat /\ cas \in Nat /\ ca \in CASecrets /\ my.ca \in CASecrets /\ my.sec \in Secrets
      /\ CAOrder(ca) /\ CAOrder(my.ca)
  BY DEF Sound, StoreTypes, RunTypes
<1>2. CAOrder(ca')
  <2>1. CASE WriteCA
    <3>1. CAOrder(PlanSelfManagedTLS(my.ca, my.sec).ca)
      BY <1>1, PlanOrder DEF PlanSelfManagedTLS, CAOrder
    <3> QED BY <1>1, <2>1, <3>1 DEF WriteCA
  <2> QED BY <1>1, <2>1, TLSChanges, EmptyTyped
<1>3. CAOrder(my'.ca)
  BY <1>1, TLSChanges, EmptyTyped DEF Begin, LoadTLSMaterial, NoRead
<1> QED BY <1>2, <1>3 DEF CAOrder

\* A certificate keeps the mode it was made for.
LEMMA OriginsKept == ASSUME Sound, TLSNext PROVE Origins'
<1>1. /\ sec \in [Modes \ {"off"} -> Secrets] /\ tmpl \in PodTemplates /\ mount \in Secrets
      /\ pod \in [tmpl : PodTemplates, up : BOOLEAN, leaf : CAs] /\ plan.sec \in Secrets
  BY DEF Sound, StoreTypes, PodTypes, RunTypes
<1>2. /\ \A m \in Modes \ {"off"} : LeafOf(sec[m].leaf, m)
      /\ \A m \in {"user", "issuer"} : sec[m] = NoSecret \/ (sec[m].bundle = {sec[m].leaf} /\ sec[m].leaf # NoLeaf)
      /\ LeafOf(mount.leaf, pod.tmpl.mode) /\ LeafOf(pod.leaf, pod.tmpl.mode)
  BY DEF Sound, Origins
<1>3. \A m : LeafOf(NoSecret.leaf, m) /\ LeafOf(NoLeaf, m)
  BY EmptyTyped DEF LeafOf
<1>4. /\ \A m \in Modes \ {"off"} : LeafOf(sec'[m].leaf, m)
      /\ \A m \in {"user", "issuer"} : sec'[m] = NoSecret \/ (sec'[m].bundle = {sec'[m].leaf} /\ sec'[m].leaf # NoLeaf)
  <2>1. CASE WriteServer
    <3>1. plan.sec.leaf.id > 0
      BY <2>1 DEF WriteServer, Sound, StageOfMode
    <3>2. LeafOf(plan.sec.leaf, "self")
      BY <3>1 DEF LeafOf
    <3> QED BY <1>1, <1>2, <2>1, <3>2 DEF WriteServer, Modes
  <2>2. CASE CleanupTLSResources
    BY <1>1, <1>2, <1>3, <2>2 DEF CleanupTLSResources, Modes
  <2>3. CASE IssueCertificate
    <3> DEFINE s == [leaf |-> External(-3), bundle |-> {External(-3)}]
    <3>1. s.bundle = {s.leaf} /\ s.leaf # NoLeaf /\ LeafOf(s.leaf, "issuer")
      BY EmptyTyped DEF LeafOf, NoLeaf, NoCA
    <3>2. sec' = [sec EXCEPT !["issuer"] = s]
      BY <2>3 DEF IssueCertificate
    <3> HIDE DEF s
    <3> QED BY <1>1, <1>2, <3>1, <3>2 DEF Modes
  <2>4. CASE \E s \in {NoSecret, [leaf |-> External(-2), bundle |-> {External(-2)}]} : ReplaceUserSecret(s)
    <3>1. PICK s \in {NoSecret, [leaf |-> External(-2), bundle |-> {External(-2)}]} : ReplaceUserSecret(s)
      BY <2>4
    <3>2. (s = NoSecret \/ (s.bundle = {s.leaf} /\ s.leaf # NoLeaf)) /\ LeafOf(s.leaf, "user")
      BY <1>3, EmptyTyped DEF LeafOf, NoLeaf, NoCA
    <3>3. sec' = [sec EXCEPT !["user"] = s]
      BY <3>1 DEF ReplaceUserSecret
    <3> QED BY <1>1, <1>2, <3>2, <3>3 DEF Modes
  <2> QED BY <1>2, <2>1, <2>2, <2>3, <2>4, TLSChanges
<1>5. LeafOf(Mounts.leaf, pod.tmpl.mode)
  BY <1>1, <1>2, <1>3 DEF Mounts, Modes
<1>6. LeafOf(mount'.leaf, pod'.tmpl.mode) /\ LeafOf(pod'.leaf, pod'.tmpl.mode)
  <2>1. CASE StopPod
    BY <1>3, <2>1 DEF StopPod
  <2>2. CASE StartPod
    BY <1>1, <1>5, <2>2 DEF StartPod
  <2>3. CASE SyncMount
    BY <1>2, <1>5, <2>3 DEF SyncMount
  <2>4. CASE Evict
    BY <1>1, <1>3, <2>4 DEF Evict
  <2>5. CASE ProbeOutdated
    BY <1>1, <1>2, <2>5 DEF ProbeOutdated, AtProbe
  <2> QED BY <1>2, <2>1, <2>2, <2>3, <2>4, <2>5, TLSChanges
<1> QED BY <1>4, <1>6, Zenon DEF Origins, LeafOf, External

\* Only the reconcile and a failure move it on; what it has read stays.
LEMMA StageOfModeKept == ASSUME Sound, TLSNext PROVE StageOfMode'
<1>1. /\ now \in Nat /\ cas \in Nat /\ my \in [mode : Modes, ca : CASecrets, sec : Secrets] /\ CAOrder(my.ca) /\ StageOfMode
      /\ mode \in Modes
  BY DEF Sound, StoreTypes, RunTypes
<1>2. UNCHANGED <<at, my, plan>> => StageOfMode'
  BY <1>1, Zenon DEF StageOfMode
<1>3. CASE WriteCA
  <2>1. PlanSelfManagedTLS(my.ca, my.sec).sec.leaf.id > 0
    BY <1>1, PlanOrder, PolicyAssumption DEF PlanSelfManagedTLS, ServerCertCurrent, IssueServerCert
  <2> QED BY <1>1, <1>3, <2>1 DEF WriteCA, Step, StageOfMode
<1>4. CASE Begin
  BY <1>1, <1>4 DEF Begin, Step, StageOfMode, Modes
<1>5. CASE LoadTLSMaterial
  BY <1>1, <1>5 DEF LoadTLSMaterial, Step, StageOfMode, NoRead
<1>6. CASE WriteServer \/ ReconcileCertificate
  BY <1>1, <1>6 DEF WriteServer, ReconcileCertificate, Step, StageOfMode
<1>7. CASE ReconcileStatefulSetTLS \/ CleanupTLSResources
  BY <1>1, <1>7 DEF ReconcileStatefulSetTLS, CleanupTLSResources, Step, StageOfMode, local
<1>8. CASE at' \in {"idle", "cred", "status"}
  BY <1>8 DEF StageOfMode
<1> QED
  BY <1>2, <1>3, <1>4, <1>5, <1>6, <1>7, <1>8, Zenon
  DEF TLSNext, ReconcileTLS, Provision, Apply, Users, Others, WriteConflict, Probing, ProbeFails, ProbeCurrent, ProbeUnverified,
      ProbeOutdated, ConvergeSecretConnectionInfo, UpdateStatusTLS, SetMode, ReplaceUserSecret, LoseCA, IssueCertificate,
      StopPod, StartPod, SyncMount, ReadCredentials, Evict, FailTLS, Tick, Step, local

\* What is loaded has been validated.
LEMMA ValidatedKept == ASSUME Sound, TLSNext PROVE Validated'
<1>1. Validated /\ StageOfMode /\ found \in BOOLEAN /\ my \in [mode : Modes, ca : CASecrets, sec : Secrets] /\ mode \in Modes
  BY DEF Sound, FlagTypes, RunTypes, StoreTypes
<1>2. UNCHANGED <<at, my, mat, found>> => Validated'
  BY <1>1 DEF Validated, Applying
<1>3. CASE LoadTLSMaterial
  <2>1. at' = "sts" => mat'.bundle # {}
    BY <1>3, EmptyTyped DEF LoadTLSMaterial, Step, Verifies
  <2>2. at' \in {"sts", "cred"} /\ found' = found /\ at = "load"
    BY <1>3 DEF LoadTLSMaterial, Step, StoreOnly
  <2> QED BY <1>1, <2>1, <2>2 DEF Validated, Applying
<1>4. CASE ReconcileStatefulSetTLS \/ CleanupTLSResources
  <2>1. at \in {"sts", "cleanup"} /\ at' \in {"cleanup", "probe", "cred"} /\ UNCHANGED <<my, mat, found>>
    BY <1>4 DEF ReconcileStatefulSetTLS, CleanupTLSResources, Step, StoreOnly, local
  <2> QED BY <1>1, <2>1, Zenon DEF Validated, Applying
<1>5. CASE ProbeFails \/ ProbeCurrent \/ ProbeUnverified \/ ProbeOutdated
  <2>1. at = "probe" /\ at' = "cred" /\ UNCHANGED <<my, mat>>
    BY <1>5 DEF ProbeFails, ProbeCurrent, ProbeUnverified, ProbeOutdated, Probing, Step, AtProbe
  <2> QED BY <1>1, <2>1 DEF Validated, Applying
<1>6. CASE ConvergeSecretConnectionInfo
  <2>1. at = "cred" /\ at' = "status" /\ UNCHANGED <<my, mat, found>>
    BY <1>6 DEF ConvergeSecretConnectionInfo, Step, local
  <2> QED BY <1>1, <2>1, Zenon DEF Validated, Applying
<1>7. CASE UpdateStatusTLS \/ FailTLS \/ Begin
  <2>1. found' = FALSE /\ (at' \in Applying => my'.mode = "off")
    BY <1>1, <1>7 DEF UpdateStatusTLS, FailTLS, Begin, Step, Applying, Modes
  <2> QED BY <2>1 DEF Validated
<1>8. CASE WriteCA \/ WriteServer \/ WriteConflict \/ ReconcileCertificate
  <2>1. at \in Reading /\ found' = found /\ at' \notin Applying
    BY <1>8 DEF WriteCA, WriteServer, WriteConflict, ReconcileCertificate, Step, StoreOnly, Reading, Applying
  <2> QED BY <1>1, <2>1 DEF Validated, Reading, Applying
<1> QED
  BY <1>2, <1>3, <1>4, <1>5, <1>6, <1>7, <1>8, Zenon
  DEF TLSNext, ReconcileTLS, Provision, Apply, Users, Others, SetMode, ReplaceUserSecret, LoseCA, IssueCertificate,
      StopPod, StartPod, SyncMount, ReadCredentials, Evict, Tick, local

\* The Secret of a mode only disappears when a reconcile for another mode
\* cleans up, or its user deletes it.
LEMMA StoredKept ==
  ASSUME Sound, TLSNext, NEW m, Stored(m), CleanupTLSResources => m = my.mode
  PROVE  (m \in Modes \ {"off"} => sec'[m] # NoSecret \/ (m = "user" /\ userCA' = -2))
<1>1. /\ sec \in [Modes \ {"off"} -> Secrets] /\ userCA \in {-1, -2} /\ plan.sec \in Secrets
      /\ m \in Modes \ {"off"} => sec[m] # NoSecret \/ (m = "user" /\ userCA = -2)
  BY DEF Sound, StoreTypes, RunTypes, Stored
<1>2. CASE sec' = sec
  BY <1>1, <1>2, TLSChanges
<1>3. CASE WriteServer
  <2>1. plan.sec # NoSecret /\ userCA' = userCA
    BY <1>3, EmptyTyped DEF WriteServer, StoreOnly, Sound, StageOfMode, NoLeaf, NoCA
  <2> QED BY <1>1, <1>3, <2>1 DEF WriteServer
<1>4. CASE CleanupTLSResources
  BY <1>1, <1>4 DEF CleanupTLSResources, StoreOnly
<1>5. CASE IssueCertificate
  <2>1. [leaf |-> External(-3), bundle |-> {External(-3)}] # NoSecret
    BY DEF NoSecret
  <2> QED BY <1>1, <1>5, <2>1 DEF IssueCertificate
<1>6. CASE \E s \in {NoSecret, [leaf |-> External(-2), bundle |-> {External(-2)}]} : ReplaceUserSecret(s)
  BY <1>1, <1>6 DEF ReplaceUserSecret
<1> QED BY <1>2, <1>3, <1>4, <1>5, <1>6, TLSChanges

\* The template is switched to a Secret that was loaded, and the clean-up that
\* follows spares it.
LEMMA MountsKept == ASSUME Sound, TLSNext PROVE Kept'
<1>1. /\ Kept /\ StageOfMode /\ tmpl \in PodTemplates /\ sec \in [Modes \ {"off"} -> Secrets] /\ mode \in Modes
      /\ my \in [mode : Modes, ca : CASecrets, sec : Secrets]
  BY DEF Sound, StoreTypes, RunTypes, PodTypes
<1> DEFINE St(m) == m \in Modes \ {"off"} => sec'[m] # NoSecret \/ (m = "user" /\ userCA' = -2)
<1>2. \A m : Stored(m) /\ (CleanupTLSResources => m = my.mode) => St(m)
  BY StoredKept
<1> HIDE DEF St
<1>3. SUFFICES /\ St(tmpl'.mode)
               /\ at' \in Reading /\ my'.sec # NoSecret => St(my'.mode)
               /\ at' = "sts" => St(my'.mode)
               /\ at' = "cleanup" => tmpl'.mode = my'.mode
  BY Zenon DEF Kept, Stored, St, Reading, Modes
<1>4. St(tmpl'.mode)
  <2>1. CASE ReconcileStatefulSetTLS
    BY <1>1, <1>2, <2>1 DEF ReconcileStatefulSetTLS, CleanupTLSResources, Kept, PodTemplates
  <2>2. CASE ProbeUnverified
    BY <1>1, <1>2, <2>2 DEF ProbeUnverified, Probing, CleanupTLSResources, Kept, PodTemplates
  <2>3. CASE tmpl' = tmpl
    BY <1>1, <1>2, <2>3 DEF CleanupTLSResources, Kept
  <2> QED BY <2>1, <2>2, <2>3, TLSChanges
<1>5. CASE Begin
  <2>1. my'.mode = mode /\ (my'.sec # NoSecret => mode # "off" /\ sec[mode] # NoSecret) /\ at' # "cleanup"
    BY <1>1, <1>5 DEF Begin, Step, Modes
  <2>2. at' = "sts" => mode = "off"
    BY <1>1, <1>5 DEF Begin, Step, Modes
  <2>3. UNCHANGED <<sec, userCA>>
    BY <1>5 DEF Begin, store
  <2> QED BY <1>4, <2>1, <2>2, <2>3 DEF St
<1>6. CASE LoadTLSMaterial
  <2>1. /\ at = "load" /\ my'.mode = my.mode /\ at' \in {"sts", "cred"} /\ UNCHANGED <<sec, userCA>>
    BY <1>1, <1>6 DEF LoadTLSMaterial, Step, NoRead, store, StoreOnly
  <2>2. at' = "sts" => my.sec # NoSecret \/ sec[my.mode] # NoSecret
    BY <1>6, EmptyTyped DEF LoadTLSMaterial, Step
  <2>3. at' = "sts" => Stored(my.mode)
    BY <1>1, <2>1, <2>2 DEF Kept, Reading, Stored
  <2> QED BY <1>4, <2>1, <2>3 DEF St, Stored, Reading
<1>7. CASE WriteCA \/ WriteServer \/ ReconcileCertificate
  <2>1. at \in Reading /\ at' \in {"server", "load", "cred"} /\ my' = my
    BY <1>7 DEF WriteCA, WriteServer, ReconcileCertificate, Step, Reading
  <2>2. at # "cleanup"
    BY <2>1 DEF Reading
  <2> QED BY <1>1, <1>2, <1>4, <2>1, <2>2 DEF Kept, CleanupTLSResources
<1>8. CASE ReconcileStatefulSetTLS
  BY <1>1, <1>4, <1>8 DEF ReconcileStatefulSetTLS, Step, Reading, local, PodTemplates
<1>9. CASE at' \in {"idle", "probe", "cred", "status"}
  BY <1>4, <1>9 DEF Reading
<1>10. CASE UNCHANGED <<at, my, tmpl>> /\ ~CleanupTLSResources
  BY <1>1, <1>2, <1>4, <1>10 DEF Kept
<1>11. CASE CleanupTLSResources
  BY <1>9, <1>11 DEF CleanupTLSResources, Step
<1> QED
  BY <1>5, <1>6, <1>7, <1>8, <1>9, <1>10, <1>11, Zenon
  DEF TLSNext, ReconcileTLS, Provision, Apply, Users, Others, WriteConflict, Probing, ProbeFails, ProbeCurrent, ProbeUnverified,
      ProbeOutdated, ConvergeSecretConnectionInfo, UpdateStatusTLS, SetMode, ReplaceUserSecret, LoseCA, IssueCertificate,
      StopPod, StartPod, SyncMount, ReadCredentials, Evict, FailTLS, Tick, Step, local

LEMMA InitSound == TLSInit => Sound
<1>1. SUFFICES ASSUME TLSInit PROVE Sound
  OBVIOUS
<1> DEFINE user == [leaf |-> External(-1), bundle |-> {External(-1)}]
<1>2. user \in Secrets /\ user.bundle = {user.leaf} /\ user.leaf # NoLeaf /\ LeafOf(user.leaf, "user")
  BY EmptyTyped DEF Secrets, LeafOf, NoLeaf, NoCA
<1> HIDE DEF user
<1>3. \A m : LeafOf(NoSecret.leaf, m) /\ LeafOf(NoLeaf, m)
  BY EmptyTyped DEF LeafOf
<1>4. /\ sec \in [Modes \ {"off"} -> Secrets] /\ \A m \in Modes \ {"off"} : sec[m] = NoSecret \/ (m = "user" /\ sec[m] = user)
  BY <1>1, <1>2, EmptyTyped DEF TLSInit, user
<1>5. StoreTypes
  <2>1. now \in 0..MaxTime /\ mode \in Modes /\ cas \in Nat /\ ca \in CASecrets /\ userCA \in {-1, -2}
    BY <1>1, EmptyTyped, TLSBoundsAssumption DEF TLSInit
  <2>2. cert \in BOOLEAN
    BY <1>1, Zenon DEF TLSInit
  <2> QED BY <1>4, <2>1, <2>2 DEF StoreTypes
<1>6. PodTypes
  BY <1>1, EmptyTyped DEF TLSInit, PodTypes, NotRunning, PodTemplates
<1>7. ClientTypes
  BY <1>1 DEF TLSInit, ClientTypes, SSLModes
<1>8. RunTypes
  BY <1>1, EmptyTyped DEF TLSInit, RunTypes, Stages
<1>9. FlagTypes
  <2>1. edits \in 0..MaxChanges /\ faults \in 0..MaxFaults
    BY <1>1, TLSBoundsAssumption DEF TLSInit
  <2> QED BY <1>1, <2>1, Zenon DEF TLSInit, FlagTypes
<1>10. CAOrder(ca) /\ CAOrder(my.ca)
  BY <1>1, EmptyTyped DEF TLSInit, NoRead
<1>11. Origins
  BY <1>1, <1>2, <1>3, <1>4 DEF TLSInit, Origins, NotRunning, Modes
<1>12. StageOfMode
  BY <1>1 DEF TLSInit, StageOfMode
<1>13. Kept
  BY <1>1 DEF TLSInit, Kept, Reading, Stored, NotRunning, Modes
<1>14. Validated
  BY <1>1 DEF TLSInit, Validated, Applying
<1> QED BY <1>5, <1>6, <1>7, <1>8, <1>9, <1>10, <1>11, <1>12, <1>13, <1>14 DEF Sound

LEMMA NextSound == Sound /\ [TLSNext]_tlsvars => Sound'
<1>1. ASSUME Sound, TLSNext PROVE Sound'
  BY <1>1, StoreTypesKept, PodTypesKept, ClientTypesKept, RunTypesKept, FlagTypesKept, CAOrderKept, OriginsKept,
     StageOfModeKept, MountsKept, ValidatedKept DEF Sound
<1>2. ASSUME Sound, UNCHANGED tlsvars PROVE Sound'
  <2>1. UNCHANGED <<now, mode, cas, ca, sec, cert, userCA, tmpl, pod, mount, cred, client, ready, at, my, plan, mat, found,
                    checked, missed, smooth, edits, faults>>
    BY <1>2 DEF tlsvars, store, local, ghosts
  <2>2. StoreTypes' /\ PodTypes' /\ ClientTypes' /\ RunTypes' /\ FlagTypes'
    BY <1>2, <2>1, Zenon DEF Sound, StoreTypes, PodTypes, ClientTypes, RunTypes, FlagTypes
  <2>3. CAOrder(ca)' /\ CAOrder(my.ca)' /\ Origins'
    BY <1>2, <2>1 DEF Sound, CAOrder, Origins, LeafOf, External
  <2>4. StageOfMode' /\ Kept' /\ Validated'
    BY <1>2, <2>1 DEF Sound, StageOfMode, Kept, Stored, Validated, Reading, Applying
  <2> QED BY <2>2, <2>3, <2>4, Zenon DEF Sound
<1> QED BY <1>1, <1>2

-----------------------------------------------------------------------------
(* ServerTLS: between two moments at which everybody was done. *)

\* Everybody was done at time t, with the active CA a and the prepared CA n.  A
\* certificate of either lasts beyond the missed unit, and a client that trusts
\* both accepts it.
Signed(leaf, a, n, t) ==
  /\ leaf # NoLeaf /\ (leaf.id = a.id \/ (n # NoCA /\ leaf.id = n.id))
  /\ leaf.exp > t + 2 \/ leaf.exp > MaxTime
Trusts(bundle, a, n) == a \in bundle /\ (n # NoCA => n \in bundle)
Good(s, a, n, t) == Signed(s.leaf, a, n, t) /\ Trusts(s.bundle, a, n)

Span(t) == t < now /\ now <= t + 2 /\ (missed \/ now <= t + 1)

\* The pod and its clients.
Serving(a, n, t) ==
  /\ tmpl.mode = mode /\ pod.tmpl = tmpl
  /\ pod.up => Signed(pod.leaf, a, n, t) /\ Signed(mount.leaf, a, n, t)
  /\ cred.mode = "verify" => Trusts(cred.ca, a, n)
  /\ client.mode = "verify" => Trusts(client.ca, a, n)

\* What the reconcile has read, planned and loaded.
Running(a, n, t) ==
  /\ at # "idle" => my.mode = mode
  /\ at \in Reading => Good(my.sec, a, n, t)
  /\ at = "server" => Good(plan.sec, a, n, t)
  /\ at \in Applying \/ (at = "cred" /\ found) => Good(mat, a, n, t)

\* The CA Secret: if a is due for the switch then n was prepared by time t.
Rolling(a, n, t) ==
  /\ a # NoCA /\ t + CASwitchBefore < a.exp
  /\ n # NoCA => n.exp + CAPrepareBefore >= a.exp + CAValidity
  /\ t + CAPrepareBefore >= a.exp => n # NoCA
  /\ Trusts(ca.bundle, a, n)
  /\ (ca.active = a /\ (n # NoCA => ca.next = n)) \/ (n # NoCA /\ ca.active = n)
  /\ at = "provision" => my.ca = ca

Window(a, n, t) ==
  /\ Span(t) /\ Good(sec[mode], a, n, t) /\ Serving(a, n, t) /\ Running(a, n, t)
  /\ mode = "self" => Rolling(a, n, t)

Bridged ==
  smooth => IF mode = "off"
            THEN cred.mode # "verify" /\ client.mode # "verify" /\ (at # "idle" => my.mode = "off")
            ELSE \E a \in CAs, n \in CAs, t \in Int : Window(a, n, t)

TLSIInv == Sound /\ Bridged

\* A certificate of the window is accepted throughout it.
LEMMA SignedVerifies ==
  ASSUME NEW a \in CAs, NEW n \in CAs, NEW t \in Int, NEW leaf \in CAs, NEW bundle \in SUBSET CAs,
         now \in 0..MaxTime, now <= t + 2, Signed(leaf, a, n, t), Trusts(bundle, a, n)
  PROVE  Verifies(leaf, bundle)
<1>1. now < leaf.exp
  BY TLSBoundsAssumption DEF Signed, CAs
<1>2. \E c \in bundle : c.id = leaf.id
  BY DEF Signed, Trusts
<1> QED BY <1>1, <1>2 DEF Verifies, Signed

\* Whatever is planned in the window signs with a or n, keeps both trusted and
\* keeps the CA Secret in the same relation to them.
LEMMA RollingPlan ==
  ASSUME Sound, NEW a \in CAs, NEW n \in CAs, NEW t \in Int, Span(t), Rolling(a, n, t),
         NEW s \in Secrets, Good(s, a, n, t)
  PROVE  /\ Good(PlanSelfManagedTLS(ca, s).sec, a, n, t)
         /\ Trusts(PlanSelfManagedTLS(ca, s).ca.bundle, a, n)
         /\ \/ /\ PlanSelfManagedTLS(ca, s).ca.active = a
               /\ n # NoCA => PlanSelfManagedTLS(ca, s).ca.next = n
            \/ n # NoCA /\ PlanSelfManagedTLS(ca, s).ca.active = n
<1>1. now \in Nat /\ cas \in Nat /\ ca \in CASecrets /\ t < now /\ now <= t + 2
  BY DEF Sound, StoreTypes, Span
<1>2. a.exp \in Nat /\ n.exp \in Nat /\ s.leaf \in CAs /\ ca.bundle \in SUBSET CAs
  BY <1>1 DEF CAs, Secrets, CASecrets
<1>3. now < a.exp /\ (n # NoCA => now < n.exp /\ now + CASwitchBefore < n.exp /\ a.exp < n.exp)
  BY <1>1, <1>2, PolicyAssumption DEF Rolling
<1>4. \/ /\ ActiveCA(ca) = a /\ now + CASwitchBefore < a.exp /\ (n # NoCA => ca.next = n)
      \/ n # NoCA /\ ActiveCA(ca) = n
  <2>1. CASE ca.active = a /\ (n # NoCA => ca.next = n)
    <3>1. CASE now + CASwitchBefore < a.exp
      BY <1>1, <2>1, <3>1, ActiveCases
    <3>2. CASE ~(now + CASwitchBefore < a.exp)
      <4>1. n # NoCA
        BY <1>1, <1>2, <3>2, PolicyAssumption DEF Rolling
      <4> QED BY <1>1, <1>3, <2>1, <3>2, <4>1, ActiveCases
    <3> QED BY <3>1, <3>2
  <2>2. CASE n # NoCA /\ ca.active = n
    BY <1>1, <1>3, <2>2, ActiveCases
  <2> QED BY <2>1, <2>2 DEF Rolling
<1>5. ActiveCA(ca) = a /\ n # NoCA => PreparedCA(ca) = n
  <2>1. SUFFICES ASSUME ActiveCA(ca) = a, n # NoCA PROVE PreparedCA(ca) = n
    OBVIOUS
  <2>2. a # n /\ ca.next = n /\ NextCA(ca) = n
    BY <1>2, <1>3, <1>4, <2>1 DEF NextCA
  <2> QED BY <2>1, <2>2 DEF PreparedCA
<1>6. Trusts(Bundle(ca), a, n)
  BY <1>2, <1>3 DEF Bundle, Trusts, Rolling
<1>7. Signed(IssueServerCert(ca), a, n, t)
  <2>1. ActiveCA(ca) \in CAs /\ now + CASwitchBefore < ActiveCA(ca).exp
    BY <1>3, <1>4
  <2>2. IssueServerCert(ca).id = ActiveCA(ca).id /\ IssueServerCert(ca).exp \in {now + ServerValidity, ActiveCA(ca).exp}
    BY <2>1 DEF IssueServerCert
  <2>3. IssueServerCert(ca).exp > t + 2 /\ IssueServerCert(ca) # NoLeaf
    BY <1>1, <2>1, <2>2, PolicyAssumption DEF NoLeaf, NoCA, CAs
  <2> QED BY <1>4, <2>2, <2>3 DEF Signed
<1> QED BY <1>4, <1>5, <1>6, <1>7 DEF PlanSelfManagedTLS, Good

\* When everybody is done, the CA Secret is not due for the switch, and if it is
\* due for a new CA one is prepared.
LEMMA SettledSelf ==
  ASSUME Sound, TLSSettled, mode = "self"
  PROVE  /\ ca.active # NoCA /\ now + CASwitchBefore < ca.active.exp
         /\ now + CAPrepareBefore >= ca.active.exp => ca.next # NoCA
         /\ Trusts(ca.bundle, ca.active, ca.next) /\ sec["self"].bundle = ca.bundle
         /\ Signed(sec["self"].leaf, ca.active, ca.next, now) /\ sec["self"].leaf.id > 0
<1>1. /\ now \in Nat /\ cas \in Nat /\ ca \in CASecrets /\ sec["self"] \in Secrets /\ CAOrder(ca)
      /\ PlanSelfManagedTLS(ca, sec["self"]) = [ca |-> ca, sec |-> sec["self"]]
  BY DEF Sound, StoreTypes, TLSSettled, Modes
<1>2. /\ ca.active = ActiveCA(ca) /\ ca.next = PreparedCA(ca) /\ ca.bundle = Bundle(ca) /\ sec["self"].bundle = Bundle(ca)
      /\ sec["self"].leaf = IF ServerCertCurrent(sec["self"].leaf, ca) THEN sec["self"].leaf ELSE IssueServerCert(ca)
  <2>1. /\ PlanSelfManagedTLS(ca, sec["self"]).ca = ca /\ PlanSelfManagedTLS(ca, sec["self"]).sec = sec["self"]
    BY <1>1
  <2> QED BY <2>1 DEF PlanSelfManagedTLS
<1>3. ca.active \in CAs /\ ca.next \in CAs /\ sec["self"].leaf \in CAs
  BY <1>1 DEF CASecrets, Secrets
<1>4. ca.active.exp \in Nat /\ ca.next.exp \in Nat /\ sec["self"].leaf.exp \in Nat
  BY <1>3 DEF CAs
<1>5. ca.next # NoCA => ca.next.exp > ca.active.exp
  BY <1>1, <1>4, PolicyAssumption DEF CAOrder
<1>6. now + CASwitchBefore < ca.active.exp
  <2>1. SUFFICES ASSUME ~(now + CASwitchBefore < ca.active.exp) PROVE FALSE
    OBVIOUS
  <2>2. CASE now < ca.next.exp
    <3>1. ca.active = ca.next /\ ca.next # NoCA
      BY <1>1, <1>2, <1>4, <2>1, <2>2, ActiveCases DEF NoCA
    <3> QED BY <1>4, <1>5, <3>1
  <2>3. CASE ~(now < ca.next.exp)
    <3>1. ca.active.exp = now + CAValidity
      BY <1>1, <1>2, <2>1, <2>3, ActiveCases DEF GenerateCA
    <3> QED BY <1>1, <2>1, <3>1, PolicyAssumption
  <2> QED BY <2>2, <2>3
<1>7. ca.active # NoCA
  BY <1>1, <1>4, <1>6, PolicyAssumption DEF NoCA
<1>8. now + CAPrepareBefore >= ca.active.exp => ca.next # NoCA
  <2>1. SUFFICES ASSUME now + CAPrepareBefore >= ca.active.exp, ca.next = NoCA PROVE FALSE
    OBVIOUS
  <2>2. NextCA(ca) = NoCA
    BY <2>1 DEF NextCA
  <2>3. PreparedCA(ca) = GenerateCA(cas + 2)
    BY <1>1, <1>2, <1>4, <1>7, <2>1, <2>2, PolicyAssumption DEF PreparedCA
  <2>4. GenerateCA(cas + 2).id = cas + 2 /\ NoCA.id = 0
    BY DEF GenerateCA, NoCA
  <2>5. GenerateCA(cas + 2) = NoCA /\ cas \in Nat
    BY <1>1, <1>2, <2>1, <2>3
  <2> QED BY <2>4, <2>5
<1>9. Trusts(ca.bundle, ca.active, ca.next)
  BY <1>2, <1>7 DEF Bundle, Trusts
<1>10. sec["self"].leaf.id = ca.active.id /\ sec["self"].leaf.exp > now + 2 /\ sec["self"].leaf.id > 0
  <2>1. ca.active.id > 0
    BY <1>1, <1>7 DEF CAOrder
  <2>2. CASE ServerCertCurrent(sec["self"].leaf, ca)
    BY <1>1, <1>2, <1>4, <2>1, <2>2, PolicyAssumption DEF ServerCertCurrent
  <2>3. CASE sec["self"].leaf = IssueServerCert(ca)
    BY <1>1, <1>2, <1>4, <1>6, <2>1, <2>3, PolicyAssumption DEF IssueServerCert
  <2> QED BY <1>2, <2>2, <2>3
<1>11. Signed(sec["self"].leaf, ca.active, ca.next, now)
  BY <1>1, <1>10 DEF Signed, NoLeaf, NoCA
<1> QED BY <1>2, <1>6, <1>7, <1>8, <1>9, <1>10, <1>11

\* The window opens when time passes after everybody was done.
LEMMA WindowOpens ==
  ASSUME Sound, Tick, TLSSettled, mode # "off"
  PROVE  \E a \in CAs, n \in CAs, t \in Int : Window(a, n, t)'
<1>1. /\ now \in 0..MaxTime /\ now \in Nat /\ mode \in Modes \ {"off"} /\ ca \in CASecrets
      /\ sec \in [Modes \ {"off"} -> Secrets] /\ CAOrder(ca) /\ Origins
      /\ pod \in [tmpl : PodTemplates, up : BOOLEAN, leaf : CAs] /\ tmpl \in PodTemplates
      /\ (client.ca # {}) <=> (client.mode = "verify")
  BY DEF Sound, StoreTypes, PodTypes, ClientTypes
<1>2. /\ at = "idle" /\ at' = "idle" /\ now' = now + 1 /\ now < MaxTime /\ missed' = FALSE
      /\ UNCHANGED <<mode, ca, sec, tmpl, pod, mount, cred, client>>
  BY Zenon DEF Tick, TLSSettled, store
<1>3. /\ pod.tmpl = tmpl /\ mount = Mounts /\ client = cred /\ pod.up /\ pod.leaf = sec[mode].leaf
      /\ client = [mode |-> "verify", ca |-> sec[mode].bundle]
  BY DEF TLSSettled, Converged
<1>4. sec[mode] \in Secrets /\ sec[mode].bundle # {} /\ client.ca = sec[mode].bundle
  BY <1>1, <1>3
<1>5. PICK a \in CAs, n \in CAs :
        /\ Good(sec[mode], a, n, now) /\ sec[mode].leaf # NoLeaf
        /\ mode = "self" => /\ a # NoCA /\ now + CASwitchBefore < a.exp /\ a = ca.active /\ n = ca.next
                            /\ now + CAPrepareBefore >= a.exp => n # NoCA
                            /\ Trusts(ca.bundle, a, n)
  <2>1. CASE mode = "self"
    <3>1. ca.active \in CAs /\ ca.next \in CAs
      BY <1>1 DEF CASecrets
    <3> QED BY <2>1, <3>1, SettledSelf DEF Good, Signed
  <2>2. CASE mode # "self"
    <3>1. mode \in {"user", "issuer"} /\ sec[mode] # NoSecret
      BY <1>1, <1>4, <2>2, EmptyTyped DEF Modes
    <3>2. sec[mode].bundle = {sec[mode].leaf} /\ sec[mode].leaf # NoLeaf /\ LeafOf(sec[mode].leaf, mode)
      BY <1>1, <3>1 DEF Origins
    <3>3. sec[mode].leaf \in CAs /\ sec[mode].leaf.exp = MaxTime + 1
      <4>1. \A i \in {-1, -2, -3} : External(i).exp = MaxTime + 1
        BY EmptyTyped
      <4> QED BY <1>4, <3>1, <3>2, <4>1 DEF LeafOf, Secrets
    <3>4. Good(sec[mode], sec[mode].leaf, NoCA, now)
      BY <3>2, <3>3, TLSBoundsAssumption DEF Good, Signed, Trusts
    <3> QED BY <2>2, <3>2, <3>3, <3>4, EmptyTyped
  <2> QED BY <2>1, <2>2
<1>6. tmpl.mode = mode
  <2>1. LeafOf(sec[mode].leaf, mode) /\ LeafOf(sec[mode].leaf, tmpl.mode)
    BY <1>1, <1>3 DEF Origins
  <2> QED BY <1>1, <1>5, <2>1, EmptyTyped DEF LeafOf, Modes
<1>7. mount = sec[mode]
  BY <1>1, <1>3, <1>6 DEF Mounts
<1>8. PICK t \in Int : t = now
  BY <1>1
<1>9. Span(t)'
  BY <1>1, <1>2, <1>8 DEF Span
<1>10. Good(sec[mode], a, n, t)' /\ Serving(a, n, t)'
  BY <1>2, <1>3, <1>4, <1>5, <1>6, <1>7, <1>8 DEF Serving, Good, Signed, Trusts
<1>11. Running(a, n, t)'
  BY <1>2 DEF Running, Reading, Applying
<1>12. mode = "self" => Rolling(a, n, t)'
  BY <1>1, <1>2, <1>5, <1>8 DEF Rolling, CAOrder, Trusts
<1>13. Window(a, n, t)'
  BY <1>2, <1>9, <1>10, <1>11, <1>12 DEF Window
<1> QED BY <1>13

\* Without a user's change, and until everybody is done again, every step keeps
\* the window: one lemma for each part of the state.
LEMMA SpanKept ==
  ASSUME Sound, TLSNext, NEW t \in Int, Span(t), ~(Tick /\ TLSSettled)
  PROVE  Span(t)'
<1>1. UNCHANGED <<now, missed>> \/ (~missed /\ missed' = TRUE /\ now' = now + 1)
  BY Zenon
  DEF TLSNext, ReconcileTLS, Provision, Apply, Users, Others, Begin, WriteCA, WriteServer, WriteConflict, ReconcileCertificate,
      LoadTLSMaterial, ReconcileStatefulSetTLS, CleanupTLSResources, ProbeFails, ProbeCurrent, ProbeUnverified, ProbeOutdated,
      ConvergeSecretConnectionInfo, UpdateStatusTLS, SetMode, ReplaceUserSecret, LoseCA, IssueCertificate, StopPod, StartPod,
      SyncMount, ReadCredentials, Evict, FailTLS, Tick, StoreOnly, AtProbe, ghosts
<1>2. now \in Nat
  BY DEF Sound, StoreTypes
<1> QED BY <1>1, <1>2 DEF Span

LEMMA ModeKept == ASSUME TLSNext, smooth' PROVE UNCHANGED mode /\ ~LoseCA /\ ~(\E s : ReplaceUserSecret(s))
  BY TLSChanges, Zenon DEF SetMode, ReplaceUserSecret, LoseCA, Change

\* The server Secret is only replaced by what was planned.
LEMMA SecretKept ==
  ASSUME Sound, TLSNext, smooth', mode # "off", NEW a \in CAs, NEW n \in CAs, NEW t \in Int, Window(a, n, t)
  PROVE  Good(sec'[mode], a, n, t)
<1>1. /\ sec \in [Modes \ {"off"} -> Secrets] /\ mode \in Modes /\ Good(sec[mode], a, n, t) /\ Running(a, n, t) /\ StageOfMode
  BY DEF Sound, StoreTypes, Window
<1>2. CASE WriteServer
  BY <1>1, <1>2 DEF WriteServer, Running, StageOfMode
<1>3. CASE CleanupTLSResources
  <2>1. my.mode = mode
    BY <1>1, <1>3 DEF CleanupTLSResources, Running
  <2> QED BY <1>1, <1>3, <2>1 DEF CleanupTLSResources
<1>4. CASE IssueCertificate
  <2>1. mode # "issuer"
    BY <1>1, <1>4, EmptyTyped DEF IssueCertificate, Good, Signed
  <2> QED BY <1>1, <1>4, <2>1 DEF IssueCertificate
<1>5. ~\E s \in {NoSecret, [leaf |-> External(-2), bundle |-> {External(-2)}]} : ReplaceUserSecret(s)
  BY ModeKept, Zenon
<1> QED BY <1>1, <1>2, <1>3, <1>4, <1>5, TLSChanges

\* The pod is neither replaced nor restarted; it presents what it mounts.
LEMMA ServingKept ==
  ASSUME Sound, TLSNext, smooth', mode # "off", NEW a \in CAs, NEW n \in CAs, NEW t \in Int, Window(a, n, t)
  PROVE  Serving(a, n, t)' /\ tmpl' = tmpl
<1>1. /\ sec \in [Modes \ {"off"} -> Secrets] /\ mode \in Modes /\ mode' = mode /\ now \in 0..MaxTime /\ now <= t + 2
      /\ Good(sec[mode], a, n, t) /\ Running(a, n, t) /\ Serving(a, n, t) /\ StageOfMode
      /\ pod \in [tmpl : PodTemplates, up : BOOLEAN, leaf : CAs] /\ tmpl \in PodTemplates /\ mat \in Secrets
  BY ModeKept DEF Sound, StoreTypes, PodTypes, RunTypes, Window, Span
<1>2. tmpl' = tmpl
  <2>1. CASE ReconcileStatefulSetTLS
    BY <1>1, <2>1 DEF ReconcileStatefulSetTLS, Running, Serving, PodTemplates
  <2>2. CASE ProbeUnverified
    <3>1. Signed(pod.leaf, a, n, t) /\ Good(mat, a, n, t) /\ ~Verifies(pod.leaf, mat.bundle)
      BY <1>1, <2>2 DEF ProbeUnverified, Probing, Running, Serving, Applying
    <3>2. mat.bundle \in SUBSET CAs /\ pod.leaf \in CAs
      BY <1>1 DEF Secrets
    <3> QED BY <1>1, <3>1, <3>2, SignedVerifies DEF Good
  <2> QED BY <2>1, <2>2, TLSChanges
<1>3. Mounts = sec[mode] /\ Signed(Mounts.leaf, a, n, t)
  BY <1>1 DEF Mounts, Serving, Good
<1>4. pod'.tmpl = tmpl' /\ (pod'.up => Signed(pod'.leaf, a, n, t) /\ Signed(mount'.leaf, a, n, t))
  <2>1. CASE StopPod
    BY <1>1, <2>1 DEF StopPod, Serving
  <2>2. CASE StartPod
    BY <1>1, <1>2, <1>3, <2>2 DEF StartPod, Serving
  <2>3. CASE SyncMount
    BY <1>1, <1>2, <1>3, <2>3 DEF SyncMount, Serving
  <2>4. CASE Evict
    BY <1>1, <1>2, <2>4 DEF Evict, Serving
  <2>5. CASE ProbeOutdated
    BY <1>1, <1>2, <2>5 DEF ProbeOutdated, AtProbe, Serving
  <2> QED BY <1>1, <1>2, <2>1, <2>2, <2>3, <2>4, <2>5, TLSChanges DEF Serving
<1>5. (cred'.mode = "verify" => Trusts(cred'.ca, a, n)) /\ (client'.mode = "verify" => Trusts(client'.ca, a, n))
  <2>1. CASE ConvergeSecretConnectionInfo
    <3>1. at = "cred" /\ cred' = ClientTLS /\ client' = client
      BY <2>1 DEF ConvergeSecretConnectionInfo
    <3>2. ClientTLS.mode = "verify" => found /\ ClientTLS.ca = mat.bundle
      BY DEF ClientTLS
    <3> QED BY <1>1, <3>1, <3>2 DEF Serving, Running, Good
  <2> QED BY <1>1, <2>1, TLSChanges DEF Serving
<1>6. tmpl'.mode = mode'
  BY <1>1, <1>2 DEF Serving
<1> QED BY <1>2, <1>4, <1>5, <1>6 DEF Serving, Signed, Trusts

\* What the reconcile reads, plans and loads is that of the window.
LEMMA RunningKept ==
  ASSUME Sound, TLSNext, smooth', mode # "off", NEW a \in CAs, NEW n \in CAs, NEW t \in Int, Window(a, n, t)
  PROVE  Running(a, n, t)'
<1>1. /\ sec \in [Modes \ {"off"} -> Secrets] /\ mode \in Modes \ {"off"} /\ mode' = mode /\ now \in 0..MaxTime /\ now <= t + 2
      /\ Good(sec[mode], a, n, t) /\ Running(a, n, t) /\ StageOfMode /\ Validated
      /\ my \in [mode : Modes, ca : CASecrets, sec : Secrets]
  BY ModeKept DEF Sound, StoreTypes, RunTypes, Window, Span
<1>2. SUFFICES /\ at' # "idle" => my'.mode = mode
               /\ at' \in Reading => Good(my'.sec, a, n, t)
               /\ at' = "server" => Good(plan'.sec, a, n, t)
               /\ at' \in Applying \/ (at' = "cred" /\ found') => Good(mat', a, n, t)
  BY <1>1, Zenon DEF Running, Good, Signed, Trusts, Reading, Applying
<1>3. CASE at' = "idle"
  BY <1>3 DEF Reading, Applying
<1>4. CASE UNCHANGED <<at, my, plan, mat, found>>
  BY <1>1, <1>4 DEF Running
<1>5. CASE Begin
  <2>1. my'.mode = mode /\ my'.sec = sec[mode] /\ at' \in {"provision", "issue", "load"}
    BY <1>1, <1>5 DEF Begin, Step, Modes
  <2> QED BY <1>1, <2>1 DEF Applying
<1>6. CASE WriteCA
  <2>1. /\ at = "provision" /\ at' = "server" /\ my' = my /\ plan' = PlanSelfManagedTLS(my.ca, my.sec)
    BY <1>6 DEF WriteCA, Step
  <2>2. Good(my.sec, a, n, t) /\ my.mode = mode /\ mode = "self"
    BY <1>1, <2>1 DEF Running, StageOfMode, Reading
  <2>3. my.ca = ca /\ Rolling(a, n, t) /\ Span(t)
    BY <2>1, <2>2 DEF Window, Rolling
  <2>4. Good(plan'.sec, a, n, t)
    BY <1>1, <2>1, <2>2, <2>3, RollingPlan
  <2> QED BY <2>1, <2>2, <2>4 DEF Reading, Applying
<1>7. CASE WriteServer
  <2>1. at = "server" /\ at' = "load" /\ my' = my
    BY <1>7 DEF WriteServer, Step
  <2> QED BY <1>1, <2>1 DEF Running, Reading, Applying
<1>8. CASE ReconcileCertificate
  <2>1. at = "issue" /\ my' = my /\ my.mode = "issuer"
    BY <1>1, <1>8 DEF ReconcileCertificate, StageOfMode
  <2>2. mode = "issuer" /\ sec["issuer"] # NoSecret
    BY <1>1, <2>1, EmptyTyped DEF Running, Good, Signed
  <2>3. at' = "load"
    BY <1>8, <2>2 DEF ReconcileCertificate, Step
  <2> QED BY <1>1, <2>1, <2>3 DEF Running, Reading, Applying
<1>9. CASE LoadTLSMaterial
  <2>1. at = "load" /\ my.mode = mode /\ my'.mode = mode /\ Good(my.sec, a, n, t)
    BY <1>1, <1>9 DEF LoadTLSMaterial, NoRead, Running, Reading
  <2>2. PICK s \in {my.sec, sec[mode]} :
          /\ mat' = IF Verifies(s.leaf, s.bundle) THEN s ELSE NoSecret
          /\ at' = IF mat' = NoSecret THEN "cred" ELSE "sts"
    BY <1>9, <2>1 DEF LoadTLSMaterial, Step
  <2>3. s \in Secrets /\ Good(s, a, n, t)
    BY <1>1, <2>1
  <2>4. Verifies(s.leaf, s.bundle)
    BY <1>1, <2>3, SignedVerifies DEF Good, Secrets
  <2>5. mat' = s /\ at' = "sts"
    BY <2>2, <2>3, <2>4, EmptyTyped DEF Good, Signed
  <2> QED BY <2>1, <2>3, <2>5 DEF Reading
<1>10. CASE ReconcileStatefulSetTLS \/ CleanupTLSResources
  <2>1. at \in {"sts", "cleanup"} /\ at' \in {"cleanup", "probe", "cred"} /\ UNCHANGED <<my, mat>>
    BY <1>10 DEF ReconcileStatefulSetTLS, CleanupTLSResources, Step, local
  <2> QED BY <1>1, <2>1 DEF Running, Reading, Applying
<1>11. CASE ProbeFails \/ ProbeCurrent \/ ProbeUnverified \/ ProbeOutdated
  <2>1. at = "probe" /\ at' = "cred" /\ UNCHANGED <<my, mat>>
    BY <1>11 DEF ProbeFails, ProbeCurrent, ProbeUnverified, ProbeOutdated, Probing, Step, AtProbe
  <2> QED BY <1>1, <2>1 DEF Running, Reading, Applying
<1>12. CASE ConvergeSecretConnectionInfo
  <2>1. at = "cred" /\ at' = "status" /\ UNCHANGED my
    BY <1>12 DEF ConvergeSecretConnectionInfo, Step, local
  <2> QED BY <1>1, <2>1 DEF Running, Reading, Applying
<1> QED
  BY <1>3, <1>4, <1>5, <1>6, <1>7, <1>8, <1>9, <1>10, <1>11, <1>12, Zenon
  DEF TLSNext, ReconcileTLS, Provision, Apply, Users, Others, WriteConflict, UpdateStatusTLS, SetMode, ReplaceUserSecret, LoseCA,
      IssueCertificate, StopPod, StartPod, SyncMount, ReadCredentials, Evict, FailTLS, Tick, Step, local

\* The CA Secret moves from a to n at most, and a reconcile for this mode reads
\* it afresh.
LEMMA RollingKept ==
  ASSUME Sound, TLSNext, smooth', mode = "self", NEW a \in CAs, NEW n \in CAs, NEW t \in Int, Window(a, n, t)
  PROVE  Rolling(a, n, t)'
<1>1. /\ mode \in Modes /\ Rolling(a, n, t) /\ Running(a, n, t) /\ Span(t)
      /\ my \in [mode : Modes, ca : CASecrets, sec : Secrets]
  BY DEF Sound, StoreTypes, RunTypes, Window
<1>2. SUFFICES /\ Trusts(ca'.bundle, a, n)
               /\ (ca'.active = a /\ (n # NoCA => ca'.next = n)) \/ (n # NoCA /\ ca'.active = n)
               /\ at' = "provision" => my'.ca = ca'
  BY <1>1, Zenon DEF Rolling, Trusts
<1>3. CASE WriteCA
  <2>1. /\ at = "provision" /\ at' = "server"
        /\ ca' = IF PlanSelfManagedTLS(my.ca, my.sec).ca = my.ca THEN ca ELSE PlanSelfManagedTLS(my.ca, my.sec).ca
    BY <1>3 DEF WriteCA, Step
  <2>2. my.ca = ca /\ Good(my.sec, a, n, t) /\ my.sec \in Secrets
    BY <1>1, <2>1 DEF Rolling, Running, Reading
  <2>3. ca' = PlanSelfManagedTLS(ca, my.sec).ca
    BY <2>1, <2>2
  <2> QED BY <1>1, <2>1, <2>2, <2>3, RollingPlan
<1>4. ca' = ca \/ WriteCA
  <2>1. CleanupTLSResources => my.mode = "self"
    BY <1>1 DEF CleanupTLSResources, Running
  <2> QED
    BY <2>1, ModeKept, Zenon
    DEF TLSNext, ReconcileTLS, Provision, Apply, Users, Others, Begin, WriteServer, WriteConflict, ReconcileCertificate,
        LoadTLSMaterial, ReconcileStatefulSetTLS, CleanupTLSResources, ProbeFails, ProbeCurrent, ProbeUnverified, ProbeOutdated,
        ConvergeSecretConnectionInfo, UpdateStatusTLS, SetMode, ReplaceUserSecret, IssueCertificate, StopPod, StartPod,
        SyncMount, ReadCredentials, Evict, FailTLS, Tick, StoreOnly, AtProbe, store
<1>5. at' = "provision" => my'.ca = ca \/ (at = "provision" /\ my' = my)
  <2>1. Begin => my'.ca = ca
    BY DEF Begin
  <2> QED
    BY <2>1, Zenon
    DEF TLSNext, ReconcileTLS, Provision, Apply, Users, Others, WriteCA, WriteServer, WriteConflict, ReconcileCertificate,
        LoadTLSMaterial, ReconcileStatefulSetTLS, CleanupTLSResources, Probing, ProbeFails, ProbeCurrent, ProbeUnverified,
        ProbeOutdated, ConvergeSecretConnectionInfo, UpdateStatusTLS, SetMode, ReplaceUserSecret, LoseCA, IssueCertificate,
        StopPod, StartPod, SyncMount, ReadCredentials, Evict, FailTLS, Tick, Step, local
<1> QED BY <1>1, <1>3, <1>4, <1>5 DEF Rolling

\* Without TLS clients are never told to verify the server.
LEMMA OffKept ==
  ASSUME Sound, TLSNext, smooth', mode = "off", cred.mode # "verify", client.mode # "verify", at # "idle" => my.mode = "off"
  PROVE  cred'.mode # "verify" /\ client'.mode # "verify" /\ (at' # "idle" => my'.mode = "off") /\ mode' = "off"
<1>1. mode' = "off"
  BY ModeKept
<1>2. cred'.mode # "verify" /\ client'.mode # "verify"
  BY TLSChanges DEF ConvergeSecretConnectionInfo, ClientTLS
<1>3. at' # "idle" => Begin \/ LoadTLSMaterial \/ (my' = my /\ at # "idle")
  BY Zenon
  DEF TLSNext, ReconcileTLS, Provision, Apply, Users, Others, WriteCA, WriteServer, WriteConflict, ReconcileCertificate,
      ReconcileStatefulSetTLS, CleanupTLSResources, Probing, ProbeFails, ProbeCurrent, ProbeUnverified, ProbeOutdated,
      ConvergeSecretConnectionInfo, UpdateStatusTLS, SetMode, ReplaceUserSecret, LoseCA, IssueCertificate, StopPod, StartPod,
      SyncMount, ReadCredentials, Evict, FailTLS, Tick, Step, AtProbe, local
<1>4. LoadTLSMaterial => my'.mode = my.mode /\ at # "idle"
  BY DEF LoadTLSMaterial, NoRead
<1>5. Begin => my'.mode = mode
  BY DEF Begin
<1> QED BY <1>1, <1>2, <1>3, <1>4, <1>5

-----------------------------------------------------------------------------
(* ServerTLS: the theorems. *)

LEMMA NextBridged == TLSIInv /\ [TLSNext]_tlsvars => Bridged'
<1>1. ASSUME TLSIInv, UNCHANGED tlsvars PROVE Bridged'
  <2>1. UNCHANGED <<now, mode, ca, sec, tmpl, pod, mount, cred, client, at, my, plan, mat, found, missed, smooth>>
    BY <1>1 DEF tlsvars, store, local, ghosts
  <2>2. ASSUME NEW a \in CAs, NEW n \in CAs, NEW t \in Int, Window(a, n, t) PROVE Window(a, n, t)'
    <3>1. Span(t)' /\ Good(sec[mode], a, n, t)'
      BY <2>1, <2>2 DEF Window, Span, Good, Signed, Trusts
    <3>2. Serving(a, n, t)'
      BY <2>1, <2>2 DEF Window, Serving, Signed, Trusts
    <3>3. Running(a, n, t)'
      BY <2>1, <2>2 DEF Window, Running, Good, Signed, Trusts, Reading, Applying
    <3>4. mode' = "self" => Rolling(a, n, t)'
      BY <2>1, <2>2 DEF Window, Rolling, Trusts
    <3> QED BY <3>1, <3>2, <3>3, <3>4 DEF Window
  <2> QED BY <1>1, <2>1, <2>2 DEF TLSIInv, Bridged
<1>2. ASSUME TLSIInv, TLSNext, smooth' PROVE Bridged'
  <2>1. Sound /\ mode \in Modes /\ UNCHANGED mode
    BY <1>2, ModeKept DEF TLSIInv, Sound, StoreTypes
  <2>2. CASE Tick /\ TLSSettled
    <3>1. CASE mode = "off"
      <4>1. client.mode = "disable" /\ cred = client /\ UNCHANGED <<cred, client>> /\ at' = "idle"
        BY <2>2, <3>1, Zenon DEF Tick, TLSSettled, Converged
      <4> QED BY <2>1, <3>1, <4>1 DEF Bridged
    <3>2. CASE mode # "off"
      BY <2>1, <2>2, <3>2, WindowOpens DEF Bridged
    <3> QED BY <3>1, <3>2
  <2>3. CASE ~(Tick /\ TLSSettled)
    <3>1. smooth
      BY <1>2, <2>3, Zenon
      DEF TLSNext, ReconcileTLS, Provision, Apply, Users, Others, Begin, WriteCA, WriteServer, WriteConflict,
          ReconcileCertificate, LoadTLSMaterial, ReconcileStatefulSetTLS, CleanupTLSResources, ProbeFails, ProbeCurrent,
          ProbeUnverified, ProbeOutdated, ConvergeSecretConnectionInfo, UpdateStatusTLS, SetMode, ReplaceUserSecret, LoseCA,
          IssueCertificate, StopPod, StartPod, SyncMount, ReadCredentials, Evict, FailTLS, Tick, Change, StoreOnly, AtProbe,
          ghosts
    <3>2. CASE mode = "off"
      BY <1>2, <2>1, <3>1, <3>2, OffKept DEF Bridged, TLSIInv
    <3>3. CASE mode # "off"
      <4>1. PICK a \in CAs, n \in CAs, t \in Int : Window(a, n, t)
        BY <1>2, <3>1, <3>3 DEF TLSIInv, Bridged
      <4>2. Span(t)' /\ Good(sec[mode], a, n, t)' /\ Serving(a, n, t)' /\ Running(a, n, t)'
        <5>1. Span(t)
          BY <4>1 DEF Window
        <5>2. Span(t)' /\ Serving(a, n, t)' /\ Running(a, n, t)'
          BY <1>2, <2>1, <2>3, <3>3, <4>1, <5>1, SpanKept, ServingKept, RunningKept
        <5>3. Good(sec'[mode], a, n, t)
          BY <1>2, <2>1, <3>3, <4>1, SecretKept
        <5> QED BY <2>1, <5>2, <5>3 DEF Good, Signed, Trusts
      <4>3. mode = "self" => Rolling(a, n, t)'
        BY <1>2, <2>1, <4>1, RollingKept
      <4>4. Window(a, n, t)'
        BY <2>1, <4>2, <4>3 DEF Window
      <4> QED BY <2>1, <3>3, <4>4 DEF Bridged
    <3> QED BY <3>2, <3>3
  <2> QED BY <2>2, <2>3
<1>3. ASSUME ~smooth' PROVE Bridged'
  BY <1>3, Zenon DEF Bridged
<1> QED BY <1>1, <1>2, <1>3

LEMMA TLSInductive == TLSSpec => []TLSIInv
<1>1. TLSInit => TLSIInv
  BY InitSound, Zenon DEF TLSInit, TLSIInv, Bridged
<1>2. TLSIInv /\ [TLSNext]_tlsvars => TLSIInv'
  BY NextSound, NextBridged DEF TLSIInv
<1> QED BY <1>1, <1>2, PTL DEF TLSSpec

\* The state is well formed, the template mounts a Secret that exists, and the
\* CA of the server certificate is on record as long as users leave it alone.
THEOREM SecretsHoldTogether == TLSSpec => []TLSInv
<1>1. TLSIInv => TLSInv
  <2>1. SUFFICES ASSUME TLSIInv PROVE TLSInv
    OBVIOUS
  <2>2. TLSTypeOK /\ MountedSecretExists
    <3>1. DOMAIN sec = Modes \ {"off"}
      BY <2>1 DEF TLSIInv, Sound, StoreTypes
    <3> QED BY <2>1, <3>1, TLSTypeParts DEF TLSIInv, Sound, Kept, Stored, MountedSecretExists
  <2>3. IssuedByKnownCA
    <3>1. SUFFICES ASSUME smooth, mode = "self" PROVE \E c \in ca.bundle : c.id = sec["self"].leaf.id
      BY DEF IssuedByKnownCA
    <3>2. PICK a \in CAs, n \in CAs, t \in Int : Window(a, n, t)
      BY <2>1, <3>1 DEF TLSIInv, Bridged
    <3> QED BY <3>1, <3>2 DEF Window, Good, Signed, Rolling, Trusts
  <2> QED BY <2>2, <2>3 DEF TLSInv
<1> QED BY <1>1, TLSInductive, PTL

\* A client that was told to verify the server accepts the certificate that the
\* pod presents, for every policy that satisfies PolicyAssumption.
THEOREM ClientsAlwaysVerify == TLSSpec => []ClientsVerify
<1>1. TLSIInv => ClientsVerify
  <2>1. SUFFICES ASSUME TLSIInv, smooth, pod.up, client.mode = "verify" PROVE Verifies(pod.leaf, client.ca)
    BY DEF ClientsVerify
  <2>2. mode # "off"
    BY <2>1 DEF TLSIInv, Bridged
  <2>3. PICK a \in CAs, n \in CAs, t \in Int : Window(a, n, t)
    BY <2>1, <2>2 DEF TLSIInv, Bridged
  <2>4. Signed(pod.leaf, a, n, t) /\ Trusts(client.ca, a, n) /\ now <= t + 2
    BY <2>1, <2>3 DEF Window, Serving, Span
  <2>5. now \in 0..MaxTime /\ pod.leaf \in CAs /\ client.ca \in SUBSET CAs
    BY <2>1 DEF TLSIInv, Sound, StoreTypes, PodTypes, ClientTypes
  <2> QED BY <2>4, <2>5, SignedVerifies
<1> QED BY <1>1, TLSInductive, PTL

\* Neither a renewal nor a rotation of the CA asks for a restart of the pod.
THEOREM RotationsReload == TLSSpec => RotationReloads
<1>1. TLSIInv /\ [TLSNext]_tlsvars => [smooth => tmpl'.restart = tmpl.restart]_tlsvars
  <2>1. SUFFICES ASSUME TLSIInv, TLSNext, smooth PROVE tmpl'.restart = tmpl.restart
    BY Zenon
  <2>2. CASE ProbeUnverified
    <3>1. smooth' /\ at = "probe" /\ at # "idle"
      BY <2>1, <2>2, Zenon DEF ProbeUnverified, Probing, AtProbe, ghosts
    <3>2. mode # "off"
      BY <2>1, <3>1 DEF TLSIInv, Sound, StageOfMode, Bridged
    <3>3. PICK a \in CAs, n \in CAs, t \in Int : Window(a, n, t)
      BY <2>1, <3>2 DEF TLSIInv, Bridged
    <3> QED BY <2>1, <3>1, <3>2, <3>3, ServingKept DEF TLSIInv
  <2>3. CASE ReconcileStatefulSetTLS
    BY <2>1, <2>3 DEF ReconcileStatefulSetTLS, TLSIInv, Sound, PodTypes, PodTemplates
  <2> QED BY <2>1, <2>2, <2>3, TLSChanges
<1> QED BY <1>1, TLSInductive, PTL DEF TLSSpec, RotationReloads
=============================================================================
