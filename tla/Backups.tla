------------------------------- MODULE Backups -------------------------------
(***************************************************************************)
(* Physical backups of one Cluster.                                        *)
(*                                                                         *)
(* A physical Backup has two CronJobs (backup_controller.go,               *)
(* backup_physical.go); every Job they start is recorded as a BackupRun,   *)
(* which the BackupRun controller (backuprun_controller.go) follows until  *)
(* the Job ends, gives the location of the backup and deletes after its    *)
(* TTL.  The Cluster controller (archive_health.go) reports in the         *)
(* WALArchiving condition whether WAL reaches the repository: dropped WAL  *)
(* is a gap that only a backup started after the drop closes.              *)
(*                                                                         *)
(* Three reconcilers run at once; the pass of the Backup controller reads  *)
(* first and writes later, and Jobs, the archiver and the user move on in  *)
(* between.  A crash of the operator ends that pass.                       *)
(***************************************************************************)
EXTENDS Faults, Sequences, FiniteSets

CONSTANTS
  FullJobs,         \* the Jobs of the full backup's CronJob
  IncrementalJobs,  \* the Jobs of the incremental backup's CronJob
  BackoffLimit,     \* attempts of a Job that may fail and be tried again
  RunTTL,           \* spec.backupRunTTL, in ticks of the clock
  Looks,            \* how often the location of a finished backup is looked for
  MaxTime,          \* bound: the clock
  MaxDrops          \* bound: segments dropped

Jobs == FullJobs \cup IncrementalJobs

ASSUME JobsAssumption ==
  /\ FullJobs \cap IncrementalJobs = {}
  /\ IsFiniteSet(Jobs)
ASSUME LimitsAssumption ==
  /\ {RunTTL, MaxTime} \subseteq Nat \ {0}
  /\ {BackoffLimit, MaxDrops} \subseteq Nat
  /\ Looks \in Nat /\ MaxFaults < Looks

VARIABLES
  now,       \* the clock; objects carry times of this granularity
  spec,      \* the Backup: [ver |-> generation, valid |-> usable by pgBackRest]
  cron,      \* the generation each CronJob was written for, 0 without CronJob
  job,       \* Job -> [st, fails, start, done, seen]
  run,       \* Job -> the BackupRun named after it
  drops,     \* the marker file: times of dropped segments, in order
  archiver,  \* what pg_stat_archiver shows
  health,    \* the Cluster's status: [cond, at, closed] (see HealthCheck)
  status,    \* the Backup's status: [avail, last]
  bp,        \* the pass of the Backup controller
  known,     \* history: segments in the marker when the condition was decided
  covered    \* history: segments dropped before a backup that succeeded began

kube == <<cron, job, run>>
wal == <<drops, archiver>>
vars == <<now, spec, cron, job, run, drops, archiver, health, status,
          bp, known, covered, faults>>

Types == {"full", "incremental"}
TypeOf(j) == IF j \in FullJobs THEN "full" ELSE "incremental"
Times == 0 .. MaxTime      \* 0: no time
Conds == {"none", "True", "Failing", "NoWAL", "Dropped", "Unknown"}
Terminal == {"Succeeded", "Failed"}

NoJob == [st |-> "none", fails |-> 0, start |-> 0, done |-> 0, seen |-> 0]
NoRun == [st |-> "none", named |-> FALSE, phase |-> "", start |-> 0,
          done |-> 0, loc |-> FALSE, looks |-> 0]
Idle == [pc |-> "idle"]

Max2(a, b) == IF a > b THEN a ELSE b

Init ==
  /\ now = 1 /\ faults = 0
  /\ spec = [ver |-> 1, valid |-> TRUE]
  /\ cron = [t \in Types |-> 0]
  /\ job = [j \in Jobs |-> NoJob]
  /\ run = [j \in Jobs |-> NoRun]
  /\ drops = <<>> /\ archiver = "none"
  /\ health = [cond |-> "none", at |-> 0, closed |-> FALSE]
  /\ status = [avail |-> "none", last |-> [t \in Types |-> 0]]
  /\ bp = Idle
  /\ known = 0 /\ covered = 0

(***************************************************************************)
(* The Jobs of the CronJobs, and the archiver.                             *)
(***************************************************************************)

\* The CronJob (or somebody, by hand from it) starts a Job; a CronJob never
\* starts one while another of it runs (ForbidConcurrent).
JobStarts(j) ==
  /\ job[j].st = "none" /\ cron[TypeOf(j)] # 0
  /\ \A k \in Jobs : TypeOf(k) = TypeOf(j) => job[k].st # "active"
  /\ job' = [job EXCEPT ![j] =
        [NoJob EXCEPT !.st = "active", !.start = now, !.seen = Len(drops)]]
  /\ UNCHANGED <<now, spec, cron, run, wal, health, status, bp,
                 known, covered, faults>>

\* Mutant: one attempt too many.
AttemptFailsOnce(j) ==
  /\ job[j].st = "active"
  /\ job' = [job EXCEPT
        ![j].st = IF job[j].fails <= BackoffLimit THEN "active" ELSE "failed",
        ![j].fails = @ + 1, ![j].seen = Len(drops)]
  /\ UNCHANGED <<now, spec, cron, run, wal, health, status, bp,
                 known, covered, faults>>

\* An attempt fails: the Job tries again in a new pod until the limit.
AttemptFails(j) ==
  /\ job[j].st = "active"
  /\ job' = [job EXCEPT
        ![j].st = IF job[j].fails < BackoffLimit THEN "active" ELSE "failed",
        ![j].fails = @ + 1,
        ![j].seen = IF job[j].fails < BackoffLimit THEN Len(drops) ELSE 0]
  /\ UNCHANGED <<now, spec, cron, run, wal, health, status, bp,
                 known, covered, faults>>

JobSucceeds(j) ==
  /\ job[j].st = "active"
  /\ job' = [job EXCEPT ![j].st = "succeeded", ![j].done = now, ![j].seen = 0]
  /\ covered' = Max2(covered, job[j].seen)
  /\ UNCHANGED <<now, spec, cron, run, wal, health, status, bp,
                 known, faults>>

\* ttlSecondsAfterFinished, or somebody: a finished Job goes with its pods.
JobCollected(j) ==
  /\ job[j].st \in {"succeeded", "failed"}
  /\ job' = [job EXCEPT ![j] = [NoJob EXCEPT !.st = "gone"]]
  /\ UNCHANGED <<now, spec, cron, run, wal, health, status, bp,
                 known, covered, faults>>

ArchivingFails ==
  /\ archiver # "failing" /\ Len(drops) < MaxDrops
  /\ archiver' = "failing"
  /\ UNCHANGED <<now, spec, kube, drops, health, status, bp, known, covered, faults>>

\* A first segment is archived.
ArchivingWorks ==
  /\ archiver = "none"
  /\ archiver' = "archiving"
  /\ UNCHANGED <<now, spec, kube, drops, health, status, bp, known, covered, faults>>

\* archive_command with the queue full: pgBackRest drops the segment and
\* reports success, and only the marker file tells.
QueueFull ==
  /\ archiver = "failing"
  /\ archiver' = "archiving"
  /\ drops' = Append(drops, now)
  /\ UNCHANGED <<now, spec, kube, health, status, bp, known, covered, faults>>

Tick ==
  /\ now < MaxTime
  /\ now' = now + 1
  /\ UNCHANGED <<spec, kube, wal, health, status, bp, known, covered, faults>>

\* The user edits the Backup; pgBackRest may or may not be able to use it.
EditBackup(valid) ==
  /\ spec.ver <= MaxEdits
  /\ spec' = [ver |-> spec.ver + 1, valid |-> valid]
  /\ UNCHANGED <<now, kube, wal, health, status, bp, known, covered, faults>>

(***************************************************************************)
(* The Backup controller.                                                  *)
(***************************************************************************)

\* Mutant: an existing CronJob is left as it is.
CreateCronJobs(done) ==
  cron' = [t \in Types |-> IF t \in done /\ cron[t] = 0 THEN spec.ver ELSE cron[t]]

\* applyCronJob: created, or converged onto the generation's spec.  The
\* incremental one comes second and may be left out by a failure.
ApplyCronJobs(done) ==
  cron' = [t \in Types |-> IF t \in done THEN spec.ver ELSE cron[t]]

\* Mutant: every Job without a run gets one.
NeverExpired(j) == FALSE

\* Its record would expire right away: the Job completed a TTL ago.
Expired(j) == job[j].done # 0 /\ now - job[j].done >= RunTTL

\* ensureBackupRun: a Job without BackupRun gets one.
Unrecorded(j) == job[j].st \notin {"none", "gone"} /\ run[j].st # "exists" /\ ~Expired(j)

\* recordPhysicalRuns: the latest completion of each type among the Jobs.
LastTimes(last) ==
  [t \in Types |->
     CHOOSE m \in {last[t]} \cup {job[j].done : j \in {k \in Jobs :
                         TypeOf(k) = t /\ job[k].st = "succeeded"}} :
       \A j \in Jobs : /\ m >= last[t]
                       /\ TypeOf(j) = t /\ job[j].st = "succeeded" => m >= job[j].done]

CreateRuns(js) ==
  run' = [j \in Jobs |-> IF j \in js THEN [NoRun EXCEPT !.st = "exists"] ELSE run[j]]

\* reconcilePhysicalBackup up to the Create of the BackupRuns:
\* the CronJobs, and the runs to create and to name.  A pass that
\* finds nothing to write is left out.
ReconcileValid ==
  /\ bp.pc = "idle" /\ spec.valid
  /\ LET new == {j \in Jobs : Unrecorded(j)}
         unnamed == {j \in Jobs : job[j].st \notin {"none", "gone"}
                                  /\ run[j].st = "exists" /\ ~run[j].named}
         st == [avail |-> "Scheduled", last |-> LastTimes(status.last)]
     IN /\ ApplyCronJobs(Types)
        /\ CreateRuns(new)
        /\ new \cup unnamed # {} \/ st # status \/ cron' # cron
        /\ bp' = [pc |-> "name", ver |-> spec.ver, todo |-> new \cup unnamed, st |-> st]
  /\ UNCHANGED <<now, spec, job, wal, health, status, known, covered, faults>>

\* The write of the second CronJob fails; the error is reported and the pass
\* comes again.
ReconcileFails ==
  /\ bp.pc = "idle" /\ spec.valid /\ faults < MaxFaults
  /\ ApplyCronJobs({"full"})
  /\ bp' = [pc |-> "name", ver |-> spec.ver, todo |-> {},
            st |-> [status EXCEPT !.avail = "Error"]]
  /\ faults' = faults + 1
  /\ UNCHANGED <<now, spec, job, run, wal, health, status, known, covered>>

\* An invalid Backup is reported and nothing else is touched.
ReconcileInvalid ==
  /\ bp.pc = "idle" /\ ~spec.valid /\ status.avail # "Invalid"
  /\ bp' = [pc |-> "name", ver |-> spec.ver, todo |-> {},
            st |-> [status EXCEPT !.avail = "Invalid"]]
  /\ UNCHANGED <<now, spec, kube, wal, health, status, known, covered, faults>>

\* setBackupRunJob: merge patches, which conflict with nobody (a run deleted
\* meanwhile is an error).  Then the status, lost when the Backup was edited.
NameRuns ==
  /\ bp.pc = "name"
  /\ run' = [j \in Jobs |-> IF j \in bp.todo /\ run[j].st = "exists"
                            THEN [run[j] EXCEPT !.named = TRUE] ELSE run[j]]
  /\ status' = IF bp.ver = spec.ver THEN bp.st ELSE status
  /\ bp' = Idle
  /\ UNCHANGED <<now, spec, cron, job, wal, health, known, covered, faults>>

(***************************************************************************)
(* The BackupRun controller.  A pass writes the status with the version of *)
(* the run it read: it takes effect as a whole or, when anything changed   *)
(* the run meanwhile, not at all.                                          *)
(***************************************************************************)

\* Mutant: the start is only copied while the Job runs.
SyncActiveStart(r, b) ==
  LET s == IF r.start = 0 /\ b.st = "active" THEN [r EXCEPT !.start = b.start] ELSE r
  IN IF r.phase \in Terminal THEN s
     ELSE IF b.st = "succeeded" THEN [s EXCEPT !.phase = "Succeeded", !.done = now]
     ELSE IF b.fails > 0 THEN [s EXCEPT !.phase = "Failed", !.done = now]
     ELSE [s EXCEPT !.phase = "Running"]

\* syncFromJob: the start, and the phase, once and for all when it is
\* terminal.  A first failed attempt already makes the run Failed.
SyncFromJob(r, b) ==
  LET s == IF r.start = 0 THEN [r EXCEPT !.start = b.start] ELSE r
  IN IF r.phase \in Terminal THEN s
     ELSE IF b.st = "succeeded" THEN [s EXCEPT !.phase = "Succeeded", !.done = now]
     ELSE IF b.fails > 0 THEN [s EXCEPT !.phase = "Failed", !.done = now]
     ELSE [s EXCEPT !.phase = "Running"]

\* recordLocation: the pod's termination message, if it can be read.
RecordLocation(r, b, readable) ==
  IF b.st = "succeeded" /\ readable THEN [r EXCEPT !.loc = TRUE] ELSE r

\* A read may fail.
Readable(ok) == (~ok => faults < MaxFaults) /\ faults' = IF ok THEN faults ELSE faults + 1

HasJob(j) == run[j].named /\ job[j].st # "gone"

\* Mutant: the location is only looked for when the Job ends.
NeverLate(j) == FALSE

\* recordLateLocation applies: completed, and the location not known yet.
Late(j) == /\ run[j].phase = "Succeeded" /\ ~run[j].loc
           /\ HasJob(j) /\ run[j].looks < Looks

\* A pass over a run that has not completed.
SyncRun(j, ok) ==
  /\ run[j].st = "exists" /\ run[j].phase \notin Terminal
  /\ HasJob(j) \/ run[j].phase = ""
  /\ Readable(ok)
  /\ run' = [run EXCEPT ![j] =
        IF HasJob(j) THEN RecordLocation(SyncFromJob(@, job[j]), job[j], ok)
                     ELSE [@ EXCEPT !.phase = "Pending"]]
  /\ UNCHANGED <<now, spec, cron, job, wal, health, status, bp, known, covered>>

\* Another look at the pods of a finished backup, five seconds later.
LookAgain(j, ok) ==
  /\ run[j].st = "exists" /\ Late(j)
  /\ Readable(ok)
  /\ run' = [run EXCEPT ![j] = [RecordLocation(run[j], job[j], ok) EXCEPT !.looks = @ + 1]]
  /\ UNCHANGED <<now, spec, cron, job, wal, health, status, bp, known, covered>>

\* The TTL after completion has passed: the record is deleted.
ExpireRun(j) ==
  /\ run[j].st = "exists" /\ run[j].phase \in Terminal /\ ~Late(j)
  /\ now - run[j].done >= RunTTL
  /\ run' = [run EXCEPT ![j] = [NoRun EXCEPT !.st = "deleted"]]
  /\ UNCHANGED <<now, spec, cron, job, wal, health, status, bp,
                 known, covered, faults>>

(***************************************************************************)
(* The Cluster controller: the WALArchiving condition.                     *)
(***************************************************************************)

\* archivingCondition: what pg_stat_archiver shows.
ArchivingCondition(stats) ==
  CASE stats = "failing" -> "Failing"
    [] stats = "none" -> "NoWAL"
    [] stats = "archiving" -> "True"

\* Mutant: a newer drop of a closed gap stays closed.
RecordDropOnce(h, marker) ==
  LET newest == IF marker = <<>> THEN 0 ELSE marker[Len(marker)]
  IN IF newest > h.at THEN [h EXCEPT !.at = newest] ELSE h

\* recordWALDrop: a newer drop replaces the recorded one and is not closed.
RecordDrop(h, marker) ==
  LET newest == IF marker = <<>> THEN 0 ELSE marker[Len(marker)]
  IN IF newest > h.at THEN [h EXCEPT !.at = newest, !.closed = FALSE] ELSE h

\* backupStartedAfter: a successful run that started after the drop.
BackupStartedAfter(t) ==
  \E j \in Jobs : /\ run[j].st = "exists" /\ run[j].phase = "Succeeded"
                  /\ run[j].start > t

\* reconcileArchiveHealth: the statistics, the marker and, while a drop is
\* open, the runs; listing them may fail.  The drop stays reported until a
\* backup closes it.
HealthCheck(listed) ==
  /\ spec.valid /\ Readable(listed)
  /\ LET h == RecordDrop(health, drops)
         open == h.at # 0 /\ ~h.closed
         closing == open /\ BackupStartedAfter(h.at)
     IN /\ listed \/ open
        /\ health' = [at |-> h.at, closed |-> h.closed \/ (closing /\ listed),
                      cond |-> IF ~listed THEN "Unknown"
                               ELSE IF open /\ ~closing THEN "Dropped"
                               ELSE ArchivingCondition(archiver)]
  /\ known' = Len(drops)
  /\ UNCHANGED <<now, spec, kube, wal, status, bp, covered>>

\* Without a usable Backup the condition is removed; the drop is remembered.
HealthRemove ==
  /\ ~spec.valid /\ health.cond # "none"
  /\ health' = [health EXCEPT !.cond = "none"]
  /\ UNCHANGED <<now, spec, kube, wal, status, bp, known, covered, faults>>

\* The operator dies and comes back: the pass is lost.
Crash ==
  /\ faults < MaxFaults /\ faults' = faults + 1
  /\ bp # Idle
  /\ bp' = Idle
  /\ UNCHANGED <<now, spec, kube, wal, health, status, known, covered>>

------------------------------------------------------------------------------

BackupStep == ReconcileValid \/ ReconcileFails \/ ReconcileInvalid \/ NameRuns
RunStep(j) == ExpireRun(j) \/ \E ok \in BOOLEAN : SyncRun(j, ok) \/ LookAgain(j, ok)
HealthStep == HealthRemove \/ \E listed \in BOOLEAN : HealthCheck(listed)

Next ==
  \/ \E j \in Jobs : \/ JobStarts(j) \/ AttemptFails(j) \/ JobSucceeds(j)
                     \/ JobCollected(j) \/ RunStep(j)
  \/ ArchivingFails \/ ArchivingWorks \/ QueueFull
  \/ Tick \/ \E valid \in BOOLEAN : EditBackup(valid)
  \/ BackupStep \/ HealthStep \/ Crash

Spec == Init /\ [][Next]_vars

\* The reconcilers come back every minute or with every event, and their
\* passes end; nothing is asked of Jobs, of users or of the clock.
Fairness ==
  /\ WF_vars(ReconcileValid \/ ReconcileInvalid) /\ WF_vars(NameRuns)
  /\ \A j \in Jobs : WF_vars(\E ok \in BOOLEAN : SyncRun(j, ok) \/ LookAgain(j, ok))
  /\ WF_vars(HealthCheck(TRUE) \/ HealthRemove)

FairSpec == Spec /\ Fairness

------------------------------------------------------------------------------

\* The type invariant.
TypeOK ==
  /\ now \in 1 .. MaxTime /\ faults \in 0 .. MaxFaults
  /\ spec \in [ver : 1 .. MaxEdits + 1, valid : BOOLEAN]
  /\ cron \in [Types -> 0 .. MaxEdits + 1]
  /\ job \in [Jobs -> [st : {"none", "active", "succeeded", "failed", "gone"},
                       fails : 0 .. BackoffLimit + 1, start : Times, done : Times,
                       seen : 0 .. MaxDrops]]
  /\ run \in [Jobs -> [st : {"none", "exists", "deleted"}, named : BOOLEAN,
                       phase : {"", "Pending", "Running"} \cup Terminal,
                       start : Times, done : Times, loc : BOOLEAN, looks : 0 .. Looks]]
  /\ drops \in Seq(Times) /\ Len(drops) <= MaxDrops
  /\ archiver \in {"none", "archiving", "failing"}
  /\ health \in [cond : Conds, at : Times, closed : BOOLEAN]
  /\ status \in [avail : {"none", "Scheduled", "Invalid", "Error"}, last : [Types -> Times]]
  /\ bp.pc \in {"idle", "name"}
  /\ {known, covered} \subseteq 0 .. MaxDrops

\* A WAL gap is never hidden: when the WALArchiving condition is True, every
\* dropped segment the check saw was dropped before a backup that succeeded
\* began, so a backup exists from which recovery need not cross the gap.
GapReported == health.cond = "True" => covered >= known

\* The TTL ends a record for good: a BackupRun that was deleted is not made
\* again from its Job, which may outlive it.  (The Job of a failed attempt has
\* no completion time yet: its run comes back, see the README.)
NotRecreated ==
  [][\A j \in Jobs : run[j].st = "deleted" /\ job[j].fails = 0 => run'[j].st = "deleted"]_vars

\* The records tell what happened: in the end the run of a Job that succeeded
\* at once is Succeeded and has its location, and that of a Job that failed
\* is Failed, unless the record is, or would be, past its TTL.
RunTellsOutcome ==
  <>[](spec.valid => \A j \in Jobs :
         run[j].st = "deleted" \/ Expired(j)
         \/ /\ job[j].st = "succeeded" /\ job[j].fails = 0
                => run[j].phase = "Succeeded" /\ run[j].loc
            /\ job[j].st = "failed" => run[j].phase = "Failed")

\* The Backup's status catches up: scheduled in its latest generation, and
\* not behind any Job that still exists.
StatusSettles ==
  <>[](spec.valid =>
         /\ status.avail = "Scheduled"
         /\ \A t \in Types : cron[t] = spec.ver
         /\ \A j \in Jobs : job[j].st = "succeeded" => status.last[TypeOf(j)] >= job[j].done)

\* The latch opens again: while WAL is archived and the Job of a backup that
\* started after the last drop and succeeded at once is on record, the
\* condition ends up True.
GapCloses ==
  <>[](spec.valid /\ archiver = "archiving"
       /\ (drops = <<>> \/ \E j \in Jobs :
             /\ job[j].st = "succeeded" /\ job[j].fails = 0 /\ run[j].st = "exists"
             /\ job[j].start > drops[Len(drops)])
         => health.cond = "True")

\* The state is well-formed, and no gap in the archive is hidden.
BackupsInv == TypeOK /\ GapReported

\* The records of backups end up telling what happened, and stay so.
RunsSettle == NotRecreated /\ RunTellsOutcome /\ StatusSettles
==============================================================================
