------------------------ MODULE BackupRestoreProofs ------------------------
(***************************************************************************)
(* Proofs about Backups and about PhysicalRestore, for every set of Jobs   *)
(* and every bound on time, drops, edits and faults.                       *)
(*                                                                         *)
(* Backups: the state stays well formed, the WALArchiving condition hides  *)
(* no gap, and an expired record is not made again.                        *)
(*                                                                         *)
(* PhysicalRestore: the state stays well formed, whatever the caches lag,  *)
(* the controllers overlap and users do; and for a Restore that is         *)
(* Undisturbed the Cluster and a Job never run on the volume together, the *)
(* Cluster runs on fit volumes only, and a Job is created only for the     *)
(* Restore that holds the Cluster.                                         *)
(***************************************************************************)
EXTENDS Backups, PhysicalRestore, WellFoundedInduction, TLAPS

-----------------------------------------------------------------------------
(* The latest of a set of times.  LastTimes chooses it; that there is one is *)
(* the well-foundedness of the natural numbers.                            *)

\* The library's order relation on the natural numbers is <.
LEMMA LessThan == \A x, y \in Nat : <<y, x>> \in OpToRel(<, Nat) <=> y < x
  BY DEF OpToRel

\* A nonempty set of natural numbers has a least one.
LEMMA LeastExists ==
  ASSUME NEW S, S \subseteq Nat, S # {}
  PROVE  \E x \in S : \A y \in S : x <= y
<1>1. PICK x \in S : \A y \in S : ~(<<y, x>> \in OpToRel(<, Nat))
  BY WFMin, NatLessThanWellFounded, Zenon
<1>2. \A y \in S : ~(y < x)
  BY <1>1, LessThan, Zenon
<1>3. QED
  BY <1>2

\* A nonempty set of natural numbers with a bound has a greatest one.
LEMMA LatestExists ==
  ASSUME NEW n \in Nat, NEW S, S \subseteq 0 .. n, S # {}
  PROVE  \E x \in S : \A y \in S : y <= x
<1> DEFINE Below == {k \in Nat : \E s \in S : k = n - s}
<1>1. PICK s0 : s0 \in S
  OBVIOUS
<1>2. Below \subseteq Nat /\ n - s0 \in Below
  BY <1>1
<1>3. PICK x \in Below : \A y \in Below : x <= y
  BY <1>2, LeastExists
<1>4. PICK t \in S : x = n - t
  OBVIOUS
<1>5. ASSUME NEW s \in S PROVE s <= t
  <2>1. n - s \in Below
    OBVIOUS
  <2>2. x <= n - s
    BY <2>1, <1>3
  <2>3. s \in 0 .. n /\ t \in 0 .. n
    OBVIOUS
  <2> HIDE DEF Below
  <2>4. QED
    BY <2>2, <2>3, <1>4
<1>6. QED
  BY <1>5
-----------------------------------------------------------------------------
(* The inductive invariant. *)

JobStates == {"none", "active", "succeeded", "failed", "gone"}
JobRecords == [st : JobStates, fails : 0 .. BackoffLimit + 1, start : Times, done : Times,
               seen : 0 .. MaxDrops]
RunRecords == [st : {"none", "exists", "deleted"}, named : BOOLEAN,
               phase : {"", "Pending", "Running"} \cup Terminal,
               start : Times, done : Times, loc : BOOLEAN, looks : 0 .. Looks]
Statuses == [avail : {"none", "Scheduled", "Invalid", "Error"}, last : [Types -> Times]]

\* What a pass of the Backup controller carries from its reads to its writes.
Passes == [pc : {"name"}, ver : 1 .. MaxEdits + 1, todo : SUBSET Jobs, st : Statuses]
PassTyped == bp = Idle \/ bp \in Passes

\* The archiver fails only while a drop is within the bound.
RoomToDrop == archiver = "failing" => Len(drops) < MaxDrops

\* Times are of the past; a Job that was not started has none, and a run has
\* the start of its Job.
JobTimes ==
  \A j \in Jobs :
    /\ job[j].start <= now /\ job[j].done <= now /\ run[j].start <= now /\ run[j].done <= now
    /\ job[j].st = "none" => job[j].start = 0 /\ job[j].fails = 0 /\ run[j].start = 0
    /\ job[j].st \in {"none", "active"} => job[j].done = 0
    /\ job[j].st = "active" => job[j].fails <= BackoffLimit
    /\ job[j].st = "succeeded" => job[j].done # 0
    /\ job[j].st # "gone" => run[j].start \in {0, job[j].start}

\* Segments are dropped in the order of time.
DropsInOrder ==
  \A i \in 1 .. Len(drops) : drops[i] \in 1 .. now /\ drops[i] <= drops[Len(drops)]

\* Every segment dropped before t is among the first n.
DroppedBefore(t, n) == \A i \in 1 .. Len(drops) : drops[i] < t => i <= n

\* The attempt that may succeed began after every drop before the start of its
\* Job, and what succeeded covers them.
JobCovers ==
  \A j \in Jobs :
    /\ job[j].st = "active" => DroppedBefore(job[j].start, job[j].seen)
    /\ job[j].st = "succeeded" => DroppedBefore(job[j].start, covered)

\* A BackupRun that reads Succeeded covers every drop before its start.
RunCovers ==
  \A j \in Jobs : run[j].phase = "Succeeded" => DroppedBefore(run[j].start, covered)

\* A gap that was closed is covered, and a later drop has a later time.
ClosedCovers ==
  health.closed => health.at < now /\ DroppedBefore(health.at + 1, covered)

\* A record agrees with its Job while that exists, and what was deleted is past
\* its TTL.
RunAgrees ==
  \A j \in Jobs : job[j].st # "gone" =>
    /\ run[j].phase = "Succeeded" => job[j].st = "succeeded" /\ run[j].done >= job[j].done
    /\ run[j].phase = "Failed" => job[j].fails > 0
    /\ run[j].st = "deleted" /\ job[j].fails = 0 => Expired(j)

\* The inductive invariant: GapReported needs what a closed gap, a successful
\* run and a successful Job cover, and those need the times to be in order.
IInv ==
  /\ TypeOK /\ PassTyped /\ RoomToDrop /\ JobTimes /\ DropsInOrder
  /\ JobCovers /\ RunCovers /\ ClosedCovers /\ RunAgrees /\ GapReported
-----------------------------------------------------------------------------
(* Types. *)

\* The bounds are natural numbers.
LEMMA Bounds ==
  /\ BackoffLimit \in Nat /\ MaxTime \in Nat /\ 1 <= MaxTime /\ MaxDrops \in Nat /\ MaxEdits \in Nat
  /\ MaxFaults \in Nat /\ Looks \in Nat /\ RunTTL \in Nat /\ 0 \in Times
  BY BoundsAssumption, LimitsAssumption DEF Times

\* The types of the variables, by name.
JobTyped == job \in [Jobs -> JobRecords]
RunTyped == run \in [Jobs -> RunRecords]
HealthTyped == health \in [cond : Conds, at : Times, closed : BOOLEAN]
SpecTyped == spec \in [ver : 1 .. MaxEdits + 1, valid : BOOLEAN]
Rest ==
  /\ now \in 1 .. MaxTime /\ faults \in 0 .. MaxFaults
  /\ cron \in [Types -> 0 .. MaxEdits + 1]
  /\ drops \in Seq(Times) /\ Len(drops) <= MaxDrops
  /\ archiver \in {"none", "archiving", "failing"}
  /\ status \in Statuses
  /\ known \in 0 .. MaxDrops /\ covered \in 0 .. MaxDrops

\* The parts are TypeOK.
LEMMA TypeParts ==
  TypeOK /\ PassTyped <=> JobTyped /\ RunTyped /\ HealthTyped /\ SpecTyped /\ Rest /\ PassTyped
<1>1. PassTyped => bp.pc \in {"idle", "name"}
  BY DEF PassTyped, Passes, Idle
<1>2. QED
  BY <1>1 DEF TypeOK, JobTyped, RunTyped, HealthTyped, SpecTyped, Rest, JobRecords, RunRecords,
     Statuses, JobStates

\* The records written by the operations on Jobs.
LEMMA JobRecordWrites ==
  ASSUME NEW r \in JobRecords, NEW t \in Times, NEW n \in 0 .. MaxDrops
  PROVE  /\ NoJob \in JobRecords
         /\ [NoJob EXCEPT !.st = "active", !.start = t, !.seen = n] \in JobRecords
         /\ [NoJob EXCEPT !.st = "gone"] \in JobRecords
         /\ [r EXCEPT !.st = "succeeded", !.done = t, !.seen = 0] \in JobRecords
         /\ r.fails <= BackoffLimit =>
              \A s \in JobStates : [r EXCEPT !.st = s, !.fails = @ + 1, !.seen = n] \in JobRecords
<1>1. 0 \in Times /\ 0 \in 0 .. MaxDrops /\ 0 \in 0 .. BackoffLimit + 1
  BY Bounds
<1>2. r.fails <= BackoffLimit => r.fails + 1 \in 0 .. BackoffLimit + 1
  BY Bounds DEF JobRecords
<1>3. QED
  BY <1>1, <1>2 DEF JobRecords, JobStates, NoJob

\* A new record, and what is left of a deleted one.
LEMMA NewRuns ==
  /\ NoRun \in RunRecords
  /\ [NoRun EXCEPT !.st = "exists"] \in RunRecords
  /\ [NoRun EXCEPT !.st = "deleted"] \in RunRecords
<1>1. 0 \in Times /\ 0 \in 0 .. Looks
  BY Bounds
<1>2. QED
  BY <1>1 DEF RunRecords, NoRun

\* The records written by the operations on BackupRuns.
LEMMA RunWrites ==
  ASSUME NEW r \in RunRecords
  PROVE  /\ [r EXCEPT !.named = TRUE] \in RunRecords
         /\ [r EXCEPT !.loc = TRUE] \in RunRecords
         /\ [r EXCEPT !.phase = "Pending"] \in RunRecords
         /\ [r EXCEPT !.phase = "Running"] \in RunRecords
         /\ r.looks < Looks => [r EXCEPT !.looks = @ + 1] \in RunRecords
         /\ \A t \in Times :
              /\ [r EXCEPT !.start = t] \in RunRecords
              /\ [r EXCEPT !.phase = "Succeeded", !.done = t] \in RunRecords
              /\ [r EXCEPT !.phase = "Failed", !.done = t] \in RunRecords
<1>1. [r EXCEPT !.named = TRUE] \in RunRecords /\ [r EXCEPT !.loc = TRUE] \in RunRecords
  BY DEF RunRecords
<1>2. [r EXCEPT !.phase = "Pending"] \in RunRecords /\ [r EXCEPT !.phase = "Running"] \in RunRecords
  BY DEF RunRecords
<1>3. ASSUME r.looks < Looks PROVE [r EXCEPT !.looks = @ + 1] \in RunRecords
  <2>1. r.looks \in 0 .. Looks
    BY DEF RunRecords
  <2>2. r.looks + 1 \in 0 .. Looks
    BY <1>3, <2>1, Bounds
  <2>3. QED
    BY <2>2 DEF RunRecords
<1>4. ASSUME NEW t \in Times
      PROVE  /\ [r EXCEPT !.start = t] \in RunRecords
             /\ [r EXCEPT !.phase = "Succeeded", !.done = t] \in RunRecords
             /\ [r EXCEPT !.phase = "Failed", !.done = t] \in RunRecords
  BY DEF RunRecords, Terminal
<1>5. QED
  BY <1>1, <1>2, <1>3, <1>4

\* The initial state is well formed.
LEMMA InitTypes == Init => TypeOK /\ PassTyped
<1> SUFFICES ASSUME Init PROVE JobTyped /\ RunTyped /\ HealthTyped /\ SpecTyped /\ Rest /\ PassTyped
  BY TypeParts
<1>1. NoJob \in JobRecords /\ NoRun \in RunRecords
  BY Bounds DEF JobRecords, NoJob, JobStates, RunRecords, NoRun
<1>2. JobTyped /\ RunTyped /\ PassTyped
  BY <1>1 DEF Init, JobTyped, RunTyped, PassTyped
<1>3. HealthTyped /\ SpecTyped
  BY Bounds DEF Init, HealthTyped, SpecTyped, Conds
<1>4. Rest
  BY Bounds DEF Init, Rest, Statuses
<1>5. QED
  BY <1>2, <1>3, <1>4

\* What a step does to the Jobs.
LEMMA StepJob ==
  [Next]_vars => \/ job' = job /\ covered' = covered
                 \/ \E j \in Jobs : JobStarts(j) \/ AttemptFails(j) \/ JobSucceeds(j) \/ JobCollected(j)
  BY DEF Next, RunStep, BackupStep, HealthStep, vars, kube, wal, ArchivingFails, ArchivingWorks,
     QueueFull, Tick, EditBackup, ReconcileValid, ReconcileFails, ReconcileInvalid, NameRuns,
     SyncRun, LookAgain, ExpireRun, HealthCheck, HealthRemove, Crash

\* What a step does to the BackupRuns.
LEMMA StepRun ==
  [Next]_vars => \/ run' = run
                 \/ ReconcileValid \/ NameRuns
                 \/ \E j \in Jobs : ExpireRun(j) \/ \E ok \in BOOLEAN : SyncRun(j, ok) \/ LookAgain(j, ok)
  BY DEF Next, RunStep, BackupStep, HealthStep, vars, kube, wal, ArchivingFails, ArchivingWorks,
     QueueFull, Tick, EditBackup, ReconcileFails, ReconcileInvalid, HealthCheck, HealthRemove,
     Crash, JobStarts, AttemptFails, JobSucceeds, JobCollected

\* What a step does to the clock and the marker file.
LEMMA StepClock ==
  [Next]_vars => \/ now' = now /\ drops' = drops
                 \/ QueueFull
                 \/ Tick
  BY DEF Next, RunStep, BackupStep, HealthStep, vars, kube, wal, ArchivingFails, ArchivingWorks, 
         EditBackup, ReconcileValid, ReconcileFails, ReconcileInvalid, NameRuns, SyncRun,
         LookAgain, ExpireRun, HealthCheck, HealthRemove, Crash,
         JobStarts, AttemptFails, JobSucceeds, JobCollected

\* What a step does to the WALArchiving condition.
LEMMA StepHealth ==
  [Next]_vars => \/ health' = health /\ known' = known
                 \/ HealthStep
  BY DEF Next, RunStep, BackupStep, vars, kube, wal, ArchivingFails, ArchivingWorks, QueueFull,
     Tick, EditBackup, ReconcileValid, ReconcileFails, ReconcileInvalid, NameRuns, SyncRun,
     LookAgain, ExpireRun, Crash, JobStarts, AttemptFails, JobSucceeds, JobCollected

\* The Jobs stay well formed.
LEMMA NextJobTyped == TypeOK /\ PassTyped /\ JobTimes /\ [Next]_vars => JobTyped'
<1> SUFFICES ASSUME TypeOK, PassTyped, JobTimes, [Next]_vars PROVE JobTyped'
  OBVIOUS
<1>1. job \in [Jobs -> JobRecords] /\ now \in Times /\ Len(drops) \in 0 .. MaxDrops /\ 0 \in 0 .. MaxDrops
  BY TypeParts, Bounds DEF JobTyped, Rest, Times
<1>2. CASE job' = job
  BY <1>1, <1>2 DEF JobTyped
<1>3. ASSUME NEW j \in Jobs, JobStarts(j) \/ JobCollected(j) PROVE JobTyped'
  <2>1. job[j] \in JobRecords
    BY <1>1
  <2>2. PICK r \in JobRecords : job' = [job EXCEPT ![j] = r]
    BY <1>1, <1>3, <2>1, JobRecordWrites DEF JobStarts, JobCollected
  <2>3. QED
    BY <1>1, <2>2 DEF JobTyped
<1>4. ASSUME NEW j \in Jobs, JobSucceeds(j) PROVE JobTyped'
  <2>1. job' = [job EXCEPT ![j] = [job[j] EXCEPT !.st = "succeeded", !.done = now, !.seen = 0]]
    BY <1>1, <1>4 DEF JobSucceeds
  <2>2. QED
    BY <1>1, <2>1, JobRecordWrites DEF JobTyped
<1>5. ASSUME NEW j \in Jobs, AttemptFails(j) PROVE JobTyped'
  <2>1. PICK s \in JobStates, n \in 0 .. MaxDrops :
          job' = [job EXCEPT ![j] = [job[j] EXCEPT !.st = s, !.fails = @ + 1, !.seen = n]]
    BY <1>1, <1>5 DEF AttemptFails, JobStates
  <2>2. job[j].fails <= BackoffLimit
    BY <1>5 DEF AttemptFails, JobTimes
  <2>3. QED
    BY <1>1, <2>1, <2>2, JobRecordWrites DEF JobTyped
<1>6. QED
  BY <1>2, <1>3, <1>4, <1>5, StepJob

\* What a pass over a run that has not completed makes of it.
LEMMA RunSynced ==
  ASSUME NEW r \in RunRecords, NEW b \in JobRecords, now \in Times, NEW ok \in BOOLEAN,
         r.phase \notin Terminal
  PROVE  \E s \in RunRecords :
           /\ s = RecordLocation(SyncFromJob(r, b), b, ok)
           /\ s.st = r.st
           /\ s.start = IF r.start = 0 THEN b.start ELSE r.start
           /\ \/ s.phase = "Succeeded" /\ s.done = now /\ b.st = "succeeded"
              \/ s.phase = "Failed" /\ s.done = now /\ b.fails > 0
              \/ s.phase = "Running" /\ s.done = r.done
<1>1. b.start \in Times
  BY DEF JobRecords
<1>2. PICK r1 \in RunRecords :
        /\ r1 = IF r.start = 0 THEN [r EXCEPT !.start = b.start] ELSE r
        /\ r1.st = r.st /\ r1.phase = r.phase /\ r1.done = r.done
        /\ r1.start = IF r.start = 0 THEN b.start ELSE r.start
  <2>1. [r EXCEPT !.start = b.start] \in RunRecords
    BY <1>1, RunWrites
  <2>2. QED
    BY <2>1 DEF RunRecords
<1>3. PICK r2 \in RunRecords :
        /\ r2 = SyncFromJob(r, b)
        /\ r2.st = r.st /\ r2.start = r1.start
        /\ \/ r2.phase = "Succeeded" /\ r2.done = now /\ b.st = "succeeded"
           \/ r2.phase = "Failed" /\ r2.done = now /\ b.fails > 0
           \/ r2.phase = "Running" /\ r2.done = r.done
  <2>1. SyncFromJob(r, b) =
          IF b.st = "succeeded" THEN [r1 EXCEPT !.phase = "Succeeded", !.done = now]
          ELSE IF b.fails > 0 THEN [r1 EXCEPT !.phase = "Failed", !.done = now]
          ELSE [r1 EXCEPT !.phase = "Running"]
    BY <1>2 DEF SyncFromJob
  <2>2. /\ [r1 EXCEPT !.phase = "Succeeded", !.done = now] \in RunRecords
        /\ [r1 EXCEPT !.phase = "Failed", !.done = now] \in RunRecords
        /\ [r1 EXCEPT !.phase = "Running"] \in RunRecords
    BY RunWrites
  <2>3. CASE b.st = "succeeded"
    <3> DEFINE q == [r1 EXCEPT !.phase = "Succeeded", !.done = now]
    <3>1. q.phase = "Succeeded" /\ q.done = now /\ q.st = r1.st /\ q.start = r1.start
      BY DEF RunRecords
    <3>2. q \in RunRecords /\ q = SyncFromJob(r, b)
      BY <2>1, <2>2, <2>3
    <3> HIDE DEF q
    <3>3. QED
      BY <3>1, <3>2, <2>3, <1>2
  <2>4. CASE b.st # "succeeded" /\ b.fails > 0
    <3> DEFINE q == [r1 EXCEPT !.phase = "Failed", !.done = now]
    <3>1. q.phase = "Failed" /\ q.done = now /\ q.st = r1.st /\ q.start = r1.start
      BY DEF RunRecords
    <3>2. q \in RunRecords /\ q = SyncFromJob(r, b)
      BY <2>1, <2>2, <2>4
    <3> HIDE DEF q
    <3>3. QED
      BY <3>1, <3>2, <2>4, <1>2
  <2>5. CASE b.st # "succeeded" /\ ~(b.fails > 0)
    <3> DEFINE q == [r1 EXCEPT !.phase = "Running"]
    <3>1. q.phase = "Running" /\ q.done = r1.done /\ q.st = r1.st /\ q.start = r1.start
      BY DEF RunRecords
    <3>2. q \in RunRecords /\ q = SyncFromJob(r, b)
      BY <2>1, <2>2, <2>5
    <3> HIDE DEF q
    <3>3. QED
      BY <3>1, <3>2, <1>2
  <2>6. QED
    BY <2>3, <2>4, <2>5
<1>4. [r2 EXCEPT !.loc = TRUE] \in RunRecords
  BY RunWrites
<1>5. PICK s \in RunRecords :
        /\ s = RecordLocation(r2, b, ok)
        /\ s.st = r2.st /\ s.phase = r2.phase /\ s.done = r2.done /\ s.start = r2.start
  BY <1>4 DEF RecordLocation, RunRecords
<1>6. s = RecordLocation(SyncFromJob(r, b), b, ok)
  BY <1>3, <1>5
<1>7. QED
  BY <1>2, <1>3, <1>5, <1>6

\* Another look changes neither the phase nor the times.
LEMMA Looked ==
  ASSUME NEW r \in RunRecords, NEW b \in JobRecords, NEW ok \in BOOLEAN, r.looks < Looks
  PROVE  \E s \in RunRecords :
           /\ s = [RecordLocation(r, b, ok) EXCEPT !.looks = @ + 1]
           /\ s.st = r.st /\ s.phase = r.phase /\ s.start = r.start /\ s.done = r.done
<1>1. [r EXCEPT !.loc = TRUE] \in RunRecords
  BY RunWrites
<1>2. PICK q \in RunRecords :
        /\ q = RecordLocation(r, b, ok) /\ q.looks = r.looks
        /\ q.st = r.st /\ q.phase = r.phase /\ q.start = r.start /\ q.done = r.done
  BY <1>1 DEF RecordLocation, RunRecords
<1>3. [q EXCEPT !.looks = @ + 1] \in RunRecords
  BY <1>2, RunWrites
<1>4. QED
  BY <1>2, <1>3 DEF RunRecords

\* What a step may do to the record of a Job.
Same(j) == /\ run'[j].st = run[j].st /\ run'[j].start = run[j].start /\ run'[j].done = run[j].done
           /\ run'[j].phase = run[j].phase \/ (run'[j].phase = "Pending" /\ run[j].phase = "")
Blank(j) == run'[j].start = 0 /\ run'[j].phase = "" /\ run'[j].done = 0
Made(j) == Unrecorded(j) /\ run'[j].st = "exists" /\ Blank(j)
Ended(j) == /\ run[j].phase \in Terminal /\ now - run[j].done >= RunTTL
            /\ run'[j].st = "deleted" /\ Blank(j)
Updated(j) ==
  /\ run'[j].st = run[j].st /\ run[j].st = "exists" /\ job[j].st # "gone"
  /\ run'[j].start = IF run[j].start = 0 THEN job[j].start ELSE run[j].start
  /\ \/ run'[j].phase = "Succeeded" /\ run'[j].done = now /\ job[j].st = "succeeded"
     \/ run'[j].phase = "Failed" /\ run'[j].done = now /\ job[j].fails > 0
     \/ run'[j].phase = "Running" /\ run'[j].done = run[j].done

\* A step keeps the records well formed and does one of these to each.
LEMMA NextRun ==
  TypeOK /\ PassTyped /\ [Next]_vars =>
    /\ RunTyped'
    /\ \A j \in Jobs : Same(j) \/ Made(j) \/ Ended(j) \/ Updated(j)
    /\ run' = run \/ (job' = job /\ now' = now /\ drops' = drops /\ covered' = covered)
<1> SUFFICES ASSUME TypeOK, PassTyped, [Next]_vars
             PROVE  /\ RunTyped'
                    /\ \A j \in Jobs : Same(j) \/ Made(j) \/ Ended(j) \/ Updated(j)
                    /\ run' = run \/ (job' = job /\ now' = now /\ drops' = drops /\ covered' = covered)
  OBVIOUS
<1>1. /\ job \in [Jobs -> JobRecords] /\ run \in [Jobs -> RunRecords] /\ now \in Times
      /\ bp.pc = "name" => bp \in Passes
  BY TypeParts, Bounds DEF JobTyped, RunTyped, Rest, Times, PassTyped, Idle
<1>2. CASE run' = run
  BY <1>1, <1>2 DEF RunTyped, Same
<1>3. CASE ReconcileValid
  <2>1. PICK new \in SUBSET Jobs :
          /\ run' = [j \in Jobs |-> IF j \in new THEN [NoRun EXCEPT !.st = "exists"] ELSE run[j]]
          /\ \A j \in new : Unrecorded(j)
    <3> DEFINE new == {j \in Jobs : Unrecorded(j)}
    <3>1. CreateRuns(new)
      BY <1>3 DEF ReconcileValid
    <3>2. new \in SUBSET Jobs /\ \A j \in new : Unrecorded(j)
      OBVIOUS
    <3> HIDE DEF new
    <3>3. QED
      BY <3>1, <3>2 DEF CreateRuns
  <2>2. [NoRun EXCEPT !.st = "exists"] \in RunRecords
    BY NewRuns
  <2>3. RunTyped'
    BY <1>1, <2>1, <2>2 DEF RunTyped
  <2>4. ASSUME NEW j \in Jobs PROVE Same(j) \/ Made(j)
    BY <2>1 DEF Same, Made, Blank, NoRun
  <2>5. QED
    BY <2>3, <2>4, <1>3 DEF ReconcileValid, wal
<1>4. CASE NameRuns
  <2>1. \A j \in Jobs : [run[j] EXCEPT !.named = TRUE] \in RunRecords
    BY <1>1, RunWrites
  <2>2. run' = [j \in Jobs |-> IF j \in bp.todo /\ run[j].st = "exists"
                               THEN [run[j] EXCEPT !.named = TRUE] ELSE run[j]]
    BY <1>4 DEF NameRuns
  <2>3. RunTyped'
    BY <1>1, <2>1, <2>2 DEF RunTyped
  <2>4. ASSUME NEW j \in Jobs PROVE Same(j)
    BY <1>1, <2>2 DEF Same, RunRecords
  <2>5. QED
    BY <2>3, <2>4, <1>4 DEF NameRuns, wal
<1>5. ASSUME NEW j \in Jobs, ExpireRun(j)
      PROVE  RunTyped' /\ (\A k \in Jobs : Same(k) \/ Ended(k))
             /\ job' = job /\ now' = now /\ drops' = drops /\ covered' = covered
  <2>1. [NoRun EXCEPT !.st = "deleted"] \in RunRecords
    BY NewRuns
  <2>2. RunTyped'
    BY <1>1, <1>5, <2>1 DEF RunTyped, ExpireRun
  <2>3. ASSUME NEW k \in Jobs PROVE Same(k) \/ Ended(k)
    BY <1>1, <1>5 DEF Same, Ended, Blank, ExpireRun, NoRun
  <2>4. QED
    BY <2>2, <2>3, <1>5 DEF ExpireRun, wal
<1>6. ASSUME NEW j \in Jobs, NEW ok \in BOOLEAN, LookAgain(j, ok)
      PROVE  RunTyped' /\ (\A k \in Jobs : Same(k))
             /\ job' = job /\ now' = now /\ drops' = drops /\ covered' = covered
  <2>1. run[j].looks < Looks
    BY <1>6 DEF LookAgain, Late
  <2>2. run[j] \in RunRecords /\ job[j] \in JobRecords
    BY <1>1
  <2>3. PICK s \in RunRecords :
           /\ s = [RecordLocation(run[j], job[j], ok) EXCEPT !.looks = @ + 1]
           /\ s.st = run[j].st /\ s.phase = run[j].phase /\ s.start = run[j].start /\ s.done = run[j].done
    BY <2>1, <2>2, Looked
  <2>4. run' = [run EXCEPT ![j] = s]
    <3>1. run' = [run EXCEPT ![j] = [RecordLocation(run[j], job[j], ok) EXCEPT !.looks = @ + 1]]
      BY <1>6, Zenon DEF LookAgain
    <3>2. QED
      BY <2>3, <3>1, Zenon
  <2>5. RunTyped'
    BY <1>1, <2>4 DEF RunTyped
  <2>6. ASSUME NEW k \in Jobs PROVE Same(k)
    BY <1>1, <2>3, <2>4 DEF Same
  <2>7. QED
    BY <2>5, <2>6, <1>6 DEF LookAgain, wal
<1>7. ASSUME NEW j \in Jobs, NEW ok \in BOOLEAN, SyncRun(j, ok)
      PROVE  RunTyped' /\ (\A k \in Jobs : Same(k) \/ Updated(k))
             /\ job' = job /\ now' = now /\ drops' = drops /\ covered' = covered
  <2>1. run[j] \in RunRecords /\ job[j] \in JobRecords
    BY <1>1
  <2>2. CASE HasJob(j)
    <3>1. PICK s \in RunRecords :
           /\ s = RecordLocation(SyncFromJob(run[j], job[j]), job[j], ok)
           /\ s.st = run[j].st
           /\ s.start = IF run[j].start = 0 THEN job[j].start ELSE run[j].start
           /\ \/ s.phase = "Succeeded" /\ s.done = now /\ job[j].st = "succeeded"
              \/ s.phase = "Failed" /\ s.done = now /\ job[j].fails > 0
              \/ s.phase = "Running" /\ s.done = run[j].done
      BY <1>1, <1>7, <2>1, RunSynced DEF SyncRun
    <3>2. run' = [run EXCEPT ![j] = s]
      BY <1>7, <2>2, <3>1, Zenon DEF SyncRun
    <3>3. RunTyped'
      BY <1>1, <3>2 DEF RunTyped
    <3>4. ASSUME NEW k \in Jobs PROVE Same(k) \/ Updated(k)
      BY <1>1, <1>7, <2>2, <3>1, <3>2 DEF Same, Updated, SyncRun, HasJob
    <3>5. QED
      BY <3>3, <3>4, <1>7 DEF SyncRun, wal
  <2>3. CASE ~HasJob(j)
    <3>1. [run[j] EXCEPT !.phase = "Pending"] \in RunRecords
      BY <2>1, <1>1, RunWrites
    <3>2. run' = [run EXCEPT ![j] = [run[j] EXCEPT !.phase = "Pending"]] /\ run[j].phase = ""
      BY <1>1, <1>7, <2>3 DEF SyncRun
    <3>3. RunTyped'
      BY <1>1, <3>1, <3>2 DEF RunTyped
    <3>4. ASSUME NEW k \in Jobs PROVE Same(k)
      BY <1>1, <3>2 DEF Same, RunRecords
    <3>5. QED
      BY <3>3, <3>4, <1>7 DEF SyncRun, wal
  <2>4. QED
    BY <2>2, <2>3
<1>8. QED
  BY <1>2, <1>3, <1>4, <1>5, <1>6, <1>7, StepRun

\* recordPhysicalRuns: the latest completion of a type is a time.
LEMMA LastTimesTyped ==
  ASSUME JobTyped, NEW last \in [Types -> Times]
  PROVE  LastTimes(last) \in [Types -> Times]
<1> SUFFICES ASSUME NEW t \in Types
             PROVE  (CHOOSE m \in {last[t]} \cup {job[j].done : j \in {k \in Jobs :
                         TypeOf(k) = t /\ job[k].st = "succeeded"}} :
                       \A j \in Jobs : /\ m >= last[t]
                                       /\ TypeOf(j) = t /\ job[j].st = "succeeded" => m >= job[j].done)
                    \in Times
  BY DEF LastTimes
<1> DEFINE S == {last[t]} \cup {job[j].done : j \in {k \in Jobs :
                         TypeOf(k) = t /\ job[k].st = "succeeded"}}
           P(m) == \A j \in Jobs : /\ m >= last[t]
                                   /\ TypeOf(j) = t /\ job[j].st = "succeeded" => m >= job[j].done
<1>1. \A j \in Jobs : job[j].done \in Times
  BY DEF JobTyped, JobRecords
<1>2. S \subseteq 0 .. MaxTime /\ S # {}
  BY <1>1 DEF Times
<1>3. PICK x \in S : \A y \in S : y <= x
  BY <1>2, Bounds, LatestExists
<1>4. x \in Nat /\ last[t] \in Nat /\ last[t] <= x
  BY <1>2, <1>3 DEF Times
<1>5. ASSUME NEW j \in Jobs, TypeOf(j) = t, job[j].st = "succeeded" PROVE x >= job[j].done
  <2>1. job[j].done \in S
    BY <1>5
  <2>2. job[j].done \in Nat
    BY <1>1 DEF Times
  <2>3. QED
    BY <2>1, <2>2, <1>3, <1>4
<1>6. P(x)
  BY <1>4, <1>5
<1> HIDE DEF P
<1>7. (CHOOSE m \in S : P(m)) \in S
  BY <1>6, Zenon
<1>8. (CHOOSE m \in S : P(m)) \in Times
  BY <1>7, <1>2 DEF Times
<1>9. QED
  BY <1>8 DEF P

\* The passes of the Backup controller stay well formed.
LEMMA NextPassTyped == TypeOK /\ PassTyped /\ [Next]_vars => PassTyped'
<1> SUFFICES ASSUME TypeOK, PassTyped, [Next]_vars PROVE PassTyped'
  OBVIOUS
<1>1. JobTyped /\ SpecTyped /\ status \in Statuses
  BY TypeParts DEF Rest
<1>2. spec.ver \in 1 .. MaxEdits + 1
  BY <1>1 DEF SpecTyped
<1>3. CASE bp' = bp \/ bp' = Idle
  BY <1>3 DEF PassTyped
<1>4. CASE ReconcileValid
  <2>1. PICK todo, st : /\ bp' = [pc |-> "name", ver |-> spec.ver, todo |-> todo, st |-> st]
                        /\ todo \in SUBSET Jobs
                        /\ st = [avail |-> "Scheduled", last |-> LastTimes(status.last)]
    BY <1>4 DEF ReconcileValid
  <2>2. LastTimes(status.last) \in [Types -> Times]
    BY <1>1, LastTimesTyped DEF Statuses
  <2>3. st \in Statuses
    BY <2>1, <2>2 DEF Statuses
  <2>4. QED
    BY <2>1, <2>3, <1>2 DEF PassTyped, Passes
<1>5. CASE ReconcileFails \/ ReconcileInvalid
  <2>1. [status EXCEPT !.avail = "Error"] \in Statuses /\ [status EXCEPT !.avail = "Invalid"] \in Statuses
    BY <1>1 DEF Statuses
  <2>2. PICK st \in Statuses : bp' = [pc |-> "name", ver |-> spec.ver, todo |-> {}, st |-> st]
    BY <1>5, <2>1 DEF ReconcileFails, ReconcileInvalid
  <2>3. QED
    BY <2>2, <1>2 DEF PassTyped, Passes
<1>6. bp' = bp \/ bp' = Idle \/ ReconcileValid \/ ReconcileFails \/ ReconcileInvalid
  BY DEF Next, RunStep, BackupStep, HealthStep, vars, kube, wal, ArchivingFails, ArchivingWorks,
     QueueFull, Tick, EditBackup, NameRuns, SyncRun, LookAgain, ExpireRun, HealthCheck,
     HealthRemove, Crash, JobStarts, AttemptFails, JobSucceeds, JobCollected
<1>7. QED
  BY <1>3, <1>4, <1>5, <1>6

\* The Backup stays well formed.
LEMMA NextSpecTyped == TypeOK /\ PassTyped /\ [Next]_vars => SpecTyped'
<1> SUFFICES ASSUME TypeOK, PassTyped, [Next]_vars PROVE SpecTyped'
  OBVIOUS
<1>1. SpecTyped
  BY TypeParts
<1>2. spec' = spec \/ \E valid \in BOOLEAN : EditBackup(valid)
  BY DEF Next, RunStep, BackupStep, HealthStep, vars, kube, wal, ArchivingFails, ArchivingWorks,
     QueueFull, Tick, ReconcileValid, ReconcileFails, ReconcileInvalid, NameRuns, SyncRun,
     LookAgain, ExpireRun, HealthCheck, HealthRemove, Crash, JobStarts, AttemptFails, JobSucceeds,
     JobCollected
<1>3. ASSUME NEW valid \in BOOLEAN, EditBackup(valid) PROVE SpecTyped'
  <2>1. spec.ver + 1 \in 1 .. MaxEdits + 1
    BY <1>1, <1>3, Bounds DEF SpecTyped, EditBackup
  <2>2. QED
    BY <2>1, <1>3 DEF SpecTyped, EditBackup
<1>4. QED
  BY <1>1, <1>2, <1>3 DEF SpecTyped

\* recordWALDrop: the recorded drop is the newest of the marker, or is at least
\* as new and as closed as it was.
LEMMA Recorded ==
  ASSUME HealthTyped, drops \in Seq(Times)
  PROVE  LET h == RecordDrop(health, drops)
         IN /\ h.at \in Times /\ h.closed \in BOOLEAN
            /\ \/ /\ h.at = health.at /\ h.closed = health.closed
                  /\ drops # <<>> => drops[Len(drops)] <= h.at
               \/ /\ h.closed = FALSE
                  /\ drops # <<>> /\ h.at = drops[Len(drops)]
<1> DEFINE newest == IF drops = <<>> THEN 0 ELSE drops[Len(drops)]
<1>1. newest \in Times
  BY Bounds
<1>2. RecordDrop(health, drops) =
        IF newest > health.at THEN [health EXCEPT !.at = newest, !.closed = FALSE] ELSE health
  BY DEF RecordDrop
<1>3. health.at \in Times /\ health.closed \in BOOLEAN
  BY DEF HealthTyped
<1>4. CASE newest > health.at
  <2>1. drops # <<>>
    BY <1>3, <1>4 DEF Times
  <2>2. /\ [health EXCEPT !.at = newest, !.closed = FALSE].at = newest
        /\ [health EXCEPT !.at = newest, !.closed = FALSE].closed = FALSE
    BY DEF HealthTyped
  <2>3. QED
    BY <1>1, <1>2, <1>4, <2>1, <2>2
<1>5. CASE ~(newest > health.at)
  <2>1. drops # <<>> => drops[Len(drops)] <= health.at
    BY <1>1, <1>3, <1>5 DEF Times
  <2>2. QED
    BY <1>2, <1>3, <1>5, <2>1
<1>6. QED
  BY <1>4, <1>5

\* What a check of the archive does to the condition.
LEMMA Checked ==
  ASSUME TypeOK, PassTyped, NEW listed \in BOOLEAN, HealthCheck(listed)
  PROVE  LET h == RecordDrop(health, drops)
         IN /\ health'.at = h.at
            /\ health'.closed => h.closed \/ BackupStartedAfter(h.at)
            /\ health'.cond = "True" => h.at = 0 \/ h.closed \/ BackupStartedAfter(h.at)
            /\ HealthTyped'
<1> DEFINE h == RecordDrop(health, drops)
           open == h.at # 0 /\ ~h.closed
           closing == open /\ BackupStartedAfter(h.at)
           cond == IF ~listed THEN "Unknown"
                   ELSE IF open /\ ~closing THEN "Dropped" ELSE ArchivingCondition(archiver)
<1>1. health' = [at |-> h.at, closed |-> h.closed \/ (closing /\ listed), cond |-> cond]
  BY DEF HealthCheck
<1>2. h.at \in Times /\ h.closed \in BOOLEAN
  BY TypeParts, Recorded DEF Rest
<1>3. cond \in Conds
  BY TypeParts DEF Conds, ArchivingCondition, Rest
<1>4. cond = "True" => ~(open /\ ~closing)
  OBVIOUS
<1> HIDE DEF h, cond
<1>5. HealthTyped'
  BY <1>1, <1>2, <1>3 DEF HealthTyped
<1>6. health'.at = h.at /\ health'.cond = cond /\ (health'.closed => h.closed \/ (closing /\ listed))
  BY <1>1
<1>7. QED
  BY <1>4, <1>5, <1>6 DEF h

\* The status of the Cluster stays well formed.
LEMMA NextHealthTyped == TypeOK /\ PassTyped /\ [Next]_vars => HealthTyped'
<1> SUFFICES ASSUME TypeOK, PassTyped, [Next]_vars PROVE HealthTyped'
  OBVIOUS
<1>1. HealthTyped
  BY TypeParts
<1>2. CASE health' = health
  BY <1>1, <1>2 DEF HealthTyped
<1>3. ASSUME NEW listed \in BOOLEAN, HealthCheck(listed) PROVE HealthTyped'
  BY <1>3, Checked
<1>4. CASE HealthRemove
  BY <1>1, <1>4 DEF HealthRemove, HealthTyped, Conds
<1>5. QED
  BY <1>2, <1>3, <1>4, StepHealth DEF HealthStep

\* The other variables stay well formed.
LEMMA NextRest == TypeOK /\ PassTyped /\ RoomToDrop /\ [Next]_vars => Rest' /\ RoomToDrop'
<1> SUFFICES ASSUME TypeOK, PassTyped, RoomToDrop, [Next]_vars PROVE Rest' /\ RoomToDrop'
  OBVIOUS
<1>1. Rest /\ SpecTyped /\ JobTyped
  BY TypeParts
<1>2. now' \in 1 .. MaxTime /\ drops' \in Seq(Times) /\ Len(drops') <= MaxDrops
  <2>1. CASE now' = now /\ drops' = drops
    BY <2>1, <1>1 DEF Rest
  <2>2. CASE QueueFull
    BY <2>2, <1>1, Bounds DEF Rest, QueueFull, RoomToDrop, Times
  <2>3. CASE Tick
    BY <2>3, <1>1, Bounds DEF Rest, Tick, wal
  <2>4. QED
    BY <2>1, <2>2, <2>3, StepClock
<1>3. archiver' \in {"none", "archiving", "failing"} /\ RoomToDrop'
  <2>1. \/ archiver' = archiver /\ drops' = drops
        \/ ArchivingFails \/ ArchivingWorks \/ QueueFull
    BY DEF Next, RunStep, BackupStep, HealthStep, vars, kube, wal, Tick, EditBackup, ReconcileValid,
           ReconcileFails, ReconcileInvalid, NameRuns, SyncRun, LookAgain, ExpireRun, HealthCheck,
           HealthRemove, Crash, JobStarts, AttemptFails, JobSucceeds, JobCollected
  <2>2. QED
    BY <2>1, <1>1 DEF Rest, RoomToDrop, ArchivingFails, ArchivingWorks, QueueFull
<1>4. faults' \in 0 .. MaxFaults
  <2>1. faults' = faults \/ (faults < MaxFaults /\ faults' = faults + 1)
    BY DEF Next, RunStep, BackupStep, HealthStep, vars, kube, wal, ArchivingFails, ArchivingWorks,
       QueueFull, Tick, EditBackup, ReconcileValid, ReconcileFails, ReconcileInvalid, NameRuns,
       SyncRun, LookAgain, ExpireRun, HealthCheck, HealthRemove, Crash, JobStarts, AttemptFails,
       JobSucceeds, JobCollected, Readable
  <2>2. QED
    BY <2>1, <1>1, Bounds DEF Rest
<1>5. cron' \in [Types -> 0 .. MaxEdits + 1]
  <2>1. cron' = cron \/ \E done \in SUBSET Types : ApplyCronJobs(done)
    BY DEF Next, RunStep, BackupStep, HealthStep, vars, kube, wal, ArchivingFails, ArchivingWorks,
       QueueFull, Tick, EditBackup, ReconcileValid, ReconcileFails, ReconcileInvalid, NameRuns,
       SyncRun, LookAgain, ExpireRun, HealthCheck, HealthRemove, Crash, JobStarts, AttemptFails,
       JobSucceeds, JobCollected, Types
  <2>2. spec.ver \in 0 .. MaxEdits + 1
    BY <1>1, Bounds DEF SpecTyped
  <2>3. QED
    BY <2>1, <2>2, <1>1 DEF Rest, ApplyCronJobs
<1>6. status' \in Statuses
  <2>1. status' = status \/ NameRuns
    BY DEF Next, RunStep, BackupStep, HealthStep, vars, kube, wal, ArchivingFails, ArchivingWorks,
       QueueFull, Tick, EditBackup, ReconcileValid, ReconcileFails, ReconcileInvalid, SyncRun,
       LookAgain, ExpireRun, HealthCheck, HealthRemove, Crash, JobStarts, AttemptFails,
       JobSucceeds, JobCollected
  <2>2. bp.pc = "name" => bp.st \in Statuses
    BY DEF PassTyped, Passes, Idle
  <2>3. QED
    BY <2>1, <2>2, <1>1 DEF Rest, NameRuns
<1>7. known' \in 0 .. MaxDrops
  <2>1. known' = known \/ known' = Len(drops)
    BY StepHealth DEF HealthStep, HealthCheck, HealthRemove
  <2>2. QED
    BY <2>1, <1>1 DEF Rest
<1>8. covered' \in 0 .. MaxDrops
  <2>1. covered' = covered \/ \E j \in Jobs : covered' = Max2(covered, job[j].seen)
    BY StepJob DEF JobStarts, AttemptFails, JobSucceeds, JobCollected
  <2>2. \A j \in Jobs : job[j].seen \in 0 .. MaxDrops
    BY <1>1 DEF JobTyped, JobRecords
  <2>3. QED
    BY <2>1, <2>2, <1>1 DEF Rest, Max2
<1>9. QED
  BY <1>2, <1>3, <1>4, <1>5, <1>6, <1>7, <1>8 DEF Rest

\* Every step keeps the state well formed.
LEMMA NextTypes ==
  TypeOK /\ PassTyped /\ RoomToDrop /\ JobTimes /\ [Next]_vars => TypeOK' /\ PassTyped' /\ RoomToDrop'
  BY TypeParts, NextJobTyped, NextRun, NextHealthTyped, NextSpecTyped, NextRest, NextPassTyped, PTL
-----------------------------------------------------------------------------
(* No gap is hidden, and no expired record comes back. *)

\* What a step may do to a Job.
AttemptStarted(j) == /\ job[j].st = "none" /\ job'[j].st = "active"
              /\ job'[j].start = now /\ job'[j].done = 0 /\ job'[j].fails = 0 /\ job'[j].seen = Len(drops)
Retried(j) == /\ job[j].st = "active" /\ job'[j].st = "active" /\ job'[j].fails <= BackoffLimit
              /\ job'[j].start = job[j].start /\ job'[j].done = job[j].done
              /\ job'[j].fails = job[j].fails + 1 /\ job'[j].seen = Len(drops)
GaveUp(j) == /\ job[j].st = "active" /\ job'[j].st = "failed"
             /\ job'[j].start = job[j].start /\ job'[j].done = job[j].done
             /\ job'[j].fails = job[j].fails + 1
Completed(j) == /\ job[j].st = "active" /\ job'[j].st = "succeeded" /\ covered' >= job[j].seen
                /\ job'[j].start = job[j].start /\ job'[j].done = now
                /\ job'[j].fails = job[j].fails
Collected(j) == job'[j].st = "gone" /\ job'[j].start = 0 /\ job'[j].done = 0

\* The four kinds of steps that these invariants can tell apart.
RunsMove == job' = job /\ now' = now /\ drops' = drops /\ covered' = covered
JobsMove ==
  /\ run' = run /\ now' = now /\ drops' = drops /\ covered' \in Nat /\ covered' >= covered
  /\ \A j \in Jobs : job'[j] = job[j] \/ AttemptStarted(j) \/ Retried(j) \/ GaveUp(j) \/ Completed(j) \/ Collected(j)
WALDropped == job' = job /\ run' = run /\ now' = now /\ covered' = covered /\ drops' = Append(drops, now)
TimePasses == job' = job /\ run' = run /\ drops' = drops /\ covered' = covered /\ now' = now + 1

\* A Job moves as the effects above say.
LEMMA JobMoves ==
  ASSUME TypeOK, PassTyped, JobTimes, NEW j \in Jobs,
         JobStarts(j) \/ AttemptFails(j) \/ JobSucceeds(j) \/ JobCollected(j)
  PROVE  JobsMove
<1>1. job \in [Jobs -> JobRecords] /\ covered \in Nat /\ BackoffLimit \in Nat
  BY TypeParts, Bounds DEF JobTyped, Rest
<1>2. run' = run /\ now' = now /\ drops' = drops
  BY DEF JobStarts, AttemptFails, JobSucceeds, JobCollected, wal
<1>3. \A k \in Jobs : job[k] \in JobRecords /\ job[k].seen \in Nat /\ job[k].fails \in Nat
  BY <1>1 DEF JobRecords
<1>4. CASE JobStarts(j)
  <2>1. AttemptStarted(j) /\ \A k \in Jobs : k # j => job'[k] = job[k]
    BY <1>1, <1>4 DEF JobStarts, AttemptStarted, NoJob
  <2>2. covered' \in Nat /\ covered' >= covered
    BY <1>1, <1>4 DEF JobStarts
  <2>3. QED
    BY <1>2, <2>1, <2>2 DEF JobsMove
<1>5. CASE JobCollected(j)
  <2>1. Collected(j) /\ \A k \in Jobs : k # j => job'[k] = job[k]
    BY <1>1, <1>5 DEF JobCollected, Collected, NoJob
  <2>2. covered' \in Nat /\ covered' >= covered
    BY <1>1, <1>5 DEF JobCollected
  <2>3. QED
    BY <1>2, <2>1, <2>2 DEF JobsMove
<1>6. CASE JobSucceeds(j)
  <2>1. covered' \in Nat /\ covered' >= covered /\ covered' >= job[j].seen
    BY <1>1, <1>3, <1>6 DEF JobSucceeds, Max2
  <2>2. job' = [job EXCEPT ![j] = [job[j] EXCEPT !.st = "succeeded", !.done = now, !.seen = 0]]
    BY <1>1, <1>6 DEF JobSucceeds
  <2>3. Completed(j) /\ \A k \in Jobs : k # j => job'[k] = job[k]
    BY <1>1, <1>3, <1>6, <2>1, <2>2 DEF Completed, JobSucceeds, JobRecords
  <2>4. QED
    BY <1>2, <2>1, <2>3 DEF JobsMove
<1>7. CASE AttemptFails(j)
  <2>1. job' = [job EXCEPT ![j] = [job[j] EXCEPT
                  !.st = IF job[j].fails < BackoffLimit THEN "active" ELSE "failed",
                  !.fails = @ + 1,
                  !.seen = IF job[j].fails < BackoffLimit THEN Len(drops) ELSE 0]]
    BY <1>1, <1>7 DEF AttemptFails
  <2>2. Retried(j) \/ GaveUp(j)
    BY <1>1, <1>3, <1>7, <2>1 DEF Retried, GaveUp, AttemptFails, JobRecords
  <2>3. \A k \in Jobs : k # j => job'[k] = job[k]
    BY <1>1, <2>1
  <2>4. covered' \in Nat /\ covered' >= covered
    BY <1>1, <1>7 DEF AttemptFails
  <2>5. QED
    BY <1>2, <2>2, <2>3, <2>4 DEF JobsMove
<1>8. QED
  BY <1>4, <1>5, <1>6, <1>7

\* Every step is of one of the four kinds.
LEMMA StepKinds ==
  TypeOK /\ PassTyped /\ JobTimes /\ [Next]_vars => RunsMove \/ JobsMove \/ WALDropped \/ TimePasses
<1> SUFFICES ASSUME TypeOK, PassTyped, JobTimes, [Next]_vars
             PROVE  RunsMove \/ JobsMove \/ WALDropped \/ TimePasses
  OBVIOUS
<1>1. CASE \E j \in Jobs : JobStarts(j) \/ AttemptFails(j) \/ JobSucceeds(j) \/ JobCollected(j)
  BY <1>1, JobMoves
<1>2. CASE QueueFull
  BY <1>2 DEF QueueFull, WALDropped, kube
<1>3. CASE Tick
  BY <1>3 DEF Tick, TimePasses, kube, wal
<1>4. CASE job' = job /\ covered' = covered /\ now' = now /\ drops' = drops
  BY <1>4 DEF RunsMove
<1>5. QED
  BY <1>1, <1>2, <1>3, <1>4, StepJob, StepClock

\* The types the invariants need, of the variables themselves.
LEMMA Facts ==
  ASSUME TypeOK, PassTyped
  PROVE  /\ now \in Nat /\ now >= 1 /\ covered \in Nat /\ drops \in Seq(Nat) /\ Len(drops) \in Nat
         /\ \A j \in Jobs : /\ job[j].start \in Nat /\ job[j].done \in Nat /\ job[j].fails \in Nat
                            /\ job[j].seen \in Nat
                            /\ run[j].start \in Nat /\ run[j].done \in Nat
<1>1. JobTyped /\ RunTyped /\ Rest
  BY TypeParts
<1>2. now \in Nat /\ now >= 1 /\ covered \in Nat /\ drops \in Seq(Nat) /\ Len(drops) \in Nat
  BY <1>1, Bounds DEF Rest, Times
<1>3. ASSUME NEW j \in Jobs
      PROVE  job[j].start \in Nat /\ job[j].done \in Nat /\ job[j].fails \in Nat /\ job[j].seen \in Nat
  BY <1>1, Bounds DEF JobTyped, JobRecords, Times
<1>4. ASSUME NEW j \in Jobs PROVE run[j].start \in Nat /\ run[j].done \in Nat
  <2>1. run[j].start \in Times /\ run[j].done \in Times
    BY <1>1 DEF RunTyped, RunRecords
  <2>2. QED
    BY <2>1, Bounds DEF Times
<1>5. QED
  BY <1>2, <1>3, <1>4

\* Times stay in the past.
LEMMA NextTimes == TypeOK /\ PassTyped /\ JobTimes /\ [Next]_vars => JobTimes'
<1> SUFFICES ASSUME TypeOK, PassTyped, JobTimes, [Next]_vars PROVE JobTimes'
  OBVIOUS
<1> DEFINE Past(j) ==
      /\ job[j].start <= now /\ job[j].done <= now /\ run[j].start <= now /\ run[j].done <= now
      /\ job[j].st = "none" => job[j].start = 0 /\ job[j].fails = 0 /\ run[j].start = 0
      /\ job[j].st \in {"none", "active"} => job[j].done = 0
      /\ job[j].st = "active" => job[j].fails <= BackoffLimit
      /\ job[j].st = "succeeded" => job[j].done # 0
      /\ job[j].st # "gone" => run[j].start \in {0, job[j].start}
<1> SUFFICES ASSUME NEW j \in Jobs PROVE Past(j)'
  BY DEF JobTimes
<1>1. Past(j)
  BY DEF JobTimes
<1>2. /\ now \in Nat /\ now >= 1 /\ BackoffLimit \in Nat
      /\ job[j].start \in Nat /\ job[j].done \in Nat /\ job[j].fails \in Nat
      /\ run[j].start \in Nat /\ run[j].done \in Nat
  BY Facts, Bounds
<1>3. CASE RunsMove
  <2>1. CASE Same(j)
    BY <1>1, <1>2, <1>3, <2>1 DEF RunsMove, Same
  <2>2. CASE Made(j) \/ Ended(j)
    <3>1. run'[j].start = 0 /\ run'[j].done = 0
      BY <2>2 DEF Made, Ended, Blank
    <3>2. QED
      BY <1>1, <1>2, <1>3, <3>1 DEF RunsMove
  <2>3. CASE Updated(j)
    BY <1>1, <1>2, <1>3, <2>3 DEF RunsMove, Updated
  <2>4. QED
    BY <2>1, <2>2, <2>3, NextRun
<1>4. CASE JobsMove
  BY <1>1, <1>2, <1>4 DEF JobsMove, AttemptStarted, Retried, GaveUp, Completed, Collected
<1>5. CASE WALDropped \/ TimePasses
  BY <1>1, <1>2, <1>5 DEF WALDropped, TimePasses
<1>6. QED
  BY <1>3, <1>4, <1>5, StepKinds

\* The marker file stays in order.
LEMMA NextDrops == TypeOK /\ PassTyped /\ JobTimes /\ DropsInOrder /\ [Next]_vars => DropsInOrder'
<1> SUFFICES ASSUME TypeOK, PassTyped, JobTimes, DropsInOrder, [Next]_vars PROVE DropsInOrder'
  OBVIOUS
<1> USE Facts DEF DropsInOrder
<1>1. CASE RunsMove \/ JobsMove \/ TimePasses
  BY <1>1 DEF RunsMove, JobsMove, TimePasses
<1>2. CASE WALDropped
  BY <1>2 DEF WALDropped
<1>3. QED
  BY <1>1, <1>2, StepKinds

\* A Job that succeeds covers what was dropped before it started.
LEMMA NextJobCovers ==
  TypeOK /\ PassTyped /\ JobTimes /\ DropsInOrder /\ JobCovers /\ [Next]_vars => JobCovers'
<1> SUFFICES ASSUME TypeOK, PassTyped, JobTimes, DropsInOrder, JobCovers, [Next]_vars PROVE JobCovers'
  OBVIOUS
<1> SUFFICES ASSUME NEW j \in Jobs, NEW i \in 1 .. Len(drops'), drops'[i] < job'[j].start
             PROVE  /\ job'[j].st = "active" => i <= job'[j].seen
                    /\ job'[j].st = "succeeded" => i <= covered'
  BY DEF JobCovers, DroppedBefore
<1>1. /\ now \in Nat /\ covered \in Nat /\ drops \in Seq(Nat) /\ Len(drops) \in Nat
      /\ job[j].start \in Nat /\ job[j].start <= now /\ job[j].seen \in Nat
  BY Facts DEF JobTimes
<1>2. /\ job[j].st = "active" => \A k \in 1 .. Len(drops) : drops[k] < job[j].start => k <= job[j].seen
      /\ job[j].st = "succeeded" => \A k \in 1 .. Len(drops) : drops[k] < job[j].start => k <= covered
  BY DEF JobCovers, DroppedBefore
<1>3. CASE RunsMove \/ TimePasses
  BY <1>2, <1>3 DEF RunsMove, TimePasses
<1>4. CASE JobsMove
  BY <1>1, <1>2, <1>4 DEF JobsMove, AttemptStarted, Retried, GaveUp, Completed, Collected
<1>5. CASE WALDropped
  <2>1. job' = job /\ covered' = covered /\ drops' = Append(drops, now)
    BY <1>5 DEF WALDropped
  <2>2. CASE i \in 1 .. Len(drops)
    BY <1>1, <1>2, <2>1, <2>2
  <2>3. CASE i = Len(drops) + 1
    BY <1>1, <2>1, <2>3
  <2>4. QED
    BY <1>1, <2>1, <2>2, <2>3
<1>6. QED
  BY <1>3, <1>4, <1>5, StepKinds

\* A BackupRun that reads Succeeded covers what was dropped before its start.
LEMMA NextRunCovers ==
  TypeOK /\ PassTyped /\ JobTimes /\ JobCovers /\ RunCovers /\ [Next]_vars => RunCovers'
<1> SUFFICES ASSUME TypeOK, PassTyped, JobTimes, JobCovers, RunCovers, [Next]_vars PROVE RunCovers'
  OBVIOUS
<1> SUFFICES ASSUME NEW j \in Jobs, run'[j].phase = "Succeeded",
                    NEW i \in 1 .. Len(drops'), drops'[i] < run'[j].start
             PROVE  i <= covered'
  BY DEF RunCovers, DroppedBefore
<1>1. /\ now \in Nat /\ covered \in Nat /\ drops \in Seq(Nat) /\ Len(drops) \in Nat
      /\ run[j].start \in Nat /\ run[j].start <= now
      /\ job[j].st # "gone" => run[j].start \in {0, job[j].start}
  BY Facts DEF JobTimes
<1>2. run[j].phase = "Succeeded" =>
        \A k \in 1 .. Len(drops) : drops[k] < run[j].start => k <= covered
  BY DEF RunCovers, DroppedBefore
<1>3. CASE RunsMove
  <2>1. drops' = drops /\ covered' = covered
    BY <1>3 DEF RunsMove
  <2>2. CASE Same(j)
    BY <1>2, <2>1, <2>2 DEF Same
  <2>3. CASE Made(j) \/ Ended(j)
    BY <2>3 DEF Made, Ended, Blank
  <2>4. CASE Updated(j)
    <3>1. job[j].st = "succeeded" /\ run'[j].start = job[j].start
      BY <1>1, <2>4 DEF Updated
    <3>2. \A k \in 1 .. Len(drops) : drops[k] < job[j].start => k <= covered
      BY <3>1 DEF JobCovers, DroppedBefore
    <3>3. QED
      BY <2>1, <3>1, <3>2
  <2>5. QED
    BY <2>2, <2>3, <2>4, NextRun
<1>4. CASE JobsMove
  BY <1>1, <1>2, <1>4 DEF JobsMove
<1>5. CASE TimePasses
  BY <1>2, <1>5 DEF TimePasses
<1>6. CASE WALDropped
  <2>1. run' = run /\ covered' = covered /\ drops' = Append(drops, now)
    BY <1>6 DEF WALDropped
  <2>2. CASE i \in 1 .. Len(drops)
    BY <1>1, <1>2, <2>1, <2>2
  <2>3. CASE i = Len(drops) + 1
    BY <1>1, <2>1, <2>3
  <2>4. QED
    BY <1>1, <2>1, <2>2, <2>3
<1>7. QED
  BY <1>3, <1>4, <1>5, <1>6, StepKinds

\* A backup that started after t closes every gap up to t.
LEMMA Closes ==
  ASSUME TypeOK, PassTyped, JobTimes, RunCovers, NEW t \in Nat, BackupStartedAfter(t)
  PROVE  t < now /\ DroppedBefore(t + 1, covered)
<1>1. PICK j \in Jobs : run[j].phase = "Succeeded" /\ run[j].start > t
  BY DEF BackupStartedAfter
<1>2. now \in Nat /\ run[j].start \in Nat /\ run[j].start <= now /\ drops \in Seq(Nat)
  BY Facts DEF JobTimes
<1>3. DroppedBefore(run[j].start, covered)
  BY <1>1 DEF RunCovers
<1>4. QED
  BY <1>1, <1>2, <1>3 DEF DroppedBefore

\* A closed gap stays covered, and the condition is True only without open gap.
LEMMA NextReported ==
  TypeOK /\ PassTyped /\ JobTimes /\ DropsInOrder /\ RunCovers /\ ClosedCovers /\ GapReported
    /\ [Next]_vars => ClosedCovers' /\ GapReported'
<1> SUFFICES ASSUME TypeOK, PassTyped, JobTimes, DropsInOrder, RunCovers, ClosedCovers, GapReported,
                    [Next]_vars
             PROVE  ClosedCovers' /\ GapReported'
  OBVIOUS
<1>1. /\ now \in Nat /\ covered \in Nat /\ drops \in Seq(Nat) /\ drops \in Seq(Times) /\ Len(drops) \in Nat
      /\ health.at \in Nat /\ known \in Nat /\ HealthTyped
  BY Facts, TypeParts, Bounds DEF Rest, HealthTyped, Times
<1>2. ASSUME health'.at = health.at, health'.closed = health.closed,
             (health'.cond = health.cond /\ known' = known) \/ health'.cond = "none"
      PROVE  ClosedCovers' /\ GapReported'
  <2>1. covered' \in Nat /\ covered' >= covered
    BY <1>1, StepKinds DEF RunsMove, JobsMove, WALDropped, TimePasses
  <2>2. GapReported'
    BY <1>1, <1>2, <2>1 DEF GapReported
  <2>3. ASSUME health.closed
        PROVE  /\ health.at < now' 
               /\ \A i \in 1 .. Len(drops') : drops'[i] < health.at + 1 => i <= covered'
    <3>1. health.at < now /\ \A i \in 1 .. Len(drops) : drops[i] < health.at + 1 => i <= covered
      BY <2>3 DEF ClosedCovers, DroppedBefore
    <3>2. CASE RunsMove \/ JobsMove \/ TimePasses
      BY <1>1, <2>1, <3>1, <3>2 DEF RunsMove, JobsMove, TimePasses
    <3>3. CASE WALDropped
      <4>1. now' = now /\ covered' = covered /\ drops' = Append(drops, now)
        BY <3>3 DEF WALDropped
      <4>2. QED
        BY <1>1, <3>1, <4>1
    <3>4. QED
      BY <3>2, <3>3, StepKinds
  <2>4. ClosedCovers'
    BY <1>2, <2>3 DEF ClosedCovers, DroppedBefore
  <2>5. QED
    BY <2>2, <2>4
<1>3. ASSUME NEW listed \in BOOLEAN, HealthCheck(listed) PROVE ClosedCovers' /\ GapReported'
  <2> DEFINE h == RecordDrop(health, drops)
  <2>1. /\ health'.at = h.at
        /\ health'.closed => h.closed \/ BackupStartedAfter(h.at)
        /\ health'.cond = "True" => h.at = 0 \/ h.closed \/ BackupStartedAfter(h.at)
    BY <1>3, Checked
  <2>2. /\ h.at \in Times /\ h.closed \in BOOLEAN
        /\ h.closed => h.at = health.at /\ health.closed
        /\ drops # <<>> => drops[Len(drops)] <= h.at
    <3>1. /\ h.at \in Times /\ h.closed \in BOOLEAN
          /\ \/ /\ h.at = health.at /\ h.closed = health.closed
                /\ drops # <<>> => drops[Len(drops)] <= h.at
             \/ /\ h.closed = FALSE
                /\ drops # <<>> /\ h.at = drops[Len(drops)]
      BY <1>1, Recorded
    <3> HIDE DEF h
    <3>2. h.at \in Nat
      BY <3>1, Bounds DEF Times
    <3>3. QED
      BY <3>1, <3>2
  <2>3. /\ now' = now /\ drops' = drops /\ covered' = covered /\ known' = Len(drops)
        /\ h.at \in Nat
    BY <1>3, <2>2, Bounds DEF HealthCheck, wal, Times
  <2> HIDE DEF h
  <2>4. h.closed \/ BackupStartedAfter(h.at) => h.at < now /\ DroppedBefore(h.at + 1, covered)
    BY <2>2, <2>3, Closes DEF ClosedCovers
  <2>5. ClosedCovers'
    BY <2>1, <2>3, <2>4 DEF ClosedCovers, DroppedBefore
  <2>6. \A i \in 1 .. Len(drops) : drops[i] \in Nat /\ drops[i] >= 1 /\ drops[i] <= h.at
    BY <1>1, <2>2, <2>3 DEF DropsInOrder
  <2>7. h.at = 0 => Len(drops) = 0
    <3>1. Len(drops) > 0 => Len(drops) \in 1 .. Len(drops)
      BY <1>1
    <3>2. QED
      BY <1>1, <2>3, <2>6, <3>1
  <2>8. DroppedBefore(h.at + 1, covered) => Len(drops) <= covered
    <3>1. Len(drops) > 0 => Len(drops) \in 1 .. Len(drops)
      BY <1>1
    <3>2. QED
      BY <1>1, <2>3, <2>6, <3>1 DEF DroppedBefore
  <2>9. health'.cond = "True" => Len(drops) <= covered
    BY <1>1, <2>1, <2>4, <2>7, <2>8
  <2>10. GapReported'
    BY <1>1, <2>3, <2>9 DEF GapReported
  <2>11. QED
    BY <2>5, <2>10
<1>4. CASE HealthRemove
  BY <1>1, <1>2, <1>4 DEF HealthRemove, HealthTyped
<1>5. CASE health' = health /\ known' = known
  BY <1>2, <1>5
<1>6. QED
  BY <1>3, <1>4, <1>5, StepHealth DEF HealthStep

\* Records agree with their Jobs, and what was deleted is past its TTL.
LEMMA NextRunAgrees ==
  TypeOK /\ PassTyped /\ JobTimes /\ RunAgrees /\ [Next]_vars => RunAgrees'
<1> SUFFICES ASSUME TypeOK, PassTyped, JobTimes, RunAgrees, [Next]_vars PROVE RunAgrees'
  OBVIOUS
<1> DEFINE Agrees(j) == job[j].st # "gone" =>
      /\ run[j].phase = "Succeeded" => job[j].st = "succeeded" /\ run[j].done >= job[j].done
      /\ run[j].phase = "Failed" => job[j].fails > 0
      /\ run[j].st = "deleted" /\ job[j].fails = 0 => Expired(j)
<1> SUFFICES ASSUME NEW j \in Jobs PROVE Agrees(j)'
  BY DEF RunAgrees
<1>1. Agrees(j)
  BY DEF RunAgrees
<1>2. /\ now \in Nat /\ now >= 1 /\ RunTTL \in Nat
      /\ job[j].start \in Nat /\ job[j].done \in Nat /\ job[j].fails \in Nat
      /\ run[j].start \in Nat /\ run[j].done \in Nat
      /\ job[j].done <= now /\ (job[j].st = "succeeded" => job[j].done # 0)
      /\ job[j].st = "none" => job[j].fails = 0
      /\ job[j].st \in {"none", "active"} => job[j].done = 0
  BY Facts, Bounds DEF JobTimes
<1>3. CASE RunsMove
  <2>1. job' = job /\ now' = now
    BY <1>3 DEF RunsMove
  <2>2. CASE Same(j)
    BY <1>1, <2>1, <2>2 DEF Same, Expired
  <2>3. CASE Made(j)
    BY <2>1, <2>3 DEF Made, Blank
  <2>4. CASE Ended(j)
    <3>1. job[j].st # "gone" /\ job[j].fails = 0 => Expired(j)
      BY <1>1, <1>2, <2>4 DEF Ended, Terminal, Expired
    <3>2. QED
      BY <2>1, <2>4, <3>1 DEF Ended, Blank, Expired
  <2>5. CASE Updated(j)
    BY <1>1, <1>2, <2>1, <2>5 DEF Updated
  <2>6. QED
    BY <2>2, <2>3, <2>4, <2>5, NextRun
<1>4. CASE JobsMove
  <2>1. run' = run /\ now' = now
    BY <1>4 DEF JobsMove
  <2>2. CASE job'[j] = job[j]
    BY <1>1, <2>1, <2>2 DEF Expired
  <2>3. CASE AttemptStarted(j)
    BY <1>1, <1>2, <2>1, <2>3 DEF AttemptStarted, Expired
  <2>4. CASE Retried(j) \/ GaveUp(j)
    BY <1>1, <1>2, <2>1, <2>4 DEF Retried, GaveUp
  <2>5. CASE Completed(j)
    BY <1>1, <1>2, <2>1, <2>5 DEF Completed, Expired
  <2>6. CASE Collected(j)
    BY <2>6 DEF Collected
  <2>7. QED
    BY <1>4, <2>2, <2>3, <2>4, <2>5, <2>6 DEF JobsMove
<1>5. CASE WALDropped \/ TimePasses
  BY <1>1, <1>2, <1>5 DEF WALDropped, TimePasses, Expired
<1>6. QED
  BY <1>3, <1>4, <1>5, StepKinds
-----------------------------------------------------------------------------
(* The theorems. *)

\* The initial state satisfies the invariant.
LEMMA InitIInv == Init => IInv
<1> SUFFICES ASSUME Init PROVE IInv
  OBVIOUS
<1>1. TypeOK /\ PassTyped
  BY InitTypes
<1>2. ASSUME NEW j \in Jobs
      PROVE  /\ job[j].st = "none" /\ job[j].fails = 0 /\ job[j].start = 0 /\ job[j].done = 0
             /\ run[j].st = "none" /\ run[j].phase = "" /\ run[j].start = 0 /\ run[j].done = 0
  BY DEF Init, NoJob, NoRun
<1>3. now = 1 /\ drops = <<>> /\ Len(drops) = 0 /\ archiver = "none" /\ health.cond = "none" /\ ~health.closed
  BY DEF Init
<1>4. JobTimes
  <2>1. 0 <= now
    BY <1>3
  <2>2. ASSUME NEW j \in Jobs
        PROVE  /\ job[j].start <= now /\ job[j].done <= now /\ run[j].start <= now /\ run[j].done <= now
               /\ run[j].start \in {0, job[j].start}
    BY <1>2, <2>1
  <2>3. QED
    BY <1>2, <2>2 DEF JobTimes
<1>5. RunAgrees
  BY <1>2 DEF RunAgrees
<1>6. DropsInOrder
  BY <1>3 DEF DropsInOrder
<1>7. JobCovers /\ RunCovers
  BY <1>2 DEF JobCovers, RunCovers
<1>8. RoomToDrop /\ ClosedCovers /\ GapReported
  BY <1>3 DEF RoomToDrop, ClosedCovers, GapReported
<1>9. QED
  BY <1>1, <1>4, <1>5, <1>6, <1>7, <1>8 DEF IInv

\* Every step preserves the invariant.
LEMMA NextIInv == IInv /\ [Next]_vars => IInv'
  BY NextTypes, NextTimes, NextDrops, NextJobCovers, NextRunCovers, NextReported, NextRunAgrees
  DEF IInv

\* For all Jobs, however often they fail and are collected, whatever is dropped
\* and however often the operator dies: the invariant holds in every state.
THEOREM Invariance == Spec => []IInv
  BY InitIInv, NextIInv, PTL DEF Spec

\* A WAL gap is never hidden: the WALArchiving condition is True only when a
\* backup that succeeded began after every dropped segment the check saw
\* (reconcileArchiveHealth with the drop it remembers and the BackupRuns).
THEOREM NoGapHidden == Spec => []BackupsInv
<1>1. IInv => BackupsInv
  BY DEF IInv, BackupsInv
<1>2. QED
  BY <1>1, Invariance, PTL

\* ensureBackupRun makes no record again that the TTL ended, while its Job has
\* not failed once.
THEOREM ExpiredStaysDeleted == Spec => NotRecreated
<1>1. ASSUME IInv, [Next]_vars, NEW j \in Jobs, run[j].st = "deleted", job[j].fails = 0
      PROVE  run'[j].st = "deleted"
  <2>1. TypeOK /\ PassTyped /\ RunAgrees
    BY <1>1 DEF IInv
  <2>2. ~Made(j)
    BY <1>1, <2>1 DEF Made, Unrecorded, RunAgrees
  <2>3. QED
    BY <1>1, <2>1, <2>2, NextRun DEF Same, Ended, Updated
<1>2. IInv /\ [Next]_vars =>
        [\A j \in Jobs : run[j].st = "deleted" /\ job[j].fails = 0 => run'[j].st = "deleted"]_vars
  BY <1>1
<1>3. QED
  BY <1>2, Invariance, PTL DEF Spec, NotRecreated

-----------------------------------------------------------------------------
(* Types. *)

\* What is not behind in a cache is current.
CachesFollow ==
  /\ \A r \in Restores : r \notin behind => rcache[r] = res[r]
  /\ ~cbehind => ccache = cluster

\* A Restore that is being deleted has its finalizer, and the reconcile works on
\* a Restore, one with the finalizer as soon as it is past adding it.
Pinned ==
  /\ \A r \in Restores : /\ res[r].deleting => res[r].fin
                         /\ rcache[r].deleting => rcache[r].fin
  /\ pc # "idle" => me \in Restores
  /\ pc \notin {"idle", "fin"} => copy.fin

\* The types by name.
ResTyped == res \in [Restores -> Objects] /\ uids \in Nat
ClusterTyped == cluster \in Clusters
JobsTyped == jobs \in [Restores -> JobObjects]
CachesTyped ==
  /\ rcache \in [Restores -> Objects] /\ behind \subseteq Restores
  /\ ccache \in Clusters /\ cbehind \in BOOLEAN
  /\ pcache \in [sts : BOOLEAN, pg : BOOLEAN]
WorkTyped ==
  /\ target \in {"ok", "invalid", "novolume"}
  /\ sts \in BOOLEAN /\ pg \in BOOLEAN /\ vol \in {"none", "stale", "fresh"} /\ volDel \in BOOLEAN
  /\ writers \subseteq Restores \X Nat /\ data \in {"good", "partial"}
  /\ cpc \in {"idle", "write"} /\ cpaused \in BOOLEAN
PassPCs == {"idle", "fin", "decide", "create", "volumes", "finalize", "finish", "record",
            "stopjob", "save", "unfin"}
ControlTyped ==
  /\ pc \in PassPCs /\ me \in Names /\ current \in BOOLEAN /\ want \in Steps
  /\ out \in Outcomes /\ after \in {"save", "stopjob", "unfin"}
  /\ edits \in 0..MaxEdits /\ faults \in 0..MaxFaults
CopyTyped == copy \in Objects
Accurate == current /\ pc # "idle" => res[me] = copy

RestoreTyped == /\ ResTyped /\ ClusterTyped /\ JobsTyped /\ CachesTyped /\ WorkTyped /\ ControlTyped
         /\ CopyTyped /\ Accurate

WellFormed == RestoreTypeOK /\ CachesFollow /\ Pinned

\* The parts make up the type invariant.
LEMMA RestoreParts == WellFormed <=> RestoreTyped /\ CachesFollow /\ Pinned
  BY DEF WellFormed, RestoreTypeOK, RestoreTyped, ResTyped, ClusterTyped, JobsTyped, CachesTyped,
     WorkTyped, ControlTyped, CopyTyped, Accurate, PassPCs, Pinned

\* The Restores that are written.
LEMMA ObjectWrites ==
  /\ Absent \in Objects
  /\ \A u \in Nat : [Absent EXCEPT !.uid = u] \in Objects
  /\ \A o \in Objects : /\ [o EXCEPT !.deleting = TRUE] \in Objects
                        /\ [o EXCEPT !.fin = TRUE] \in Objects
                        /\ \A s \in Steps : [o EXCEPT !.step = s] \in Objects
  BY DEF Objects, Absent, Steps

\* The Jobs that are written.
LEMMA JobObjectWrites ==
  /\ NoRestoreJob \in JobObjects
  /\ \A u \in Nat : [NoRestoreJob EXCEPT !.owner = u] \in JobObjects
  /\ \A j \in JobObjects : /\ [j EXCEPT !.deleting = TRUE] \in JobObjects
                           /\ \A s \in {"complete", "failed"} : [j EXCEPT !.state = s] \in JobObjects
  BY DEF JobObjects, NoRestoreJob

\* The Clusters that are written.
LEMMA ClusterWrites ==
  ASSUME NEW c \in Clusters
  PROVE  /\ \A n \in Names : [c EXCEPT !.holder = n] \in Clusters
         /\ [c EXCEPT !.broken = 0] \in Clusters
         /\ \A n \in Names, u \in Nat : [c EXCEPT !.allow = n, !.allowUID = u] \in Clusters
         /\ \A u \in Nat : [c EXCEPT !.last = u] \in Clusters
         /\ me \in Names => \A o \in Outcomes : Settled(c, o) \in Clusters
<1>1. 0 \in Names
  BY DEF Names
<1>2. /\ \A n \in Names : [c EXCEPT !.holder = n] \in Clusters
      /\ [c EXCEPT !.broken = 0] \in Clusters
      /\ \A n \in Names, u \in Nat : [c EXCEPT !.allow = n, !.allowUID = u] \in Clusters
      /\ \A u \in Nat : [c EXCEPT !.last = u] \in Clusters
  BY <1>1 DEF Clusters
<1>3. ASSUME me \in Names, NEW o \in Outcomes PROVE Settled(c, o) \in Clusters
  <2> DEFINE h == IF c.holder = me THEN 0 ELSE c.holder
             a == IF c.allow = me THEN 0 ELSE c.allow
             u == IF c.allow = me THEN 0 ELSE c.allowUID
             b == CASE o = "succeeded" -> 0 [] o = "released" -> c.broken [] OTHER -> me
  <2>1. h \in Names /\ a \in Names /\ u \in Nat /\ b \in Names
    BY <1>1, <1>3 DEF Clusters
  <2>2. Settled(c, o) = [c EXCEPT !.holder = h, !.allow = a, !.allowUID = u, !.broken = b]
    BY DEF Settled
  <2> HIDE DEF h, a, u, b
  <2>3. QED
    BY <2>1, <2>2 DEF Clusters
<1>4. QED
  BY <1>2, <1>3

\* The initial state is well formed.
LEMMA RestoreInitTypes == RestoreInit => WellFormed
<1> SUFFICES ASSUME RestoreInit PROVE RestoreTyped /\ CachesFollow /\ Pinned
  BY RestoreParts
<1>1. Absent \in Objects /\ NoRestoreJob \in JobObjects /\ 0 \in Names /\ Absent.deleting = FALSE
  BY ObjectWrites, JobObjectWrites DEF Names, Absent
<1>2. ResTyped /\ JobsTyped /\ CopyTyped
  BY <1>1 DEF RestoreInit, ResTyped, JobsTyped, CopyTyped
<1>3. ClusterTyped /\ CachesTyped
  <2>1. cluster \in Clusters
    BY <1>1 DEF RestoreInit, Clusters
  <2>2. QED
    BY <1>2, <2>1 DEF RestoreInit, ClusterTyped, CachesTyped, ResTyped
<1>4. WorkTyped /\ ControlTyped /\ Accurate
  <2>1. edits \in 0 .. MaxEdits /\ faults \in 0 .. MaxFaults
    BY BoundsAssumption DEF RestoreInit
  <2>2. WorkTyped /\ Accurate
    BY DEF RestoreInit, WorkTyped, Accurate
  <2>3. ControlTyped
    BY <1>1, <2>1 DEF RestoreInit, ControlTyped, Steps, Outcomes, PassPCs
  <2>4. QED
    BY <2>2, <2>3
<1>5. CachesFollow /\ Pinned
  BY <1>1 DEF RestoreInit, CachesFollow, Pinned
<1>6. QED
  BY <1>2, <1>3, <1>4, <1>5 DEF RestoreTyped

\* What a step does to the Restores.
LEMMA ResSteps ==
  [RestoreNext]_rvars =>
    \/ res' = res /\ uids' = uids /\ behind' = behind /\ rcache' = rcache
    \/ \E r \in Restores : CreateRestore(r) \/ DeleteRestore(r) \/ TouchRestore(r)
    \/ AddFinalizer \/ Save \/ RemoveFinalizer \/ SyncRestores
  BY DEF RestoreNext, Reconcile, ClusterReconcile, Sync, Pods, Users, rvars, api, caches,
         workload, ctl, local, Kube, Env, ReadsOnly, Stop, GoTo, Report, FinishOn, UserWrites,
         UserAnnotates, WriteRestore, WriteCluster, Confirm, LiftInterruption, DeleteJob,
         LoseTarget, RecoverTarget, SyncCluster, SyncPods, StartPods, StopPods, CloneStandby,
         RemoveVolume, JobWrites, JobEnds, JobPodGone, JobGone, CollectJob, ClusterRead,
         ClusterWrite, Begin, Prepare, Hold, Follow, CreateJob, DeleteVolumes, Finish, RecordLast,
         Finalize, StopJob, AwaitPods, Conflict, Fail

\* What a step does to the Cluster.
LEMMA ClusterSteps ==
  [RestoreNext]_rvars =>
    \/ cluster' = cluster /\ ccache' = ccache /\ cbehind' = cbehind
    \/ \E r \in Restores : \E uid \in {0, res[r].uid} : Confirm(r, uid)
    \/ LiftInterruption \/ SyncCluster \/ Hold \/ Finish \/ RecordLast
  BY DEF RestoreNext, Reconcile, ClusterReconcile, Sync, Pods, Users, rvars, api, caches,
         workload, ctl, local, Kube, Env, ReadsOnly, Stop, GoTo, Report, FinishOn, UserWrites,
         UserAnnotates, WriteRestore, WriteCluster, CreateRestore, DeleteRestore, TouchRestore,
         DeleteJob, LoseTarget, RecoverTarget, SyncRestores, SyncPods, StartPods, StopPods,
         CloneStandby, RemoveVolume, JobWrites, JobEnds, JobPodGone, JobGone, CollectJob,
         ClusterRead, ClusterWrite, Begin, AddFinalizer, Prepare, Follow, CreateJob,
         DeleteVolumes, Finalize, StopJob, AwaitPods, Save, RemoveFinalizer, Conflict, Fail

\* What a step does to the Jobs.
LEMMA JobSteps ==
  [RestoreNext]_rvars =>
    \/ jobs' = jobs
    \/ \E r \in Restores : DeleteJob(r) \/ JobEnds(r) \/ JobGone(r) \/ CollectJob(r)
    \/ CreateJob \/ StopJob
  BY DEF RestoreNext, Reconcile, ClusterReconcile, Sync, Pods, Users, rvars, api, caches,
         workload, ctl, local, Kube, Env, ReadsOnly, Stop, GoTo, Report, FinishOn, UserWrites,
         UserAnnotates, WriteRestore, WriteCluster, CreateRestore, DeleteRestore, TouchRestore,
         Confirm, LiftInterruption, LoseTarget, RecoverTarget, SyncRestores, SyncCluster,
         SyncPods, StartPods, StopPods, CloneStandby, RemoveVolume, JobWrites, JobPodGone,
         ClusterRead, ClusterWrite, Begin, AddFinalizer, Prepare, Hold, Follow, DeleteVolumes,
         Finish, RecordLast, Finalize, AwaitPods, Save, RemoveFinalizer, Conflict, Fail

\* What a step does to the reconcile's Restore.
LEMMA CopySteps ==
  ControlTyped /\ [RestoreNext]_rvars =>
    \/ me' = me /\ copy' = copy /\ (current' => current) /\ (pc = "idle" <=> pc' = "idle")
       /\ (pc \in {"idle", "fin"} => pc' = pc)
    \/ pc' = "idle" /\ me' = 0 /\ copy' = Absent /\ current' = FALSE
    \/ \E r \in Restores : Begin(r)
    \/ AddFinalizer \/ Save
<1> SUFFICES ASSUME ControlTyped, [RestoreNext]_rvars
             PROVE  \/ me' = me /\ copy' = copy /\ (current' => current) /\ (pc = "idle" <=> pc' = "idle")
                       /\ (pc \in {"idle", "fin"} => pc' = pc)
                    \/ pc' = "idle" /\ me' = 0 /\ copy' = Absent /\ current' = FALSE
                    \/ \E r \in Restores : Begin(r)
                    \/ AddFinalizer \/ Save
  OBVIOUS
<1>1. after \in {"save", "stopjob", "unfin"} /\ current \in BOOLEAN
  BY DEF ControlTyped
<1>2. CASE RecordLast \/ Finish
  BY <1>1, <1>2 DEF RecordLast, Finish
<1>3. CASE \E r \in Restores : CreateRestore(r) \/ DeleteRestore(r) \/ TouchRestore(r)
  BY <1>1, <1>3 DEF CreateRestore, DeleteRestore, TouchRestore, UserWrites
<1>4. QED
  BY <1>2, <1>3 DEF RestoreNext, Reconcile, ClusterReconcile, Sync, Pods, Users, rvars, api, caches,
         workload, ctl, local, Kube, Env, ReadsOnly, Stop, GoTo, Report, FinishOn, UserAnnotates,
         WriteRestore, WriteCluster, Confirm, LiftInterruption, DeleteJob, LoseTarget,
         RecoverTarget, SyncRestores, SyncCluster, SyncPods, StartPods, StopPods, CloneStandby,
         RemoveVolume, JobWrites, JobEnds, JobPodGone, JobGone, CollectJob, ClusterRead,
         ClusterWrite, Prepare, Hold, Follow, CreateJob, DeleteVolumes, Finalize, StopJob,
         AwaitPods, RemoveFinalizer, Conflict, Fail


\* A step keeps the Restores, and their copies in the cache, well formed.
LEMMA ResKept ==
  ASSUME WellFormed, [RestoreNext]_rvars
  PROVE  /\ ResTyped'
         /\ rcache' \in [Restores -> Objects] /\ behind' \subseteq Restores
         /\ \A r \in Restores : r \notin behind' => rcache'[r] = res'[r]
<1>1. /\ res \in [Restores -> Objects] /\ uids \in Nat /\ rcache \in [Restores -> Objects]
      /\ behind \subseteq Restores /\ copy \in Objects /\ want \in Steps
      /\ \A r \in Restores : r \notin behind => rcache[r] = res[r]
      /\ pc # "idle" => me \in Restores
  BY DEF WellFormed, RestoreTypeOK, CachesFollow, Pinned
<1> DEFINE Wrote == \E r \in Restores, o \in Objects :
                       res' = [res EXCEPT ![r] = o] /\ behind' = behind \cup {r} /\ rcache' = rcache
<1>2. ASSUME NEW r \in Restores, CreateRestore(r) PROVE Wrote /\ uids' \in Nat
  <2> DEFINE o == [Absent EXCEPT !.uid = uids + 1]
  <2>1. o \in Objects
    BY <1>1, ObjectWrites
  <2>2. res' = [res EXCEPT ![r] = o] /\ behind' = behind \cup {r} /\ rcache' = rcache /\ uids' = uids + 1
    BY <1>2 DEF CreateRestore, UserWrites, WriteRestore
  <2>3. uids' \in Nat
    BY <1>1, <2>2
  <2> HIDE DEF o
  <2>4. Wrote
    BY <2>1, <2>2
  <2>5. QED
    BY <2>3, <2>4
<1>3. ASSUME NEW r \in Restores, DeleteRestore(r) PROVE Wrote /\ uids' \in Nat
  <2> DEFINE o == IF res[r].fin THEN [res[r] EXCEPT !.deleting = TRUE] ELSE Absent
  <2>1. o \in Objects
    <3>1. res[r] \in Objects
      BY <1>1
    <3>2. QED
      BY <3>1, ObjectWrites
  <2>2. res' = [res EXCEPT ![r] = o] /\ behind' = behind \cup {r} /\ rcache' = rcache /\ uids' = uids
    BY <1>3 DEF DeleteRestore, UserWrites, WriteRestore
  <2> HIDE DEF o
  <2>3. QED
    BY <1>1, <2>1, <2>2
<1>4. ASSUME NEW r \in Restores, TouchRestore(r) PROVE Wrote /\ uids' \in Nat
  <2>1. res[r] \in Objects
    BY <1>1
  <2>2. res' = [res EXCEPT ![r] = res[r]] /\ behind' = behind \cup {r} /\ rcache' = rcache /\ uids' = uids
    BY <1>4 DEF TouchRestore, UserWrites, WriteRestore
  <2>3. QED
    BY <1>1, <2>1, <2>2
<1>5. CASE AddFinalizer
  <2> DEFINE o == [copy EXCEPT !.fin = TRUE]
  <2>1. o \in Objects /\ me \in Restores
    BY <1>1, <1>5, ObjectWrites DEF AddFinalizer
  <2>2. res' = [res EXCEPT ![me] = o] /\ behind' = behind \cup {me} /\ rcache' = rcache /\ uids' = uids
    BY <1>5 DEF AddFinalizer, WriteRestore, Env
  <2> HIDE DEF o
  <2>3. QED
    BY <1>1, <2>1, <2>2 DEF ResTyped
<1>6. CASE Save
  <2> DEFINE o == [copy EXCEPT !.step = want]
  <2>1. o \in Objects /\ me \in Restores
    BY <1>1, <1>6, ObjectWrites DEF Save
  <2>2. /\ \/ res' = [res EXCEPT ![me] = o] /\ behind' = behind \cup {me}
           \/ res' = res /\ behind' = behind
        /\ rcache' = rcache /\ uids' = uids
    BY <1>6 DEF Save, WriteRestore, Env
  <2> HIDE DEF o
  <2>3. QED
    BY <1>1, <2>1, <2>2 DEF ResTyped
<1>7. CASE RemoveFinalizer
  <2>1. me \in Restores /\ Absent \in Objects
    BY <1>1, <1>7, ObjectWrites DEF RemoveFinalizer
  <2>2. res' = [res EXCEPT ![me] = Absent] /\ behind' = behind \cup {me} /\ rcache' = rcache /\ uids' = uids
    BY <1>7 DEF RemoveFinalizer, WriteRestore, Env
  <2>3. QED
    BY <1>1, <2>1, <2>2 DEF ResTyped
<1>8. CASE SyncRestores
  BY <1>1, <1>8 DEF SyncRestores, api, ResTyped
<1>9. CASE res' = res /\ uids' = uids /\ behind' = behind /\ rcache' = rcache
  BY <1>1, <1>9 DEF ResTyped
<1>10. ASSUME Wrote, uids' \in Nat
       PROVE  /\ ResTyped'
              /\ rcache' \in [Restores -> Objects] /\ behind' \subseteq Restores
              /\ \A r \in Restores : r \notin behind' => rcache'[r] = res'[r]
  BY <1>1, <1>10 DEF ResTyped
<1>11. QED
  <2> HIDE DEF Wrote
  <2>1. QED
    BY <1>2, <1>3, <1>4, <1>5, <1>6, <1>7, <1>8, <1>9, <1>10, ResSteps

\* A step keeps the Cluster and its copy in the cache well formed.
LEMMA ClusterKept ==
  ASSUME WellFormed, [RestoreNext]_rvars
  PROVE  ClusterTyped' /\ ccache' \in Clusters /\ cbehind' \in BOOLEAN /\ (~cbehind' => ccache' = cluster')
<1>1. /\ cluster \in Clusters /\ ccache \in Clusters /\ cbehind \in BOOLEAN /\ (~cbehind => ccache = cluster)
      /\ res \in [Restores -> Objects] /\ me \in Names /\ copy \in Objects /\ out \in Outcomes
  BY DEF WellFormed, RestoreTypeOK, CachesFollow
<1> DEFINE Wrote == \E c \in Clusters : cluster' = c /\ cbehind' = TRUE /\ ccache' = ccache
<1>2. ASSUME NEW r \in Restores, NEW uid \in {0, res[r].uid}, Confirm(r, uid) PROVE Wrote
  <2>1. r \in Names /\ uid \in Nat
    BY <1>1 DEF Objects, Names
  <2> DEFINE c == [cluster EXCEPT !.allow = r, !.allowUID = uid]
  <2>2. c \in Clusters
    BY <1>1, <2>1, ClusterWrites
  <2>3. cluster' = c /\ cbehind' = TRUE /\ ccache' = ccache
    BY <1>2 DEF Confirm, UserAnnotates, WriteCluster
  <2> HIDE DEF c
  <2>4. QED
    BY <2>2, <2>3
<1>3. CASE LiftInterruption
  <2> DEFINE c == [cluster EXCEPT !.broken = 0]
  <2>1. c \in Clusters
    BY <1>1, ClusterWrites
  <2>2. cluster' = c /\ cbehind' = TRUE /\ ccache' = ccache
    BY <1>3 DEF LiftInterruption, UserAnnotates, WriteCluster
  <2> HIDE DEF c
  <2>3. Wrote
    BY <2>1, <2>2
  <2>4. QED
    BY <1>1, <2>3 DEF ClusterTyped
<1>4. CASE Hold
  <2> DEFINE c == [cluster EXCEPT !.holder = me]
  <2>1. c \in Clusters
    BY <1>1, ClusterWrites
  <2>2. cluster' = c /\ cbehind' = TRUE /\ ccache' = ccache
    BY <1>4 DEF Hold, WriteCluster, Env
  <2> HIDE DEF c
  <2>3. Wrote
    BY <2>1, <2>2
  <2>4. QED
    BY <1>1, <2>3 DEF ClusterTyped
<1>5. CASE Finish
  <2> DEFINE c == Settled(cluster, Outcome)
  <2>1. Outcome \in Outcomes
    BY <1>1 DEF Outcome, Outcomes
  <2>2. c \in Clusters
    BY <1>1, <2>1, ClusterWrites
  <2>3. \/ cluster' = c /\ cbehind' = TRUE /\ ccache' = ccache
        \/ cluster' = cluster /\ cbehind' = cbehind /\ ccache' = ccache
    BY <1>5 DEF Finish, WriteCluster, Env
  <2> HIDE DEF c
  <2>4. Wrote \/ (cluster' = cluster /\ cbehind' = cbehind /\ ccache' = ccache)
    BY <2>2, <2>3
  <2>5. QED
    BY <1>1, <2>4 DEF ClusterTyped
<1>6. CASE RecordLast
  <2> DEFINE c == [cluster EXCEPT !.last = copy.uid]
  <2>1. copy.uid \in Nat
    BY <1>1 DEF Objects
  <2>2. c \in Clusters
    BY <1>1, <2>1, ClusterWrites
  <2>3. \/ cluster' = c /\ cbehind' = TRUE /\ ccache' = ccache
        \/ cluster' = cluster /\ cbehind' = cbehind /\ ccache' = ccache
    BY <1>6 DEF RecordLast, WriteCluster, Env
  <2> HIDE DEF c
  <2>4. Wrote \/ (cluster' = cluster /\ cbehind' = cbehind /\ ccache' = ccache)
    BY <2>2, <2>3
  <2>5. QED
    BY <1>1, <2>4 DEF ClusterTyped
<1>7. CASE SyncCluster
  BY <1>1, <1>7 DEF SyncCluster, api, ClusterTyped
<1>8. CASE cluster' = cluster /\ ccache' = ccache /\ cbehind' = cbehind
  BY <1>1, <1>8 DEF ClusterTyped
<1>9. ASSUME Wrote
      PROVE  ClusterTyped' /\ ccache' \in Clusters /\ cbehind' \in BOOLEAN /\ (~cbehind' => ccache' = cluster')
  BY <1>1, <1>9 DEF ClusterTyped
<1>10. QED
  <2> HIDE DEF Wrote
  <2>1. QED
    BY <1>2, <1>3, <1>4, <1>5, <1>6, <1>7, <1>8, <1>9, ClusterSteps

\* A step keeps the Jobs well formed.
LEMMA JobsKept ==
  ASSUME WellFormed, [RestoreNext]_rvars
  PROVE  JobsTyped'
<1>1. jobs \in [Restores -> JobObjects] /\ copy.uid \in Nat
  BY DEF WellFormed, RestoreTypeOK, Objects
<1> SUFFICES ASSUME ~(jobs' = jobs)
             PROVE \E r \in Restores : \E j \in JobObjects : jobs' = [jobs EXCEPT ![r] = j]
  BY <1>1 DEF JobsTyped
<1>2. ASSUME NEW r \in Restores, DeleteJob(r) \/ JobGone(r) \/ CollectJob(r)
      PROVE  \E j \in JobObjects : jobs' = [jobs EXCEPT ![r] = j]
  BY <1>2, JobObjectWrites DEF DeleteJob, JobGone, CollectJob
<1>3. ASSUME NEW r \in Restores, JobEnds(r)
      PROVE  \E j \in JobObjects : jobs' = [jobs EXCEPT ![r] = j]
  <2>1. jobs[r] \in JobObjects
    BY <1>1
  <2>2. \E s \in {"complete", "failed"} : jobs' = [jobs EXCEPT ![r] = [jobs[r] EXCEPT !.state = s]]
    BY <1>3 DEF JobEnds
  <2>3. QED
    BY <2>1, <2>2, JobObjectWrites
<1>4. CASE CreateJob
  <2> DEFINE j == [NoRestoreJob EXCEPT !.owner = copy.uid]
  <2>1. j \in JobObjects /\ me \in Restores
    BY <1>1, <1>4, JobObjectWrites DEF CreateJob, WellFormed, Pinned
  <2>2. jobs' = [jobs EXCEPT ![me] = j]
    BY <1>4 DEF CreateJob
  <2> HIDE DEF j
  <2>3. QED
    BY <2>1, <2>2
<1>5. CASE StopJob
  <2>1. me \in Restores
    BY <1>5 DEF StopJob, WellFormed, Pinned
  <2>2. jobs[me] \in JobObjects
    BY <1>1, <2>1
  <2>3. jobs' = [jobs EXCEPT ![me] = [jobs[me] EXCEPT !.deleting = TRUE]]
    BY <1>5 DEF StopJob
  <2>4. QED
    BY <2>1, <2>2, <2>3, JobObjectWrites
<1>6. QED
  BY <1>2, <1>3, <1>4, <1>5, JobSteps

\* A step keeps the pods, the volumes and the caches of them well formed.
LEMMA WorkKept ==
  ASSUME WellFormed, [RestoreNext]_rvars
  PROVE  WorkTyped' /\ pcache' \in [sts : BOOLEAN, pg : BOOLEAN]
<1>1. WorkTyped /\ pcache \in [sts : BOOLEAN, pg : BOOLEAN] /\ copy.uid \in Nat
      /\ (pc # "idle" => me \in Restores)
  BY DEF WellFormed, RestoreTypeOK, WorkTyped, Objects, Pinned
<1>2. sts' \in BOOLEAN
  <2>1. sts' = sts \/ sts' = ~cpaused
    BY DEF RestoreNext, Reconcile, ClusterReconcile, Sync, Pods, Users, rvars, api, caches,
           workload, ctl, local, Kube, Env, ReadsOnly, Stop, GoTo, Report, FinishOn, UserWrites,
           UserAnnotates, WriteRestore, WriteCluster, CreateRestore, DeleteRestore, TouchRestore,
           Confirm, LiftInterruption, DeleteJob, LoseTarget, RecoverTarget, SyncRestores,
           SyncCluster, SyncPods, StartPods, StopPods, CloneStandby, RemoveVolume, JobWrites,
           JobEnds, JobPodGone, JobGone, CollectJob, ClusterRead, ClusterWrite, Begin,
           AddFinalizer, Prepare, Hold, Follow, CreateJob, DeleteVolumes, Finish, RecordLast,
           Finalize, StopJob, AwaitPods, Save, RemoveFinalizer, Conflict, Fail
  <2>2. QED
    BY <1>1, <2>1 DEF WorkTyped
<1>3. pg' \in BOOLEAN
  <2>1. pg' = pg \/ pg' = TRUE \/ pg' = FALSE
    BY DEF RestoreNext, Reconcile, ClusterReconcile, Sync, Pods, Users, rvars, api, caches,
           workload, ctl, local, Kube, Env, ReadsOnly, Stop, GoTo, Report, FinishOn, UserWrites,
           UserAnnotates, WriteRestore, WriteCluster, CreateRestore, DeleteRestore, TouchRestore,
           Confirm, LiftInterruption, DeleteJob, LoseTarget, RecoverTarget, SyncRestores,
           SyncCluster, SyncPods, StartPods, StopPods, CloneStandby, RemoveVolume, JobWrites,
           JobEnds, JobPodGone, JobGone, CollectJob, ClusterRead, ClusterWrite, Begin,
           AddFinalizer, Prepare, Hold, Follow, CreateJob, DeleteVolumes, Finish, RecordLast,
           Finalize, StopJob, AwaitPods, Save, RemoveFinalizer, Conflict, Fail
  <2>2. QED
    BY <1>1, <2>1 DEF WorkTyped
<1>4. vol' \in {"none", "stale", "fresh"}
  <2>1. vol' = vol \/ vol' = "none" \/ vol' = "stale" \/ vol' = "fresh"
    BY DEF RestoreNext, Reconcile, ClusterReconcile, Sync, Pods, Users, rvars, api, caches,
           workload, ctl, local, Kube, Env, ReadsOnly, Stop, GoTo, Report, FinishOn, UserWrites,
           UserAnnotates, WriteRestore, WriteCluster, CreateRestore, DeleteRestore, TouchRestore,
           Confirm, LiftInterruption, DeleteJob, LoseTarget, RecoverTarget, SyncRestores,
           SyncCluster, SyncPods, StartPods, StopPods, CloneStandby, RemoveVolume, JobWrites,
           JobEnds, JobPodGone, JobGone, CollectJob, ClusterRead, ClusterWrite, Begin,
           AddFinalizer, Prepare, Hold, Follow, CreateJob, DeleteVolumes, Finish, RecordLast,
           Finalize, StopJob, AwaitPods, Save, RemoveFinalizer, Conflict, Fail
  <2>2. QED
    BY <1>1, <2>1 DEF WorkTyped
<1>5. volDel' \in BOOLEAN
  <2>1. volDel' = volDel \/ volDel' = TRUE \/ volDel' = FALSE
    BY DEF RestoreNext, Reconcile, ClusterReconcile, Sync, Pods, Users, rvars, api, caches,
           workload, ctl, local, Kube, Env, ReadsOnly, Stop, GoTo, Report, FinishOn, UserWrites,
           UserAnnotates, WriteRestore, WriteCluster, CreateRestore, DeleteRestore, TouchRestore,
           Confirm, LiftInterruption, DeleteJob, LoseTarget, RecoverTarget, SyncRestores,
           SyncCluster, SyncPods, StartPods, StopPods, CloneStandby, RemoveVolume, JobWrites,
           JobEnds, JobPodGone, JobGone, CollectJob, ClusterRead, ClusterWrite, Begin,
           AddFinalizer, Prepare, Hold, Follow, CreateJob, DeleteVolumes, Finish, RecordLast,
           Finalize, StopJob, AwaitPods, Save, RemoveFinalizer, Conflict, Fail
  <2>2. QED
    BY <1>1, <2>1 DEF WorkTyped
<1>6. writers' \subseteq Restores \X Nat
  <2>1. writers' \subseteq writers \/ (pc = "create" /\ writers' = writers \cup {<<me, copy.uid>>})
    BY DEF RestoreNext, Reconcile, ClusterReconcile, Sync, Pods, Users, rvars, api, caches,
           workload, ctl, local, Kube, Env, ReadsOnly, Stop, GoTo, Report, FinishOn, UserWrites,
           UserAnnotates, WriteRestore, WriteCluster, CreateRestore, DeleteRestore, TouchRestore,
           Confirm, LiftInterruption, DeleteJob, LoseTarget, RecoverTarget, SyncRestores,
           SyncCluster, SyncPods, StartPods, StopPods, CloneStandby, RemoveVolume, JobWrites,
           JobEnds, JobPodGone, JobGone, CollectJob, ClusterRead, ClusterWrite, Begin,
           AddFinalizer, Prepare, Hold, Follow, CreateJob, DeleteVolumes, Finish, RecordLast,
           Finalize, StopJob, AwaitPods, Save, RemoveFinalizer, Conflict, Fail
  <2>2. QED
    BY <1>1, <2>1 DEF WorkTyped
<1>7. data' \in {"good", "partial"}
  <2>1. data' = data \/ data' = "good" \/ data' = "partial"
    BY DEF RestoreNext, Reconcile, ClusterReconcile, Sync, Pods, Users, rvars, api, caches,
           workload, ctl, local, Kube, Env, ReadsOnly, Stop, GoTo, Report, FinishOn, UserWrites,
           UserAnnotates, WriteRestore, WriteCluster, CreateRestore, DeleteRestore, TouchRestore,
           Confirm, LiftInterruption, DeleteJob, LoseTarget, RecoverTarget, SyncRestores,
           SyncCluster, SyncPods, StartPods, StopPods, CloneStandby, RemoveVolume, JobWrites,
           JobEnds, JobPodGone, JobGone, CollectJob, ClusterRead, ClusterWrite, Begin,
           AddFinalizer, Prepare, Hold, Follow, CreateJob, DeleteVolumes, Finish, RecordLast,
           Finalize, StopJob, AwaitPods, Save, RemoveFinalizer, Conflict, Fail
  <2>2. QED
    BY <1>1, <2>1 DEF WorkTyped
<1>8. cpc' \in {"idle", "write"}
  <2>1. cpc' = cpc \/ cpc' = "idle" \/ cpc' = "write"
    BY DEF RestoreNext, Reconcile, ClusterReconcile, Sync, Pods, Users, rvars, api, caches,
           workload, ctl, local, Kube, Env, ReadsOnly, Stop, GoTo, Report, FinishOn, UserWrites,
           UserAnnotates, WriteRestore, WriteCluster, CreateRestore, DeleteRestore, TouchRestore,
           Confirm, LiftInterruption, DeleteJob, LoseTarget, RecoverTarget, SyncRestores,
           SyncCluster, SyncPods, StartPods, StopPods, CloneStandby, RemoveVolume, JobWrites,
           JobEnds, JobPodGone, JobGone, CollectJob, ClusterRead, ClusterWrite, Begin,
           AddFinalizer, Prepare, Hold, Follow, CreateJob, DeleteVolumes, Finish, RecordLast,
           Finalize, StopJob, AwaitPods, Save, RemoveFinalizer, Conflict, Fail
  <2>2. QED
    BY <1>1, <2>1 DEF WorkTyped
<1>9. cpaused' \in BOOLEAN
  <2>1. cpaused' = cpaused \/ cpaused' = FALSE \/ cpaused' = Paused(ccache)
    BY DEF RestoreNext, Reconcile, ClusterReconcile, Sync, Pods, Users, rvars, api, caches,
           workload, ctl, local, Kube, Env, ReadsOnly, Stop, GoTo, Report, FinishOn, UserWrites,
           UserAnnotates, WriteRestore, WriteCluster, CreateRestore, DeleteRestore, TouchRestore,
           Confirm, LiftInterruption, DeleteJob, LoseTarget, RecoverTarget, SyncRestores,
           SyncCluster, SyncPods, StartPods, StopPods, CloneStandby, RemoveVolume, JobWrites,
           JobEnds, JobPodGone, JobGone, CollectJob, ClusterRead, ClusterWrite, Begin,
           AddFinalizer, Prepare, Hold, Follow, CreateJob, DeleteVolumes, Finish, RecordLast,
           Finalize, StopJob, AwaitPods, Save, RemoveFinalizer, Conflict, Fail
  <2>2. QED
    BY <1>1, <2>1 DEF WorkTyped, Paused
<1>10. target' \in {"ok", "invalid", "novolume"}
  <2>1. target' = target \/ target' = "ok" \/ target' = "invalid" \/ target' = "novolume"
    BY DEF RestoreNext, Reconcile, ClusterReconcile, Sync, Pods, Users, rvars, api, caches,
           workload, ctl, local, Kube, Env, ReadsOnly, Stop, GoTo, Report, FinishOn, UserWrites,
           UserAnnotates, WriteRestore, WriteCluster, CreateRestore, DeleteRestore, TouchRestore,
           Confirm, LiftInterruption, DeleteJob, LoseTarget, RecoverTarget, SyncRestores,
           SyncCluster, SyncPods, StartPods, StopPods, CloneStandby, RemoveVolume, JobWrites,
           JobEnds, JobPodGone, JobGone, CollectJob, ClusterRead, ClusterWrite, Begin,
           AddFinalizer, Prepare, Hold, Follow, CreateJob, DeleteVolumes, Finish, RecordLast,
           Finalize, StopJob, AwaitPods, Save, RemoveFinalizer, Conflict, Fail
  <2>2. QED
    BY <1>1, <2>1 DEF WorkTyped
<1>11. pcache' \in [sts : BOOLEAN, pg : BOOLEAN]
  <2>1. pcache' = pcache \/ pcache' = [sts |-> sts, pg |-> pg]
    BY DEF RestoreNext, Reconcile, ClusterReconcile, Sync, Pods, Users, rvars, api, caches,
           workload, ctl, local, Kube, Env, ReadsOnly, Stop, GoTo, Report, FinishOn, UserWrites,
           UserAnnotates, WriteRestore, WriteCluster, CreateRestore, DeleteRestore, TouchRestore,
           Confirm, LiftInterruption, DeleteJob, LoseTarget, RecoverTarget, SyncRestores,
           SyncCluster, SyncPods, StartPods, StopPods, CloneStandby, RemoveVolume, JobWrites,
           JobEnds, JobPodGone, JobGone, CollectJob, ClusterRead, ClusterWrite, Begin,
           AddFinalizer, Prepare, Hold, Follow, CreateJob, DeleteVolumes, Finish, RecordLast,
           Finalize, StopJob, AwaitPods, Save, RemoveFinalizer, Conflict, Fail
  <2>2. QED
    BY <1>1, <2>1 DEF WorkTyped
<1>12. QED
  BY <1>2, <1>3, <1>4, <1>5, <1>6, <1>7, <1>8, <1>9, <1>10, <1>11 DEF WorkTyped

\* A step keeps the control state well formed.
LEMMA ControlKept ==
  ASSUME WellFormed, [RestoreNext]_rvars
  PROVE  ControlTyped'
<1>1. ControlTyped
  BY RestoreParts DEF RestoreTyped
<1>2. pc' \in PassPCs
  <2>1. after \in PassPCs /\ pc \in PassPCs
    BY <1>1 DEF ControlTyped, PassPCs
  <2>2. pc' = pc \/ pc' = after \/ pc' \in PassPCs
    BY DEF RestoreNext, Reconcile, ClusterReconcile, Sync, Pods, Users, rvars, api, caches,
           workload, ctl, local, Kube, Env, ReadsOnly, Stop, GoTo, Report, FinishOn, UserWrites,
           UserAnnotates, WriteRestore, WriteCluster, CreateRestore, DeleteRestore, TouchRestore,
           Confirm, LiftInterruption, DeleteJob, LoseTarget, RecoverTarget, SyncRestores,
           SyncCluster, SyncPods, StartPods, StopPods, CloneStandby, RemoveVolume, JobWrites,
           JobEnds, JobPodGone, JobGone, CollectJob, ClusterRead, ClusterWrite, Begin,
           AddFinalizer, Prepare, Hold, Follow, CreateJob, DeleteVolumes, Finish, RecordLast,
           Finalize, StopJob, AwaitPods, Save, RemoveFinalizer, Conflict, Fail, PassPCs
  <2>3. QED
    BY <2>1, <2>2
<1>3. me' \in Names
  <2>1. me' = me \/ me' = 0 \/ me' \in Restores
    BY DEF RestoreNext, Reconcile, ClusterReconcile, Sync, Pods, Users, rvars, api, caches,
           workload, ctl, local, Kube, Env, ReadsOnly, Stop, GoTo, Report, FinishOn, UserWrites,
           UserAnnotates, WriteRestore, WriteCluster, CreateRestore, DeleteRestore, TouchRestore,
           Confirm, LiftInterruption, DeleteJob, LoseTarget, RecoverTarget, SyncRestores,
           SyncCluster, SyncPods, StartPods, StopPods, CloneStandby, RemoveVolume, JobWrites,
           JobEnds, JobPodGone, JobGone, CollectJob, ClusterRead, ClusterWrite, Begin,
           AddFinalizer, Prepare, Hold, Follow, CreateJob, DeleteVolumes, Finish, RecordLast,
           Finalize, StopJob, AwaitPods, Save, RemoveFinalizer, Conflict, Fail
  <2>2. QED
    BY <1>1, <2>1 DEF ControlTyped, Names
<1>4. current' \in BOOLEAN
  <2>1. \/ current' = current \/ current' = FALSE
        \/ \E r \in Restores : current' = (r \notin behind) \/ current' = (current /\ r # me)
    BY DEF RestoreNext, Reconcile, ClusterReconcile, Sync, Pods, Users, rvars, api, caches,
           workload, ctl, local, Kube, Env, ReadsOnly, Stop, GoTo, Report, FinishOn, UserWrites,
           UserAnnotates, WriteRestore, WriteCluster, CreateRestore, DeleteRestore, TouchRestore,
           Confirm, LiftInterruption, DeleteJob, LoseTarget, RecoverTarget, SyncRestores,
           SyncCluster, SyncPods, StartPods, StopPods, CloneStandby, RemoveVolume, JobWrites,
           JobEnds, JobPodGone, JobGone, CollectJob, ClusterRead, ClusterWrite, Begin,
           AddFinalizer, Prepare, Hold, Follow, CreateJob, DeleteVolumes, Finish, RecordLast,
           Finalize, StopJob, AwaitPods, Save, RemoveFinalizer, Conflict, Fail
  <2>2. QED
    BY <1>1, <2>1, Zenon DEF ControlTyped
<1>5. want' \in Steps
  <2>1. want' = want \/ want' \in Steps
    BY DEF RestoreNext, Reconcile, ClusterReconcile, Sync, Pods, Users, rvars, api, caches,
           workload, ctl, local, Kube, Env, ReadsOnly, Stop, GoTo, Report, FinishOn, UserWrites,
           UserAnnotates, WriteRestore, WriteCluster, CreateRestore, DeleteRestore, TouchRestore,
           Confirm, LiftInterruption, DeleteJob, LoseTarget, RecoverTarget, SyncRestores,
           SyncCluster, SyncPods, StartPods, StopPods, CloneStandby, RemoveVolume, JobWrites,
           JobEnds, JobPodGone, JobGone, CollectJob, ClusterRead, ClusterWrite, Begin,
           AddFinalizer, Prepare, Hold, Follow, CreateJob, DeleteVolumes, Finish, RecordLast,
           Finalize, StopJob, AwaitPods, Save, RemoveFinalizer, Conflict, Fail, Steps
  <2>2. QED
    BY <1>1, <2>1 DEF ControlTyped
<1>6. out' \in Outcomes
  <2>1. out' = out \/ out' \in Outcomes
    BY DEF RestoreNext, Reconcile, ClusterReconcile, Sync, Pods, Users, rvars, api, caches,
           workload, ctl, local, Kube, Env, ReadsOnly, Stop, GoTo, Report, FinishOn, UserWrites,
           UserAnnotates, WriteRestore, WriteCluster, CreateRestore, DeleteRestore, TouchRestore,
           Confirm, LiftInterruption, DeleteJob, LoseTarget, RecoverTarget, SyncRestores,
           SyncCluster, SyncPods, StartPods, StopPods, CloneStandby, RemoveVolume, JobWrites,
           JobEnds, JobPodGone, JobGone, CollectJob, ClusterRead, ClusterWrite, Begin,
           AddFinalizer, Prepare, Hold, Follow, CreateJob, DeleteVolumes, Finish, RecordLast,
           Finalize, StopJob, AwaitPods, Save, RemoveFinalizer, Conflict, Fail, Outcomes, Outcome
  <2>2. QED
    BY <1>1, <2>1 DEF ControlTyped
<1>7. after' \in {"save", "stopjob", "unfin"}
  <2>1. after' = after \/ after' \in {"save", "stopjob", "unfin"}
    BY DEF RestoreNext, Reconcile, ClusterReconcile, Sync, Pods, Users, rvars, api, caches,
           workload, ctl, local, Kube, Env, ReadsOnly, Stop, GoTo, Report, FinishOn, UserWrites,
           UserAnnotates, WriteRestore, WriteCluster, CreateRestore, DeleteRestore, TouchRestore,
           Confirm, LiftInterruption, DeleteJob, LoseTarget, RecoverTarget, SyncRestores,
           SyncCluster, SyncPods, StartPods, StopPods, CloneStandby, RemoveVolume, JobWrites,
           JobEnds, JobPodGone, JobGone, CollectJob, ClusterRead, ClusterWrite, Begin,
           AddFinalizer, Prepare, Hold, Follow, CreateJob, DeleteVolumes, Finish, RecordLast,
           Finalize, StopJob, AwaitPods, Save, RemoveFinalizer, Conflict, Fail
  <2>2. QED
    BY <1>1, <2>1 DEF ControlTyped
<1>8. edits' \in 0 .. MaxEdits
  <2>1. edits' = edits \/ (edits < MaxEdits /\ edits' = edits + 1)
    BY DEF RestoreNext, Reconcile, ClusterReconcile, Sync, Pods, Users, rvars, api, caches,
           workload, ctl, local, Kube, Env, ReadsOnly, Stop, GoTo, Report, FinishOn, UserWrites,
           UserAnnotates, WriteRestore, WriteCluster, CreateRestore, DeleteRestore, TouchRestore,
           Confirm, LiftInterruption, DeleteJob, LoseTarget, RecoverTarget, SyncRestores,
           SyncCluster, SyncPods, StartPods, StopPods, CloneStandby, RemoveVolume, JobWrites,
           JobEnds, JobPodGone, JobGone, CollectJob, ClusterRead, ClusterWrite, Begin,
           AddFinalizer, Prepare, Hold, Follow, CreateJob, DeleteVolumes, Finish, RecordLast,
           Finalize, StopJob, AwaitPods, Save, RemoveFinalizer, Conflict, Fail, Edit
  <2>2. QED
    BY <1>1, <2>1, BoundsAssumption DEF ControlTyped
<1>9. faults' \in 0 .. MaxFaults
  <2>1. faults' = faults \/ (faults < MaxFaults /\ faults' = faults + 1)
    <3>1. ASSUME NEW r \in Restores, JobEnds(r)
          PROVE  faults' = faults \/ (faults < MaxFaults /\ faults' = faults + 1)
      <4>1. jobs[r] \in JobObjects /\ jobs \in [Restores -> JobObjects]
        BY DEF WellFormed, RestoreTypeOK
      <4>2. CASE jobs' = [jobs EXCEPT ![r].state = "complete"]
        <5>1. jobs'[r].state = "complete"
          BY <4>1, <4>2 DEF JobObjects
        <5>2. QED
          BY <3>1, <5>1 DEF JobEnds
      <4>3. QED
        BY <3>1, <4>2 DEF JobEnds
    <3>2. QED
      BY <3>1 DEF RestoreNext, Reconcile, ClusterReconcile, Sync, Pods, Users, rvars, api, caches,
             workload, ctl, local, Kube, Env, ReadsOnly, Stop, GoTo, Report, FinishOn, UserWrites,
             UserAnnotates, WriteRestore, WriteCluster, CreateRestore, DeleteRestore,
             TouchRestore, Confirm, LiftInterruption, DeleteJob, LoseTarget, RecoverTarget,
             SyncRestores, SyncCluster, SyncPods, StartPods, StopPods, CloneStandby, RemoveVolume,
             JobWrites, JobPodGone, JobGone, CollectJob, ClusterRead, ClusterWrite, Begin,
             AddFinalizer, Prepare, Hold, Follow, CreateJob, DeleteVolumes, Finish, RecordLast,
             Finalize, StopJob, AwaitPods, Save, RemoveFinalizer, Conflict, Fail
  <2>2. QED
    BY <1>1, <2>1, BoundsAssumption DEF ControlTyped
<1>10. QED
  BY <1>2, <1>3, <1>4, <1>5, <1>6, <1>7, <1>8, <1>9 DEF ControlTyped

\* A step keeps the reconcile's copy of its Restore well formed, and the same as
\* the Restore as long as it is current.
LEMMA CopyKept ==
  ASSUME WellFormed, [RestoreNext]_rvars
  PROVE  CopyTyped' /\ Accurate'
         /\ (pc' # "idle" => me' \in Restores) /\ (pc' \notin {"idle", "fin"} => copy'.fin)
<1>1. /\ res \in [Restores -> Objects] /\ rcache \in [Restores -> Objects] /\ copy \in Objects
      /\ want \in Steps /\ CachesFollow /\ Pinned /\ Accurate /\ ControlTyped
  BY RestoreParts DEF WellFormed, RestoreTypeOK, RestoreTyped
<1>2. CASE pc' = "idle" /\ me' = 0 /\ copy' = Absent /\ current' = FALSE
  BY <1>2, ObjectWrites DEF CopyTyped, Accurate
<1>3. ASSUME NEW r \in Restores, Begin(r) 
      PROVE  CopyTyped' /\ Accurate'
             /\ (pc' # "idle" => me' \in Restores) /\ (pc' \notin {"idle", "fin"} => copy'.fin)
  <2>1. /\ me' = r /\ copy' = rcache[r] /\ current' = (r \notin behind) /\ res' = res
        /\ pc' = IF rcache[r].deleting THEN "finalize" ELSE IF rcache[r].fin THEN "decide" ELSE "fin"
    BY <1>3 DEF Begin, Env
  <2>2. rcache[r] \in Objects
    BY <1>1
  <2>3. QED
    BY <1>1, <2>1, <2>2 DEF CopyTyped, Accurate, CachesFollow, Pinned
<1>4. CASE AddFinalizer
  <2> DEFINE o == [copy EXCEPT !.fin = TRUE]
  <2>1. o \in Objects /\ o.fin /\ me \in Restores
    BY <1>1, <1>4, ObjectWrites DEF Objects, Pinned, AddFinalizer
  <2>2. res' = [res EXCEPT ![me] = o] /\ me' = me /\ copy' = res'[me]
    BY <1>4 DEF AddFinalizer, WriteRestore
  <2> HIDE DEF o
  <2>3. copy' = o /\ res'[me'] = copy'
    BY <1>1, <2>1, <2>2
  <2>4. QED
    BY <2>1, <2>2, <2>3 DEF CopyTyped, Accurate
<1>5. CASE Save
  <2> DEFINE o == [copy EXCEPT !.step = want]
  <2>1. o \in Objects /\ o.fin = copy.fin /\ me \in Restores /\ copy.fin /\ res[me] = copy
    BY <1>1, <1>5, ObjectWrites DEF Objects, Pinned, Save, Accurate
  <2>2. /\ res' = [res EXCEPT ![me] = o] \/ (o = copy /\ res' = res)
        /\ \/ pc' = "unfin" /\ copy' = o /\ me' = me
           \/ pc' = "idle" /\ copy' = Absent
    BY <1>5 DEF Save, WriteRestore, Stop
  <2> HIDE DEF o
  <2>3. res'[me] = o
    BY <1>1, <2>1, <2>2
  <2>4. QED
    BY <2>1, <2>2, <2>3, ObjectWrites DEF CopyTyped, Accurate
<1>6. CASE me' = me /\ copy' = copy /\ (current' => current) /\ (pc = "idle" <=> pc' = "idle")
           /\ (pc \in {"idle", "fin"} => pc' = pc) /\ ~AddFinalizer /\ ~Save /\ ~RemoveFinalizer
  <2>1. ASSUME current', pc' # "idle" PROVE res'[me] = copy
    <3>1. current /\ res[me] = copy /\ me \in Restores
      BY <1>1, <1>6, <2>1 DEF Accurate, Pinned
    <3>2. CASE \E r \in Restores : CreateRestore(r) \/ DeleteRestore(r) \/ TouchRestore(r)
      <4>1. PICK r \in Restores : CreateRestore(r) \/ DeleteRestore(r) \/ TouchRestore(r)
        BY <3>2
      <4>2. r # me
        BY <2>1, <4>1 DEF CreateRestore, DeleteRestore, TouchRestore, UserWrites
      <4>3. \E o : res' = [res EXCEPT ![r] = o]
        BY <4>1 DEF CreateRestore, DeleteRestore, TouchRestore, UserWrites, WriteRestore
      <4>4. QED
        BY <1>1, <3>1, <4>2, <4>3
    <3>3. CASE SyncRestores
      BY <3>1, <3>3 DEF SyncRestores, api
    <3>4. QED
      BY <1>6, <3>1, <3>2, <3>3, ResSteps
  <2>2. QED
    BY <1>1, <1>6, <2>1 DEF CopyTyped, Accurate, Pinned
<1>7. CASE RemoveFinalizer
  BY <1>7, ObjectWrites DEF RemoveFinalizer, Stop, CopyTyped, Accurate
<1>8. QED
  BY <1>1, <1>2, <1>3, <1>4, <1>5, <1>6, <1>7, CopySteps

\* A Restore that is being deleted keeps its finalizer.
LEMMA FinalizerKept ==
  ASSUME WellFormed, [RestoreNext]_rvars
  PROVE  \A r \in Restores : (res'[r].deleting => res'[r].fin) /\ (rcache'[r].deleting => rcache'[r].fin)
<1>1. /\ res \in [Restores -> Objects] /\ rcache \in [Restores -> Objects] /\ copy \in Objects
      /\ want \in Steps /\ CachesFollow /\ Pinned /\ Accurate /\ ControlTyped /\ uids \in Nat
  BY RestoreParts DEF WellFormed, RestoreTypeOK, RestoreTyped
<1> DEFINE Fit(o) == o.deleting => o.fin
<1>2. \A r \in Restores : Fit(res[r]) /\ Fit(rcache[r]) /\ res[r] \in Objects
  BY <1>1 DEF Pinned
<1>3. Fit(Absent)
  BY DEF Absent
<1> DEFINE Wrote == \E r \in Restores : \E o : res' = [res EXCEPT ![r] = o] /\ Fit(o) /\ rcache' = rcache
<1>4. ASSUME NEW r \in Restores, CreateRestore(r) PROVE Wrote
  <2> DEFINE o == [Absent EXCEPT !.uid = uids + 1]
  <2>1. Fit(o) /\ res' = [res EXCEPT ![r] = o] /\ rcache' = rcache
    BY <1>4 DEF CreateRestore, UserWrites, WriteRestore, Absent
  <2> HIDE DEF o, Fit
  <2>2. QED
    BY <2>1
<1>5. ASSUME NEW r \in Restores, DeleteRestore(r) PROVE Wrote
  <2> DEFINE o == IF res[r].fin THEN [res[r] EXCEPT !.deleting = TRUE] ELSE Absent
  <2>1. Fit(o)
    BY <1>2, <1>3 DEF Objects
  <2>2. res' = [res EXCEPT ![r] = o] /\ rcache' = rcache
    BY <1>5 DEF DeleteRestore, UserWrites, WriteRestore
  <2> HIDE DEF o, Fit
  <2>3. QED
    BY <2>1, <2>2
<1>6. ASSUME NEW r \in Restores, TouchRestore(r) PROVE Wrote
  <2>1. res' = [res EXCEPT ![r] = res[r]] /\ rcache' = rcache
    BY <1>6 DEF TouchRestore, UserWrites, WriteRestore
  <2>2. QED
    BY <1>2, <2>1
<1>7. CASE AddFinalizer
  <2> DEFINE o == [copy EXCEPT !.fin = TRUE]
  <2>1. Fit(o) /\ me \in Restores
    BY <1>1, <1>7 DEF Objects, Pinned, AddFinalizer
  <2>2. res' = [res EXCEPT ![me] = o] /\ rcache' = rcache
    BY <1>7 DEF AddFinalizer, WriteRestore, Env
  <2> HIDE DEF o, Fit
  <2>3. Wrote
    BY <2>1, <2>2
  <2>4. QED
    BY <1>1, <1>2, <2>3 DEF Fit
<1>8. CASE Save
  <2> DEFINE o == [copy EXCEPT !.step = want]
  <2>1. Fit(o) /\ me \in Restores
    BY <1>1, <1>8 DEF Objects, Pinned, Save
  <2>2. (res' = [res EXCEPT ![me] = o] \/ res' = res) /\ rcache' = rcache
    BY <1>8 DEF Save, WriteRestore, Env
  <2> HIDE DEF o, Fit
  <2>3. Wrote \/ (res' = res /\ rcache' = rcache)
    BY <2>1, <2>2
  <2>4. QED
    BY <1>1, <1>2, <2>3 DEF Fit
<1>9. CASE RemoveFinalizer
  <2>1. me \in Restores /\ res' = [res EXCEPT ![me] = Absent] /\ rcache' = rcache
    BY <1>1, <1>9 DEF RemoveFinalizer, WriteRestore, Env, Pinned
  <2>2. QED
    BY <1>1, <1>2, <1>3, <2>1
<1>10. CASE SyncRestores
  BY <1>2, <1>10 DEF SyncRestores, api
<1>11. ASSUME Wrote PROVE \A r \in Restores : Fit(res'[r]) /\ Fit(rcache'[r])
  BY <1>1, <1>2, <1>11
<1>12. QED
  <2> HIDE DEF Wrote
  <2>1. QED
    BY <1>2, <1>4, <1>5, <1>6, <1>7, <1>8, <1>9, <1>10, <1>11, ResSteps

\* A step keeps the types.
LEMMA RestoreNextTypes == WellFormed /\ [RestoreNext]_rvars => WellFormed'
<1> SUFFICES ASSUME WellFormed, [RestoreNext]_rvars PROVE (RestoreTyped /\ CachesFollow /\ Pinned)'
  BY RestoreParts, PTL
<1>1. ResTyped' /\ ClusterTyped' /\ JobsTyped' /\ WorkTyped' /\ ControlTyped' /\ CopyTyped' /\ Accurate'
  BY ResKept, ClusterKept, JobsKept, WorkKept, ControlKept, CopyKept
<1>2. CachesTyped' /\ CachesFollow'
  BY ResKept, ClusterKept, WorkKept DEF CachesTyped, CachesFollow
<1>3. Pinned'
  BY CopyKept, FinalizerKept DEF Pinned
<1>4. QED
  BY <1>1, <1>2, <1>3 DEF RestoreTyped

\* The state is well formed at all times, whatever the caches lag, the
\* controllers overlap and users do.
THEOREM RestoreTypes == RestoreSpec => []RestoreTypeOK
<1>1. WellFormed => RestoreTypeOK
  BY DEF WellFormed
<1>2. QED
  BY <1>1, RestoreInitTypes, RestoreNextTypes, PTL DEF RestoreSpec

-----------------------------------------------------------------------------
(* One Restore at a time, the caches up to date, and nobody's hand in it. *)

\* What restore_safe fixes: one name for Restores, the two controllers take
\* turns on caches that are up to date, and users leave Jobs and the
\* interruption alone and bring no lost backup back.
Undisturbed ==
  /\ \E r : Restores = {r}
  /\ ~Lag /\ ~Overlap /\ ~Manual /\ ~Reappear

Early == {"new", "awaiting", "waiting"}
Running == {"creating", "restoring"}
Down == ~sts /\ ~pg

\* The Restore has a Job; it has none.
Mine(r) == jobs[r].owner = res[r].uid /\ jobs[r].owner # 0
Jobless(r) == jobs[r].owner = 0

\* A Restore and a Job are there if and only if they have a UID, and the next
\* UID is new to all of them.
Idents(r) ==
  /\ res[r].uid = 0 <=> res[r] = Absent
  /\ jobs[r].owner = 0 <=> jobs[r] = NoRestoreJob
  /\ res[r].uid <= uids /\ jobs[r].owner <= uids
  /\ pc # "idle" => copy.uid # 0
  /\ res[r].step # "new" => res[r].fin

\* Past the finalizer the reconcile works on the Restore that is there: it may
\* miss that the Restore is being deleted, and nothing else.
Twin(r) ==
  /\ pc \notin {"idle", "fin"} => /\ copy.uid = res[r].uid /\ copy.step = res[r].step /\ res[r].fin
                                  /\ copy.deleting => res[r].deleting
  /\ pc \in {"finalize", "stopjob"} => copy.deleting
  /\ pc \in {"fin", "decide", "create"} => ~copy.deleting /\ ~Finished(copy)

\* The controllers take turns, and each acts on what is so.
Interlock ==
  /\ cpc = "write" => pc = "idle" /\ cpaused = Paused(cluster)
  /\ pc \in {"fin", "decide", "create", "volumes", "finalize", "finish"} =>
        ccache.holder = cluster.holder /\ ccache.broken = cluster.broken
  /\ pc # "idle" => pcache.sts = sts /\ (~pcache.sts /\ ~pcache.pg => ~pg)

\* A Job pod that may write the volume belongs to the Job of the Restore, which
\* is under way, and the Cluster is down and kept down.
OneJob(r) ==
  writers # {} =>
    /\ writers = {<<r, res[r].uid>>} /\ Mine(r) /\ jobs[r].state = "active"
    /\ res[r].step \in Running /\ Down /\ Paused(cluster)

\* What a Job and the phase of its Restore say of each other and of the Cluster.
JobPhase(r) ==
  /\ Mine(r) => res[r].step \notin Early
  /\ res[r].step \in Running => Jobless(r) \/ Mine(r)
  /\ Mine(r) /\ jobs[r].deleting =>
       cluster.holder = 0 /\ res[r].deleting /\ (pc \notin {"idle", "fin"} => copy.deleting)
  /\ Mine(r) /\ jobs[r].state = "complete" => data = "good"
  /\ Finished(res[r]) => cluster.holder = 0

\* Between recording the Job's name and creating the Job the Cluster is held.
Announced(r) ==
  /\ res[r].step = "creating" /\ Jobless(r) /\ target # "invalid" /\ ~res[r].deleting
       => cluster.holder = r /\ Down
  /\ pc \in {"decide", "create"} /\ res[r].step = "creating" /\ Jobless(r)
       /\ (target # "invalid" \/ pc = "create")
     => cluster.holder = r /\ Down
  /\ pc = "create" => res[r].step = "creating" /\ Jobless(r)
  /\ pc = "volumes" => Mine(r) /\ jobs[r].state = "complete" /\ ~jobs[r].deleting /\ res[r].step \in Running

\* What led to the outcome that is to be recorded on the Cluster still holds.
Finishing(r) ==
  pc = "finish" =>
    /\ out = "released" => /\ ~Mine(r) /\ after # "stopjob"
                           /\ res[r].step \notin Running \/ target = "invalid" \/ copy.deleting
    /\ out = "succeeded" => /\ Mine(r) /\ jobs[r].state = "complete" /\ ~jobs[r].deleting
                            /\ vol # "stale" /\ after = "save"
    /\ out = "failed" => Mine(r) /\ jobs[r].state = "failed" /\ ~jobs[r].deleting /\ after = "save"
    /\ out = "interrupted" => \/ after = "stopjob" /\ copy.deleting
                              \/ after = "save" /\ ~Mine(r) /\ res[r].step = "restoring"
    /\ after = "unfin" => copy.deleting
    /\ after = "save" => want \in {"Succeeded", "Failed"}

\* The Cluster is released, and no longer written, before the Restore is.
Recording(r) ==
  /\ pc = "record" =>
       /\ cluster.holder = 0 /\ (out # "succeeded" => cluster.broken # 0)
       /\ after = "stopjob" => out # "succeeded" /\ copy.deleting
       /\ after # "stopjob" => writers = {}
       /\ after = "save" => want \in {"Succeeded", "Failed"}
  /\ pc = "stopjob" => cluster.holder = 0 /\ cluster.broken # 0
  /\ pc = "unfin" => cluster.holder = 0 /\ writers = {}
  /\ pc = "save" =>
       /\ want \in {"Succeeded", "Failed"} => cluster.holder = 0 /\ writers = {}
       /\ want \in Early \cup {"creating"} => res[r].step \in Early
       /\ want = "creating" => cluster.holder = r /\ Down /\ Jobless(r)
       /\ want = "restoring" => res[r].step \in Running /\ Mine(r) /\ ~jobs[r].deleting

\* A data directory that is not whole and a standby volume that is out of date
\* keep the Cluster down.
Unfit(r) ==
  /\ data = "partial" => 
       Down /\ (cluster.broken # 0 \/ (cluster.holder = r /\ Mine(r) /\ jobs[r].state # "complete"))
  /\ vol = "stale" => 
       Down /\ (cluster.broken # 0 \/ (cluster.holder = r /\ Mine(r) /\ jobs[r].state = "complete"))

Exclusion(r) == /\ Idents(r) /\ Twin(r) /\ Interlock /\ OneJob(r) /\ JobPhase(r) /\ Announced(r)
           /\ Finishing(r) /\ Recording(r) /\ Unfit(r)


\* What the steps below keep using of the types, with the one Restore there is.
OneRestore(r) ==
  /\ res \in [Restores -> Objects] /\ res[r] \in Objects /\ jobs \in [Restores -> JobObjects]
  /\ jobs[r] \in JobObjects /\ copy \in Objects /\ cluster \in Clusters /\ ccache \in Clusters
  /\ Restores = {r} /\ r \in Nat \ {0}
  /\ pc # "idle" => me = r
  /\ uids \in Nat /\ res[r].uid \in Nat /\ jobs[r].owner \in Nat /\ copy.uid \in Nat
  /\ res[r].deleting => res[r].fin

\* It holds while the Restore is undisturbed.
LEMMA OneRestoreThere == ASSUME NEW r \in Restores, Undisturbed, WellFormed PROVE OneRestore(r)
<1>1. /\ res \in [Restores -> Objects] /\ jobs \in [Restores -> JobObjects]
      /\ copy \in Objects /\ cluster \in Clusters /\ ccache \in Clusters /\ uids \in Nat
      /\ pc # "idle" => me \in Restores
      /\ res[r].deleting => res[r].fin
  BY DEF WellFormed, RestoreTypeOK, Pinned
<1>2. res[r] \in Objects /\ jobs[r] \in JobObjects
  BY <1>1
<1>3. res[r].uid \in Nat /\ jobs[r].owner \in Nat /\ copy.uid \in Nat
  BY <1>1, <1>2 DEF Objects, JobObjects
<1>4. Restores = {r} /\ r \in Nat \ {0}
  BY RestoresAssumption DEF Undisturbed
<1>5. QED
  BY <1>1, <1>2, <1>3, <1>4 DEF OneRestore

\* A Restore is created: its UID is new, so it has no Job.
LEMMA CreateRestoreKeeps ==
  ASSUME NEW r \in Restores, Undisturbed, WellFormed, Exclusion(r), CreateRestore(r)
  PROVE  Exclusion(r)'
<1>1. OneRestore(r)
  BY OneRestoreThere
<1>2. /\ res[r] = Absent /\ uids \in Nat /\ uids' = uids + 1
      /\ res'[r].uid = uids + 1 /\ res'[r].step = "new" /\ res'[r].deleting = FALSE
      /\ UNCHANGED <<cluster, jobs, target, ccache, pcache, cpc, cpaused>>
      /\ UNCHANGED <<sts, pg, vol, volDel, writers, data>>
      /\ UNCHANGED <<pc, me, copy, want, out, after>>
  BY <1>1 DEF OneRestore, CreateRestore, UserWrites, WriteRestore, Absent, Objects, workload, ctl,
         WellFormed, RestoreTypeOK
<1>3. /\ pc \in {"idle", "fin"} /\ ~Mine(r) /\ ~Mine(r)' /\ writers = {} /\ res'[r] # Absent
  BY <1>1, <1>2 DEF Exclusion, Idents, OneRestore, Twin, Finished, OneJob, Mine, Down, Paused,
     Running, Absent
<1>4. Idents(r)' /\ Twin(r)' /\ Interlock'
  BY <1>1, <1>2, <1>3 DEF Exclusion, Idents, OneRestore, Twin, Finished, Interlock, Paused
<1>5. OneJob(r)' /\ JobPhase(r)' /\ Unfit(r)'
  BY <1>1, <1>2, <1>3 DEF Exclusion, OneJob, Mine, Down, Paused, Running, JobPhase, Jobless,
     Finished, Early, Unfit
<1>6. Announced(r)' /\ Finishing(r)' /\ Recording(r)'
  BY <1>1, <1>2, <1>3 DEF Exclusion, Announced, Mine, Jobless, Down, Running, Finishing, Recording,
         Early
<1>7. QED
  BY <1>4, <1>5, <1>6 DEF Exclusion

\* A Restore is deleted: one with a finalizer stays, one without has done nothing yet.
LEMMA DeleteRestoreKeeps ==
  ASSUME NEW r \in Restores, Undisturbed, WellFormed, Exclusion(r), DeleteRestore(r)
  PROVE  Exclusion(r)'
<1>1. OneRestore(r)
  BY OneRestoreThere
<1>2. /\ \/ /\ res[r].fin /\ res'[r].fin /\ res'[r].uid = res[r].uid
            /\ res'[r].step = res[r].step /\ res'[r].deleting = TRUE /\ res'[r] # Absent
         \/ ~res[r].fin /\ res'[r] = Absent /\ Absent.uid = 0 /\ Absent.step = "new"
      /\ res[r] # Absent
      /\ UNCHANGED <<cluster, jobs, target, uids, ccache, pcache, cpc, cpaused>>
      /\ UNCHANGED <<sts, pg, vol, volDel, writers, data>>
      /\ UNCHANGED <<pc, me, copy, want, out, after>>
  BY <1>1 DEF OneRestore, DeleteRestore, UserWrites, WriteRestore, Absent, Objects, workload, ctl
<1>3. ~res[r].fin => pc \in {"idle", "fin"} /\ ~Mine(r) /\ writers = {} /\ res[r].step = "new"
  BY <1>1, <1>2 DEF Exclusion, Idents, OneRestore, Twin, Finished, OneJob, Mine, Down, Paused,
     Running, JobPhase, Jobless, Early
<1>4. Idents(r)' /\ Twin(r)' /\ Interlock'
  BY <1>1, <1>2, <1>3 DEF Exclusion, Idents, OneRestore, Twin, Finished, Interlock, Paused
<1>5. OneJob(r)' /\ JobPhase(r)' /\ Unfit(r)'
  BY <1>1, <1>2, <1>3 DEF Exclusion, OneJob, Mine, Down, Paused, Running, JobPhase, Jobless,
     Finished, Early, Unfit
<1>6. Announced(r)' /\ Finishing(r)' /\ Recording(r)'
  BY <1>1, <1>2, <1>3 DEF Exclusion, Announced, Mine, Jobless, Down, Running, Finishing, Recording,
         Early
<1>7. QED
  BY <1>4, <1>5, <1>6 DEF Exclusion

\* A Restore is written with no change to what the model keeps of it.
LEMMA TouchRestoreKeeps ==
  ASSUME NEW r \in Restores, Undisturbed, WellFormed, Exclusion(r), TouchRestore(r)
  PROVE  Exclusion(r)'
<1>1. OneRestore(r)
  BY OneRestoreThere
<1>2. /\ res'[r] = res[r]
      /\ UNCHANGED <<cluster, jobs, target, uids, ccache, pcache, cpc, cpaused>>
      /\ UNCHANGED <<sts, pg, vol, volDel, writers, data>>
      /\ UNCHANGED <<pc, me, copy, want, out, after>>
  BY <1>1 DEF OneRestore, TouchRestore, UserWrites, WriteRestore, workload, ctl
<1>3. Idents(r)' /\ Twin(r)' /\ Interlock'
  BY <1>1, <1>2 DEF Exclusion, Idents, OneRestore, Twin, Finished, Interlock, Paused
<1>4. OneJob(r)' /\ JobPhase(r)' /\ Unfit(r)'
  BY <1>1, <1>2 DEF Exclusion, OneJob, Mine, Down, Paused, Running, JobPhase, Jobless, Finished,
     Early, Unfit
<1>5. Announced(r)' /\ Finishing(r)' /\ Recording(r)'
  BY <1>1, <1>2 DEF Exclusion, Announced, Mine, Jobless, Down, Running, Finishing, Recording, Early
<1>6. QED
  BY <1>3, <1>4, <1>5 DEF Exclusion

\* The user confirms a restore.
LEMMA ConfirmKeeps ==
  ASSUME NEW r \in Restores, Undisturbed, WellFormed, Exclusion(r), NEW uid, Confirm(r, uid)
  PROVE  Exclusion(r)'
<1>1. OneRestore(r)
  BY OneRestoreThere
<1>2. /\ cluster'.holder = cluster.holder /\ cluster'.broken = cluster.broken
      /\ UNCHANGED <<res, jobs, target, uids, ccache, pcache, cpc, cpaused>>
      /\ UNCHANGED <<sts, pg, vol, volDel, writers, data>>
      /\ UNCHANGED <<pc, me, copy, want, out, after>>
  BY <1>1 DEF OneRestore, Confirm, UserAnnotates, WriteCluster, Clusters, workload, ctl, local
<1>3. Idents(r)' /\ Twin(r)' /\ Interlock'
  BY <1>1, <1>2 DEF Exclusion, Idents, OneRestore, Twin, Finished, Interlock, Paused
<1>4. OneJob(r)' /\ JobPhase(r)' /\ Unfit(r)'
  BY <1>1, <1>2 DEF Exclusion, OneJob, Mine, Down, Paused, Running, JobPhase, Jobless, Finished,
     Early, Unfit
<1>5. Announced(r)' /\ Finishing(r)' /\ Recording(r)'
  BY <1>1, <1>2 DEF Exclusion, Announced, Mine, Jobless, Down, Running, Finishing, Recording, Early
<1>6. QED
  BY <1>3, <1>4, <1>5 DEF Exclusion

\* The BackupRun, the Backup or the volume goes.
LEMMA LoseTargetKeeps ==
  ASSUME NEW r \in Restores, Undisturbed, WellFormed, Exclusion(r), LoseTarget
  PROVE  Exclusion(r)'
<1>1. OneRestore(r)
  BY OneRestoreThere
<1>2. /\ target = "ok" /\ target' \in {"invalid", "novolume"}
      /\ UNCHANGED <<res, jobs, cluster, uids, ccache, pcache, cpc, cpaused>>
      /\ UNCHANGED <<sts, pg, vol, volDel, writers, data>>
      /\ UNCHANGED <<pc, me, copy, want, out, after>>
  BY <1>1 DEF LoseTarget, caches, workload, ctl, local
<1>3. Idents(r)' /\ Twin(r)' /\ Interlock'
  BY <1>1, <1>2 DEF Exclusion, Idents, OneRestore, Twin, Finished, Interlock, Paused
<1>4. OneJob(r)' /\ JobPhase(r)' /\ Unfit(r)'
  BY <1>1, <1>2 DEF Exclusion, OneJob, Mine, Down, Paused, Running, JobPhase, Jobless, Finished,
     Early, Unfit
<1>5. Announced(r)' /\ Finishing(r)' /\ Recording(r)'
  BY <1>1, <1>2 DEF Exclusion, Announced, Mine, Jobless, Down, Running, Finishing, Recording, Early
<1>6. QED
  BY <1>3, <1>4, <1>5 DEF Exclusion

\* A cache catches up.
LEMMA SyncKeeps ==
  ASSUME NEW r \in Restores, Undisturbed, WellFormed, Exclusion(r), Sync
  PROVE  Exclusion(r)'
<1>1. OneRestore(r)
  BY OneRestoreThere
<1>2. /\ ccache' = ccache \/ ccache' = cluster
      /\ pcache' = pcache \/ (pcache'.sts = sts /\ pcache'.pg = pg)
      /\ UNCHANGED <<res, jobs, cluster, target, uids, cpc, cpaused>>
      /\ UNCHANGED <<sts, pg, vol, volDel, writers, data>>
      /\ UNCHANGED <<pc, me, copy, want, out, after>>
  BY <1>1 DEF Sync, SyncRestores, SyncCluster, SyncPods, api, workload, ctl, local
<1>3. Idents(r)' /\ Twin(r)' /\ Interlock'
  BY <1>1, <1>2 DEF Exclusion, Idents, OneRestore, Twin, Finished, Interlock, Paused
<1>4. OneJob(r)' /\ JobPhase(r)' /\ Unfit(r)'
  BY <1>1, <1>2 DEF Exclusion, OneJob, Mine, Down, Paused, Running, JobPhase, Jobless, Finished,
     Early, Unfit
<1>5. Announced(r)' /\ Finishing(r)' /\ Recording(r)'
  BY <1>1, <1>2 DEF Exclusion, Announced, Mine, Jobless, Down, Running, Finishing, Recording, Early
<1>6. QED
  BY <1>3, <1>4, <1>5 DEF Exclusion

\* Pods come.
LEMMA StartPodsKeeps ==
  ASSUME NEW r \in Restores, Undisturbed, WellFormed, Exclusion(r), StartPods
  PROVE  Exclusion(r)'
<1>1. OneRestore(r)
  BY OneRestoreThere
<1>2. /\ sts /\ ~pg /\ pg' /\ (target' = "invalid" <=> target = "invalid")
      /\ UNCHANGED <<jobs, sts, vol, volDel, writers, data>>
      /\ UNCHANGED <<res, uids, cluster, ccache, pcache, cpc, cpaused, pc, me, copy, want, out, after>>
  BY <1>1 DEF StartPods, Kube, caches, ctl, local
<1>3. Idents(r)' /\ Twin(r)' /\ Interlock'
  BY <1>1, <1>2 DEF Exclusion, Idents, OneRestore, Twin, Finished, Interlock, Paused
<1>4. OneJob(r)' /\ JobPhase(r)' /\ Unfit(r)'
  BY <1>1, <1>2 DEF Exclusion, OneJob, Mine, Down, Paused, Running, JobPhase, Jobless, Finished,
     Early, Unfit
<1>5. Announced(r)' /\ Finishing(r)' /\ Recording(r)'
  BY <1>1, <1>2 DEF Exclusion, Announced, Mine, Jobless, Down, Running, Finishing, Recording, Early
<1>6. QED
  BY <1>3, <1>4, <1>5 DEF Exclusion

\* Pods go.
LEMMA StopPodsKeeps ==
  ASSUME NEW r \in Restores, Undisturbed, WellFormed, Exclusion(r), StopPods
  PROVE  Exclusion(r)'
<1>1. OneRestore(r)
  BY OneRestoreThere
<1>2. /\ ~sts /\ pg /\ ~pg'
      /\ UNCHANGED <<jobs, target, sts, vol, volDel, writers, data>>
      /\ UNCHANGED <<res, uids, cluster, ccache, pcache, cpc, cpaused, pc, me, copy, want, out, after>>
  BY <1>1 DEF StopPods, Kube, caches, ctl, local
<1>3. Idents(r)' /\ Twin(r)' /\ Interlock'
  BY <1>1, <1>2 DEF Exclusion, Idents, OneRestore, Twin, Finished, Interlock, Paused
<1>4. OneJob(r)' /\ JobPhase(r)' /\ Unfit(r)'
  BY <1>1, <1>2 DEF Exclusion, OneJob, Mine, Down, Paused, Running, JobPhase, Jobless, Finished,
     Early, Unfit
<1>5. Announced(r)' /\ Finishing(r)' /\ Recording(r)'
  BY <1>1, <1>2 DEF Exclusion, Announced, Mine, Jobless, Down, Running, Finishing, Recording, Early
<1>6. QED
  BY <1>3, <1>4, <1>5 DEF Exclusion

\* A standby's volume comes or goes.
LEMMA VolumeKeeps ==
  ASSUME NEW r \in Restores, Undisturbed, WellFormed, Exclusion(r), CloneStandby \/ RemoveVolume
  PROVE  Exclusion(r)'
<1>1. OneRestore(r)
  BY OneRestoreThere
<1>2. /\ vol' \in {"fresh", "none"}
      /\ UNCHANGED <<jobs, target, sts, pg, writers, data>>
      /\ UNCHANGED <<res, uids, cluster, ccache, pcache, cpc, cpaused, pc, me, copy, want, out, after>>
  BY <1>1 DEF CloneStandby, RemoveVolume, Kube, caches, ctl, local
<1>3. Idents(r)' /\ Twin(r)' /\ Interlock'
  BY <1>1, <1>2 DEF Exclusion, Idents, OneRestore, Twin, Finished, Interlock, Paused
<1>4. OneJob(r)' /\ JobPhase(r)' /\ Unfit(r)'
  BY <1>1, <1>2 DEF Exclusion, OneJob, Mine, Down, Paused, Running, JobPhase, Jobless, Finished,
     Early, Unfit
<1>5. Announced(r)' /\ Finishing(r)' /\ Recording(r)'
  BY <1>1, <1>2 DEF Exclusion, Announced, Mine, Jobless, Down, Running, Finishing, Recording, Early
<1>6. QED
  BY <1>3, <1>4, <1>5 DEF Exclusion

\* A Job pod begins to write.
LEMMA JobWritesKeeps ==
  ASSUME NEW r \in Restores, Undisturbed, WellFormed, Exclusion(r), NEW w \in writers, JobWrites(w)
  PROVE  Exclusion(r)'
<1>1. OneRestore(r)
  BY OneRestoreThere
<1>2. /\ writers # {} /\ data' = "partial" /\ (cluster.holder # 0 => cluster.holder = r)
      /\ UNCHANGED <<jobs, target, sts, pg, vol, volDel, writers>>
      /\ UNCHANGED <<res, uids, cluster, ccache, pcache, cpc, cpaused, pc, me, copy, want, out, after>>
  BY <1>1 DEF OneRestore, Clusters, Names, JobWrites, Kube, caches, ctl, local
<1>3. /\ Down /\ Mine(r) /\ jobs[r].state = "active"
      /\ cluster.broken # 0 \/ cluster.holder = r
  BY <1>1, <1>2 DEF Exclusion, OneJob, Mine, Down, Paused, Running
<1>4. Idents(r)' /\ Twin(r)' /\ Interlock'
  BY <1>1, <1>2, <1>3 DEF Exclusion, Idents, OneRestore, Twin, Finished, Interlock, Paused
<1>5. OneJob(r)' /\ JobPhase(r)' /\ Unfit(r)'
  BY <1>1, <1>2, <1>3 DEF Exclusion, OneJob, Mine, Down, Paused, Running, JobPhase, Jobless,
     Finished, Early, Unfit
<1>6. Announced(r)' /\ Finishing(r)' /\ Recording(r)'
  BY <1>1, <1>2, <1>3 DEF Exclusion, Announced, Mine, Jobless, Down, Running, Finishing, Recording,
         Early
<1>7. QED
  BY <1>4, <1>5, <1>6 DEF Exclusion

\* A Job ends.
LEMMA JobEndsKeeps ==
  ASSUME NEW r \in Restores, Undisturbed, WellFormed, Exclusion(r), JobEnds(r)
  PROVE  Exclusion(r)'
<1>1. OneRestore(r)
  BY OneRestoreThere
<1>2. /\ writers # {} /\ writers' = writers \ {<<r, jobs[r].owner>>}
      /\ jobs[r].state = "active" /\ ~jobs[r].deleting /\ (cluster.holder # 0 => cluster.holder = r)
      /\ jobs'[r].owner = jobs[r].owner /\ jobs'[r].deleting = jobs[r].deleting
      /\ jobs'[r] # NoRestoreJob
      /\ \/ jobs'[r].state = "complete" /\ data' = "good" /\ (vol' = vol \/ vol' = "stale")
         \/ jobs'[r].state = "failed" /\ data' = data /\ vol' = vol
      /\ UNCHANGED <<target, sts, pg>>
      /\ UNCHANGED <<res, uids, cluster, ccache, pcache, cpc, cpaused, pc, me, copy, want, out, after>>
  BY <1>1 DEF OneRestore, Clusters, Names, JobObjects, NoRestoreJob, JobEnds, caches, ctl, local
<1>3. /\ Down /\ Mine(r) /\ writers' = {}
      /\ cluster.broken # 0 \/ cluster.holder = r
  BY <1>1, <1>2 DEF Exclusion, OneJob, Mine, Down, Paused, Running
<1>4. Idents(r)' /\ Twin(r)' /\ Interlock'
  BY <1>1, <1>2, <1>3 DEF Exclusion, Idents, OneRestore, Twin, Finished, Interlock, Paused, Mine
<1>5. OneJob(r)' /\ JobPhase(r)' /\ Unfit(r)'
  BY <1>1, <1>2, <1>3 DEF Exclusion, OneJob, Mine, Down, Paused, Running, JobPhase, Jobless,
     Finished, Early, Unfit
<1>6. Announced(r)' /\ Finishing(r)' /\ Recording(r)'
  BY <1>1, <1>2, <1>3 DEF Exclusion, Announced, Mine, Jobless, Down, Running, Finishing, Recording,
         Early
<1>7. QED
  BY <1>4, <1>5, <1>6 DEF Exclusion

\* The pod of a deleted Job ends.
LEMMA JobPodGoneKeeps ==
  ASSUME NEW r \in Restores, Undisturbed, WellFormed, Exclusion(r), NEW w \in writers, JobPodGone(w)
  PROVE  Exclusion(r)'
<1>1. OneRestore(r)
  BY OneRestoreThere
<1>2. /\ writers # {} /\ writers' = writers \ {w}
      /\ UNCHANGED <<jobs, target, sts, pg, vol, volDel, data>>
      /\ UNCHANGED <<res, uids, cluster, ccache, pcache, cpc, cpaused, pc, me, copy, want, out, after>>
  BY <1>1 DEF JobPodGone, Kube, caches, ctl, local
<1>3. Idents(r)' /\ Twin(r)' /\ Interlock'
  BY <1>1, <1>2 DEF Exclusion, Idents, OneRestore, Twin, Finished, Interlock, Paused
<1>4. OneJob(r)' /\ JobPhase(r)' /\ Unfit(r)'
  BY <1>1, <1>2 DEF Exclusion, OneJob, Mine, Down, Paused, Running, JobPhase, Jobless, Finished,
     Early, Unfit
<1>5. Announced(r)' /\ Finishing(r)' /\ Recording(r)'
  BY <1>1, <1>2 DEF Exclusion, Announced, Mine, Jobless, Down, Running, Finishing, Recording, Early
<1>6. QED
  BY <1>3, <1>4, <1>5 DEF Exclusion

\* A deleted Job goes once its pod is gone.
LEMMA JobGoneKeeps ==
  ASSUME NEW r \in Restores, Undisturbed, WellFormed, Exclusion(r), JobGone(r)
  PROVE  Exclusion(r)'
<1>1. OneRestore(r)
  BY OneRestoreThere
<1>2. /\ jobs[r].deleting /\ jobs[r] # NoRestoreJob /\ <<r, jobs[r].owner>> \notin writers
      /\ jobs'[r] = NoRestoreJob /\ NoRestoreJob.owner = 0
      /\ UNCHANGED <<target, sts, pg, vol, volDel, writers, data>>
      /\ UNCHANGED <<res, uids, cluster, ccache, pcache, cpc, cpaused, pc, me, copy, want, out, after>>
  BY <1>1 DEF OneRestore, NoRestoreJob, JobGone, Kube, caches, workload, ctl, local
<1>3. /\ jobs[r].owner # 0 /\ writers = {} /\ (res[r].step \in Running => Mine(r))
      /\ Mine(r) => cluster.holder = 0 /\ res[r].deleting /\ pc \notin {"decide", "create"}
  BY <1>1, <1>2 DEF Exclusion, Idents, OneRestore, OneJob, Mine, Down, Paused, Running, JobPhase,
     Jobless, Finished, Early, Twin
<1>4. Idents(r)' /\ Twin(r)' /\ Interlock'
  BY <1>1, <1>2, <1>3 DEF Exclusion, Idents, OneRestore, Twin, Finished, Interlock, Paused
<1>5. OneJob(r)' /\ JobPhase(r)' /\ Unfit(r)'
  BY <1>1, <1>2, <1>3 DEF Exclusion, OneJob, Mine, Down, Paused, Running, JobPhase, Jobless,
     Finished, Early, Unfit, OneRestore
<1>6. Announced(r)' /\ Finishing(r)' /\ Recording(r)'
  BY <1>1, <1>2, <1>3 DEF Exclusion, Announced, Mine, Jobless, Down, Running, Finishing, Recording,
         Early
<1>7. QED
  BY <1>4, <1>5, <1>6 DEF Exclusion

\* The Job of a Restore that is gone is collected.
LEMMA CollectJobKeeps ==
  ASSUME NEW r \in Restores, Undisturbed, WellFormed, Exclusion(r), CollectJob(r)
  PROVE  Exclusion(r)'
<1>1. OneRestore(r)
  BY OneRestoreThere
<1>2. /\ jobs[r] # NoRestoreJob /\ jobs[r].owner # res[r].uid
      /\ jobs'[r] = NoRestoreJob /\ NoRestoreJob.owner = 0
      /\ UNCHANGED <<target, sts, pg, vol, volDel, writers, data>>
      /\ UNCHANGED <<res, uids, cluster, ccache, pcache, cpc, cpaused, pc, me, copy, want, out, after>>
  BY <1>1 DEF OneRestore, NoRestoreJob, CollectJob, Kube, caches, workload, ctl, local
<1>3. jobs[r].owner # 0 /\ ~Mine(r) /\ writers = {} /\ res[r].step \notin Running
  BY <1>1, <1>2 DEF Exclusion, Idents, OneRestore, OneJob, Mine, Down, Paused, Running, JobPhase,
     Jobless, Finished, Early
<1>4. Idents(r)' /\ Twin(r)' /\ Interlock'
  BY <1>1, <1>2, <1>3 DEF Exclusion, Idents, OneRestore, Twin, Finished, Interlock, Paused
<1>5. OneJob(r)' /\ JobPhase(r)' /\ Unfit(r)'
  BY <1>1, <1>2, <1>3 DEF Exclusion, OneJob, Mine, Down, Paused, Running, JobPhase, Jobless,
     Finished, Early, Unfit
<1>6. Announced(r)' /\ Finishing(r)' /\ Recording(r)'
  BY <1>1, <1>2, <1>3 DEF Exclusion, Announced, Mine, Jobless, Down, Running, Finishing, Recording,
         Early
<1>7. QED
  BY <1>4, <1>5, <1>6 DEF Exclusion

\* The Cluster controller reads whether the Cluster is to be stopped.
LEMMA ClusterReadKeeps ==
  ASSUME NEW r \in Restores, Undisturbed, WellFormed, Exclusion(r), ClusterRead
  PROVE  Exclusion(r)'
<1>1. OneRestore(r)
  BY OneRestoreThere
<1>2. /\ pc = "idle" /\ cpaused' = Paused(cluster)
      /\ UNCHANGED <<res, jobs, cluster, target, uids, ccache, pcache>>
      /\ UNCHANGED <<sts, pg, vol, volDel, writers, data>>
      /\ UNCHANGED <<pc, me, copy, want, out, after>>
  BY <1>1 DEF ClusterRead, Undisturbed, Synced, WellFormed, CachesFollow, api, caches, workload,
     local
<1>3. Idents(r)' /\ Twin(r)' /\ Interlock'
  BY <1>1, <1>2 DEF Exclusion, Idents, OneRestore, Twin, Finished, Interlock, Paused
<1>4. OneJob(r)' /\ JobPhase(r)' /\ Unfit(r)'
  BY <1>1, <1>2 DEF Exclusion, OneJob, Mine, Down, Paused, Running, JobPhase, Jobless, Finished,
     Early, Unfit
<1>5. Announced(r)' /\ Finishing(r)' /\ Recording(r)'
  BY <1>1, <1>2 DEF Exclusion, Announced, Mine, Jobless, Down, Running, Finishing, Recording, Early
<1>6. QED
  BY <1>3, <1>4, <1>5 DEF Exclusion

\* The Cluster controller scales the StatefulSet.
LEMMA ClusterWriteKeeps ==
  ASSUME NEW r \in Restores, Undisturbed, WellFormed, Exclusion(r), ClusterWrite
  PROVE  Exclusion(r)'
<1>1. OneRestore(r)
  BY OneRestoreThere
<1>2. /\ cpc = "write" /\ cpc' = "idle" /\ sts' = ~cpaused
      /\ UNCHANGED <<res, jobs, cluster, target, uids, ccache, pcache, pg, vol, volDel, writers, data>>
      /\ UNCHANGED <<pc, me, copy, want, out, after>>
  BY <1>1 DEF ClusterWrite, api, caches, local
<1>3. pc = "idle" /\ (Paused(cluster) => ~sts')
  BY <1>1, <1>2 DEF Exclusion, Interlock, Paused
<1>4. Idents(r)' /\ Twin(r)' /\ Interlock'
  BY <1>1, <1>2, <1>3 DEF Exclusion, Idents, OneRestore, Twin, Finished, Interlock, Paused
<1>5. OneJob(r)' /\ JobPhase(r)' /\ Unfit(r)'
  BY <1>1, <1>2, <1>3 DEF Exclusion, OneJob, Mine, Down, Paused, Running, JobPhase, Jobless,
     Finished, Early, Unfit, OneRestore
<1>6. Announced(r)' /\ Finishing(r)' /\ Recording(r)'
  BY <1>1, <1>2, <1>3 DEF Exclusion, Announced, Mine, Jobless, Down, Running, Finishing, Recording,
         Early, OneRestore, Paused
<1>7. QED
  BY <1>4, <1>5, <1>6 DEF Exclusion

\* A reconcile begins with the Restore as it is.
LEMMA BeginKeeps ==
  ASSUME NEW r \in Restores, Undisturbed, WellFormed, Exclusion(r), Begin(r)
  PROVE  Exclusion(r)'
<1>1. OneRestore(r)
  BY OneRestoreThere
<1>2. /\ pc = "idle" /\ cpc = "idle" /\ me' = r /\ copy' = res[r] /\ copy' # Absent
      /\ res[r].deleting \/ ~Finished(res[r])
      /\ pc' = IF res[r].deleting THEN "finalize" ELSE IF res[r].fin THEN "decide" ELSE "fin"
      /\ ccache = cluster /\ pcache.sts = sts /\ pcache.pg = pg
      /\ UNCHANGED <<res, cluster, jobs, want, out, after>>
      /\ UNCHANGED <<uids, target, ccache, pcache, cpc, cpaused, sts, pg, vol, volDel, writers, data>>
  BY <1>1 DEF OneRestore, Undisturbed, Begin, Synced, WellFormed, CachesFollow, Env, workload, ctl
<1>3. Idents(r)' /\ Twin(r)' /\ Interlock'
  BY <1>1, <1>2 DEF Exclusion, Idents, OneRestore, Twin, Finished, Interlock, Paused
<1>4. OneJob(r)' /\ JobPhase(r)' /\ Unfit(r)'
  BY <1>1, <1>2 DEF Exclusion, OneJob, Mine, Down, Paused, Running, JobPhase, Jobless, Finished,
     Early, Unfit
<1>5. Announced(r)' /\ Finishing(r)' /\ Recording(r)'
  BY <1>1, <1>2 DEF Exclusion, Announced, Mine, Jobless, Down, Running, Finishing, Recording, Early
<1>6. QED
  BY <1>3, <1>4, <1>5 DEF Exclusion

\* The finalizer is added to the Restore that was read.
LEMMA AddFinalizerKeeps ==
  ASSUME NEW r \in Restores, Undisturbed, WellFormed, Exclusion(r), AddFinalizer
  PROVE  Exclusion(r)'
<1>1. OneRestore(r)
  BY OneRestoreThere
<1>2. /\ pc = "fin" /\ pc' = "decide" /\ copy' = res'[r]
      /\ res[r].uid = copy.uid /\ res[r].deleting = copy.deleting /\ res[r].step = copy.step
      /\ res'[r].uid = res[r].uid /\ res'[r].step = res[r].step /\ res'[r].fin
      /\ res'[r].deleting = res[r].deleting /\ res'[r] # Absent
      /\ UNCHANGED <<cluster, jobs, me, want, out, after>>
      /\ UNCHANGED <<uids, target, ccache, pcache, cpc, cpaused, sts, pg, vol, volDel, writers, data>>
  BY <1>1 DEF OneRestore, Objects, Absent, AddFinalizer, WriteRestore, WellFormed, RestoreTypeOK,
     Env, workload, ctl
<1>3. ~copy.deleting /\ ~Finished(copy) /\ ~res[r].deleting
  BY <1>1, <1>2 DEF Exclusion, Twin, Finished
<1>4. Idents(r)' /\ Twin(r)' /\ Interlock'
  BY <1>1, <1>2, <1>3 DEF Exclusion, Idents, OneRestore, Twin, Finished, Interlock, Paused
<1>5. OneJob(r)' /\ JobPhase(r)' /\ Unfit(r)'
  BY <1>1, <1>2, <1>3 DEF Exclusion, OneJob, Mine, Down, Paused, Running, JobPhase, Jobless,
     Finished, Early, Unfit
<1>6. Announced(r)' /\ Finishing(r)' /\ Recording(r)'
  BY <1>1, <1>2, <1>3 DEF Exclusion, Announced, Mine, Jobless, Down, Running, Finishing, Recording,
         Early
<1>7. QED
  BY <1>4, <1>5, <1>6 DEF Exclusion

\* What the reconcile decides before the Job.
LEMMA PrepareKeeps ==
  ASSUME NEW r \in Restores, Undisturbed, WellFormed, Exclusion(r), Prepare
  PROVE  Exclusion(r)'
<1>1. OneRestore(r)
  BY OneRestoreThere
<1>2. /\ pc = "decide" /\ copy.step \notin Running
      /\ \/ pc' = "finish" /\ out' = "released" /\ want' = "Failed" /\ after' = "save"
         \/ pc' = "save" /\ want' \in {"awaiting", "waiting"}
         \/ /\ pc' = "save" /\ want' = "creating" /\ ccache.holder = r /\ ~pcache.sts /\ ~pcache.pg
            /\ jobs[r] = NoRestoreJob \/ jobs[r].owner = copy.uid
      /\ UNCHANGED <<res, cluster, jobs, me, copy>>
      /\ UNCHANGED <<uids, target, ccache, pcache, cpc, cpaused, sts, pg, vol, volDel, writers, data>>
  BY <1>1 DEF OneRestore, Prepare, Started, Running, Held, Stopped, Ours, Report, FinishOn,
     ReadsOnly, Env, workload, ctl
<1>3. /\ res[r].step \in Early /\ ~Mine(r) /\ copy.uid = res[r].uid /\ copy.uid # 0
      /\ jobs[r] = NoRestoreJob <=> jobs[r].owner = 0
  BY <1>1, <1>2 DEF Exclusion, Idents, OneRestore, Twin, Finished, JobPhase, Mine, Jobless, Early,
     Running, Objects, Steps
<1>4. Idents(r)' /\ Twin(r)' /\ Interlock'
  BY <1>1, <1>2, <1>3 DEF Exclusion, Idents, OneRestore, Twin, Finished, Interlock, Paused
<1>5. OneJob(r)' /\ JobPhase(r)' /\ Unfit(r)'
  BY <1>1, <1>2, <1>3 DEF Exclusion, OneJob, Mine, Down, Paused, Running, JobPhase, Jobless,
     Finished, Early, Unfit
<1>6. Announced(r)' /\ Finishing(r)' /\ Recording(r)'
  BY <1>1, <1>2, <1>3 DEF Exclusion, Announced, Mine, Jobless, Down, Running, Finishing, Recording,
         Early, Interlock, Paused
<1>7. QED
  BY <1>4, <1>5, <1>6 DEF Exclusion

\* The Cluster is annotated.
LEMMA HoldKeeps ==
  ASSUME NEW r \in Restores, Undisturbed, WellFormed, Exclusion(r), Hold
  PROVE  Exclusion(r)'
<1>1. OneRestore(r)
  BY OneRestoreThere
<1>2. /\ pc = "decide" /\ copy.step \notin Running /\ pc' = "save" /\ want' = "waiting"
      /\ cluster'.holder = r /\ cluster'.broken = cluster.broken
      /\ UNCHANGED <<res, jobs, me, copy, out, after>>
      /\ UNCHANGED <<uids, target, ccache, pcache, cpc, cpaused, sts, pg, vol, volDel, writers, data>>
  BY <1>1 DEF OneRestore, Clusters, Hold, Started, Running, Report, WriteCluster, Env, workload, ctl
<1>3. res[r].step \in Early /\ ~Mine(r) /\ cpc # "write" /\ writers = {}
  BY <1>1, <1>2 DEF Exclusion, Idents, OneRestore, Twin, Finished, JobPhase, Mine, Jobless, Early,
     Running, Interlock, Paused, OneJob, Down, Objects, Steps
<1>4. Idents(r)' /\ Twin(r)' /\ Interlock'
  BY <1>1, <1>2, <1>3 DEF Exclusion, Idents, OneRestore, Twin, Finished, Interlock, Paused
<1>5. OneJob(r)' /\ JobPhase(r)' /\ Unfit(r)'
  BY <1>1, <1>2, <1>3 DEF Exclusion, OneJob, Mine, Down, Paused, Running, JobPhase, Jobless,
     Finished, Early, Unfit
<1>6. Announced(r)' /\ Finishing(r)' /\ Recording(r)'
  BY <1>1, <1>2, <1>3 DEF Exclusion, Announced, Mine, Jobless, Down, Running, Finishing, Recording,
         Early
<1>7. QED
  BY <1>4, <1>5, <1>6 DEF Exclusion

\* What the reconcile decides once the Job may be there.
LEMMA FollowKeeps ==
  ASSUME NEW r \in Restores, Undisturbed, WellFormed, Exclusion(r), Follow
  PROVE  Exclusion(r)'
<1>1. OneRestore(r)
  BY OneRestoreThere
<1>2. /\ pc = "decide" /\ copy.step \in Running
      /\ \/ jobs[r] = NoRestoreJob /\ copy.step = "creating" /\ target # "invalid" /\ pc' = "create"
         \/ /\ jobs[r] = NoRestoreJob /\ target = "invalid"
            /\ pc' = "finish" /\ out' = "released" /\ want' = "Failed" /\ after' = "save"
         \/ /\ jobs[r] = NoRestoreJob \/ jobs[r].owner # copy.uid
            /\ jobs[r] = NoRestoreJob => copy.step = "restoring"
            /\ pc' = "finish" /\ out' = "interrupted" /\ want' = "Failed" /\ after' = "save"
         \/ /\ jobs[r] # NoRestoreJob /\ jobs[r].owner = copy.uid
            /\ \/ jobs[r].state = "complete" /\ pc' = "volumes"
               \/ /\ jobs[r].state = "failed"
                  /\ pc' = "finish" /\ out' = "failed" /\ want' = "Failed" /\ after' = "save"
               \/ pc' = "save" /\ want' = "restoring"
      /\ UNCHANGED <<res, cluster, jobs, me, copy>>
      /\ UNCHANGED <<uids, target, ccache, pcache, cpc, cpaused, sts, pg, vol, volDel, writers, data>>
  BY <1>1 DEF OneRestore, Follow, Started, Running, Ours, GoTo, Report, FinishOn, ReadsOnly, Env,
         workload, ctl
<1>3. /\ copy.uid = res[r].uid /\ copy.uid # 0 /\ copy.step = res[r].step /\ ~copy.deleting
      /\ jobs[r] = NoRestoreJob <=> jobs[r].owner = 0
      /\ Mine(r) => ~jobs[r].deleting
  BY <1>1, <1>2 DEF Exclusion, Idents, OneRestore, Twin, Finished, JobPhase, Mine, Jobless, Early,
     Running
<1>4. Idents(r)' /\ Twin(r)' /\ Interlock'
  BY <1>1, <1>2, <1>3 DEF Exclusion, Idents, OneRestore, Twin, Finished, Interlock, Paused
<1>5. OneJob(r)' /\ JobPhase(r)' /\ Unfit(r)'
  BY <1>1, <1>2, <1>3 DEF Exclusion, OneJob, Mine, Down, Paused, Running, JobPhase, Jobless,
     Finished, Early, Unfit
<1>6. Announced(r)' /\ Finishing(r)' /\ Recording(r)'
  BY <1>1, <1>2, <1>3 DEF Exclusion, Announced, Mine, Jobless, Down, Running, JobPhase, Finished,
         Early, Finishing, Recording
<1>7. QED
  BY <1>4, <1>5, <1>6 DEF Exclusion

\* The Job is created.
LEMMA CreateJobKeeps ==
  ASSUME NEW r \in Restores, Undisturbed, WellFormed, Exclusion(r), CreateJob
  PROVE  Exclusion(r)'
<1>1. OneRestore(r)
  BY OneRestoreThere
<1>2. /\ pc = "create" /\ pc' = "save" /\ want' = "restoring"
      /\ jobs[r] = NoRestoreJob => /\ jobs'[r].owner = copy.uid /\ jobs'[r].state = "active"
                                   /\ jobs'[r].deleting = FALSE
                                   /\ writers' = writers \cup {<<r, copy.uid>>}
      /\ UNCHANGED <<res, cluster, me, copy, out, after, uids, target, ccache, pcache>>
      /\ UNCHANGED <<cpc, cpaused, sts, pg, vol, volDel, data>>
  BY <1>1 DEF OneRestore, NoRestoreJob, JobObjects, CreateJob, Report, Env, ctl
<1>3. /\ jobs[r] = NoRestoreJob /\ cluster.holder = r /\ Down /\ res[r].step = "creating"
      /\ copy.uid = res[r].uid /\ copy.uid # 0 /\ writers = {} /\ ~Mine(r)
      /\ copy.uid <= uids /\ jobs'[r] # NoRestoreJob
  BY <1>1, <1>2 DEF Exclusion, Idents, OneRestore, Twin, Finished, Announced, Mine, Jobless, Down,
     Running, OneJob, Paused, NoRestoreJob
<1>4. Idents(r)' /\ Twin(r)' /\ Interlock'
  BY <1>1, <1>2, <1>3 DEF Exclusion, Idents, OneRestore, Twin, Finished, Interlock, Paused
<1>5. OneJob(r)' /\ JobPhase(r)' /\ Unfit(r)'
  BY <1>1, <1>2, <1>3 DEF Exclusion, OneJob, Mine, Down, Paused, Running, JobPhase, Jobless,
     Finished, Early, Unfit, OneRestore
<1>6. Announced(r)' /\ Finishing(r)' /\ Recording(r)'
  BY <1>1, <1>2, <1>3 DEF Exclusion, Announced, Mine, Jobless, Down, Running, Finishing, Recording,
         Early
<1>7. QED
  BY <1>4, <1>5, <1>6 DEF Exclusion

\* The standbys' volumes go before the restore is complete.
LEMMA DeleteVolumesKeeps ==
  ASSUME NEW r \in Restores, Undisturbed, WellFormed, Exclusion(r), DeleteVolumes
  PROVE  Exclusion(r)'
<1>1. OneRestore(r)
  BY OneRestoreThere
<1>2. /\ pc = "volumes"
      /\ \/ /\ vol = "none" /\ pc' = "finish" /\ out' = "succeeded" /\ want' = "Succeeded"
            /\ after' = "save"
         \/ pc' = "save" /\ want' = "restoring"
      /\ UNCHANGED <<res, cluster, jobs, me, copy, uids, target, ccache, pcache>>
      /\ UNCHANGED <<cpc, cpaused, sts, pg, vol, writers, data>>
  BY <1>1 DEF DeleteVolumes, FinishOn, Report, Env, ctl
<1>3. Idents(r)' /\ Twin(r)' /\ Interlock'
  BY <1>1, <1>2 DEF Exclusion, Idents, OneRestore, Twin, Finished, Interlock, Paused
<1>4. OneJob(r)' /\ JobPhase(r)' /\ Unfit(r)'
  BY <1>1, <1>2 DEF Exclusion, OneJob, Mine, Down, Paused, Running, JobPhase, Jobless, Finished,
     Early, Unfit
<1>5. Announced(r)' /\ Finishing(r)' /\ Recording(r)'
  BY <1>1, <1>2 DEF Exclusion, Announced, Mine, Jobless, Down, Running, Finishing, Recording, Early
<1>6. QED
  BY <1>3, <1>4, <1>5 DEF Exclusion

\* The outcome is recorded on the Cluster, which frees it.
LEMMA FinishKeeps ==
  ASSUME NEW r \in Restores, Undisturbed, WellFormed, Exclusion(r), Finish
  PROVE  Exclusion(r)'
<1>1. OneRestore(r)
  BY OneRestoreThere
<1>2. /\ pc = "finish" /\ out' = out /\ pc' = IF out = "released" THEN after ELSE "record"
      /\ cluster'.holder = 0
      /\ cluster'.broken = CASE out = "succeeded" -> 0 [] out = "released" -> cluster.broken [] OTHER -> r
      /\ UNCHANGED <<res, jobs, me, copy, want, after>>
      /\ UNCHANGED <<uids, target, ccache, pcache, cpc, cpaused, sts, pg, vol, volDel, writers, data>>
  <2>1. pc = "finish" /\ me = r /\ r # 0 /\ ccache.holder = cluster.holder /\ ccache.broken = cluster.broken
    BY <1>1 DEF OneRestore, Finish, Exclusion, Interlock
  <2>2. Outcome = out
    <3>1. Ours(me, copy) => Mine(r)
      BY <1>1, <2>1 DEF OneRestore, Ours, Mine, Exclusion, Idents, Twin
    <3>2. QED
      BY <2>1, <3>1 DEF Outcome, Exclusion, Finishing
  <2> DEFINE b(c) == CASE out = "succeeded" -> 0 [] out = "released" -> c.broken [] OTHER -> me
  <2>3. ASSUME NEW c \in Clusters PROVE Settled(c, out).holder = 0 /\ Settled(c, out).broken = b(c)
    <3>1. c.holder = me \/ c.holder = 0
      BY <1>1, <2>1 DEF OneRestore, Clusters, Names
    <3> DEFINE h == IF c.holder = me THEN 0 ELSE c.holder
               a == IF c.allow = me THEN 0 ELSE c.allow
               u == IF c.allow = me THEN 0 ELSE c.allowUID
               d == b(c)
    <3>2. Settled(c, out) = [c EXCEPT !.holder = h, !.allow = a, !.allowUID = u, !.broken = d]
      BY DEF Settled
    <3>3. h = 0
      BY <3>1
    <3> HIDE DEF h, a, u, d
    <3>4. Settled(c, out).holder = h /\ Settled(c, out).broken = d
      BY <3>2 DEF Clusters
    <3>5. QED
      BY <3>3, <3>4 DEF d
  <2>4. cluster \in Clusters /\ ccache \in Clusters
    BY <1>1 DEF OneRestore
  <2>5. \/ Settled(ccache, out) = ccache /\ cluster' = cluster
        \/ cluster' = Settled(cluster, out)
    BY <2>2 DEF Finish, WriteCluster
  <2>6. b(ccache) = b(cluster)
    BY <2>1
  <2>7. cluster'.holder = 0 /\ cluster'.broken = b(cluster)
    <3> HIDE DEF b
    <3>1. QED
      BY <2>1, <2>3, <2>4, <2>5, <2>6
  <2>8. /\ out' = out /\ pc' = IF out = "released" THEN after ELSE "record"
        /\ UNCHANGED <<res, jobs, me, copy, want, after>>
        /\ UNCHANGED <<uids, target, ccache, pcache, cpc, cpaused, sts, pg, vol, volDel, writers, data>>
    BY <2>2 DEF Finish, Env, workload, ctl
  <2>9. QED
    BY <2>1, <2>7, <2>8
<1>3. /\ cpc # "write" /\ copy.uid = res[r].uid /\ copy.step = res[r].step
      /\ copy.deleting => res[r].deleting
      /\ after \in {"save", "stopjob", "unfin"}
      /\ out \in Outcomes
  BY <1>1, <1>2 DEF Exclusion, Interlock, Paused, Twin, Finished, WellFormed, RestoreTypeOK
<1>4. Idents(r)' /\ Twin(r)' /\ Interlock'
  BY <1>1, <1>2, <1>3 DEF Exclusion, Idents, OneRestore, Twin, Finished, Finishing, Mine, Running,
         Interlock, Paused
<1>5. OneJob(r)' /\ JobPhase(r)' /\ Unfit(r)'
  BY <1>1, <1>2, <1>3 DEF Exclusion, OneJob, Mine, Down, Paused, Running, Finishing, JobPhase,
     Jobless, Finished, Early, Unfit, OneRestore, Outcomes
<1>6. Announced(r)' /\ Finishing(r)' /\ Recording(r)'
  BY <1>1, <1>2, <1>3 DEF Exclusion, Announced, Mine, Jobless, Down, Running, Finishing, Recording,
         Early, OneJob, Paused, Outcomes, OneRestore
<1>7. QED
  BY <1>4, <1>5, <1>6 DEF Exclusion

\* The Restore is recorded as the Cluster's last.
LEMMA RecordLastKeeps ==
  ASSUME NEW r \in Restores, Undisturbed, WellFormed, Exclusion(r), RecordLast
  PROVE  Exclusion(r)'
<1>1. OneRestore(r)
  BY OneRestoreThere
<1>2. /\ pc = "record" /\ pc' = after /\ after \in {"save", "stopjob", "unfin"}
      /\ cluster'.holder = cluster.holder /\ cluster'.broken = cluster.broken
      /\ UNCHANGED <<res, jobs, me, copy, want, out, after>>
      /\ UNCHANGED <<uids, target, ccache, pcache, cpc, cpaused, sts, pg, vol, volDel, writers, data>>
  BY <1>1 DEF OneRestore, Clusters, RecordLast, WriteCluster, WellFormed, RestoreTypeOK, Env,
     workload, ctl
<1>3. Idents(r)' /\ Twin(r)' /\ Interlock'
  BY <1>1, <1>2 DEF Exclusion, Idents, OneRestore, Twin, Finished, Recording, Mine, Jobless,
     Early, Down, Running, Interlock, Paused
<1>4. OneJob(r)' /\ JobPhase(r)' /\ Unfit(r)'
  BY <1>1, <1>2 DEF Exclusion, OneJob, Mine, Down, Paused, Running, JobPhase, Jobless, Finished,
     Early, Unfit
<1>5. Announced(r)' /\ Finishing(r)' /\ Recording(r)'
  BY <1>1, <1>2 DEF Exclusion, Announced, Mine, Jobless, Down, Running, Finishing, Recording, Early
<1>6. QED
  BY <1>3, <1>4, <1>5 DEF Exclusion

\* What the reconcile of a deleted Restore decides.
LEMMA FinalizeKeeps ==
  ASSUME NEW r \in Restores, Undisturbed, WellFormed, Exclusion(r), Finalize
  PROVE  Exclusion(r)'
<1>1. OneRestore(r)
  BY OneRestoreThere
<1>2. /\ pc = "finalize"
      /\ \/ Finished(copy) /\ pc' = "unfin"
         \/ /\ ~Finished(copy)
            /\ \/ /\ jobs[r] = NoRestoreJob \/ jobs[r].owner # copy.uid
                  /\ pc' = "finish" /\ out' = "released" /\ after' = "unfin"
               \/ /\ jobs[r] # NoRestoreJob /\ jobs[r].owner = copy.uid /\ ~jobs[r].deleting
                  /\ jobs[r].state = "complete" /\ pc' = "volumes"
               \/ pc' = "finish" /\ out' = "interrupted" /\ after' = "stopjob"
      /\ UNCHANGED <<res, cluster, jobs, me, copy>>
      /\ UNCHANGED <<uids, target, ccache, pcache, cpc, cpaused, sts, pg, vol, volDel, writers, data>>
  BY <1>1 DEF OneRestore, Finalize, Ours, GoTo, ReadsOnly, Env, workload, ctl
<1>3. /\ copy.uid = res[r].uid /\ copy.uid # 0 /\ copy.step = res[r].step /\ copy.deleting
      /\ jobs[r] = NoRestoreJob <=> jobs[r].owner = 0
      /\ Finished(copy) => cluster.holder = 0 /\ writers = {}
      /\ Mine(r) /\ ~Finished(copy) => res[r].step \in Running
  BY <1>1, <1>2 DEF Exclusion, Idents, OneRestore, Twin, Finished, JobPhase, Mine, Jobless, Early,
     Running, OneJob, Down, Paused, Objects, Steps
<1>4. Idents(r)' /\ Twin(r)' /\ Interlock'
  BY <1>1, <1>2, <1>3 DEF Exclusion, Idents, OneRestore, Twin, Finished, Interlock, Paused
<1>5. OneJob(r)' /\ JobPhase(r)' /\ Unfit(r)'
  BY <1>1, <1>2, <1>3 DEF Exclusion, OneJob, Mine, Down, Paused, Running, JobPhase, Jobless,
     Finished, Early, Unfit
<1>6. Announced(r)' /\ Finishing(r)' /\ Recording(r)'
  BY <1>1, <1>2, <1>3 DEF Exclusion, Announced, Mine, Jobless, Down, Running, Finishing, Recording,
         Early
<1>7. QED
  BY <1>4, <1>5, <1>6 DEF Exclusion

\* The Job of a deleted Restore is deleted.
LEMMA StopJobKeeps ==
  ASSUME NEW r \in Restores, Undisturbed, WellFormed, Exclusion(r), StopJob
  PROVE  Exclusion(r)'
<1>1. OneRestore(r)
  BY OneRestoreThere
<1>2. /\ pc = "stopjob" /\ jobs'[r].owner = jobs[r].owner /\ jobs'[r].state = jobs[r].state
      /\ jobs'[r] # NoRestoreJob /\ jobs[r] # NoRestoreJob
      /\ pc' = "idle" /\ UNCHANGED <<cluster, uids, target, ccache, pcache, cpc, cpaused>>
      /\ UNCHANGED <<res, sts, pg, vol, volDel, writers, data>>
  BY <1>1 DEF OneRestore, JobObjects, NoRestoreJob, StopJob, Ours, Stop, Env, workload, ctl
<1>3. cluster.holder = 0 /\ res[r].deleting /\ jobs[r].owner # 0
  BY <1>1, <1>2 DEF Exclusion, Idents, OneRestore, Twin, Finished, Recording, Mine, Jobless,
     Early, Down, Running
<1>4. Idents(r)' /\ Twin(r)' /\ Interlock'
  BY <1>1, <1>2, <1>3 DEF Exclusion, Idents, OneRestore, Twin, Finished, Interlock, Paused
<1>5. OneJob(r)' /\ JobPhase(r)' /\ Unfit(r)'
  BY <1>1, <1>2, <1>3 DEF Exclusion, OneJob, Mine, Down, Paused, Running, JobPhase, Jobless,
     Finished, Early, Unfit
<1>6. Announced(r)' /\ Finishing(r)' /\ Recording(r)'
  BY <1>1, <1>2, <1>3 DEF Exclusion, Announced, Mine, Jobless, Down, Running, Finishing, Recording,
         Early
<1>7. QED
  BY <1>4, <1>5, <1>6 DEF Exclusion

\* The finalizer waits for the pods of the Job.
LEMMA AwaitPodsKeeps ==
  ASSUME NEW r \in Restores, Undisturbed, WellFormed, Exclusion(r), AwaitPods
  PROVE  Exclusion(r)'
<1>1. OneRestore(r)
  BY OneRestoreThere
<1>2. /\ pc = "stopjob"
      /\ \/ pc' = "idle"
         \/ pc' = "unfin" /\ (\A w \in writers : w[1] # r) /\ copy' = copy /\ me' = me
      /\ UNCHANGED <<res, cluster, jobs>>
      /\ UNCHANGED <<uids, target, ccache, pcache, cpc, cpaused, sts, pg, vol, volDel, writers, data>>
  BY <1>1 DEF OneRestore, AwaitPods, Stop, GoTo, Env, workload, ctl
<1>3. cluster.holder = 0 /\ (pc' = "unfin" => writers = {})
  BY <1>1, <1>2 DEF Exclusion, Recording, Mine, Jobless, Early, Down, Running, OneJob, Paused
<1>4. Idents(r)' /\ Twin(r)' /\ Interlock'
  BY <1>1, <1>2, <1>3 DEF Exclusion, Idents, OneRestore, Twin, Finished, Interlock, Paused
<1>5. OneJob(r)' /\ JobPhase(r)' /\ Unfit(r)'
  BY <1>1, <1>2, <1>3 DEF Exclusion, OneJob, Mine, Down, Paused, Running, JobPhase, Jobless,
     Finished, Early, Unfit
<1>6. Announced(r)' /\ Finishing(r)' /\ Recording(r)'
  BY <1>1, <1>2, <1>3 DEF Exclusion, Announced, Mine, Jobless, Down, Running, Finishing, Recording,
         Early
<1>7. QED
  BY <1>4, <1>5, <1>6 DEF Exclusion

\* The status of the Restore is written.
LEMMA SaveKeeps ==
  ASSUME NEW r \in Restores, Undisturbed, WellFormed, Exclusion(r), Save
  PROVE  Exclusion(r)'
<1>1. OneRestore(r)
  BY OneRestoreThere
<1>2. /\ pc = "save" /\ copy = res[r]
      /\ res'[r].uid = res[r].uid /\ res'[r].fin = res[r].fin /\ res'[r].deleting = res[r].deleting
      /\ res'[r].step = want
      /\ \/ pc' = "idle"
         \/ pc' = "unfin" /\ want = "Succeeded" /\ copy' = res'[r] /\ me' = me
      /\ UNCHANGED <<cluster, jobs>>
      /\ UNCHANGED <<uids, target, ccache, pcache, cpc, cpaused, sts, pg, vol, volDel, writers, data>>
  <2> DEFINE o == [copy EXCEPT !.step = want]
  <2>1. pc = "save" /\ current /\ me = r /\ copy = res[r]
    BY <1>1 DEF OneRestore, Save, WellFormed, RestoreTypeOK
  <2>2. /\ o.uid = copy.uid /\ o.fin = copy.fin /\ o.deleting = copy.deleting /\ o.step = want
    BY <1>1 DEF OneRestore, Objects
  <2>3. /\ (o = copy /\ res' = res) \/ res' = [res EXCEPT ![me] = o]
        /\ \/ pc' = "idle"
           \/ pc' = "unfin" /\ want = "Succeeded" /\ copy' = o /\ me' = me
        /\ UNCHANGED <<cluster, jobs>>
        /\ UNCHANGED <<uids, target, ccache, pcache, cpc, cpaused, sts, pg, vol, volDel, writers, data>>
    BY DEF Save, WriteRestore, Stop, Env, workload, ctl
  <2> HIDE DEF o
  <2>4. res'[r] = o
    BY <1>1, <2>1, <2>3 DEF OneRestore
  <2>5. QED
    BY <2>1, <2>2, <2>3, <2>4
<1>3. /\ want \in Steps /\ copy.fin /\ copy.uid = res[r].uid /\ copy.uid # 0
      /\ want \in Early => res[r].step \in Early
      /\ want = "creating" => cluster.holder = r /\ Down /\ Jobless(r)
      /\ want = "restoring" => res[r].step \in Running /\ Mine(r)
      /\ want \in {"Succeeded", "Failed"} => cluster.holder = 0 /\ writers = {}
  BY <1>1, <1>2 DEF Exclusion, Idents, OneRestore, Twin, Finished, Recording, Mine, Jobless,
     Early, Down, Running, WellFormed, RestoreTypeOK
<1>4. Idents(r)' /\ Twin(r)' /\ Interlock'
  BY <1>1, <1>2, <1>3 DEF Exclusion, Idents, OneRestore, Twin, Finished, Interlock, Paused, Absent
<1>5. OneJob(r)' /\ JobPhase(r)' /\ Unfit(r)'
  BY <1>1, <1>2, <1>3 DEF Exclusion, OneJob, Mine, Down, Paused, Running, JobPhase, Jobless,
     Finished, Early, Unfit, Steps
<1>6. Announced(r)' /\ Finishing(r)' /\ Recording(r)'
  BY <1>1, <1>2, <1>3 DEF Exclusion, Announced, Mine, Jobless, Down, Running, Finishing, Recording,
         Early
<1>7. QED
  BY <1>4, <1>5, <1>6 DEF Exclusion

\* The finalizer goes, and the Restore with it.
LEMMA RemoveFinalizerKeeps ==
  ASSUME NEW r \in Restores, Undisturbed, WellFormed, Exclusion(r), RemoveFinalizer
  PROVE  Exclusion(r)'
<1>1. OneRestore(r)
  BY OneRestoreThere
<1>2. /\ pc = "unfin" /\ res'[r] = Absent /\ Absent.uid = 0 /\ Absent.step = "new"
      /\ pc' = "idle"
      /\ UNCHANGED <<cluster, jobs>>
      /\ UNCHANGED <<uids, target, ccache, pcache, cpc, cpaused, sts, pg, vol, volDel, writers, data>>
  BY <1>1 DEF OneRestore, Absent, RemoveFinalizer, WriteRestore, Stop, Env, workload, ctl
<1>3. cluster.holder = 0 /\ writers = {}
  BY <1>1, <1>2 DEF Exclusion, Recording, Mine, Jobless, Early, Down, Running
<1>4. Idents(r)' /\ Twin(r)' /\ Interlock'
  BY <1>1, <1>2, <1>3 DEF Exclusion, Idents, OneRestore, Twin, Finished, Interlock, Paused
<1>5. OneJob(r)' /\ JobPhase(r)' /\ Unfit(r)'
  BY <1>1, <1>2, <1>3 DEF Exclusion, OneJob, Mine, Down, Paused, Running, JobPhase, Jobless,
     Finished, Early, Unfit, OneRestore
<1>6. Announced(r)' /\ Finishing(r)' /\ Recording(r)'
  BY <1>1, <1>2, <1>3 DEF Exclusion, Announced, Mine, Jobless, Down, Running, Finishing, Recording,
         Early
<1>7. QED
  BY <1>4, <1>5, <1>6 DEF Exclusion

\* A write is refused, a call fails or the operator stops.
LEMMA LeaveKeeps ==
  ASSUME NEW r \in Restores, Undisturbed, WellFormed, Exclusion(r), Conflict \/ Fail
  PROVE  Exclusion(r)'
<1>1. OneRestore(r)
  BY OneRestoreThere
<1>2. /\ pc' = "idle"
      /\ UNCHANGED <<res, cluster, jobs>>
      /\ UNCHANGED <<uids, target, ccache, pcache, cpc, cpaused, sts, pg, vol, volDel, writers, data>>
  BY <1>1 DEF Conflict, Fail, Stop, Env, workload, ctl
<1>3. Idents(r)' /\ Twin(r)' /\ Interlock'
  BY <1>1, <1>2 DEF Exclusion, Idents, OneRestore, Twin, Finished, Interlock, Paused
<1>4. OneJob(r)' /\ JobPhase(r)' /\ Unfit(r)'
  BY <1>1, <1>2 DEF Exclusion, OneJob, Mine, Down, Paused, Running, JobPhase, Jobless, Finished,
     Early, Unfit
<1>5. Announced(r)' /\ Finishing(r)' /\ Recording(r)'
  BY <1>1, <1>2 DEF Exclusion, Announced, Mine, Jobless, Down, Running, Finishing, Recording, Early
<1>6. QED
  BY <1>3, <1>4, <1>5 DEF Exclusion

\* It holds at the start.
LEMMA ExclusionAtStart == ASSUME NEW r \in Restores, RestoreInit PROVE Exclusion(r)
<1>1. /\ res[r] = Absent /\ jobs[r] = NoRestoreJob /\ uids = 0 /\ pc = "idle" /\ cpc = "idle"
      /\ writers = {} /\ data = "good" /\ vol = "fresh"
  BY DEF RestoreInit
<1>2. Absent.uid = 0 /\ Absent.step = "new" /\ NoRestoreJob.owner = 0
  BY DEF Absent, NoRestoreJob
<1>3. Idents(r) /\ Twin(r) /\ Interlock /\ OneJob(r)
  BY <1>1, <1>2 DEF Idents, Twin, Interlock, OneJob
<1>4. JobPhase(r) /\ Announced(r)
  BY <1>1, <1>2 DEF JobPhase, Announced, Mine, Running, Finished
<1>5. Finishing(r) /\ Recording(r) /\ Unfit(r)
  BY <1>1, <1>2 DEF Finishing, Recording, Unfit
<1>6. QED
  BY <1>3, <1>4, <1>5 DEF Exclusion

\* Every step keeps it.
LEMMA ExclusionKept ==
  ASSUME NEW r \in Restores, Undisturbed, WellFormed, Exclusion(r), [RestoreNext]_rvars
  PROVE  Exclusion(r)'
<1>1. ~DeleteJob(r) /\ ~LiftInterruption /\ ~RecoverTarget
  BY DEF Undisturbed, DeleteJob, LiftInterruption, RecoverTarget
<1>2. \A s \in Restores : s = r
  BY DEF Undisturbed
<1>3. CASE UNCHANGED rvars
  <2>1. /\ UNCHANGED <<res, uids, cluster, jobs, target, ccache, pcache>>
        /\ UNCHANGED <<sts, pg, vol, volDel, writers, data, cpc, cpaused>>
        /\ UNCHANGED <<pc, me, copy, want, out, after>>
    BY <1>3 DEF rvars, api, caches, workload, ctl, local
  <2>2. Idents(r)' /\ Twin(r)' /\ Interlock' /\ OneJob(r)'
    BY <2>1 DEF Exclusion, Idents, Twin, Interlock, OneJob, Mine, Down, Paused, Finished
  <2>3. JobPhase(r)' /\ Announced(r)'
    BY <2>1 DEF Exclusion, JobPhase, Announced, Mine, Jobless, Down, Finished
  <2>4. Finishing(r)' /\ Recording(r)' /\ Unfit(r)'
    BY <2>1 DEF Exclusion, Finishing, Recording, Unfit, Mine, Jobless, Down
  <2>5. QED
    BY <2>2, <2>3, <2>4 DEF Exclusion
<1>4. CASE Users
  BY <1>1, <1>2, <1>4, CreateRestoreKeeps, DeleteRestoreKeeps, TouchRestoreKeeps, ConfirmKeeps,
     LoseTargetKeeps DEF Users
<1>5. CASE Pods
  BY <1>2, <1>5, StartPodsKeeps, StopPodsKeeps, VolumeKeeps, JobWritesKeeps, JobPodGoneKeeps,
     JobEndsKeeps, JobGoneKeeps, CollectJobKeeps DEF Pods
<1>6. CASE Sync \/ ClusterReconcile \/ Fail \/ \E s \in Restores : Begin(s)
  BY <1>2, <1>6, SyncKeeps, ClusterReadKeeps, ClusterWriteKeeps, LeaveKeeps, BeginKeeps DEF
     ClusterReconcile
<1>7. CASE Reconcile
  BY <1>7, AddFinalizerKeeps, PrepareKeeps, HoldKeeps, FollowKeeps, CreateJobKeeps,
     DeleteVolumesKeeps, FinishKeeps, RecordLastKeeps, FinalizeKeeps, StopJobKeeps,
     AwaitPodsKeeps, SaveKeeps, RemoveFinalizerKeeps, LeaveKeeps DEF Reconcile
<1>8. QED
  BY <1>3, <1>4, <1>5, <1>6, <1>7 DEF RestoreNext

\* The invariant of an undisturbed Restore: the types, and what the parts say.
RestoreIInv == WellFormed /\ \A r \in Restores : Exclusion(r)

\* An undisturbed Restore keeps it.
LEMMA RestoreInvariant == Undisturbed => (RestoreSpec => []RestoreIInv)
<1> SUFFICES ASSUME Undisturbed PROVE RestoreSpec => []RestoreIInv
  OBVIOUS
<1>1. RestoreInit => RestoreIInv
  BY RestoreInitTypes, ExclusionAtStart DEF RestoreIInv
<1>2. RestoreIInv /\ [RestoreNext]_rvars => RestoreIInv'
  <2> SUFFICES ASSUME RestoreIInv, [RestoreNext]_rvars PROVE RestoreIInv'
    OBVIOUS
  <2>1. WellFormed'
    BY RestoreNextTypes DEF RestoreIInv
  <2>2. ASSUME NEW r \in Restores PROVE Exclusion(r)'
    BY ExclusionKept DEF RestoreIInv
  <2>3. QED
    BY <2>1, <2>2 DEF RestoreIInv
<1>3. QED
  BY <1>1, <1>2, PTL DEF RestoreSpec

\* A step creates no Job but the announced one, for the Restore that holds the
\* Cluster.
LEMMA OnlyAnnounced ==
  ASSUME NEW r \in Restores, Undisturbed, WellFormed, Exclusion(r), [RestoreNext]_rvars,
         jobs'[r] # NoRestoreJob, jobs[r] = NoRestoreJob
  PROVE  cluster.holder = r
<1>1. OneRestore(r)
  BY OneRestoreThere
<1>2. CASE CreateJob
  <2>1. pc = "create"
    BY <1>2 DEF CreateJob
  <2>2. QED
    BY <2>1 DEF Exclusion, Announced
<1>3. ASSUME NEW s \in Restores, JobEnds(s) PROVE FALSE
  <2>1. s = r /\ jobs[r].owner = 0
    BY <1>1 DEF OneRestore, NoRestoreJob
  <2>2. <<r, 0>> \in writers
    BY <1>3, <2>1 DEF JobEnds
  <2>3. QED
    BY <2>1, <2>2 DEF Exclusion, OneJob, Mine
<1>4. ASSUME NEW s \in Restores, DeleteJob(s) \/ JobGone(s) \/ CollectJob(s) PROVE FALSE
  BY <1>1, <1>4 DEF OneRestore, DeleteJob, JobGone, CollectJob
<1>5. CASE StopJob
  BY <1>1, <1>5 DEF OneRestore, StopJob, Ours
<1>6. QED
  BY <1>2, <1>3, <1>4, <1>5, JobSteps

\* The Cluster never runs while a Job may write its volume, for any number of
\* edits and faults, as long as the Restore is undisturbed.
THEOREM NeverBothRunning == Undisturbed => (RestoreSpec => []NeverBoth)
<1> SUFFICES ASSUME Undisturbed PROVE RestoreSpec => []NeverBoth
  OBVIOUS
<1>1. RestoreIInv => NeverBoth
  BY DEF RestoreIInv, Exclusion, OneJob, Down, NeverBoth, Undisturbed
<1>2. QED
  BY <1>1, RestoreInvariant, PTL

\* The Cluster runs on a whole data directory and with standbys cloned from it.
THEOREM OnlyFitVolumes == Undisturbed => (RestoreSpec => []RestoreInv)
<1> SUFFICES ASSUME Undisturbed PROVE RestoreSpec => []RestoreInv
  OBVIOUS
<1>1. RestoreIInv => RestoreInv
  <2> SUFFICES ASSUME RestoreIInv PROVE RestoreInv
    OBVIOUS
  <2>1. RestoreTypeOK /\ data \in {"good", "partial"}
    BY DEF RestoreIInv, WellFormed, RestoreTypeOK
  <2>2. NeverPartial /\ StandbysCloned
    BY <2>1 DEF RestoreIInv, Exclusion, Unfit, Down, NeverPartial, StandbysCloned, Undisturbed
  <2>3. QED
    BY <2>1, <2>2 DEF RestoreInv
<1>2. QED
  BY <1>1, RestoreInvariant, PTL

\* A Job is only created while the Cluster's annotation names its Restore.
THEOREM JobsConfirmed == Undisturbed => (RestoreSpec => JobConfirmed)
<1> SUFFICES ASSUME Undisturbed PROVE RestoreSpec => JobConfirmed
  OBVIOUS
<1>1. RestoreIInv /\ [RestoreNext]_rvars =>
        [\A r \in Restores : jobs'[r] # NoRestoreJob /\ jobs[r] = NoRestoreJob => cluster.holder = r]_rvars
  BY OnlyAnnounced DEF RestoreIInv
<1>2. QED
  BY <1>1, RestoreInvariant, PTL DEF RestoreSpec, JobConfirmed
=============================================================================
