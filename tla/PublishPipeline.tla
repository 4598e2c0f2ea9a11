--------------------------- MODULE PublishPipeline --------------------------
(***************************************************************************)
(* From a successful build to the repository: the scan gate, the rows of   *)
(* publish_tasks, and the publish loop with its threads.                   *)
(*                                                                         *)
(* The gate keeps its verdict on the job, not on the attempt, and reads it *)
(* from the job row that report_result loaded when the report arrived.     *)
(* The publish loop gives up on a thread after a time; the thread goes on. *)
(*                                                                         *)
(* Workers put their RPMs directly under the branch's prefix, before they  *)
(* report and before any scan.  A publish therefore moves nothing: it      *)
(* deletes what its files supersede and renews the prefix's metadata.  An  *)
(* attempt has one binary RPM here.  One prefix is modelled: batches of    *)
(* other prefixes share nothing with it but the loop.                      *)
(***************************************************************************)
EXTENDS Integers, FiniteSets

CONSTANTS
    Jobs,        \* ids of build jobs
    MaxAttempts, \* bound: attempts that succeed
    JobOf,       \* the job of each attempt
    Files,       \* file names of RPMs: a package, its version and release
    NameOf,      \* the package of each file name
    Infected,    \* attempts whose RPMs the scanners find something in
    ScanLimit,   \* rows retry_pending_scans looks at
    MaxFaults,   \* bound: restarts, exceptions, scans that could not run
    None         \* no attempt

Attempts   == 1..MaxAttempts   \* ids, in order of their rows
ScanStates == {"none", "pending", "clean", "quarantined", "disregarded", "skipped"}
TaskStates == {"none", "pending", "running", "success", "failed", "cancelled"}

ASSUME PipelineAssumption ==
    /\ Jobs \subseteq Nat /\ IsFiniteSet(Jobs)
    /\ MaxAttempts \in Nat
    /\ JobOf \in [Attempts -> Jobs]
    /\ IsFiniteSet(Files)
    /\ Infected \subseteq Attempts
    /\ ScanLimit \in Nat /\ MaxFaults \in Nat
    /\ None \notin Attempts

VARIABLES
    open,       \* jobs whose status is not success: queued, building, retried
    built,      \* attempts with status success
    scan,       \* [Jobs -> scan_state]
    gate,       \* [Attempts -> phase of its report_result, scan_state it read]
    waived,     \* jobs with a "scan.disregard" row in the audit log
    scheduled,  \* attempts with a scan task that has not run yet
    scanning,   \* [Jobs -> the scan in flight and whose RPM it downloaded]
    task,       \* [Attempts -> status of the publish_tasks row]
    stale,      \* attempts whose task started longer ago than the policy
    loop,       \* the publish loop: its phase and the tasks it took
    threads,    \* publish threads, also those the loop gave up on
    file,       \* [Attempts -> the file name of its RPM], as the build decides
    uploaded,   \* attempts whose RPM has been put under the prefix
    objects,    \* [Files -> the attempt that wrote the object of this name]
    shown,      \* attempts whose RPM has been in the repository's metadata
    faults

gateVars == <<open, built, scan, gate, waived, scheduled, scanning>>
repoVars == <<file, uploaded, objects, shown>>
taskVars == <<stale, loop, threads, repoVars>>
vars     == <<gateVars, task, taskVars, faults>>

NoReport == [phase |-> "none", snap |-> "none"]
NoScan == [att |-> None, read |-> None]
NoLoop == [phase |-> "idle", tasks |-> {}]

Init ==
    /\ open = Jobs
    /\ built = {}
    /\ scan = [j \in Jobs |-> "none"]
    /\ gate = [a \in Attempts |-> NoReport]
    /\ waived = {} /\ scheduled = {}
    /\ scanning = [j \in Jobs |-> NoScan]
    /\ task = [a \in Attempts |-> "none"]
    /\ stale = {} /\ loop = NoLoop /\ threads = {}
    /\ file \in [Attempts -> Files] /\ uploaded = {}
    /\ objects = [f \in Files |-> None]
    /\ shown = {}
    /\ faults \in 0..MaxFaults   \* a behaviour may have fewer

Fault == faults < MaxFaults /\ faults' = faults + 1

BuiltOf(j) == {a \in built : JobOf[a] = j}
Newest(S)  == CHOOSE a \in S : \A b \in S : b <= a

\* INSERT ... ON CONFLICT (attempt_id) DO NOTHING.
Enqueue(a) == task' = [task EXCEPT ![a] = IF @ = "none" THEN "pending" ELSE @]

-----------------------------------------------------------------------------
(* The worker's upload *)

\* The RPM of a build goes to the key its file name has under the prefix,
\* whatever is there and whether or not the build ever reports.
Upload(a) ==
    /\ a \notin uploaded
    /\ uploaded' = uploaded \cup {a}
    /\ objects' = [objects EXCEPT ![file[a]] = a]
    /\ UNCHANGED <<gateVars, task, stale, loop, threads, file, shown, faults>>

-----------------------------------------------------------------------------
(* report_result, as far as the gate sees it, and retry *)

\* The earlier attempts of the job have reported; this one reads the job row.
\* A report cut off after its first commit is posted again.
ReportLoad(a) ==
    /\ gate[a].phase = "none" /\ a \in uploaded
    /\ JobOf[a] \in open \/ a \in built
    /\ \A b \in Attempts : b < a /\ JobOf[b] = JobOf[a] => b \in built
    /\ gate' = [gate EXCEPT ![a] =
                   [phase |-> IF JobOf[a] \in open THEN "loaded" ELSE "reloaded",
                    snap  |-> scan[JobOf[a]]]]
    /\ UNCHANGED <<open, built, scan, waived, scheduled, scanning, task,
                   taskVars, faults>>

\* The first commit: attempt and job are a success.  The status of a job that
\* was a success when it was read is not written.
ReportStore(a) ==
    /\ gate[a].phase \in {"loaded", "reloaded"}
    /\ built' = built \cup {a}
    /\ open' = IF gate[a].phase = "loaded" THEN open \ {JobOf[a]} ELSE open
    /\ gate' = [gate EXCEPT ![a].phase = "stored"]
    /\ UNCHANGED <<scan, waived, scheduled, scanning, task, taskVars, faults>>

\* Mutant: whatever is not held is let through.
PassesUnlessHeld(snap) == snap \notin {"none", "quarantined"}
Passes(snap) == snap \in {"clean", "disregarded"}

Gate(a) ==
    LET snap == gate[a].snap
    IN  /\ gate[a].phase = "stored"
        /\ gate' = [gate EXCEPT ![a] = [phase |-> "gated", snap |-> "none"]]
        /\ \/ /\ Passes(snap)
              /\ Enqueue(a)
              /\ UNCHANGED <<scan, scheduled>>
           \/ snap = "quarantined" /\ UNCHANGED <<scan, scheduled, task>>
           \/ /\ ~Passes(snap) /\ snap # "quarantined"
              \* a column is written only if it differs from what was loaded
              /\ scan' = [scan EXCEPT ![JobOf[a]] =
                             IF snap = "pending" THEN @ ELSE "pending"]
              /\ scheduled' = scheduled \cup {a}
              /\ UNCHANGED task
        /\ UNCHANGED <<open, built, waived, scanning, taskVars, faults>>

\* An exception around gate_publish is logged and rolled back.
GateFails(a) ==
    /\ gate[a].phase = "stored"
    /\ gate' = [gate EXCEPT ![a] = [phase |-> "gated", snap |-> "none"]]
    /\ Fault
    /\ UNCHANGED <<open, built, scan, waived, scheduled, scanning, task,
                   taskVars>>

\* The finalization row, committed last: the report is not taken again.
ReportEnds(a) ==
    /\ gate[a].phase = "gated"
    /\ gate' = [gate EXCEPT ![a].phase = "done"]
    /\ UNCHANGED <<open, built, scan, waived, scheduled, scanning, task,
                   taskVars, faults>>

\* retry_build leaves scan_state as it is.
Retry(j) ==
    /\ j \notin open
    /\ \E a \in Attempts \ built : JobOf[a] = j
    /\ open' = open \cup {j}
    /\ UNCHANGED <<built, scan, gate, waived, scheduled, scanning, task,
                   taskVars, faults>>

-----------------------------------------------------------------------------
(* The background scan, one per job at a time *)

\* run_job_scan is dropped while another scan of the job is in flight, and
\* when the job no longer waits for one.  It downloads what the attempt's key
\* holds now.
ScanStart(a) ==
    LET j == JobOf[a]
    IN  /\ a \in scheduled
        /\ scheduled' = scheduled \ {a}
        /\ IF scanning[j] = NoScan /\ j \notin open /\ scan[j] = "pending"
           THEN scanning' = [scanning EXCEPT ![j] =
                                [att |-> a, read |-> objects[file[a]]]]
           ELSE UNCHANGED scanning
        /\ UNCHANGED <<open, built, scan, gate, waived, task, taskVars, faults>>

\* The verdict is written to the job whatever happened to it meanwhile.
ScanVerdict(j) ==
    /\ scanning[j].read # None
    /\ scanning' = [scanning EXCEPT ![j] = NoScan]
    /\ IF scanning[j].read \in Infected
       THEN scan' = [scan EXCEPT ![j] = "quarantined"] /\ UNCHANGED task
       ELSE scan' = [scan EXCEPT ![j] = "clean"] /\ Enqueue(scanning[j].att)
    /\ UNCHANGED <<open, built, gate, waived, scheduled, taskVars, faults>>

\* Mutant: the task takes the job's word.
DroppedAsSkipped(s) == IF s \in {"none", "pending"} THEN "skipped" ELSE s
Dropped(s) == IF s \in {"none", "pending"} THEN "failed" ELSE s

\* The RPM is gone from the store: the attempt is dropped, by a row that has
\* failed if it had none.
ScanMissing(j) ==
    LET a == scanning[j].att
    IN  /\ a # None /\ scanning[j].read = None
        /\ scanning' = [scanning EXCEPT ![j] = NoScan]
        /\ scan' = [scan EXCEPT ![j] = "skipped"]
        /\ task' = [task EXCEPT ![a] = Dropped(@)]
        /\ UNCHANGED <<open, built, gate, waived, scheduled, taskVars, faults>>

\* clamd is down, or a package could not be unpacked: the job stays pending.
ScanHeld(j) ==
    /\ scanning[j].read # None
    /\ scanning' = [scanning EXCEPT ![j] = NoScan]
    /\ Fault
    /\ UNCHANGED <<open, built, scan, gate, waived, scheduled, task, taskVars>>

\* The jobs retry_pending_scans looks at: the newest of those that wait.
\* Mutant: only jobs the gate never saw.
WaitingUngated == {j \in Jobs \ open : scan[j] = "none"}
Waiting == {j \in Jobs \ open : scan[j] = "pending"}
Looked  == {j \in Waiting : Cardinality({i \in Waiting : i > j}) < ScanLimit}

RetryScans ==
    LET found == {Newest(BuiltOf(j)) : j \in {i \in Looked : BuiltOf(i) # {}}}
    IN  /\ ~(found \subseteq scheduled)
        /\ scheduled' = scheduled \cup found
        /\ UNCHANGED <<open, built, scan, gate, waived, scanning, task,
                       taskVars, faults>>

\* A maintainer lets a quarantined job through.
Disregard(j) ==
    /\ scan[j] = "quarantined"
    /\ BuiltOf(j) # {}
    /\ scan' = [scan EXCEPT ![j] = "disregarded"]
    /\ waived' = waived \cup {j}
    /\ Enqueue(Newest(BuiltOf(j)))
    /\ UNCHANGED <<open, built, gate, scheduled, scanning, taskVars, faults>>

-----------------------------------------------------------------------------
(* The publish loop *)

Pending == {a \in Attempts : task[a] = "pending"}

Fetch ==
    /\ loop.phase = "idle"
    /\ Pending # {}
    /\ loop' = [phase |-> "fetched", tasks |-> Pending]
    /\ UNCHANGED <<gateVars, task, stale, threads, repoVars, faults>>

\* _load_publish_batch raises: the tasks stay as they are.
LoadFails ==
    /\ loop.phase = "fetched"
    /\ loop' = NoLoop
    /\ Fault
    /\ UNCHANGED <<gateVars, task, stale, threads, repoVars>>

\* Tasks cancelled or dropped since they were fetched are published as well:
\* only a success is skipped, and nothing but this loop makes one.
Start ==
    LET marked == loop.tasks \cap Pending
    IN  /\ loop.phase = "fetched"
        /\ task' = [a \in Attempts |-> IF a \in marked THEN "running" ELSE task[a]]
        /\ stale' = stale \ marked
        /\ loop' = [loop EXCEPT !.phase = "running"]
        /\ threads' = threads \cup {[tasks |-> loop.tasks, phase |-> "waiting", staged |-> {}]}
        /\ UNCHANGED <<gateVars, repoVars, faults>>

\* The thread the loop waits for.
Waited(t) == loop.phase = "running" /\ t.tasks = loop.tasks

\* What a thread returns or raises is lost if nobody waits for it.
Leave(t, phase) ==
    threads' = (threads \ {t}) \cup (IF Waited(t) THEN {[t EXCEPT !.phase = phase]} ELSE {})

\* prefix_publish_lock is held from the start of the work to its end.
AtWork(t) == t.phase \in {"staged", "pruned"}

FilesOf(S) == {file[a] : a \in S}
Stored     == {f \in Files : objects[f] # None}
WrittenIn(S) == {objects[f] : f \in S}

\* The files of the batch that the store still has are staged; what is missing
\* is skipped.
ThreadStages(t) ==
    /\ t.phase = "waiting"
    /\ \A u \in threads : ~AtWork(u)
    /\ threads' = (threads \ {t}) \cup
                     {[t EXCEPT !.phase = "staged", !.staged = FilesOf(t.tasks) \cap Stored]}
    /\ UNCHANGED <<gateVars, task, stale, loop, repoVars, faults>>

\* Other files of the batch's packages, whether they were published or not.
Superseded(keep) == {f \in Stored \ keep : \E k \in keep : NameOf[f] = NameOf[k]}

\* One file of every package in S.  Which one is the newest is left open.
OneVersion(S) ==
    {T \in SUBSET S : /\ \A f, g \in T : NameOf[f] = NameOf[g] => f = g
                      /\ \A f \in S : \E g \in T : NameOf[f] = NameOf[g]}

\* The batch's files supersede the others of their packages, also those that
\* were not there to be staged; then one version is left of every package.
ThreadPrunes(t) ==
    /\ t.phase = "staged"
    /\ \E left \in OneVersion(Stored \ Superseded(FilesOf(t.tasks))) :
          objects' = [f \in Files |-> IF f \in left THEN objects[f] ELSE None]
    /\ threads' = (threads \ {t}) \cup {[t EXCEPT !.phase = "pruned"]}
    /\ UNCHANGED <<gateVars, task, stale, loop, file, uploaded, shown, faults>>

\* Mutant: the staged files of a mirror are not refreshed.
DescribesMirror(t) ==
    /\ t.staged # {}
    /\ \E S \in SUBSET Stored : shown' = shown \cup WrittenIn(S)

\* The metadata is renewed from a mirror of the prefix: it has the staged files
\* and, as far as the mirror was synced, whatever else is there.
Describes(t) ==
    /\ t.staged # {}
    /\ \E S \in SUBSET Stored : /\ t.staged \cap Stored \subseteq S
                                 /\ shown' = shown \cup WrittenIn(S)

\* With nothing staged the metadata stays as it is, and the publish succeeds.
\* A staged file that was pruned since raises, unless all is done anew.
ThreadDescribes(t) ==
    /\ t.phase = "pruned"
    /\ \/ Describes(t) /\ Leave(t, "done")
       \/ t.staged = {} /\ Leave(t, "done") /\ UNCHANGED shown
       \/ ~(t.staged \subseteq Stored) /\ Leave(t, "raised") /\ UNCHANGED shown
    /\ UNCHANGED <<gateVars, task, stale, loop, file, uploaded, objects, faults>>

ThreadRaises(t) ==
    /\ t.phase = "waiting" \/ AtWork(t)
    /\ Leave(t, "raised")
    /\ Fault
    /\ UNCHANGED <<gateVars, task, stale, loop, repoVars>>

Thread(t) == ThreadStages(t) \/ ThreadPrunes(t) \/ ThreadDescribes(t)

\* The batch ends: the marks have no condition on the task's status.
EndBatch(status) ==
    /\ task' = [a \in Attempts |-> IF a \in loop.tasks THEN status ELSE task[a]]
    /\ loop' = NoLoop
    /\ UNCHANGED <<gateVars, stale, repoVars, faults>>

\* Mutant: the thread has been started.
FinishedOnceStarted(t) == AtWork(t) \/ t.phase = "done"
Finished(t) == t.phase = "done"

BatchDone(t)   == Waited(t) /\ Finished(t) /\ threads' = threads \ {t} /\ EndBatch("success")
BatchRaised(t) == Waited(t) /\ t.phase = "raised" /\ threads' = threads \ {t} /\ EndBatch("failed")

\* Mutant: the time limit covers the wait for the lock only.
LateForLock(t) == t.phase = "waiting"
Late(t) == t.phase \notin {"done", "raised"}

\* wait_for gives up; the thread is not stopped.
BatchTimeout(t) == Waited(t) /\ Late(t) /\ EndBatch("failed") /\ UNCHANGED threads

Batch == Fetch \/ Start \/ \E t \in threads : BatchDone(t) \/ BatchRaised(t) \/ BatchTimeout(t)

-----------------------------------------------------------------------------
(* Others that write publish_tasks *)

\* cancel_chain_plan_by_user, for the tasks of one job of the plan.
CancelTasks(j) ==
    LET S == {a \in Pending : JobOf[a] = j}
    IN  /\ S # {}
        /\ task' = [a \in Attempts |-> IF a \in S THEN "cancelled" ELSE task[a]]
        /\ UNCHANGED <<gateVars, taskVars, faults>>

TaskAges(a) ==
    /\ task[a] = "running" /\ a \notin stale
    /\ stale' = stale \cup {a}
    /\ UNCHANGED <<gateVars, task, loop, threads, repoVars, faults>>

\* Mutant: the age alone decides.
StuckByAge == stale
Stuck == {a \in stale : task[a] = "running"}

Reclaim ==
    /\ Stuck # {}
    /\ task' = [a \in Attempts |-> IF a \in Stuck THEN "pending" ELSE task[a]]
    /\ stale' = stale \ Stuck
    /\ UNCHANGED <<gateVars, loop, threads, repoVars, faults>>

CutOff == {a \in Attempts : gate[a].phase \notin {"none", "done"}}

\* Loop, threads, scan tasks and requests die.  A worker whose report was cut
\* off posts it again, or it is gone too and the hand-over to the gate is lost.
ApiRestarts ==
    /\ loop' = NoLoop /\ threads' = {}
    /\ scheduled' = {} /\ scanning' = [j \in Jobs |-> NoScan]
    /\ \E again \in SUBSET CutOff :
          gate' = [a \in Attempts |->
                      IF a \notin CutOff THEN gate[a]
                      ELSE IF a \in again \/ a \notin built THEN NoReport
                      ELSE [phase |-> "done", snap |-> "none"]]
    /\ Fault
    /\ UNCHANGED <<open, built, scan, waived, task, stale, repoVars>>

-----------------------------------------------------------------------------
Report(a) == ReportLoad(a) \/ ReportStore(a) \/ Gate(a) \/ ReportEnds(a)
ScanEnds(j) == ScanVerdict(j) \/ ScanMissing(j) \/ ScanHeld(j)

Next ==
    \/ \E a \in Attempts : Upload(a) \/ Report(a) \/ GateFails(a) \/ ScanStart(a) \/ TaskAges(a)
    \/ \E j \in Jobs : Retry(j) \/ ScanEnds(j) \/ Disregard(j) \/ CancelTasks(j)
    \/ RetryScans
    \/ Batch \/ LoadFails
    \/ \E t \in threads : Thread(t) \/ ThreadRaises(t)
    \/ Reclaim
    \/ ApiRestarts

Spec == Init /\ [][Next]_vars

\* The publisher's loop runs for ever, and time passes: a task that stays
\* running is old and swept some day.  A publish thread may hang.
PublishFairness ==
    /\ WF_vars(Batch)
    /\ WF_vars((\E a \in Attempts : TaskAges(a)) \/ Reclaim)

\* The sweep of the scans runs for ever too, and a scan's subprocesses have
\* time limits: some scan moves on.
ScanFairness ==
    /\ WF_vars(\E a \in Attempts : Gate(a) \/ ScanStart(a))
    /\ WF_vars(\E j \in Jobs : ScanEnds(j))
    /\ WF_vars(RetryScans)

FairSpec == Spec /\ PublishFairness /\ ScanFairness

-----------------------------------------------------------------------------
(* Properties *)

Reports == [phase : {"none", "loaded", "reloaded", "stored", "gated", "done"},
            snap  : ScanStates]
ThreadStates == [tasks  : SUBSET Attempts,
                 phase  : {"waiting", "staged", "pruned", "done", "raised"},
                 staged : SUBSET Files]

TypeOK ==
    /\ open \subseteq Jobs /\ waived \subseteq Jobs
    /\ built \subseteq Attempts /\ scheduled \subseteq Attempts
    /\ scan \in [Jobs -> ScanStates]
    /\ gate \in [Attempts -> Reports]
    /\ scanning \in [Jobs -> [att : Attempts \cup {None}, read : Attempts \cup {None}]]
    /\ task \in [Attempts -> TaskStates]
    /\ stale \subseteq Attempts
    /\ loop \in [phase : {"idle", "fetched", "running"}, tasks : SUBSET Attempts]
    /\ threads \subseteq ThreadStates
    /\ file \in [Attempts -> Files] /\ uploaded \subseteq Attempts
    /\ objects \in [Files -> Attempts \cup {None}]
    /\ shown \subseteq Attempts
    /\ faults \in Nat

\* Attempts whose RPM was overwritten by another upload, or deleted because a
\* publish superseded it.
Replaced == {a \in uploaded : objects[file[a]] # a}

\* A task is called a success only if its RPM has been in the repository's
\* metadata, or another build has taken its place in the store: crashes between
\* the steps of a publish, threads that outlive the loop's patience, reclaimed
\* tasks and uploads at any time notwithstanding.
SuccessIsPublished ==
    \A a \in Attempts : task[a] = "success" => a \in shown \cup Replaced

\* Attempts that wait for a publish, are in one, or have had theirs.
Wanted ==
    {a \in Attempts : task[a] \in {"pending", "running", "success"}}
        \cup loop.tasks \cup UNION {t.tasks : t \in threads}

\* Jobs that may be published: a maintainer has said so, or the scanners can
\* have read an RPM without findings under a name of the job.
Cleared ==
    waived \cup {JobOf[a] : a \in {b \in Attempts :
                                   \E c \in uploaded \ Infected : file[c] = file[b]}}

\* No attempt of a job that is not cleared waits for a publish or is in one,
\* whichever reports, scans, retries and batches it is in.  What the prefix's
\* metadata shows besides the batch's files is not held back by this.
InfectedIsHeld == \A a \in Wanted : JobOf[a] \in Cleared

\* A finished publish is never undone: no late mark, reclaim, cancel or scan
\* takes a task out of success.
SuccessIsFinal ==
    [][\A a \in Attempts : task[a] = "success" => task'[a] = "success"]_vars

\* Every queued publish ends: once the last report, scan and retry is over, no
\* task is pending or running for ever, also not one cut off by a restart or by
\* a thread that hangs.
TasksEnd == <>[](\A a \in Attempts : task[a] \notin {"pending", "running"})

\* Once no new build comes, no successful job is left waiting for its scan,
\* also when the scan was dropped, held or cut off by a restart.
ScansEnd == <>[](\A j \in Jobs : j \in open \/ scan[j] # "pending")

\* The pipeline keeps the promises of Publication: a publish is asked for only
\* once its job is cleared, the metadata changes only on behalf of one, and is
\* only then confirmed when the build was shown or replaced; retries, cancels,
\* late threads and restarts take none of it back.
Releases == INSTANCE Publication WITH
                cleared   <- Cleared,
                uploaded  <- uploaded,
                asked     <- Wanted,
                visible   <- shown,
                replaced  <- Replaced,
                confirmed <- {a \in Attempts : task[a] = "success"}
ImplementsPublication == Releases!Spec
=============================================================================
