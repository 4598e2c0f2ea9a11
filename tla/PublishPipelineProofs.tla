------------------------ MODULE PublishPipelineProofs -----------------------
(***************************************************************************)
(* PublishPipeline for any number of jobs, attempts, threads and faults:   *)
(* types, what is in the store, what a successful publish task stands for, *)
(* what the gate holds back, what the pipeline promises, and how its       *)
(* threads stay apart.                                                     *)
(***************************************************************************)
EXTENDS PublishPipeline, TLAPS, FiniteSetTheorems, WellFoundedInduction

\* Some numbers have a least one.
LEMMA LeastNumber ==
    ASSUME NEW S \in SUBSET Nat, S # {}
    PROVE  \E m \in S : \A b \in S : m <= b
<1>1. PICK m \in S : \A b \in S : ~(<<b, m>> \in OpToRel(<, Nat))
  BY WFMin, NatLessThanWellFounded
<1>2. \A b \in S : ~(b < m)
  BY <1>1 DEF OpToRel
<1> QED
  BY <1>2

\* Some ids have a largest one: its distance from the bound is the least.
LEMMA LargestId ==
    ASSUME NEW n \in Nat, NEW S \in SUBSET (1..n), S # {}
    PROVE  \E m \in S : \A b \in S : b <= m
<1> DEFINE T == {n - b : b \in S}
<1>1. T \subseteq Nat /\ T # {}
  <2>1. \A b \in S : n - b \in Nat
    OBVIOUS
  <2>2. PICK b \in S : TRUE
    OBVIOUS
  <2>3. n - b \in T
    OBVIOUS
  <2> QED
    BY <2>1, <2>3
<1>2. PICK x \in T : \A y \in T : x <= y
  <2> HIDE DEF T
  <2> QED
    BY <1>1, LeastNumber
<1>3. PICK m \in S : x = n - m
  OBVIOUS
<1>4. \A b \in S : n - m <= n - b
  BY <1>2, <1>3
<1>5. m \in Int /\ \A b \in S : b \in Int
  OBVIOUS
<1> QED
  BY <1>4, <1>5

LEMMA NewestIsMember ==
    ASSUME NEW S \in SUBSET Attempts, S # {}
    PROVE  Newest(S) \in S
<1>1. \E m \in S : \A b \in S : b <= m
  BY PipelineAssumption, LargestId DEF Attempts
<1> QED
  BY <1>1 DEF Newest

\* The newest built attempt of a job is a built attempt of that job.
LEMMA NewestBuilt ==
    ASSUME TypeOK, NEW j \in Jobs, BuiltOf(j) # {}
    PROVE  /\ Newest(BuiltOf(j)) \in built
           /\ JobOf[Newest(BuiltOf(j))] = j
<1>1. BuiltOf(j) \in SUBSET Attempts
  BY DEF BuiltOf, TypeOK
<1>2. Newest(BuiltOf(j)) \in BuiltOf(j)
  BY <1>1, NewestIsMember
<1> QED
  BY <1>2 DEF BuiltOf

-----------------------------------------------------------------------------
(* Types *)

LEMMA GateTypes ==
    ASSUME TypeOK, NEW a \in Attempts,
           Upload(a) \/ Report(a) \/ GateFails(a) \/ ScanStart(a) \/ TaskAges(a)
    PROVE  TypeOK'
<1> USE PipelineAssumption DEF TypeOK, vars, gateVars, taskVars, repoVars
<1>1. CASE ReportLoad(a)
  <2>1. scan[JobOf[a]] \in ScanStates
    OBVIOUS
  <2>2. \E p \in {"loaded", "reloaded"} :
           gate' = [gate EXCEPT ![a] = [phase |-> p, snap |-> scan[JobOf[a]]]]
    BY <1>1 DEF ReportLoad
  <2>3. gate' \in [Attempts -> Reports]
    BY <2>1, <2>2 DEF Reports
  <2>4. UNCHANGED <<open, built, scan, waived, scheduled, scanning, task, taskVars, faults>>
    BY <1>1 DEF ReportLoad
  <2> QED
    BY <2>3, <2>4
<1>2. CASE ReportStore(a)
  <2>1. gate' = [gate EXCEPT ![a].phase = "stored"]
    BY <1>2 DEF ReportStore
  <2>2. gate' \in [Attempts -> Reports]
    BY <2>1 DEF Reports
  <2> QED
    BY <1>2, <2>2 DEF ReportStore
<1>3. CASE Gate(a)
  <2>1. gate' \in [Attempts -> Reports]
    BY <1>3 DEF Gate, Reports, ScanStates
  <2>2. task' \in [Attempts -> TaskStates]
    BY <1>3 DEF Gate, Enqueue, TaskStates
  <2>3. scan' \in [Jobs -> ScanStates]
    <3>1. \/ scan' = scan
          \/ scan' = [scan EXCEPT ![JobOf[a]] =
                         IF gate[a].snap = "pending" THEN @ ELSE "pending"]
      BY <1>3 DEF Gate
    <3> QED
      BY <3>1 DEF ScanStates
  <2>4. scheduled' \subseteq Attempts
    BY <1>3 DEF Gate
  <2>5. UNCHANGED <<open, built, waived, scanning, taskVars, faults>>
    BY <1>3 DEF Gate
  <2> QED
    BY <2>1, <2>2, <2>3, <2>4, <2>5
<1>4. CASE GateFails(a)
  <2>1. gate' = [gate EXCEPT ![a] = [phase |-> "gated", snap |-> "none"]]
    BY <1>4 DEF GateFails
  <2>2. gate' \in [Attempts -> Reports]
    BY <2>1 DEF Reports, ScanStates
  <2> QED
    BY <1>4, <2>2 DEF GateFails, Fault
<1>5. CASE ScanStart(a)
  <2>1. \/ scanning' = scanning
        \/ scanning' = [scanning EXCEPT ![JobOf[a]] = [att |-> a, read |-> objects[file[a]]]]
    BY <1>5 DEF ScanStart
  <2>2. objects[file[a]] \in Attempts \cup {None}
    OBVIOUS
  <2>3. scanning' \in [Jobs -> [att : Attempts \cup {None}, read : Attempts \cup {None}]]
    BY <2>1, <2>2
  <2>4. scheduled' \subseteq Attempts
    BY <1>5 DEF ScanStart
  <2>5. UNCHANGED <<open, built, scan, gate, waived, task, taskVars, faults>>
    BY <1>5 DEF ScanStart
  <2> QED
    BY <2>3, <2>4, <2>5
<1>6. CASE TaskAges(a)
  BY <1>6 DEF TaskAges
<1>7. CASE ReportEnds(a)
  <2>1. gate' = [gate EXCEPT ![a].phase = "done"]
    BY <1>7 DEF ReportEnds
  <2>2. gate' \in [Attempts -> Reports]
    BY <2>1 DEF Reports
  <2> QED
    BY <1>7, <2>2 DEF ReportEnds
<1>8. CASE Upload(a)
  BY <1>8 DEF Upload
<1> QED
  BY <1>1, <1>2, <1>3, <1>4, <1>5, <1>6, <1>7, <1>8 DEF Report

LEMMA JobTypes ==
    ASSUME TypeOK, NEW j \in Jobs, Retry(j) \/ ScanEnds(j) \/ Disregard(j) \/ CancelTasks(j)
    PROVE  TypeOK'
<1> USE PipelineAssumption DEF TypeOK, gateVars, taskVars, repoVars, NoScan, ScanStates, TaskStates
<1>1. CASE Retry(j)
  BY <1>1 DEF Retry
<1>2. CASE ScanVerdict(j)
  BY <1>2 DEF ScanVerdict, Enqueue
<1>3. CASE ScanMissing(j)
  <2>1. \A s \in TaskStates : Dropped(s) \in TaskStates
    BY DEF Dropped
  <2>2. task' \in [Attempts -> TaskStates]
    BY <1>3, <2>1 DEF ScanMissing
  <2> QED
    BY <1>3, <2>2 DEF ScanMissing
<1>4. CASE ScanHeld(j)
  BY <1>4 DEF ScanHeld, Fault
<1>5. CASE Disregard(j)
  BY <1>5 DEF Disregard, Enqueue
<1>6. CASE CancelTasks(j)
  BY <1>6 DEF CancelTasks
<1> QED
  BY <1>1, <1>2, <1>3, <1>4, <1>5, <1>6 DEF ScanEnds

LEMMA ThreadTypes ==
    ASSUME TypeOK, NEW t \in threads,
           \/ Thread(t) \/ ThreadRaises(t)
           \/ BatchDone(t) \/ BatchRaised(t) \/ BatchTimeout(t)
    PROVE  TypeOK'
<1> USE PipelineAssumption DEF TypeOK, gateVars, taskVars, repoVars
<1>1. t \in ThreadStates
  OBVIOUS
<1>2. \A p \in {"waiting", "staged", "pruned", "done", "raised"} : [t EXCEPT !.phase = p] \in ThreadStates
  BY <1>1 DEF ThreadStates
<1>3. CASE ThreadStages(t)
  <2>1. FilesOf(t.tasks) \cap Stored \subseteq Files
    BY DEF Stored
  <2>2. [t EXCEPT !.phase = "staged", !.staged = FilesOf(t.tasks) \cap Stored] \in ThreadStates
    BY <1>1, <2>1 DEF ThreadStates
  <2> QED
    BY <1>3, <2>2 DEF ThreadStages
<1>4. CASE ThreadPrunes(t)
  <2>1. objects' \in [Files -> Attempts \cup {None}]
    BY <1>4 DEF ThreadPrunes
  <2> QED
    BY <1>2, <1>4, <2>1 DEF ThreadPrunes
<1>5. CASE ThreadDescribes(t)
  <2>1. \A S \in SUBSET Stored : WrittenIn(S) \subseteq Attempts
    BY DEF WrittenIn, Stored
  <2>2. shown' \subseteq Attempts
    BY <1>5, <2>1 DEF ThreadDescribes, Describes
  <2>3. threads' \subseteq ThreadStates
    BY <1>2, <1>5 DEF ThreadDescribes, Leave
  <2> QED
    BY <1>5, <2>2, <2>3 DEF ThreadDescribes
<1>6. CASE ThreadRaises(t)
  <2>1. threads' \subseteq ThreadStates
    BY <1>2, <1>6 DEF ThreadRaises, Leave
  <2> QED
    BY <1>6, <2>1 DEF ThreadRaises, Fault
<1>8. \A s \in TaskStates : EndBatch(s) /\ threads' \subseteq threads => TypeOK'
  BY DEF EndBatch, NoLoop
<1>9. CASE BatchDone(t) \/ BatchRaised(t) \/ BatchTimeout(t)
  BY <1>8, <1>9 DEF BatchDone, BatchRaised, BatchTimeout, TaskStates
<1> QED
  BY <1>3, <1>4, <1>5, <1>6, <1>9 DEF Thread

LEMMA LoopTypes ==
    ASSUME TypeOK, RetryScans \/ Fetch \/ Start \/ LoadFails \/ Reclaim \/ ApiRestarts
    PROVE  TypeOK'
<1> USE PipelineAssumption DEF TypeOK, gateVars, taskVars, repoVars
<1>1. CASE RetryScans
  <2>1. \A j \in Jobs : BuiltOf(j) # {} => Newest(BuiltOf(j)) \in Attempts
    <3> SUFFICES ASSUME NEW j \in Jobs, BuiltOf(j) # {}
                 PROVE  Newest(BuiltOf(j)) \in Attempts
      OBVIOUS
    <3> QED
      BY NewestBuilt
  <2>2. Looked \subseteq Jobs
    BY DEF Looked, Waiting
  <2>3. scheduled' \subseteq Attempts
    BY <1>1, <2>1, <2>2 DEF RetryScans
  <2> QED
    BY <1>1, <2>3 DEF RetryScans
<1>2. CASE Fetch
  BY <1>2 DEF Fetch, Pending
<1>3. CASE Start
  <2>1. [tasks |-> loop.tasks, phase |-> "waiting", staged |-> {}] \in ThreadStates
    BY DEF ThreadStates
  <2> QED
    BY <1>3, <2>1 DEF Start, TaskStates
<1>4. CASE LoadFails
  BY <1>4 DEF LoadFails, NoLoop, Fault
<1>5. CASE Reclaim
  BY <1>5 DEF Reclaim, TaskStates
<1>6. CASE ApiRestarts
  <2>1. gate' \in [Attempts -> Reports]
    BY <1>6 DEF ApiRestarts, Reports, NoReport, ScanStates
  <2> QED
    BY <1>6, <2>1 DEF ApiRestarts, NoLoop, NoScan, Fault
<1> QED
  BY <1>1, <1>2, <1>3, <1>4, <1>5, <1>6

LEMMA StepTypes == TypeOK /\ [Next]_vars => TypeOK'
<1> SUFFICES ASSUME TypeOK, [Next]_vars PROVE TypeOK'
  OBVIOUS
<1>1. CASE UNCHANGED vars
  BY <1>1 DEF TypeOK, vars, gateVars, taskVars, repoVars
<1>2. CASE Next
  BY <1>2, GateTypes, JobTypes, ThreadTypes, LoopTypes DEF Next, Batch
<1> QED
  BY <1>1, <1>2

LEMMA InitTypes == Init => TypeOK
  BY PipelineAssumption DEF Init, TypeOK, NoScan, NoLoop, NoReport, Reports, ScanStates, TaskStates

\* Every variable keeps its type; in particular no report, scan or mark gives
\* a job or a task a state outside the words the other parts test for.
THEOREM TypeCorrect == Spec => []TypeOK
  BY InitTypes, StepTypes, PTL DEF Spec

-----------------------------------------------------------------------------
(* What a step does to the store, and which publishes it asks for *)

\* Nothing comes to the store but by uploads of attempts that had not been there.
Grows ==
    /\ file' = file
    /\ uploaded \subseteq uploaded' /\ built \subseteq built'
    /\ shown \subseteq shown' /\ waived \subseteq waived'
    /\ \A f \in Files : objects'[f] = objects[f] \/ objects'[f] = None \/ objects'[f] \notin uploaded

LEMMA StepGrows == TypeOK /\ [Next]_vars => Grows
<1> SUFFICES ASSUME TypeOK, [Next]_vars PROVE Grows
  OBVIOUS
<1> USE DEF Grows, vars, gateVars, taskVars, repoVars
<1>1. CASE UNCHANGED vars
  BY <1>1
<1>2. CASE \E a \in Attempts : Upload(a)
  BY <1>2 DEF Upload, TypeOK
<1>3. CASE \E a \in Attempts : Report(a) \/ GateFails(a) \/ ScanStart(a) \/ TaskAges(a)
  BY <1>3 DEF Report, ReportLoad, ReportStore, ReportEnds, Gate, GateFails, ScanStart, TaskAges
<1>4. CASE \E j \in Jobs : Retry(j) \/ ScanEnds(j) \/ Disregard(j) \/ CancelTasks(j)
  BY <1>4 DEF Retry, ScanEnds, ScanVerdict, ScanMissing, ScanHeld, Disregard, CancelTasks
<1>5. CASE RetryScans \/ Batch \/ LoadFails \/ Reclaim \/ ApiRestarts
  BY <1>5 DEF RetryScans, Batch, Fetch, Start, BatchDone, BatchRaised, BatchTimeout, EndBatch,
              LoadFails, Reclaim, ApiRestarts
<1>6. CASE \E t \in threads : Thread(t) \/ ThreadRaises(t)
  BY <1>6 DEF Thread, ThreadStages, ThreadPrunes, ThreadDescribes, Describes, ThreadRaises
<1> QED
  BY <1>1, <1>2, <1>3, <1>4, <1>5, <1>6 DEF Next

\* Who has been replaced stays so, and so does a job that was cleared.
LEMMA ReplacedStays ==
    ASSUME TypeOK, Grows
    PROVE  Replaced \subseteq Replaced'
<1> SUFFICES ASSUME NEW a \in uploaded, objects[file[a]] # a
             PROVE  objects'[file[a]] # a
  BY DEF Replaced, Grows
<1>1. file[a] \in Files /\ a # None
  BY PipelineAssumption DEF TypeOK
<1> QED
  BY <1>1 DEF Grows

LEMMA ClearedStays ==
    ASSUME TypeOK, Grows
    PROVE  Cleared \subseteq Cleared'
  BY DEF Grows, Cleared

\* The steps that ask for a publish of an attempt.
AskedBy(a) ==
    \/ Gate(a) /\ Passes(gate[a].snap)
    \/ \E j \in Jobs : /\ ScanVerdict(j) /\ scanning[j].read \notin Infected
                       /\ a = scanning[j].att
    \/ \E j \in Jobs : Disregard(j) /\ a = Newest(BuiltOf(j))

LEMMA WantedHas ==
    /\ loop.tasks \cap Attempts \subseteq Wanted
    /\ \A t \in threads : t.tasks \subseteq Wanted
    /\ \A a \in Attempts : task[a] \in {"pending", "running", "success"} => a \in Wanted
  BY DEF Wanted

LEMMA WantedShrinks ==
    ASSUME loop'.tasks \subseteq Wanted, \A t \in threads' : t.tasks \subseteq Wanted,
           \A a \in Attempts : task'[a] \in {"pending", "running", "success"} => a \in Wanted
    PROVE  Wanted' \subseteq Wanted
  BY DEF Wanted

\* Any other step only gives publishes up.
LEMMA EnqueueWants ==
    ASSUME TypeOK, NEW a, Enqueue(a), UNCHANGED <<loop, threads>>
    PROVE  Wanted' \subseteq Wanted \cup {a}
<1>1. \A b \in Attempts : task'[b] = task[b] \/ b = a
  BY DEF Enqueue, TypeOK
<1> QED
  BY <1>1 DEF Wanted

\* What a step of a thread is to the loop, the gate and the tasks.
LEMMA ThreadMoves ==
    ASSUME TypeOK, NEW t \in threads, Thread(t) \/ ThreadRaises(t)
    PROVE  /\ UNCHANGED <<gateVars, task, loop, file, uploaded>>
           /\ \A u \in threads' : u \in threads \/ u.tasks = t.tasks
<1>1. UNCHANGED <<gateVars, task, loop, file, uploaded>>
  BY DEF Thread, ThreadStages, ThreadPrunes, ThreadDescribes, ThreadRaises, repoVars
<1>2. PICK n : n.tasks = t.tasks /\ threads' \subseteq threads \cup {n}
  <2>1. CASE ThreadStages(t)
    <3>1. PICK n : n = [t EXCEPT !.phase = "staged", !.staged = FilesOf(t.tasks) \cap Stored]
      OBVIOUS
    <3> QED
      BY <2>1, <3>1 DEF ThreadStages, TypeOK, ThreadStates
  <2>2. CASE ~ThreadStages(t)
    <3>1. PICK p : threads' \subseteq threads \cup {[t EXCEPT !.phase = p]}
      BY <2>2 DEF Thread, ThreadPrunes, ThreadDescribes, ThreadRaises, Leave
    <3>2. PICK n : n = [t EXCEPT !.phase = p]
      OBVIOUS
    <3> QED
      BY <3>1, <3>2 DEF TypeOK, ThreadStates
  <2> QED
    BY <2>1, <2>2
<1> QED
  BY <1>1, <1>2

LEMMA StepWants ==
    ASSUME TypeOK, [Next]_vars
    PROVE  \A a \in Wanted' : a \in Wanted \/ AskedBy(a)
<1>1. ASSUME UNCHANGED <<task, loop, threads>> PROVE Wanted' = Wanted
  BY <1>1 DEF Wanted
<1>2. ASSUME UNCHANGED <<loop, threads>>,
             \A a \in Attempts : task'[a] \in {task[a], "failed", "cancelled"}
                                    \/ (task'[a] = "pending" /\ task[a] = "running")
      PROVE  Wanted' \subseteq Wanted
  BY <1>2 DEF Wanted
<1>3. loop.tasks \subseteq Wanted
  BY WantedHas DEF TypeOK
<1>4. CASE UNCHANGED vars
  BY <1>1, <1>4 DEF vars, taskVars
<1>5. CASE \E a \in Attempts : \/ Upload(a) \/ ReportLoad(a) \/ ReportStore(a) \/ ReportEnds(a)
                               \/ GateFails(a) \/ ScanStart(a) \/ TaskAges(a)
  <2>1. UNCHANGED <<task, loop, threads>>
    BY <1>5 DEF Upload, ReportLoad, ReportStore, ReportEnds, GateFails, ScanStart, TaskAges, taskVars
  <2> QED
    BY <1>1, <2>1
<1>6. ASSUME NEW a \in Attempts, Gate(a)
      PROVE  \A b \in Wanted' : b \in Wanted \/ AskedBy(b)
  <2>1. UNCHANGED <<loop, threads>>
    BY <1>6 DEF Gate, taskVars
  <2>2. CASE Passes(gate[a].snap) /\ Enqueue(a)
    BY <1>6, <2>1, <2>2, EnqueueWants DEF AskedBy
  <2>3. CASE UNCHANGED task
    BY <1>1, <2>1, <2>3
  <2> QED
    BY <1>6, <2>2, <2>3 DEF Gate
<1>7. ASSUME NEW j \in Jobs, ScanVerdict(j)
      PROVE  \A b \in Wanted' : b \in Wanted \/ AskedBy(b)
  <2>1. UNCHANGED <<loop, threads>>
    BY <1>7 DEF ScanVerdict, taskVars
  <2>2. CASE scanning[j].read \notin Infected
    <3>1. Enqueue(scanning[j].att)
      BY <1>7, <2>2 DEF ScanVerdict
    <3> QED
      BY <1>7, <2>1, <2>2, <3>1, EnqueueWants DEF AskedBy
  <2>3. CASE scanning[j].read \in Infected
    BY <1>1, <1>7, <2>1, <2>3 DEF ScanVerdict
  <2> QED
    BY <2>2, <2>3
<1>8. ASSUME NEW j \in Jobs, Disregard(j)
      PROVE  \A b \in Wanted' : b \in Wanted \/ AskedBy(b)
  <2>1. UNCHANGED <<loop, threads>> /\ Enqueue(Newest(BuiltOf(j)))
    BY <1>8 DEF Disregard, taskVars
  <2> QED
    BY <1>8, <2>1, EnqueueWants DEF AskedBy
<1>9. CASE (\E j \in Jobs : Retry(j) \/ ScanHeld(j)) \/ RetryScans
  <2>1. UNCHANGED <<task, loop, threads>>
    BY <1>9 DEF Retry, ScanHeld, RetryScans, taskVars
  <2> QED
    BY <1>1, <2>1
<1>10. CASE (\E j \in Jobs : ScanMissing(j) \/ CancelTasks(j)) \/ Reclaim
  <2>1. UNCHANGED <<loop, threads>>
    BY <1>10 DEF ScanMissing, CancelTasks, Reclaim, taskVars
  <2>2. \A a \in Attempts : task'[a] \in {task[a], "failed", "cancelled"}
                               \/ (task'[a] = "pending" /\ task[a] = "running")
    BY <1>10 DEF ScanMissing, Dropped, CancelTasks, Reclaim, Stuck, TypeOK
  <2> QED
    BY <1>2, <2>1, <2>2
<1>11. CASE Fetch \/ LoadFails \/ ApiRestarts
  <2>1. loop'.tasks \subseteq Wanted /\ threads' \subseteq threads /\ task' = task
    BY <1>11, WantedHas DEF Fetch, LoadFails, ApiRestarts, NoLoop, Pending
  <2> QED
    BY <2>1, WantedHas, WantedShrinks
<1>12. CASE Start
  <2>1. /\ \A u \in threads' : u \in threads \/ u.tasks = loop.tasks
        /\ loop'.tasks = loop.tasks
        /\ \A a \in Attempts : task'[a] = task[a] \/ task[a] = "pending"
    BY <1>12 DEF Start, Pending, TypeOK
  <2> QED
    BY <1>3, <2>1, WantedHas, WantedShrinks
<1>13. CASE \E t \in threads : BatchDone(t) \/ BatchRaised(t) \/ BatchTimeout(t)
  <2>1. /\ loop'.tasks = {} /\ threads' \subseteq threads
        /\ \A a \in Attempts : task'[a] = task[a] \/ a \in loop.tasks
    BY <1>13 DEF BatchDone, BatchRaised, BatchTimeout, EndBatch, NoLoop
  <2> QED
    BY <1>3, <2>1, WantedHas, WantedShrinks
<1>14. CASE \E t \in threads : Thread(t) \/ ThreadRaises(t)
  <2>1. UNCHANGED <<task, loop>> /\ \A u \in threads' : \E v \in threads : u.tasks = v.tasks
    BY <1>14, ThreadMoves
  <2> QED
    BY <1>3, <2>1, WantedHas, WantedShrinks
<1> QED
  BY <1>4, <1>5, <1>6, <1>7, <1>8, <1>9, <1>10, <1>11, <1>12, <1>13, <1>14
  DEF Next, Report, ScanEnds, Batch

-----------------------------------------------------------------------------
(* Where publishes come from *)

\* Reports, scans and publishes are of attempts whose RPM was uploaded; scans
\* are of built ones, and read what was uploaded under their file's name.
Stocked ==
    /\ \A a \in Attempts : gate[a].phase # "none" => a \in uploaded
    /\ \A a \in Attempts : gate[a].phase \in {"stored", "gated", "done"} => a \in built
    /\ built \subseteq uploaded /\ scheduled \subseteq built
    /\ \A j \in Jobs : scanning[j].att # None => scanning[j].att \in BuiltOf(j)
    /\ \A j \in Jobs : scanning[j].read # None =>
          /\ scanning[j].att # None /\ scanning[j].read \in uploaded
          /\ file[scanning[j].read] = file[scanning[j].att]
    /\ \A f \in Files : objects[f] # None => objects[f] \in uploaded /\ file[objects[f]] = f
    /\ Wanted \subseteq uploaded /\ shown \subseteq uploaded

\* Only attempts that were uploaded are asked for.
LEMMA AskedAreUploaded ==
    ASSUME TypeOK, Stocked, NEW a \in Attempts, AskedBy(a)
    PROVE  a \in uploaded
<1>1. CASE Gate(a)
  BY <1>1 DEF Gate, Stocked
<1>2. CASE \E j \in Jobs : ScanVerdict(j) /\ a = scanning[j].att
  BY <1>2 DEF ScanVerdict, Stocked, BuiltOf
<1>3. CASE \E j \in Jobs : Disregard(j) /\ a = Newest(BuiltOf(j))
  BY <1>3, NewestBuilt DEF Disregard, Stocked
<1> QED
  BY <1>1, <1>2, <1>3 DEF AskedBy

\* The part of reports and scans.
LEMMA GateStocked ==
    ASSUME TypeOK, Stocked, Grows, [Next]_vars
    PROVE  /\ \A a \in Attempts : gate'[a].phase # "none" => a \in uploaded'
           /\ \A a \in Attempts : gate'[a].phase \in {"stored", "gated", "done"} => a \in built'
           /\ built' \subseteq uploaded' /\ scheduled' \subseteq built'
<1> USE DEF Stocked, Grows, gateVars
<1>1. ASSUME NEW a \in Attempts, ReportLoad(a) \/ ReportStore(a) \/ ReportEnds(a) \/ Gate(a) \/ GateFails(a)
      PROVE  /\ \A b \in Attempts : gate'[b].phase # "none" => b \in uploaded'
             /\ \A b \in Attempts : gate'[b].phase \in {"stored", "gated", "done"} => b \in built'
             /\ built' \subseteq uploaded' /\ scheduled' \subseteq built'
  <2>1. \A b \in Attempts \ {a} : gate'[b] = gate[b]
    BY <1>1 DEF ReportLoad, ReportStore, ReportEnds, Gate, GateFails, TypeOK
  <2>2. a \in uploaded
    BY <1>1 DEF ReportLoad, ReportStore, ReportEnds, Gate, GateFails
  <2>3. gate'[a].phase \in {"stored", "gated", "done"} => a \in built'
    <3>1. CASE ReportLoad(a)
      BY <3>1 DEF ReportLoad, TypeOK
    <3>2. CASE ReportStore(a)
      BY <3>2 DEF ReportStore
    <3>3. CASE ReportEnds(a) \/ Gate(a) \/ GateFails(a)
      BY <3>3 DEF ReportEnds, Gate, GateFails
    <3> QED
      BY <1>1, <3>1, <3>2, <3>3
  <2>4. built' \subseteq built \cup {a} /\ scheduled' \subseteq scheduled \cup (built \cap {a})
    BY <1>1 DEF ReportLoad, ReportStore, ReportEnds, Gate, GateFails
  <2> QED
    BY <2>1, <2>2, <2>3, <2>4
<1>3. CASE \E a \in Attempts : ScanStart(a)
  BY <1>3 DEF ScanStart
<1>4. CASE \E j \in Jobs : Retry(j) \/ ScanEnds(j) \/ Disregard(j)
  BY <1>4 DEF Retry, ScanEnds, ScanVerdict, ScanMissing, ScanHeld, Disregard
<1>5. CASE RetryScans
  <2>1. ASSUME NEW j \in Jobs, BuiltOf(j) # {} PROVE Newest(BuiltOf(j)) \in built
    BY <2>1, NewestBuilt
  <2>2. Looked \subseteq Jobs
    BY DEF Looked, Waiting
  <2>3. scheduled' \subseteq built
    BY <1>5, <2>1, <2>2 DEF RetryScans
  <2> QED
    BY <1>5, <2>3 DEF RetryScans
<1>6. CASE ApiRestarts
  <2>1. \A a \in Attempts :
           \/ gate'[a] = gate[a]
           \/ gate'[a] = NoReport
           \/ a \in built /\ gate'[a] = [phase |-> "done", snap |-> "none"]
    BY <1>6 DEF ApiRestarts
  <2> QED
    BY <1>6, <2>1 DEF ApiRestarts, NoReport
<1>7. CASE UNCHANGED gateVars
  BY <1>7
<1>8. [Next]_vars => \/ UNCHANGED gateVars
                     \/ \E a \in Attempts : Report(a) \/ GateFails(a) \/ ScanStart(a)
                     \/ \E j \in Jobs : Retry(j) \/ ScanEnds(j) \/ Disregard(j)
                     \/ RetryScans \/ ApiRestarts
  BY ThreadMoves
  DEF Next, vars, Upload, TaskAges, CancelTasks, Batch, Fetch, Start, BatchDone, BatchRaised,
      BatchTimeout, EndBatch, LoadFails, Reclaim
<1> QED
  BY <1>1, <1>3, <1>4, <1>5, <1>6, <1>7, <1>8 DEF Report

\* A scan downloads what an attempt's key holds.
LEMMA ScanStocked ==
    ASSUME TypeOK, Stocked, Grows, [Next]_vars, NEW j \in Jobs
    PROVE  /\ scanning'[j].att # None => scanning'[j].att \in BuiltOf(j)'
           /\ scanning'[j].read # None =>
                 /\ scanning'[j].att # None /\ scanning'[j].read \in uploaded'
                 /\ file'[scanning'[j].read] = file'[scanning'[j].att]
<1>1. \/ scanning'[j] = scanning[j]
      \/ scanning'[j] = NoScan
      \/ \E a \in Attempts : /\ ScanStart(a) /\ JobOf[a] = j
                             /\ scanning'[j] = [att |-> a, read |-> objects[file[a]]]
  <2>1. CASE \E a \in Attempts : ScanStart(a)
    BY <2>1 DEF ScanStart, TypeOK
  <2>2. CASE \E i \in Jobs : ScanEnds(i)
    BY <2>2 DEF ScanEnds, ScanVerdict, ScanMissing, ScanHeld, TypeOK
  <2>3. CASE ApiRestarts
    BY <2>3 DEF ApiRestarts
  <2>4. CASE \E t \in threads : Thread(t) \/ ThreadRaises(t)
    BY <2>4, ThreadMoves DEF gateVars
  <2>5. CASE UNCHANGED scanning
    BY <2>5
  <2> QED
    BY <2>1, <2>2, <2>3, <2>4, <2>5
    DEF Next, vars, gateVars, Upload, Report, ReportLoad, ReportStore, ReportEnds, Gate,
        GateFails, TaskAges, Retry, Disregard, CancelTasks, RetryScans, Batch, Fetch, Start,
        BatchDone, BatchRaised, BatchTimeout, EndBatch, LoadFails, Reclaim
<1>2. BuiltOf(j) \subseteq BuiltOf(j)'
  BY DEF BuiltOf, Grows
<1>3. CASE scanning'[j] = scanning[j]
  BY <1>2, <1>3 DEF Stocked, Grows
<1>4. CASE scanning'[j] = NoScan
  BY <1>4 DEF NoScan
<1>5. ASSUME NEW a \in Attempts, ScanStart(a), JobOf[a] = j,
             scanning'[j] = [att |-> a, read |-> objects[file[a]]]
      PROVE  /\ scanning'[j].att # None => scanning'[j].att \in BuiltOf(j)'
             /\ scanning'[j].read # None =>
                   /\ scanning'[j].att # None /\ scanning'[j].read \in uploaded'
                   /\ file'[scanning'[j].read] = file'[scanning'[j].att]
  <2>1. a \in BuiltOf(j)' /\ a # None /\ file[a] \in Files
    BY <1>5, PipelineAssumption DEF ScanStart, Stocked, BuiltOf, TypeOK
  <2>2. scanning'[j].att = a /\ scanning'[j].read = objects[file[a]]
    BY <1>5
  <2> QED
    BY <2>1, <2>2 DEF Stocked, Grows
<1> QED
  BY <1>1, <1>3, <1>4, <1>5

\* An object is of the attempt that put it there, until another takes its place.
LEMMA ObjectsStocked ==
    ASSUME TypeOK, Stocked, Grows, [Next]_vars
    PROVE  /\ \A f \in Files : objects'[f] # None => objects'[f] \in uploaded' /\ file'[objects'[f]] = f
           /\ shown' \subseteq uploaded'
<1>1. CASE \E a \in Attempts : Upload(a)
  BY <1>1 DEF Upload, Stocked, TypeOK
<1>2. CASE \E t \in threads : ThreadPrunes(t)
  BY <1>2 DEF ThreadPrunes, Stocked
<1>3. CASE \E t \in threads : ThreadDescribes(t)
  <2>1. \A S \in SUBSET Stored : WrittenIn(S) \subseteq uploaded
    BY DEF WrittenIn, Stored, Stocked
  <2> QED
    BY <1>3, <2>1 DEF ThreadDescribes, Describes, Stocked
<1>4. CASE UNCHANGED <<objects, shown>>
  BY <1>4 DEF Stocked, Grows
<1> QED
  BY <1>1, <1>2, <1>3, <1>4
  DEF Next, vars, taskVars, repoVars, Report, ReportLoad, ReportStore, ReportEnds, Gate,
      GateFails, ScanStart, TaskAges, Retry, ScanEnds, ScanVerdict, ScanMissing, ScanHeld,
      Disregard, CancelTasks, RetryScans, Batch, Fetch, Start, BatchDone, BatchRaised,
      BatchTimeout, EndBatch, LoadFails, Reclaim, ApiRestarts, Thread, ThreadStages, ThreadRaises

LEMMA WantedTypes == TypeOK => Wanted \subseteq Attempts
  BY DEF TypeOK, Wanted, ThreadStates

LEMMA StepStocked == TypeOK /\ TypeOK' /\ Stocked /\ [Next]_vars => Stocked'
<1> SUFFICES ASSUME TypeOK, TypeOK', Stocked, [Next]_vars PROVE Stocked'
  OBVIOUS
<1>1. Grows
  BY StepGrows
<1>2. Wanted' \subseteq uploaded'
  <2> SUFFICES ASSUME NEW a \in Wanted' PROVE a \in uploaded'
    OBVIOUS
  <2>1. a \in Attempts
    BY DEF TypeOK, Wanted, ThreadStates
  <2>2. a \in Wanted \/ AskedBy(a)
    BY StepWants
  <2> QED
    BY <1>1, <2>1, <2>2, AskedAreUploaded DEF Stocked, Grows
<1> QED
  BY <1>1, <1>2, GateStocked, ScanStocked, ObjectsStocked DEF Stocked

LEMMA InitStocked == Init => Stocked
  BY DEF Init, Stocked, NoLoop, NoReport, NoScan, Wanted

-----------------------------------------------------------------------------
(* What a successful publish task stands for *)

\* A thread at work has staged the files of its tasks, but for those that were
\* replaced; one that is done has brought them into the metadata.  The loop's
\* tasks, which its next mark may fail, are no successes.
Landed ==
    /\ \A t \in threads : t.tasks # {}
    /\ \A t \in threads : AtWork(t) => \A a \in t.tasks \ Replaced : file[a] \in t.staged
    /\ \A t \in threads : t.phase = "done" => t.tasks \subseteq shown \cup Replaced
    /\ loop.phase = "idle" => loop.tasks = {}
    /\ loop.phase # "idle" => loop.tasks # {}
    /\ \A a \in loop.tasks : task[a] # "success"
    /\ SuccessIsPublished

\* What a step does to the tasks that are successes.
SuccessKept == \A a \in Attempts : task[a] = "success" => task'[a] = "success"

\* The part of the threads that a step leaves alone.
LEMMA ThreadsStill ==
    ASSUME TypeOK, Landed, Grows
    PROVE  \A t \in threads :
               /\ t.tasks # {}
               /\ AtWork(t) => \A a \in t.tasks \ Replaced' : file'[a] \in t.staged
               /\ t.phase = "done" => t.tasks \subseteq shown' \cup Replaced'
<1>1. Replaced \subseteq Replaced' /\ shown \subseteq shown' /\ file' = file
  BY ReplacedStays DEF Grows
<1> QED
  BY <1>1 DEF Landed

LEMMA LandsStill ==
    ASSUME TypeOK, Landed, Grows, UNCHANGED loop, threads' \subseteq threads,
           \A a \in Attempts : task'[a] = "success" <=> task[a] = "success"
    PROVE  Landed' /\ SuccessKept
<1>1. Replaced \subseteq Replaced' /\ shown \subseteq shown'
  BY ReplacedStays DEF Grows
<1> QED
  BY <1>1, ThreadsStill DEF Landed, AtWork, SuccessKept, SuccessIsPublished, TypeOK

LEMMA GateLands ==
    ASSUME TypeOK, Landed, Grows,
           \/ \E a \in Attempts : Upload(a) \/ Report(a) \/ GateFails(a) \/ ScanStart(a) \/ TaskAges(a)
           \/ \E j \in Jobs : Retry(j) \/ ScanEnds(j) \/ Disregard(j) \/ CancelTasks(j)
           \/ RetryScans \/ Reclaim
    PROVE  Landed' /\ SuccessKept
<1>1. UNCHANGED <<loop, threads>>
  BY DEF Upload, Report, ReportLoad, ReportStore, ReportEnds, Gate, GateFails, ScanStart,
         TaskAges, Retry, ScanEnds, ScanVerdict, ScanMissing, ScanHeld, Disregard,
         CancelTasks, RetryScans, Reclaim, taskVars
<1>2. \A a \in Attempts : task'[a] = "success" <=> task[a] = "success"
  <2>1. CASE task' = task
    BY <2>1
  <2>2. CASE \E a : Enqueue(a)
    BY <2>2 DEF Enqueue, TypeOK
  <2>3. CASE \E j \in Jobs : ScanMissing(j)
    BY <2>3 DEF ScanMissing, Dropped, TypeOK
  <2>4. CASE (\E j \in Jobs : CancelTasks(j)) \/ Reclaim
    BY <2>4 DEF CancelTasks, Pending, Reclaim, Stuck
  <2> QED
    BY <2>1, <2>2, <2>3, <2>4
    DEF Upload, Report, ReportLoad, ReportStore, ReportEnds, Gate, GateFails, ScanStart,
        TaskAges, Retry, ScanEnds, ScanVerdict, ScanHeld, Disregard, RetryScans
<1> QED
  BY <1>1, <1>2, LandsStill

\* The files that a thread brings into the metadata are those of its tasks.
LEMMA DescribedAreShown ==
    ASSUME TypeOK, Stocked, NEW t \in threads, AtWork(t), Landed, ThreadDescribes(t),
           Describes(t) \/ (t.staged = {} /\ UNCHANGED shown)
    PROVE  t.tasks \subseteq shown' \cup Replaced'
<1>1. Replaced' = Replaced
  BY DEF ThreadDescribes, Replaced
<1> SUFFICES ASSUME NEW a \in t.tasks, a \notin Replaced
             PROVE  a \in shown'
  BY <1>1
<1>2. a \in Wanted /\ a \in Attempts
  BY WantedHas, WantedTypes
<1>3. a \in uploaded /\ objects[file[a]] = a
  BY <1>2 DEF Stocked, Replaced
<1>4. file[a] \in t.staged \cap Stored
  BY <1>2, <1>3, PipelineAssumption DEF Landed, Stored, TypeOK
<1>5. PICK S \in SUBSET Stored : t.staged \cap Stored \subseteq S /\ shown' = shown \cup WrittenIn(S)
  BY <1>4 DEF Describes
<1> QED
  BY <1>3, <1>4, <1>5 DEF WrittenIn

\* A thread that stages its batch finds what was not replaced.
LEMMA StagedAreThere ==
    ASSUME TypeOK, Stocked, NEW t \in threads, NEW a \in t.tasks \ Replaced
    PROVE  file[a] \in FilesOf(t.tasks) \cap Stored
<1>1. a \in Wanted /\ a \in Attempts
  BY WantedHas, WantedTypes
<1>2. a \in uploaded /\ objects[file[a]] = a
  BY <1>1 DEF Stocked, Replaced
<1> QED
  BY <1>1, <1>2, PipelineAssumption DEF FilesOf, Stored, TypeOK

\* What becomes of a thread in a step of its own.
LEMMA ThreadLands ==
    ASSUME TypeOK, Stocked, Landed, Grows, NEW t \in threads, Thread(t) \/ ThreadRaises(t)
    PROVE  Landed' /\ SuccessKept
<1>1. task' = task /\ loop' = loop
  BY ThreadMoves
<1>2. Replaced \subseteq Replaced' /\ shown \subseteq shown' /\ file' = file
  BY ReplacedStays DEF Grows
<1>3. \A u \in threads' : u \in threads \/
         /\ u.tasks = t.tasks
         /\ AtWork(u) => \A a \in u.tasks \ Replaced' : file'[a] \in u.staged
         /\ u.phase = "done" => u.tasks \subseteq shown' \cup Replaced'
  <2>1. CASE ThreadStages(t)
    <3>1. PICK n : n = [t EXCEPT !.phase = "staged", !.staged = FilesOf(t.tasks) \cap Stored]
      OBVIOUS
    <3>2. n.tasks = t.tasks /\ n.phase = "staged" /\ n.staged = FilesOf(t.tasks) \cap Stored
      BY <3>1 DEF TypeOK, ThreadStates
    <3>3. \A u \in threads' : u \in threads \/ u = n
      BY <2>1, <3>1 DEF ThreadStages
    <3> QED
      BY <1>2, <3>2, <3>3, StagedAreThere
  <2>2. CASE ThreadPrunes(t)
    <3>1. PICK n : n = [t EXCEPT !.phase = "pruned"]
      OBVIOUS
    <3>2. n.tasks = t.tasks /\ n.phase = "pruned" /\ n.staged = t.staged
      BY <3>1 DEF TypeOK, ThreadStates
    <3>3. \A u \in threads' : u \in threads \/ u = n
      BY <2>2, <3>1 DEF ThreadPrunes
    <3>4. \A a \in t.tasks \ Replaced : file[a] \in t.staged
      BY <2>2 DEF ThreadPrunes, AtWork, Landed
    <3> QED
      BY <1>2, <3>2, <3>3, <3>4
  <2>3. CASE ThreadDescribes(t) \/ ThreadRaises(t)
    <3>1. PICK p \in {"done", "raised"} :
             /\ Leave(t, p)
             /\ p = "done" => t.tasks \subseteq shown' \cup Replaced'
      BY <2>3, DescribedAreShown DEF ThreadDescribes, ThreadRaises, AtWork
    <3>2. PICK n : n = [t EXCEPT !.phase = p]
      OBVIOUS
    <3>3. n.tasks = t.tasks /\ n.phase = p
      BY <3>2 DEF TypeOK, ThreadStates
    <3>4. \A u \in threads' : u \in threads \/ u = n
      BY <3>1, <3>2 DEF Leave
    <3> QED
      BY <3>1, <3>3, <3>4 DEF AtWork
  <2> QED
    BY <2>1, <2>2, <2>3 DEF Thread
<1>4. SuccessIsPublished'
  BY <1>1, <1>2 DEF Landed, SuccessIsPublished
<1> QED
  BY <1>1, <1>3, <1>4, ThreadsStill DEF Landed, AtWork, SuccessKept

LEMMA BatchLands ==
    ASSUME TypeOK, Landed, Grows, NEW t \in threads,
           BatchDone(t) \/ BatchRaised(t) \/ BatchTimeout(t)
    PROVE  Landed' /\ SuccessKept
<1>1. threads' \subseteq threads /\ UNCHANGED repoVars /\ loop' = NoLoop
  BY DEF BatchDone, BatchRaised, BatchTimeout, EndBatch
<1>2. shown' = shown /\ Replaced' = Replaced
  BY <1>1 DEF repoVars, Replaced
<1>3. SuccessIsPublished' /\ SuccessKept
  <2>1. CASE BatchDone(t)
    <3>1. loop.tasks \subseteq shown \cup Replaced
      BY <2>1 DEF BatchDone, Waited, Finished, Landed
    <3>2. task' = [a \in Attempts |-> IF a \in loop.tasks THEN "success" ELSE task[a]]
      BY <2>1 DEF BatchDone, EndBatch
    <3> QED
      BY <1>2, <3>1, <3>2 DEF Landed, SuccessKept, SuccessIsPublished
  <2>2. CASE BatchRaised(t) \/ BatchTimeout(t)
    <3>1. task' = [a \in Attempts |-> IF a \in loop.tasks THEN "failed" ELSE task[a]]
      BY <2>2 DEF BatchRaised, BatchTimeout, EndBatch
    <3> QED
      BY <1>2, <3>1 DEF Landed, SuccessKept, SuccessIsPublished
  <2> QED
    BY <2>1, <2>2
<1> QED
  BY <1>1, <1>3, ThreadsStill DEF Landed, AtWork, NoLoop

LEMMA LoopLands ==
    ASSUME TypeOK, Landed, Grows, Fetch \/ Start \/ LoadFails \/ ApiRestarts
    PROVE  Landed' /\ SuccessKept
<1>1. UNCHANGED repoVars
  BY DEF Fetch, Start, LoadFails, ApiRestarts
<1>2. shown' = shown /\ Replaced' = Replaced
  BY <1>1 DEF repoVars, Replaced
<1>3. \A a \in Attempts : task'[a] = "success" <=> task[a] = "success"
  BY DEF Fetch, Start, LoadFails, ApiRestarts, Pending
<1>4. SuccessIsPublished' /\ SuccessKept
  BY <1>2, <1>3 DEF Landed, SuccessKept, SuccessIsPublished
<1>5. CASE Fetch
  <2>1. loop'.phase = "fetched" /\ loop'.tasks = Pending /\ threads' = threads /\ task' = task
    BY <1>5 DEF Fetch
  <2> QED
    BY <1>4, <1>5, <2>1, ThreadsStill DEF Landed, AtWork, Fetch, Pending
<1>6. CASE Start
  <2>1. PICK n : n = [tasks |-> loop.tasks, phase |-> "waiting", staged |-> {}]
    OBVIOUS
  <2>2. n.tasks = loop.tasks /\ n.phase = "waiting"
    BY <2>1
  <2>3. /\ threads' = threads \cup {n} /\ loop.phase = "fetched"
        /\ loop'.phase = "running" /\ loop'.tasks = loop.tasks
    BY <1>6, <2>1 DEF Start, TypeOK
  <2>4. \A u \in threads' :
           /\ u.tasks # {}
           /\ AtWork(u) => \A a \in u.tasks \ Replaced' : file'[a] \in u.staged
           /\ u.phase = "done" => u.tasks \subseteq shown' \cup Replaced'
    BY <2>2, <2>3, ThreadsStill DEF Landed, AtWork
  <2>5. \A a \in loop'.tasks : task'[a] # "success"
    BY <1>3, <2>3 DEF Landed, TypeOK
  <2> QED
    BY <1>4, <2>3, <2>4, <2>5 DEF Landed, AtWork
<1>7. CASE LoadFails \/ ApiRestarts
  <2>1. loop'.phase = "idle" /\ loop'.tasks = {} /\ threads' \subseteq threads
    BY <1>7 DEF LoadFails, ApiRestarts, NoLoop
  <2> QED
    BY <1>4, <2>1, ThreadsStill DEF Landed, AtWork
<1> QED
  BY <1>5, <1>6, <1>7

LEMMA StepLands == TypeOK /\ Stocked /\ Landed /\ [Next]_vars => Landed' /\ SuccessKept
<1> SUFFICES ASSUME TypeOK, Stocked, Landed, [Next]_vars PROVE Landed' /\ SuccessKept
  OBVIOUS
<1>1. Grows
  BY StepGrows
<1>2. CASE UNCHANGED vars
  BY <1>1, <1>2, LandsStill DEF vars, taskVars
<1>3. CASE Next
  BY <1>1, <1>3, GateLands, ThreadLands, BatchLands, LoopLands DEF Next, Batch
<1> QED
  BY <1>2, <1>3

LEMMA InitLands == Init => Landed
  BY DEF Init, Landed, SuccessIsPublished, NoLoop

\* A successful task's RPM has been in the repository's metadata, or another
\* build took its place in the store, however many threads, prunes, restarts
\* and reclaims there were.
THEOREM SuccessesPublished == Spec => []SuccessIsPublished
<1>1. Landed => SuccessIsPublished
  BY DEF Landed
<1> QED
  BY <1>1, InitTypes, StepTypes, InitStocked, StepStocked, InitLands, StepLands, PTL DEF Spec

\* No step takes a task out of success.
THEOREM SuccessesFinal == Spec => SuccessIsFinal
  BY InitTypes, StepTypes, InitStocked, StepStocked, InitLands, StepLands, PTL
  DEF Spec, SuccessIsFinal, SuccessKept

-----------------------------------------------------------------------------
(* What the gate holds back *)

\* Verdicts that let a build pass are of cleared jobs, and so are publishes.
Vetted ==
    /\ \A j \in Jobs : scan[j] \in {"clean", "disregarded"} => j \in Cleared
    /\ \A a \in Attempts : gate[a].snap \in {"clean", "disregarded"} => JobOf[a] \in Cleared
    /\ InfectedIsHeld

\* A scan that found nothing clears the job: what it read has the file name of
\* the attempt that was to be scanned.
LEMMA CleanScanClears ==
    ASSUME TypeOK, Stocked, NEW j \in Jobs,
           scanning[j].read \notin Infected \cup {None}
    PROVE  j \in Cleared
<1>1. PICK a \in Attempts : a = scanning[j].att /\ JobOf[a] = j
  BY DEF Stocked, BuiltOf, TypeOK
<1>2. scanning[j].read \in uploaded \ Infected /\ file[scanning[j].read] = file[a]
  BY <1>1 DEF Stocked
<1> QED
  BY <1>1, <1>2 DEF Cleared

\* A publish is asked for of jobs that are cleared, perhaps by this very step.
LEMMA AskedAreCleared ==
    ASSUME TypeOK, Stocked, Vetted, Grows, NEW a \in Attempts, AskedBy(a)
    PROVE  JobOf[a] \in Cleared'
<1>1. CASE Gate(a) /\ Passes(gate[a].snap)
  BY <1>1, ClearedStays DEF Passes, Vetted
<1>2. ASSUME NEW j \in Jobs, ScanVerdict(j), scanning[j].read \notin Infected, a = scanning[j].att
      PROVE  JobOf[a] \in Cleared'
  <2>1. j \in Cleared
    BY <1>2, CleanScanClears DEF ScanVerdict
  <2>2. JobOf[a] = j
    BY <1>2, PipelineAssumption DEF Stocked, BuiltOf
  <2> QED
    BY <2>1, <2>2, ClearedStays
<1>3. ASSUME NEW j \in Jobs, Disregard(j), a = Newest(BuiltOf(j))
      PROVE  JobOf[a] \in Cleared'
  <2>1. JobOf[a] = j /\ j \in waived'
    BY <1>3, NewestBuilt DEF Disregard
  <2> QED
    BY <2>1 DEF Cleared
<1> QED
  BY <1>1, <1>2, <1>3 DEF AskedBy

\* Where a verdict that lets a build pass comes from.
LEMMA VerdictsVetted ==
    ASSUME TypeOK, Stocked, Vetted, Grows, [Next]_vars, NEW j \in Jobs,
           scan'[j] \in {"clean", "disregarded"}
    PROVE  j \in Cleared'
<1>1. scan[j] \in {"clean", "disregarded"} => j \in Cleared'
  BY ClearedStays DEF Vetted
<1>2. CASE \E a \in Attempts : Gate(a)
  BY <1>1, <1>2 DEF Gate, TypeOK
<1>3. ASSUME NEW i \in Jobs, ScanVerdict(i) PROVE j \in Cleared'
  <2>1. CASE j # i
    BY <1>1, <1>3, <2>1 DEF ScanVerdict, TypeOK
  <2>2. CASE j = i /\ scanning[j].read \in Infected
    BY <1>3, <2>2 DEF ScanVerdict, TypeOK
  <2>3. CASE j = i /\ scanning[j].read \notin Infected
    BY <1>3, <2>3, CleanScanClears, ClearedStays DEF ScanVerdict
  <2> QED
    BY <2>1, <2>2, <2>3
<1>4. CASE \E i \in Jobs : ScanMissing(i)
  BY <1>1, <1>4 DEF ScanMissing, TypeOK
<1>5. CASE \E i \in Jobs : Disregard(i)
  <2>1. scan'[j] = scan[j] \/ j \in waived'
    BY <1>5 DEF Disregard, TypeOK
  <2> QED
    BY <1>1, <2>1 DEF Cleared
<1>6. CASE UNCHANGED scan
  BY <1>1, <1>6
<1>7. CASE \E t \in threads : Thread(t) \/ ThreadRaises(t)
  BY <1>6, <1>7, ThreadMoves DEF gateVars
<1> QED
  BY <1>2, <1>3, <1>4, <1>5, <1>6, <1>7
  DEF Next, vars, gateVars, Upload, Report, ReportLoad, ReportStore, ReportEnds, GateFails,
      ScanStart, TaskAges, Retry, ScanEnds, ScanHeld, CancelTasks, RetryScans, Batch, Fetch,
      Start, BatchDone, BatchRaised, BatchTimeout, EndBatch, LoadFails, Reclaim, ApiRestarts

\* The verdict a report works with is the one its job had.
LEMMA SnapsVetted ==
    ASSUME TypeOK, Vetted, Grows, [Next]_vars, NEW a \in Attempts,
           gate'[a].snap \in {"clean", "disregarded"}
    PROVE  JobOf[a] \in Cleared'
<1>1. gate[a].snap \in {"clean", "disregarded"} => JobOf[a] \in Cleared'
  BY ClearedStays DEF Vetted
<1>2. ASSUME NEW b \in Attempts, ReportLoad(b) PROVE JobOf[a] \in Cleared'
  <2>1. gate'[a] = gate[a] \/ (a = b /\ gate'[a].snap = scan[JobOf[a]])
    BY <1>2 DEF ReportLoad, TypeOK
  <2>2. JobOf[a] \in Jobs
    BY PipelineAssumption
  <2> QED
    BY <1>1, <2>1, <2>2, ClearedStays DEF Vetted
<1>3. ASSUME NEW b \in Attempts,
             ReportStore(b) \/ ReportEnds(b) \/ Gate(b) \/ GateFails(b)
      PROVE  JobOf[a] \in Cleared'
  <2>1. CASE ReportStore(b) \/ ReportEnds(b)
    <3>1. PICK p : gate' = [gate EXCEPT ![b].phase = p]
      BY <2>1 DEF ReportStore, ReportEnds
    <3>2. gate'[a].snap = gate[a].snap
      BY <3>1 DEF TypeOK, Reports
    <3> QED
      BY <1>1, <3>2
  <2>2. CASE Gate(b) \/ GateFails(b)
    <3>1. gate' = [gate EXCEPT ![b] = [phase |-> "gated", snap |-> "none"]]
      BY <2>2 DEF Gate, GateFails
    <3>2. gate'[a].snap \in {gate[a].snap, "none"}
      BY <3>1 DEF TypeOK
    <3> QED
      BY <1>1, <3>2
  <2> QED
    BY <1>3, <2>1, <2>2
<1>4. CASE ApiRestarts
  <2>1. gate'[a] = gate[a] \/ gate'[a].snap = "none"
    BY <1>4 DEF ApiRestarts, NoReport
  <2> QED
    BY <1>1, <2>1
<1>5. CASE UNCHANGED gate
  BY <1>1, <1>5
<1>6. CASE \E t \in threads : Thread(t) \/ ThreadRaises(t)
  BY <1>5, <1>6, ThreadMoves DEF gateVars
<1> QED
  BY <1>2, <1>3, <1>4, <1>5, <1>6
  DEF Next, vars, gateVars, Upload, Report, ScanStart, TaskAges, Retry, ScanEnds, ScanVerdict,
      ScanMissing, ScanHeld, Disregard, CancelTasks, RetryScans, Batch, Fetch, Start,
      BatchDone, BatchRaised, BatchTimeout, EndBatch, LoadFails, Reclaim

LEMMA StepVetted == TypeOK /\ TypeOK' /\ Stocked /\ Vetted /\ [Next]_vars => Vetted'
<1> SUFFICES ASSUME TypeOK, TypeOK', Stocked, Vetted, [Next]_vars PROVE Vetted'
  OBVIOUS
<1>1. Grows
  BY StepGrows
<1>2. ASSUME NEW a \in Wanted' PROVE JobOf[a] \in Cleared'
  <2>1. a \in Attempts
    BY DEF TypeOK, Wanted, ThreadStates
  <2>2. a \in Wanted \/ AskedBy(a)
    BY StepWants
  <2>3. CASE a \in Wanted
    BY <1>1, <2>3, ClearedStays DEF Vetted, InfectedIsHeld
  <2>4. CASE AskedBy(a)
    BY <1>1, <2>1, <2>4, AskedAreCleared
  <2> QED
    BY <2>2, <2>3, <2>4
<1> QED
  BY <1>1, <1>2, VerdictsVetted, SnapsVetted DEF Vetted, InfectedIsHeld

LEMMA InitVetted == Init => Vetted
  BY DEF Init, Vetted, NoLoop, NoReport, InfectedIsHeld, Wanted

\* No publish is asked for, or worked on by the loop or a thread, of a job whose
\* files the scanners can only have found infected, before a maintainer
\* disregards the findings, however scans, retries, uploads and restarts
\* interleave.
THEOREM InfectedHeld == Spec => []InfectedIsHeld
<1>1. Vetted => InfectedIsHeld
  BY DEF Vetted
<1> QED
  BY <1>1, InitTypes, StepTypes, InitStocked, StepStocked, InitVetted, StepVetted, PTL DEF Spec

-----------------------------------------------------------------------------
(* What the pipeline promises *)

Succeeded == {a \in Attempts : task[a] = "success"}

\* A step that stores, shows and confirms nothing takes some publishes back, if
\* it changes anything at all.
LEMMA OnlyWithdraws ==
    ASSUME UNCHANGED <<waived, repoVars>>, Wanted' \subseteq Wanted,
           \A a \in Attempts : task'[a] = "success" <=> task[a] = "success"
    PROVE  [Releases!Next]_Releases!vars
<1>1. UNCHANGED <<Cleared, uploaded, shown, Replaced>>
  BY DEF Cleared, Replaced, repoVars
<1>2. UNCHANGED Succeeded
  BY DEF Succeeded
<1>3. Succeeded \subseteq Wanted'
  BY <1>2, WantedHas DEF Wanted, Succeeded
<1>4. Releases!Withdraw
  BY <1>1, <1>2, <1>3 DEF Releases!Withdraw, Releases!SomeGivenUp, Succeeded
<1> QED
  BY <1>4 DEF Releases!Next

LEMMA UploadReleases ==
    ASSUME TypeOK, TypeOK', Stocked, Grows, NEW a \in Attempts, Upload(a)
    PROVE  [Releases!Next]_Releases!vars
<1>1. a \notin uploaded /\ uploaded' = uploaded \cup {a}
  BY DEF Upload
<1>2. Cleared \subseteq Cleared' /\ Replaced \subseteq Replaced'
  BY ClearedStays, ReplacedStays
<1>3. Replaced' \subseteq uploaded
  <2>1. objects'[file'[a]] = a
    BY DEF Upload, TypeOK
  <2> QED
    BY <1>1, <2>1 DEF Replaced
<1>4. UNCHANGED <<Wanted, shown, Succeeded>>
  BY DEF Upload, Wanted, Succeeded
<1>5. Releases!Upload(a)
  BY <1>1, <1>2, <1>3, <1>4 DEF Releases!Upload, Succeeded
<1> QED
  BY <1>5 DEF Releases!Next

\* The steps that queue a publish task, if there is none yet.
LEMMA EnqueueReleases ==
    ASSUME TypeOK, NEW a \in Attempts, Enqueue(a), a \in uploaded, JobOf[a] \in Cleared,
           UNCHANGED <<waived, loop, threads, repoVars>>
    PROVE  [Releases!Next]_Releases!vars
<1>1. CASE task[a] = "none"
  <2>1. UNCHANGED <<Cleared, uploaded, shown, Replaced>>
    BY DEF Cleared, Replaced, repoVars
  <2>2. Wanted' = Wanted \cup {a}
    BY <1>1 DEF Enqueue, Wanted, TypeOK
  <2>3. UNCHANGED Succeeded
    BY <1>1 DEF Enqueue, Succeeded, TypeOK
  <2>4. Releases!Ask(a)
    BY <2>1, <2>2, <2>3 DEF Releases!Ask, Succeeded
  <2> QED
    BY <2>4 DEF Releases!Next
<1>2. CASE task[a] # "none"
  <2>1. task' = task
    BY <1>2 DEF Enqueue, TypeOK
  <2>2. Wanted' = Wanted
    BY <2>1 DEF Wanted
  <2> QED
    BY <2>1, <2>2, OnlyWithdraws
<1> QED
  BY <1>1, <1>2

LEMMA DisregardReleases ==
    ASSUME TypeOK, Stocked, NEW j \in Jobs, Disregard(j)
    PROVE  [Releases!Next]_Releases!vars
<1>1. PICK a \in Attempts : a = Newest(BuiltOf(j)) /\ a \in built /\ JobOf[a] = j
  BY NewestBuilt DEF Disregard, TypeOK
<1>2. waived' = waived \cup {j} /\ Enqueue(a) /\ UNCHANGED <<loop, threads, repoVars>>
  BY <1>1 DEF Disregard, taskVars
<1>3. Cleared' = Cleared \cup {JobOf[a]}
  BY <1>1, <1>2 DEF Cleared, repoVars
<1>4. UNCHANGED <<uploaded, shown, Replaced>>
  BY <1>2 DEF Replaced, repoVars
<1>5. Wanted' \in {Wanted, Wanted \cup {a}}
  <2>1. CASE task[a] = "none"
    BY <1>2, <2>1 DEF Enqueue, Wanted, TypeOK
  <2>2. CASE task[a] # "none"
    <3>1. task' = task
      BY <1>2, <2>2 DEF Enqueue, TypeOK
    <3> QED
      BY <1>2, <3>1 DEF Wanted
  <2> QED
    BY <2>1, <2>2
<1>6. UNCHANGED Succeeded
  BY <1>2 DEF Enqueue, Succeeded, TypeOK
<1>7. a \in uploaded
  BY <1>1 DEF Stocked
<1>8. Releases!Waive(a)
  BY <1>3, <1>4, <1>5, <1>6, <1>7 DEF Releases!Waive, Succeeded
<1> QED
  BY <1>8 DEF Releases!Next

\* The steps of reports, scans and users.
LEMMA GateReleases ==
    ASSUME TypeOK, Stocked, Vetted,
           \/ \E a \in Attempts : Report(a) \/ GateFails(a) \/ ScanStart(a) \/ TaskAges(a)
           \/ \E j \in Jobs : Retry(j) \/ ScanEnds(j) \/ Disregard(j) \/ CancelTasks(j)
           \/ RetryScans \/ Reclaim
    PROVE  [Releases!Next]_Releases!vars
<1>1. ASSUME UNCHANGED <<waived, task, loop, threads, repoVars>>
      PROVE  [Releases!Next]_Releases!vars
  <2>1. Wanted' = Wanted
    BY <1>1 DEF Wanted
  <2> QED
    BY <1>1, <2>1, OnlyWithdraws
<1>2. CASE \/ \E a \in Attempts : \/ ReportLoad(a) \/ ReportStore(a) \/ ReportEnds(a)
                                  \/ GateFails(a) \/ ScanStart(a) \/ TaskAges(a)
           \/ \E j \in Jobs : Retry(j) \/ ScanHeld(j)
           \/ RetryScans
  <2>1. UNCHANGED <<waived, task, loop, threads, repoVars>>
    BY <1>2 DEF ReportLoad, ReportStore, ReportEnds, GateFails, ScanStart, TaskAges, Retry,
                ScanHeld, RetryScans, taskVars, gateVars
  <2> QED
    BY <1>1, <2>1
<1>3. ASSUME NEW a \in Attempts, Gate(a)
      PROVE  [Releases!Next]_Releases!vars
  <2>1. UNCHANGED <<waived, loop, threads, repoVars>>
    BY <1>3 DEF Gate, taskVars
  <2>2. CASE Passes(gate[a].snap) /\ Enqueue(a)
    <3>1. a \in uploaded /\ JobOf[a] \in Cleared
      BY <1>3, <2>2 DEF Gate, Passes, Stocked, Vetted
    <3> QED
      BY <2>1, <2>2, <3>1, EnqueueReleases
  <2>3. CASE UNCHANGED task
    BY <1>1, <2>1, <2>3
  <2> QED
    BY <1>3, <2>2, <2>3 DEF Gate
<1>4. ASSUME NEW j \in Jobs, ScanVerdict(j)
      PROVE  [Releases!Next]_Releases!vars
  <2>1. UNCHANGED <<waived, loop, threads, repoVars>>
    BY <1>4 DEF ScanVerdict, taskVars
  <2>2. CASE scanning[j].read \in Infected
    BY <1>1, <1>4, <2>1, <2>2 DEF ScanVerdict
  <2>3. CASE scanning[j].read \notin Infected
    <3>1. PICK a \in Attempts : a = scanning[j].att /\ a \in built /\ JobOf[a] = j
      BY <1>4 DEF ScanVerdict, Stocked, BuiltOf, TypeOK
    <3>2. Enqueue(a)
      BY <1>4, <2>3, <3>1 DEF ScanVerdict
    <3>3. a \in uploaded
      BY <3>1 DEF Stocked
    <3>4. JobOf[a] \in Cleared
      BY <1>4, <2>3, <3>1, CleanScanClears DEF ScanVerdict
    <3> QED
      BY <2>1, <3>2, <3>3, <3>4, EnqueueReleases
  <2> QED
    BY <2>2, <2>3
<1>5. CASE \E j \in Jobs : Disregard(j)
  BY <1>5, DisregardReleases
<1>6. CASE (\E j \in Jobs : ScanMissing(j) \/ CancelTasks(j)) \/ Reclaim
  <2>1. UNCHANGED <<waived, loop, threads, repoVars>>
    BY <1>6 DEF ScanMissing, CancelTasks, Reclaim, taskVars, gateVars
  <2>2. \A a \in Attempts : /\ task'[a] = "success" <=> task[a] = "success"
                            /\ task'[a] \in {"pending", "running"} => task[a] \in {"pending", "running"}
    BY <1>6 DEF ScanMissing, Dropped, CancelTasks, Pending, Reclaim, Stuck, TypeOK
  <2>3. Wanted' \subseteq Wanted
    BY <2>1, <2>2 DEF Wanted
  <2> QED
    BY <2>1, <2>2, <2>3, OnlyWithdraws
<1> QED
  BY <1>2, <1>3, <1>4, <1>5, <1>6 DEF Report, ScanEnds

\* Making room replaces files of attempts that were uploaded.
LEMMA PruneReleases ==
    ASSUME TypeOK, TypeOK', Landed, Grows, NEW t \in threads, ThreadPrunes(t)
    PROVE  [Releases!Next]_Releases!vars
<1>1. Wanted # {}
  BY WantedHas DEF Landed
<1>2. UNCHANGED <<Cleared, uploaded, shown>>
  BY DEF ThreadPrunes, gateVars, Cleared
<1>3. Replaced \subseteq Replaced' /\ Replaced' \subseteq uploaded
  BY <1>2, ReplacedStays DEF Replaced
<1>4. UNCHANGED Succeeded
  BY DEF ThreadPrunes, Succeeded
<1>5. Wanted' = Wanted
  <2>1. UNCHANGED <<task, loop>>
    BY DEF ThreadPrunes
  <2>2. PICK n : n = [t EXCEPT !.phase = "pruned"]
    OBVIOUS
  <2>3. n.tasks = t.tasks /\ threads' = (threads \ {t}) \cup {n}
    BY <2>2 DEF ThreadPrunes, TypeOK, ThreadStates
  <2>4. UNION {u.tasks : u \in threads'} = UNION {u.tasks : u \in threads}
    BY <2>3
  <2> QED
    BY <2>1, <2>4 DEF Wanted
<1>6. Releases!Prune
  BY <1>1, <1>2, <1>3, <1>4, <1>5 DEF Releases!Prune, Succeeded
<1> QED
  BY <1>6 DEF Releases!Next

\* The metadata of a batch shows one of its tasks, or what has replaced it.
LEMMA DescribeReleases ==
    ASSUME TypeOK, TypeOK', Stocked, Stocked', Landed, Grows, NEW t \in threads,
           ThreadDescribes(t), Describes(t), Wanted' \subseteq Wanted
    PROVE  [Releases!Next]_Releases!vars
<1>1. UNCHANGED <<Cleared, uploaded, Replaced>>
  BY DEF ThreadDescribes, gateVars, Cleared, Replaced
<1>2. shown \subseteq shown' /\ shown' \subseteq uploaded
  BY <1>1 DEF Grows, Stocked
<1>3. PICK a \in t.tasks : TRUE
  BY DEF Landed
<1>4. t.tasks \subseteq shown' \cup Replaced
  BY <1>1, DescribedAreShown DEF ThreadDescribes, AtWork
<1>5. a \in Wanted /\ a \in shown' \cup Replaced
  BY <1>3, <1>4, WantedHas
<1>6. UNCHANGED Succeeded
  BY DEF ThreadDescribes, Succeeded
<1>7. Succeeded \subseteq Wanted'
  BY <1>6, WantedHas DEF Wanted, Succeeded
<1>8. Releases!Show
  BY <1>1, <1>2, <1>5, <1>6, <1>7 DEF Releases!Show, Releases!SomeGivenUp, Succeeded
<1> QED
  BY <1>8 DEF Releases!Next

\* The thread that the loop waited for has done its batch.
LEMMA BatchConfirms ==
    ASSUME TypeOK, Landed, NEW t \in threads, BatchDone(t)
    PROVE  [Releases!Next]_Releases!vars
<1>1. /\ UNCHANGED <<waived, repoVars>> /\ threads' = threads \ {t} /\ loop' = NoLoop
      /\ task' = [a \in Attempts |-> IF a \in loop.tasks THEN "success" ELSE task[a]]
      /\ t.tasks = loop.tasks
  BY DEF BatchDone, EndBatch, gateVars, Waited
<1>2. UNCHANGED <<Cleared, uploaded, shown, Replaced>>
  BY <1>1 DEF Cleared, Replaced, repoVars
<1>3. Succeeded' = Succeeded \cup loop.tasks
  BY <1>1 DEF Succeeded, TypeOK
<1>4. loop.tasks \subseteq shown \cup Replaced
  BY DEF BatchDone, Waited, Finished, Landed
<1>5. Wanted' = Wanted
  <2>1. Wanted' \subseteq Wanted
    <3>1. loop.tasks \subseteq Wanted
      BY DEF Wanted
    <3> QED
      BY <1>1, <3>1, WantedHas, WantedShrinks DEF NoLoop
  <2>2. Wanted \subseteq Wanted'
    <3> SUFFICES ASSUME NEW a \in Wanted, a \notin loop.tasks PROVE a \in Wanted'
      BY <1>3, WantedTypes DEF Wanted, Succeeded
    <3>1. CASE task[a] \in {"pending", "running", "success"}
      BY <1>1, <3>1, WantedTypes DEF Wanted
    <3>2. CASE \E u \in threads : a \in u.tasks
      BY <1>1, <3>2 DEF Wanted
    <3> QED
      BY <3>1, <3>2 DEF Wanted
  <2> QED
    BY <2>1, <2>2
<1>6. Succeeded' \subseteq Wanted \cap (shown \cup Replaced)
  <2>1. Succeeded \subseteq Wanted /\ loop.tasks \subseteq Wanted
    BY DEF Succeeded, Wanted
  <2>2. Succeeded \subseteq shown \cup Replaced
    BY DEF Landed, SuccessIsPublished, Succeeded
  <2> QED
    BY <1>3, <1>4, <2>1, <2>2
<1>7. Releases!Confirm
  BY <1>2, <1>3, <1>5, <1>6 DEF Releases!Confirm, Succeeded
<1> QED
  BY <1>7 DEF Releases!Next

\* The steps of the loop, of its threads, and a restart.
LEMMA WorkReleases ==
    ASSUME TypeOK, TypeOK', Stocked, Stocked', Landed, Grows, Next,
           \/ Batch \/ LoadFails \/ ApiRestarts
           \/ \E t \in threads : Thread(t) \/ ThreadRaises(t)
    PROVE  [Releases!Next]_Releases!vars
<1>1. CASE \E t \in threads : ThreadPrunes(t)
  BY <1>1, PruneReleases
<1>2. CASE \E t \in threads : BatchDone(t)
  BY <1>2, BatchConfirms
<1>3. ASSUME NEW t \in threads, ThreadStages(t) \/ ThreadDescribes(t) \/ ThreadRaises(t)
      PROVE  [Releases!Next]_Releases!vars
  <2>1. UNCHANGED <<gateVars, task, loop, file, uploaded>>
        /\ \A u \in threads' : u \in threads \/ u.tasks = t.tasks
    BY <1>3, ThreadMoves DEF Thread
  <2>2. Wanted' \subseteq Wanted
    <3>1. loop.tasks \subseteq Wanted /\ \A a \in Attempts : task[a] \in {"pending", "running", "success"} => a \in Wanted
      BY DEF Wanted
    <3> QED
      BY <2>1, <3>1, WantedHas, WantedShrinks
  <2>3. CASE ThreadDescribes(t) /\ Describes(t)
    BY <2>2, <2>3, DescribeReleases
  <2>4. CASE UNCHANGED <<objects, shown>>
    BY <2>1, <2>2, <2>4, OnlyWithdraws DEF repoVars, gateVars
  <2> QED
    BY <1>3, <2>3, <2>4 DEF ThreadStages, ThreadDescribes, ThreadRaises, repoVars
<1>4. CASE Fetch \/ Start \/ LoadFails \/ ApiRestarts
  <2>1. UNCHANGED <<waived, repoVars>>
    BY <1>4 DEF Fetch, Start, LoadFails, ApiRestarts, gateVars
  <2>2. \A a \in Attempts : /\ task'[a] = "success" <=> task[a] = "success"
                            /\ task'[a] \in {"pending", "running"} => task[a] \in {"pending", "running"}
    BY <1>4 DEF Fetch, Start, LoadFails, ApiRestarts, Pending
  <2>3. loop'.tasks \subseteq loop.tasks \cup Pending
    BY <1>4 DEF Fetch, Start, LoadFails, ApiRestarts, NoLoop, TypeOK
  <2>4. \A u \in threads' : u \in threads \/ u.tasks = loop.tasks
    BY <1>4 DEF Fetch, Start, LoadFails, ApiRestarts
  <2>5. loop.tasks \cup Pending \subseteq Wanted
    BY DEF Wanted, Pending
  <2>6. Wanted' \subseteq Wanted
    BY <2>2, <2>3, <2>4, <2>5, WantedHas, WantedShrinks
  <2> QED
    BY <2>1, <2>2, <2>6, OnlyWithdraws
<1>5. ASSUME NEW t \in threads, BatchRaised(t) \/ BatchTimeout(t)
      PROVE  [Releases!Next]_Releases!vars
  <2>1. /\ UNCHANGED <<waived, repoVars>> /\ threads' \subseteq threads /\ loop'.tasks = {}
        /\ task' = [a \in Attempts |-> IF a \in loop.tasks THEN "failed" ELSE task[a]]
    BY <1>5 DEF BatchRaised, BatchTimeout, EndBatch, gateVars, NoLoop
  <2>2. \A a \in Attempts : task'[a] = "success" <=> task[a] = "success"
    BY <2>1 DEF Landed
  <2>3. Wanted' \subseteq Wanted
    BY <2>1, WantedHas, WantedShrinks
  <2> QED
    BY <2>1, <2>2, <2>3, OnlyWithdraws
<1> QED
  BY <1>1, <1>2, <1>3, <1>4, <1>5 DEF Batch, Thread

LEMMA StepReleases ==
    /\ TypeOK /\ TypeOK' /\ Stocked /\ Stocked' /\ Landed /\ Vetted /\ [Next]_vars
    => [Releases!Next]_Releases!vars
<1> SUFFICES ASSUME TypeOK, TypeOK', Stocked, Stocked', Landed, Vetted, [Next]_vars
             PROVE  [Releases!Next]_Releases!vars
  OBVIOUS
<1>1. Grows
  BY StepGrows
<1>2. CASE UNCHANGED vars
  <2>1. UNCHANGED <<waived, repoVars, task>> /\ Wanted' = Wanted
    BY <1>2 DEF vars, gateVars, taskVars, Wanted
  <2> QED
    BY <2>1, OnlyWithdraws
<1>3. CASE Next
  BY <1>1, <1>3, UploadReleases, GateReleases, WorkReleases DEF Next
<1> QED
  BY <1>2, <1>3

\* The pipeline implements Publication: a publish is asked for only once its job
\* is cleared, the metadata changes only on behalf of one, what is called a
\* success was shown or replaced, and none of it is taken back, whatever
\* restarts, retries, uploads and late threads there are.
THEOREM PipelineImplementsPublication == Spec => ImplementsPublication
<1>1. Init => Releases!Init
  BY DEF Init, Releases!Init, Cleared, Wanted, Replaced, NoLoop
<1> QED
  BY <1>1, StepReleases, InitTypes, StepTypes, InitStocked, StepStocked, InitLands, StepLands,
     InitVetted, StepVetted, PTL DEF Spec, ImplementsPublication, Releases!Spec

-----------------------------------------------------------------------------
(* The loop and its threads *)

\* The loop has a thread while it waits for one.  The tasks of the other threads
\* have failed, which is final: so they are not fetched again, and no two
\* threads share one.  One thread at a time has the prefix lock.
Served ==
    /\ loop.phase # "idle" => loop.tasks # {}
    /\ loop.phase = "running" => \E t \in threads : Waited(t)
    /\ loop.phase = "fetched" => \A t \in threads : t.tasks \cap loop.tasks = {}
    /\ \A t \in threads : Waited(t) \/ \A a \in t.tasks : task[a] = "failed"
    /\ \A t, u \in threads : t # u => t.tasks \cap u.tasks = {}
    /\ \A t, u \in threads : AtWork(t) /\ AtWork(u) => t = u

\* Whoever else writes a task leaves a failed one alone.
LEMMA TaskServed ==
    ASSUME TypeOK, Served, UNCHANGED <<loop, threads>>,
           \A a \in Attempts : task[a] = "failed" => task'[a] = "failed"
    PROVE  Served'
<1>1. \A t \in threads : t.tasks \subseteq Attempts
  BY DEF TypeOK, ThreadStates
<1>2. \A t : Waited(t)' <=> Waited(t)
  BY DEF Waited
<1> QED
  BY <1>1, <1>2 DEF Served, AtWork

LEMMA GateServed ==
    ASSUME TypeOK, Served,
           \/ \E a \in Attempts : Upload(a) \/ Report(a) \/ GateFails(a) \/ ScanStart(a) \/ TaskAges(a)
           \/ \E j \in Jobs : Retry(j) \/ ScanEnds(j) \/ Disregard(j) \/ CancelTasks(j)
           \/ RetryScans \/ Reclaim
    PROVE  Served'
<1>1. UNCHANGED <<loop, threads>>
  BY DEF Upload, Report, ReportLoad, ReportStore, ReportEnds, Gate, GateFails, ScanStart,
         TaskAges, Retry, ScanEnds, ScanVerdict, ScanMissing, ScanHeld, Disregard, CancelTasks,
         RetryScans, Reclaim, taskVars
<1>2. \A a \in Attempts : task[a] = "failed" => task'[a] = "failed"
  <2>1. CASE UNCHANGED task
    BY <2>1
  <2>2. CASE \E a : Enqueue(a)
    BY <2>2 DEF Enqueue, TypeOK
  <2>3. CASE \E j \in Jobs : ScanMissing(j)
    BY <2>3 DEF ScanMissing, Dropped, TypeOK
  <2>4. CASE (\E j \in Jobs : CancelTasks(j)) \/ Reclaim
    BY <2>4 DEF CancelTasks, Pending, Reclaim, Stuck
  <2> QED
    BY <2>1, <2>2, <2>3, <2>4
    DEF Upload, Report, ReportLoad, ReportStore, ReportEnds, Gate, GateFails, ScanStart,
        TaskAges, Retry, ScanEnds, ScanVerdict, ScanHeld, Disregard, RetryScans
<1> QED
  BY <1>1, <1>2, TaskServed

\* A thread that moves on keeps its tasks; only one that is given up goes away.
LEMMA ThreadServed ==
    ASSUME TypeOK, Served, NEW t \in threads, Thread(t) \/ ThreadRaises(t)
    PROVE  Served'
<1>1. UNCHANGED <<loop, task>>
  BY ThreadMoves
<1>2. PICK n : /\ n.tasks = t.tasks
               /\ \/ threads' = (threads \ {t}) \cup {n}
                  \/ ~Waited(t) /\ threads' = threads \ {t}
               /\ AtWork(n) => \A u \in threads \ {t} : ~AtWork(u)
  <2>1. CASE ThreadStages(t)
    <3>1. PICK n : n = [t EXCEPT !.phase = "staged", !.staged = FilesOf(t.tasks) \cap Stored]
      OBVIOUS
    <3>2. n.tasks = t.tasks
      BY <3>1 DEF TypeOK, ThreadStates
    <3> QED
      BY <2>1, <3>1, <3>2 DEF ThreadStages
  <2>2. CASE ThreadPrunes(t)
    <3>1. PICK n : n = [t EXCEPT !.phase = "pruned"]
      OBVIOUS
    <3>2. n.tasks = t.tasks
      BY <3>1 DEF TypeOK, ThreadStates
    <3>3. threads' = (threads \ {t}) \cup {n}
      BY <2>2, <3>1 DEF ThreadPrunes
    <3>4. \A u \in threads \ {t} : ~AtWork(u)
      BY <2>2 DEF ThreadPrunes, AtWork, Served
    <3> QED
      BY <3>2, <3>3, <3>4
  <2>3. CASE ThreadDescribes(t) \/ ThreadRaises(t)
    <3>1. PICK p \in {"done", "raised"} : Leave(t, p)
      BY <2>3 DEF ThreadDescribes, ThreadRaises
    <3>2. PICK n : n = [t EXCEPT !.phase = p]
      OBVIOUS
    <3>3. n.tasks = t.tasks /\ n.phase = p
      BY <3>2 DEF TypeOK, ThreadStates
    <3>4. \/ threads' = (threads \ {t}) \cup {n}
          \/ ~Waited(t) /\ threads' = threads \ {t}
      BY <3>1, <3>2 DEF Leave
    <3> QED
      BY <3>3, <3>4 DEF AtWork
  <2> QED
    BY <2>1, <2>2, <2>3 DEF Thread
<1>5. \A u \in threads' : u = n \/ (u \in threads /\ u # t)
  BY <1>2
<1>6. \A u : Waited(u)' <=> Waited(u)
  BY <1>1 DEF Waited
<1>7. Waited(n) <=> Waited(t)
  BY <1>2 DEF Waited
<1>8. \A u \in threads' : \E v \in threads : u.tasks = v.tasks /\ (Waited(v) => Waited(u))
  BY <1>2, <1>5, <1>7
<1>9. loop'.phase = "running" => \E u \in threads' : Waited(u)'
  <2> SUFFICES ASSUME loop.phase = "running"
               PROVE  \E u \in threads' : Waited(u)
    BY <1>1, <1>6
  <2>1. PICK u \in threads : Waited(u)
    BY DEF Served
  <2> QED
    BY <1>2, <1>7, <2>1
<1>10. \A u, v \in threads' : u # v => u.tasks \cap v.tasks = {}
  BY <1>2, <1>5 DEF Served
<1>11. \A u, v \in threads' : AtWork(u) /\ AtWork(v) => u = v
  BY <1>2, <1>5 DEF Served
<1>12. \A u \in threads' : Waited(u)' \/ \A a \in u.tasks : task'[a] = "failed"
  BY <1>1, <1>6, <1>8 DEF Served
<1>13. loop'.phase = "fetched" => \A u \in threads' : u.tasks \cap loop'.tasks = {}
  BY <1>1, <1>8 DEF Served
<1> QED
  BY <1>1, <1>9, <1>10, <1>11, <1>12, <1>13 DEF Served, AtWork

\* The end of a batch: no other thread has the loop's tasks.
LEMMA BatchServed ==
    ASSUME TypeOK, Served, NEW t \in threads,
           BatchDone(t) \/ BatchRaised(t) \/ BatchTimeout(t)
    PROVE  Served'
<1>1. Waited(t) /\ loop' = NoLoop /\ loop.tasks # {}
  BY DEF BatchDone, BatchRaised, BatchTimeout, EndBatch, Served, Waited
<1>2. \A u \in threads \ {t} : u.tasks \cap loop.tasks = {}
  BY <1>1 DEF Served, Waited
<1>3. \A u \in threads \ {t} : \A a \in u.tasks : a \in Attempts /\ task[a] = "failed"
  BY <1>1, <1>2 DEF Served, Waited, TypeOK, ThreadStates
<1>4. t.tasks = loop.tasks /\ t.tasks \subseteq Attempts
  BY <1>1 DEF Waited, TypeOK
<1>5. PICK status \in {"success", "failed"} :
         /\ task' = [a \in Attempts |-> IF a \in loop.tasks THEN status ELSE task[a]]
         /\ threads' = threads \ {t} \/ (threads' = threads /\ status = "failed")
  BY DEF BatchDone, BatchRaised, BatchTimeout, EndBatch
<1>6. \A u \in threads' : \A a \in u.tasks : task'[a] = "failed"
  BY <1>2, <1>3, <1>4, <1>5
<1>7. threads' \subseteq threads
  BY <1>5
<1> QED
  BY <1>1, <1>6, <1>7 DEF Served, NoLoop, AtWork

LEMMA LoopServed ==
    ASSUME TypeOK, Served, Fetch \/ Start \/ LoadFails \/ ApiRestarts
    PROVE  Served'
<1>1. CASE Fetch
  <2>1. \A t \in threads : ~Waited(t) /\ ~Waited(t)'
    BY <1>1 DEF Fetch, Waited
  <2>2. \A t \in threads : \A a \in t.tasks : task[a] = "failed"
    BY <2>1 DEF Served
  <2>3. \A t \in threads : t.tasks \cap Pending = {}
    BY <2>2 DEF Pending
  <2>4. loop' = [phase |-> "fetched", tasks |-> Pending] /\ Pending # {}
        /\ UNCHANGED <<task, threads>>
    BY <1>1 DEF Fetch
  <2>5. loop'.phase = "fetched" /\ loop'.tasks = Pending
    BY <2>4
  <2> QED
    BY <2>2, <2>3, <2>4, <2>5 DEF Served, AtWork
<1>2. CASE Start
  <2>1. PICK n : n = [tasks |-> loop.tasks, phase |-> "waiting", staged |-> {}]
    OBVIOUS
  <2>2. /\ threads' = threads \cup {n}
        /\ loop'.phase = "running" /\ loop'.tasks = loop.tasks
        /\ \A a \in Attempts : task'[a] = IF a \in loop.tasks \cap Pending THEN "running" ELSE task[a]
        /\ loop.phase = "fetched"
    BY <1>2, <2>1 DEF Start, TypeOK
  <2>3. n.tasks = loop.tasks /\ n.phase = "waiting"
    BY <2>1
  <2>4. Waited(n)'
    BY <2>2, <2>3 DEF Waited
  <2>5. \A t \in threads : /\ t.tasks \cap n.tasks = {}
                           /\ \A a \in t.tasks : a \in Attempts /\ task[a] = "failed"
    BY <2>2, <2>3 DEF Served, Waited, TypeOK, ThreadStates
  <2>6. \A t \in threads : \A a \in t.tasks : task'[a] = "failed"
    BY <2>2, <2>3, <2>5
  <2>7. loop'.tasks # {}
    BY <2>2 DEF Served
  <2>8. \A t, u \in threads' : t # u => t.tasks \cap u.tasks = {}
    BY <2>2, <2>5 DEF Served
  <2>9. \A t, u \in threads' : AtWork(t) /\ AtWork(u) => t = u
    BY <2>2, <2>3 DEF Served, AtWork
  <2> QED
    BY <2>2, <2>4, <2>6, <2>7, <2>8, <2>9 DEF Served, AtWork
<1>3. CASE LoadFails
  <2>1. \A t \in threads : \A a \in t.tasks : task[a] = "failed"
    BY <1>3 DEF LoadFails, Served, Waited
  <2> QED
    BY <1>3, <2>1 DEF LoadFails, NoLoop, Served, AtWork
<1>4. CASE ApiRestarts
  BY <1>4 DEF ApiRestarts, NoLoop, Served
<1> QED
  BY <1>1, <1>2, <1>3, <1>4

LEMMA StepServed == TypeOK /\ Served /\ [Next]_vars => Served'
<1> SUFFICES ASSUME TypeOK, Served, [Next]_vars PROVE Served'
  OBVIOUS
<1>1. CASE UNCHANGED vars
  BY <1>1, TaskServed DEF vars, taskVars
<1>2. CASE Next
  BY <1>2, GateServed, ThreadServed, BatchServed, LoopServed DEF Next, Batch
<1> QED
  BY <1>1, <1>2

LEMMA InitServed == Init => Served
  BY DEF Init, NoLoop, Served

\* No two publish threads have a task in common or work at the same time.
ThreadsApart ==
    \A t, u \in threads : t # u => t.tasks \cap u.tasks = {} /\ ~(AtWork(t) /\ AtWork(u))

\* Tasks that wait are fetched, and a loop that has some can start them or end
\* the batch, by its thread's end or the time limit.
PublisherGoesOn ==
    Pending # {} \/ loop.phase # "idle" =>
        \/ loop.phase = "idle" /\ Pending # {}
        \/ loop.phase = "fetched"
        \/ \E t \in threads : Waited(t) /\ (Finished(t) \/ t.phase = "raised" \/ Late(t))

\* A task is never published by two threads at once, although the loop gives
\* threads up without stopping them, stuck tasks are queued again, and marks are
\* written without a condition.
THEOREM OneThreadPerTask == Spec => []ThreadsApart
<1>1. Served => ThreadsApart
  BY DEF Served, ThreadsApart
<1> QED
  BY <1>1, InitTypes, StepTypes, InitServed, StepServed, PTL DEF Spec

\* The publish loop never waits for a thread that is gone.
THEOREM LoopNeverStuck == Spec => []PublisherGoesOn
<1>1. TypeOK /\ Served => PublisherGoesOn
  BY DEF Served, PublisherGoesOn, Finished, Late, TypeOK
<1> QED
  BY <1>1, InitTypes, StepTypes, InitServed, StepServed, PTL DEF Spec
=============================================================================
