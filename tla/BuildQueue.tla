----------------------------- MODULE BuildQueue -----------------------------
(***************************************************************************)
(* The build queue of the controller: rows of build_jobs, build_attempts   *)
(* and workers, and every transaction that moves a build along.            *)
(*                                                                         *)
(* Sessions run with autoflush off and no isolation beyond READ COMMITTED, *)
(* so a handler that reads rows, awaits, and writes them back later writes *)
(* from what it read.  Such a handler is two steps here: a Load step that  *)
(* fixes what will be written and a later Commit or Store step.  A handler *)
(* whose rows are locked from its first read is one step.  report_result   *)
(* commits several times; each commit is a step.                           *)
(***************************************************************************)
EXTENDS Integers, FiniteSets

CONSTANTS
    Jobs,          \* build jobs; a behaviour creates some of them, pending
    Workers,       \* build workers; in a behaviour some of them are enrolled
    Admins,        \* concurrent user requests (retry, cancel, bootstrap)
    Sweeper,       \* the controller's one sweep task
    MaxAttempts,   \* bound: rows ever inserted into build_attempts
    MaxParallel,   \* per worker, the max_jobs it declared
    TwoPass,       \* jobs planned with a bootstrap pass and next_profile
    Verdicts,      \* per job, the statuses a worker may post as its result
    Wakes,         \* per job, the jobs whose missing capabilities it provides
    MaxOps,        \* bound: user requests
    MaxFaults,     \* bound: crashes, lost replies, failed requests
    None           \* no attempt, no worker, no write

AttemptIds == 1..MaxAttempts
Sessions   == Admins \cup {Sweeper}

Terminal  == {"success", "failed", "cancelled", "skipped"}
Closed    == Terminal \cup {"blocked"}
JobStatus == Closed \cup {"none", "pending", "running"}   \* "none": no row

ASSUME QueueAssumption ==
    /\ MaxAttempts \in Nat /\ MaxOps \in Nat /\ MaxFaults \in Nat
    /\ MaxParallel \in [Workers -> Nat \ {0}]
    /\ TwoPass \subseteq Jobs
    /\ Verdicts \in [Jobs -> SUBSET Closed]
    /\ Wakes \in [Jobs -> SUBSET Jobs]
    /\ Sweeper \notin Admins
    /\ None \notin AttemptIds \cup Jobs \cup Workers
    /\ None \notin JobStatus

VARIABLES
    job,        \* [Jobs -> status, next (a further pass is planned), overdue]
    att,        \* [AttemptIds -> status, job, worker, overdue], "none" = no row
    lastId,     \* the attempt sequence
    worker,     \* [Workers -> state ("none": not enrolled), cur]
    uploaded,   \* attempts with rows in artifacts
    finalized,  \* attempts with a row in build_attempt_finalizations
    gated,      \* attempts handed to the publish gate
    report,     \* per attempt, the report_result request being served
    session,    \* the other open transactions and what they will write
    agent,      \* per attempt, the worker's build thread: building, or the
                \* status it is posting, or done with the attempt
    ops, faults \* bounded counters

dbVars == <<job, att, lastId, worker, uploaded, finalized, gated>>
vars   == <<dbVars, report, session, agent, ops, faults>>

NoWrites == [open |-> FALSE, jobs |-> [j \in Jobs |-> None],
             atts |-> [a \in AttemptIds |-> None], boot |-> {}]
NoReport == [phase |-> "idle", says |-> "none", snap |-> "pending", next |-> FALSE]

Init ==
    /\ \E queued \in SUBSET Jobs :
          job = [j \in Jobs |-> [status  |-> IF j \in queued THEN "pending" ELSE "none",
                                 next    |-> j \in TwoPass,
                                 overdue |-> FALSE]]
    /\ att = [a \in AttemptIds |-> [status |-> "none", job |-> None,
                                    worker |-> None, overdue |-> FALSE]]
    /\ lastId = 0
    /\ \E enrolled \in SUBSET Workers :
          worker = [w \in Workers |-> [state |-> IF w \in enrolled THEN "offline" ELSE "none",
                                       cur   |-> None]]
    /\ uploaded = {} /\ finalized = {} /\ gated = {}
    /\ report = [a \in AttemptIds |-> NoReport]
    /\ session = [s \in Sessions |-> NoWrites]
    /\ agent = [a \in AttemptIds |-> "none"]
    /\ ops \in 0..MaxOps /\ faults \in 0..MaxFaults

-----------------------------------------------------------------------------
(* Helpers *)

Running(at)       == {a \in AttemptIds : at[a].status = "running"}
RunningOn(at, w)  == {a \in Running(at) : at[a].worker = w}
RunningFor(at, j) == {a \in Running(at) : at[a].job = j}
RowsOf(at, j)     == {a \in AttemptIds : at[a].status # "none" /\ at[a].job = j}

\* ORDER BY id DESC LIMIT 1, None when there is no row.
Newest(S) == IF S = {} THEN None ELSE CHOOSE a \in S : \A b \in S : b <= a

\* The unit of work emits a column only when it differs from the value loaded.
Emit(loaded, new) == IF loaded = new THEN None ELSE new
Apply(row, write) == IF write = None THEN row ELSE write

\* Any UPDATE of a build_jobs row refreshes updated_at.
JobRow(status, next) == [status |-> status, next |-> next, overdue |-> FALSE]

\* The age of an attempt is looked at while it runs only.
Ends(row, status) == [row EXCEPT !.status = status, !.overdue = FALSE]

Fault == faults < MaxFaults /\ faults' = faults + 1

\* sync_worker_state_after_attempt_finished, from the attempts at.
Synced(at, w) ==
    LET newest == Newest(RunningOn(at, w))
    IN  [state |-> IF newest = None THEN "idle" ELSE "busy", cur |-> newest]

-----------------------------------------------------------------------------
(* Worker presence and poll_job *)

Heartbeat(w) ==
    /\ worker[w].state = "offline"
    /\ worker' = [worker EXCEPT ![w].state = "idle"]
    /\ UNCHANGED <<job, att, lastId, uploaded, finalized, gated, report,
                   session, agent, ops, faults>>

\* What poll_job makes of the locked worker row before it looks for work.
Polled(w) ==
    LET busy == Cardinality(RunningOn(att, w))
        row  == [worker[w] EXCEPT !.state = IF @ = "offline" THEN "idle" ELSE @]
        cur  == IF row.cur = None THEN Newest(RunningOn(att, w)) ELSE row.cur
    IN  IF busy = 0
        THEN IF row.state = "busy" THEN [state |-> "idle", cur |-> None] ELSE row
        ELSE IF busy >= MaxParallel[w] \/ row.cur = None
             THEN [state |-> "busy", cur |-> cur] ELSE row

\* Mutant: one attempt too many.
HasRoomOffByOne(w) == Cardinality(RunningOn(att, w)) <= MaxParallel[w]
HasRoom(w) == Cardinality(RunningOn(att, w)) < MaxParallel[w]

\* Mutant: the job's status alone decides.
ClaimableByStatus(j) == job[j].status = "pending"
Claimable(j) == job[j].status = "pending" /\ RunningFor(att, j) = {}

PollNothing(w) ==
    /\ worker[w].state # "none"
    /\ ~HasRoom(w) \/ ~\E j \in Jobs : Claimable(j)
    /\ worker[w] # Polled(w)
    /\ worker' = [worker EXCEPT ![w] = Polled(w)]
    /\ UNCHANGED <<job, att, lastId, uploaded, finalized, gated, report,
                   session, agent, ops, faults>>

PollClaim(w, j) ==
    LET a == lastId + 1
    IN  /\ lastId < MaxAttempts
        /\ worker[w].state # "none" /\ HasRoom(w)
        /\ Claimable(j)
        /\ job' = [job EXCEPT ![j] = JobRow("running", @.next)]
        /\ att' = [att EXCEPT ![a] = [status |-> "running", job |-> j,
                                      worker |-> w, overdue |-> FALSE]]
        /\ lastId' = a
        /\ worker' = [worker EXCEPT ![w] = [state |-> "busy", cur |-> a]]
        /\ \/ agent' = [agent EXCEPT ![a] = "building"] /\ UNCHANGED faults
           \/ agent' = [agent EXCEPT ![a] = "done"] /\ Fault  \* reply lost
        /\ UNCHANGED <<uploaded, finalized, gated, report, session,
                       ops>>

-----------------------------------------------------------------------------
(* The worker's build thread, one per claimed attempt *)

\* An RPM uploaded and registered; refused once the job is cancelled.
Upload(a) ==
    /\ agent[a] = "building"
    /\ a \notin uploaded
    /\ job[att[a].job].status # "cancelled"
    /\ uploaded' = uploaded \cup {a}
    /\ UNCHANGED <<job, att, lastId, worker, finalized, gated, report, session,
                   agent, ops, faults>>

CancelRequested(a) ==
    \/ job[att[a].job].status = "cancelled"
    \/ att[a].status = "cancelled"

\* The thread ends its build and starts posting the result.
Decide(a, v) ==
    /\ agent[a] = "building"
    /\ v \in Verdicts[att[a].job]
    /\ v = "success" => a \in uploaded
    /\ v = "cancelled" => CancelRequested(a)
    /\ agent' = [agent EXCEPT ![a] = v]
    /\ UNCHANGED <<dbVars, report, session, ops, faults>>

\* Every retry of the post failed on the wire: the thread posts "failed".
Orphan(a) ==
    /\ agent[a] \in Closed \ {"failed"}
    /\ agent' = [agent EXCEPT ![a] = "failed"]
    /\ Fault
    /\ UNCHANGED <<dbVars, report, session, ops>>

\* The worker process dies with all its threads; restarted, it knows of none.
WorkerDies(w) ==
    LET lost == {a \in AttemptIds : /\ att[a].worker = w
                                    /\ agent[a] \notin {"none", "done"}}
    IN  /\ lost # {}
        /\ agent' = [a \in AttemptIds |-> IF a \in lost THEN "done" ELSE agent[a]]
        /\ Fault
        /\ UNCHANGED <<dbVars, report, session, ops>>

-----------------------------------------------------------------------------
(* report_result *)

\* The thread stops on any HTTP answer, and posts again when none arrives.
Answered(a) ==
    \/ agent' = [agent EXCEPT ![a] = "done"] /\ UNCHANGED faults
    \/ agent[a] \in Closed /\ Fault /\ UNCHANGED agent

Goto(a, phase) == report' = [report EXCEPT ![a] = [NoReport EXCEPT !.phase = phase]]
Ended(a)       == Goto(a, "idle")

\* The attempt row is locked and read, the job row only read.
ReportLoad(a) ==
    /\ agent[a] \in Closed
    /\ report[a].phase = "idle"
    /\ a \notin finalized
    /\ report' = [report EXCEPT ![a] = [phase |-> "loaded",
                                        says  |-> agent[a],
                                        snap  |-> job[att[a].job].status,
                                        next  |-> job[att[a].job].next]]
    /\ UNCHANGED <<dbVars, session, agent, ops, faults>>

ReportAlreadyFinalized(a) ==
    /\ agent[a] \in Closed
    /\ report[a].phase = "idle"
    /\ a \in finalized
    /\ Answered(a)
    /\ UNCHANGED <<dbVars, report, session, ops>>

\* Mutant: the attempt of a cancelled job is left as it is.
CancelledRowKept(row) == row
CancelledRow(row) == IF row.status = "running" THEN Ends(row, "cancelled") ELSE row

ReportJobCancelled(a) ==
    /\ report[a].phase = "loaded"
    /\ report[a].snap = "cancelled"
    /\ att' = [att EXCEPT ![a] = CancelledRow(@)]
    /\ worker' = [worker EXCEPT ![att[a].worker] = Synced(att', att[a].worker)]
    /\ finalized' = finalized \cup {a}
    /\ Ended(a)
    /\ Answered(a)
    /\ UNCHANGED <<job, lastId, uploaded, gated, session, ops>>

\* What the first commit leaves in the attempt, the job and the worker.
StoreRows(a, attStatus, jobStatus, next) ==
    LET j == att[a].job
    IN  /\ att' = [att EXCEPT ![a] = Ends(@, attStatus)]
        /\ job' = [job EXCEPT ![j] =
               JobRow(Apply(@.status, Emit(report[a].snap, jobStatus)), next)]
        /\ worker' = [worker EXCEPT ![att[a].worker] =
               Synced(att', att[a].worker)]

ReportBlocked(a) ==
    /\ report[a].phase = "loaded"
    /\ report[a].snap # "cancelled"
    /\ report[a].says = "blocked"
    /\ StoreRows(a, "blocked", "blocked", job[att[a].job].next)
    /\ Ended(a)
    /\ Answered(a)
    /\ UNCHANGED <<lastId, uploaded, finalized, gated, session, ops>>

\* Mutant: any failed report counts.
StaleFailureAny(a) == report[a].says = "failed"
\* A failed report of an attempt that holds artifacts.
StaleFailure(a) == report[a].says = "failed" /\ a \in uploaded

ReportIgnored(a) ==
    /\ report[a].phase = "loaded"
    /\ report[a].snap # "cancelled"
    /\ StaleFailure(a) /\ att[a].status = "success"
    /\ Ended(a)
    /\ Answered(a)
    /\ UNCHANGED <<dbVars, session, ops>>

ReportRepair(a) ==
    /\ report[a].phase = "loaded"
    /\ report[a].snap # "cancelled"
    /\ StaleFailure(a) /\ att[a].status = "failed"
    /\ StoreRows(a, "success", "success", job[att[a].job].next)
    /\ Goto(a, "repaired")
    /\ UNCHANGED <<lastId, uploaded, finalized, gated, session, agent, ops,
                   faults>>

\* A success with a further pass planned queues the job for that pass.
PassAgain(a) == report[a].says = "success" /\ report[a].next

\* Mutant: a pass that is not the last is not published.
LastPassGated(a) ==
    IF report[a].says = "success" /\ ~PassAgain(a) THEN "stored" ELSE "woken"
AfterStore(a) == IF report[a].says = "success" THEN "stored" ELSE "woken"

ReportStore(a) ==
    /\ report[a].phase = "loaded"
    /\ report[a].snap # "cancelled"
    /\ report[a].says # "blocked"
    /\ ~(StaleFailure(a) /\ att[a].status \in {"success", "failed"})
    /\ StoreRows(a, report[a].says,
                 IF PassAgain(a) THEN "pending" ELSE report[a].says,
                 ~PassAgain(a) /\ job[att[a].job].next)
    /\ Goto(a, AfterStore(a))
    /\ UNCHANGED <<lastId, uploaded, finalized, gated, session, agent, ops,
                   faults>>

\* gate_publish commits; an exception in this block is logged and rolled back.
ReportGate(a) ==
    /\ report[a].phase \in {"stored", "repaired"}
    /\ \/ gated' = gated \cup {a} /\ UNCHANGED faults
       \/ report[a].phase = "stored" /\ Fault /\ UNCHANGED gated
    /\ Goto(a, IF report[a].phase = "stored" THEN "gated" ELSE "woken")
    /\ UNCHANGED <<job, att, lastId, worker, uploaded, finalized, session,
                   agent, ops>>

\* wake_blocked_jobs for what the new packages provide.
ReportWake(a) ==
    /\ report[a].phase = "gated"
    /\ \/ /\ job' = [j \in Jobs |->
                     IF j \in Wakes[att[a].job] /\ job[j].status = "blocked"
                     THEN JobRow("pending", job[j].next) ELSE job[j]]
          /\ UNCHANGED faults
       \/ Fault /\ UNCHANGED job   \* logged and rolled back
    /\ Goto(a, "woken")
    /\ UNCHANGED <<att, lastId, worker, uploaded, finalized, gated, session,
                   agent, ops>>

ReportFinish(a) ==
    /\ report[a].phase = "woken"
    /\ finalized' = finalized \cup {a}
    /\ Ended(a)
    /\ Answered(a)
    /\ UNCHANGED <<job, att, lastId, worker, uploaded, gated, session,
                   ops>>

\* An exception outside the guarded blocks: HTTP 500, not retried by the worker.
ReportFails(a) ==
    /\ report[a].phase # "idle"
    /\ Ended(a)
    /\ agent' = [agent EXCEPT ![a] = "done"]
    /\ Fault
    /\ UNCHANGED <<dbVars, session, ops>>

Report(a) ==
    \/ ReportLoad(a) \/ ReportAlreadyFinalized(a) \/ ReportJobCancelled(a)
    \/ ReportBlocked(a) \/ ReportIgnored(a) \/ ReportRepair(a)
    \/ ReportStore(a) \/ ReportGate(a) \/ ReportWake(a) \/ ReportFinish(a)

-----------------------------------------------------------------------------
(* User requests: the checks and reads, then the writes *)

Open(s, writes) ==
    /\ ~session[s].open
    /\ session' = [session EXCEPT ![s] = writes]
    /\ UNCHANGED <<dbVars, report, agent, faults>>

AdminOpens(s, writes) == ops < MaxOps /\ ops' = ops + 1 /\ Open(s, writes)

Writing(j, status, S, boot) ==
    [open |-> TRUE, boot |-> boot,
     jobs |-> [i \in Jobs |-> IF i = j THEN status ELSE None],
     atts |-> [a \in AttemptIds |-> IF a \in S THEN "cancelled" ELSE None]]

RetryLoad(s, j) ==
    /\ job[j].status \in Terminal
    /\ RunningFor(att, j) = {}
    /\ AdminOpens(s, Writing(j, "pending", {}, {}))

CancelLoad(s, j) ==
    /\ job[j].status \in {"pending", "running"}
    /\ AdminOpens(s, Writing(j, "cancelled", RunningFor(att, j), {}))

\* apply_bootstrap_to_job has no condition on the job.
BootstrapLoad(s, j) ==
    /\ job[j].status # "none"
    /\ AdminOpens(s, Writing(j, Emit(job[j].status, "pending"), {}, {j}))

-----------------------------------------------------------------------------
(* The sweep: reconcile_queue_inconsistencies, then the two stale policies *)

WithStatus(rows, S, status) ==
    [x \in DOMAIN rows |-> IF x \in S THEN [rows[x] EXCEPT !.status = status[x]]
                                      ELSE rows[x]]

\* RUNNING jobs without a RUNNING attempt take the status of their latest one.
OrphanJobs(jb, at) == {j \in Jobs : jb[j].status = "running" /\ RunningFor(at, j) = {}}
FixedJobs(jb, at) ==
    WithStatus(jb, OrphanJobs(jb, at),
        [j \in Jobs |-> IF RowsOf(at, j) = {} THEN "failed"
                        ELSE at[Newest(RowsOf(at, j))].status])

\* RUNNING attempts of a reopened or a terminal job are closed.
OrphanAttempts(jb, at) ==
    {a \in Running(at) : jb[at[a].job].status \in Terminal \cup {"pending"}}
\* Mutant: the attempt takes whatever status the job has.
FixedAttemptsCopied(jb, at) ==
    WithStatus(at, OrphanAttempts(jb, at),
        [a \in OrphanAttempts(jb, at) |-> jb[at[a].job].status])
FixedAttempts(jb, at) ==
    WithStatus(at, OrphanAttempts(jb, at),
        [a \in OrphanAttempts(jb, at) |->
            CASE jb[at[a].job].status = "pending" -> "cancelled"
              [] jb[at[a].job].status = "success" -> "failed"
              [] OTHER -> jb[at[a].job].status])

\* Mutant: attempts of a worker that looks busy are spared.
StaleAttemptsIdle(at) ==
    {a \in Running(at) : at[a].overdue /\ worker[at[a].worker].state # "busy"}
StaleAttempts(at) == {a \in Running(at) : at[a].overdue}
StaleJobs(jb, at) ==
    {j \in Jobs : \/ jb[j].status = "pending" /\ jb[j].overdue
                  \/ /\ jb[j].status = "running"
                     /\ \E a \in StaleAttempts(at) : at[a].job = j}

SweptJobs(jb, at) ==
    LET fixed == FixedJobs(jb, at)
    IN  WithStatus(fixed, StaleJobs(fixed, FixedAttempts(fixed, at)),
                   [j \in Jobs |-> "failed"])
SweptAttempts(jb, at) ==
    LET fixed == FixedAttempts(FixedJobs(jb, at), at)
    IN  WithStatus(fixed, StaleAttempts(fixed), [a \in AttemptIds |-> "failed"])

\* Worker rows: BUSY without work, or pointing at a terminal attempt.
Reconciled(at, w) ==
    LET row    == worker[w]
        newest == Newest(RunningOn(at, w))
    IN  IF row.state = "busy" /\ newest = None THEN [state |-> "idle", cur |-> None]
        ELSE IF row.cur # None /\ at[row.cur].status \in Terminal
             THEN [state |-> IF newest # None THEN "busy" ELSE row.state,
                   cur   |-> newest]
             ELSE row

SweepLoad ==
    LET jb == SweptJobs(job, att)
        at == SweptAttempts(job, att)
    IN  /\ \/ jb # job
           \/ at # att
           \/ \E w \in Workers : Reconciled(att, w) # worker[w]
        /\ Open(Sweeper,
             [open |-> TRUE, boot |-> {},
              jobs |-> [j \in Jobs |-> Emit(job[j].status, jb[j].status)],
              atts |-> [a \in AttemptIds |-> Emit(att[a].status, at[a].status)]])
        /\ UNCHANGED ops

-----------------------------------------------------------------------------
(* Flush and commit of an open session *)

\* UPDATE of an attempt row waits for a report_result that holds its lock.
Unlocked(s) == \A a \in AttemptIds :
                  session[s].atts[a] # None => report[a].phase # "loaded"

CommittedJobs(s) ==
    [j \in Jobs |->
        IF session[s].jobs[j] = None /\ j \notin session[s].boot THEN job[j]
        ELSE JobRow(Apply(job[j].status, session[s].jobs[j]),
                    job[j].next \/ j \in session[s].boot)]
CommittedAttempts(s) ==
    [a \in AttemptIds |->
        IF session[s].atts[a] = None THEN att[a]
        ELSE Ends(att[a], session[s].atts[a])]

\* Workers whose attempt this session closes are synced; the sweep also
\* reconciles the others.
CommittedWorkers(s, at) ==
    [w \in Workers |->
        IF \E a \in AttemptIds : session[s].atts[a] # None /\ att[a].worker = w
        THEN Synced(at, w)
        ELSE IF s = Sweeper THEN Reconciled(at, w) ELSE worker[w]]

Commit(s) ==
    /\ session[s].open
    /\ Unlocked(s)
    /\ job' = CommittedJobs(s)
    /\ att' = CommittedAttempts(s)
    /\ worker' = CommittedWorkers(s, CommittedAttempts(s))
    /\ session' = [session EXCEPT ![s] = NoWrites]
    /\ UNCHANGED <<lastId, uploaded, finalized, gated, report, agent, ops,
                   faults>>

\* A failed or deadlocked transaction leaves nothing behind.
Rollback(s) ==
    /\ session[s].open
    /\ session' = [session EXCEPT ![s] = NoWrites]
    /\ Fault
    /\ UNCHANGED <<dbVars, report, agent, ops>>

\* The API process restarts: every open transaction is rolled back, every
\* worker thread that was waiting for an answer posts again.
ApiRestarts ==
    /\ \/ \E a \in AttemptIds : report[a].phase # "idle"
       \/ \E s \in Sessions : session[s].open
    /\ report' = [a \in AttemptIds |-> NoReport]
    /\ session' = [s \in Sessions |-> NoWrites]
    /\ Fault
    /\ UNCHANGED <<dbVars, agent, ops>>

-----------------------------------------------------------------------------
(* Time: a running attempt or a queued job grows older than its policy *)

AttemptOverdue(a) ==
    /\ att[a].status = "running" /\ ~att[a].overdue
    /\ att' = [att EXCEPT ![a].overdue = TRUE]
    /\ UNCHANGED <<job, lastId, worker, uploaded, finalized, gated, report,
                   session, agent, ops, faults>>

JobOverdue(j) ==
    /\ job[j].status = "pending" /\ ~job[j].overdue
    /\ job' = [job EXCEPT ![j].overdue = TRUE]
    /\ UNCHANGED <<att, lastId, worker, uploaded, finalized, gated, report,
                   session, agent, ops, faults>>

-----------------------------------------------------------------------------
Poll(w)   == Heartbeat(w) \/ PollNothing(w) \/ \E j \in Jobs : PollClaim(w, j)
Thread(a) == Upload(a) \/ (\E v \in Closed : Decide(a, v)) \/ Orphan(a)
Admin(s)  == \E j \in Jobs : RetryLoad(s, j) \/ CancelLoad(s, j) \/ BootstrapLoad(s, j)
Time      == (\E a \in AttemptIds : AttemptOverdue(a)) \/ (\E j \in Jobs : JobOverdue(j))

Next ==
    \/ \E w \in Workers : Poll(w) \/ WorkerDies(w)
    \/ \E a \in AttemptIds : Thread(a) \/ Report(a) \/ ReportFails(a)
    \/ \E s \in Admins : Admin(s)
    \/ SweepLoad
    \/ \E s \in Sessions : Commit(s) \/ Rollback(s)
    \/ ApiRestarts
    \/ Time

Spec == Init /\ [][Next]_vars

\* The API serves a request it began and the sweep loop runs for ever; time
\* passes.  Nothing is asked of workers, users or the network.
Fairness ==
    /\ WF_vars(\E a \in AttemptIds : Report(a))
    /\ \A s \in Sessions : WF_vars(Commit(s))
    /\ WF_vars(Time)
    /\ WF_vars(SweepLoad)

FairSpec == Spec /\ Fairness

-----------------------------------------------------------------------------
(* Properties *)

JobRows      == [status : JobStatus, next : BOOLEAN, overdue : BOOLEAN]
AttemptRows  == [status  : Closed \cup {"none", "running"},
                 job     : Jobs \cup {None},
                 worker  : Workers \cup {None},
                 overdue : BOOLEAN]
WorkerRows   == [state : {"none", "offline", "idle", "busy"}, cur : AttemptIds \cup {None}]
Requests     == [phase : {"idle", "loaded", "stored", "repaired", "gated", "woken"},
                 says  : Closed \cup {"none"},
                 snap  : JobStatus,
                 next  : BOOLEAN]
Transactions == [open : BOOLEAN,
                 boot : SUBSET Jobs,
                 jobs : [Jobs -> JobStatus \cup {None}],
                 atts : [AttemptIds -> Closed \cup {None}]]

TypeOK ==
    /\ job \in [Jobs -> JobRows]
    /\ att \in [AttemptIds -> AttemptRows]
    /\ lastId \in 0..MaxAttempts
    /\ worker \in [Workers -> WorkerRows]
    /\ uploaded \subseteq AttemptIds
    /\ finalized \subseteq AttemptIds
    /\ gated \subseteq AttemptIds
    /\ report \in [AttemptIds -> Requests]
    /\ session \in [Sessions -> Transactions]
    /\ agent \in [AttemptIds -> {"none", "building", "done"} \cup Closed]
    /\ ops \in Nat
    /\ faults \in Nat

\* A job is never built by two attempts at once (the partial unique index),
\* whatever requests, sweeps and late results do to the job row meanwhile.
OneRunningAttempt ==
    \A j \in Jobs : \A a, b \in RunningFor(att, j) : a = b

\* A worker never holds more running attempts than it declared room for.
WithinCapacity ==
    \A w \in Workers : Cardinality(RunningOn(att, w)) <= MaxParallel[w]

\* A finalized attempt has ended: no later report, sweep or claim finds it
\* running, so answering "already finalized" never drops a live build.
FinalizedHasEnded ==
    finalized \cap Running(att) = {}

\* What is called a success left packages behind, also when a failed report
\* was turned into a success because the attempt already had artifacts.
SuccessHasPackages ==
    \A a \in AttemptIds : att[a].status = "success" \/ a \in gated => a \in uploaded

\* The rows agree with each other: a running job is a job with a running
\* attempt, and a busy worker one that has running attempts.
Settled ==
    /\ \A j \in Jobs : (job[j].status = "running") <=> (RunningFor(att, j) # {})
    /\ \A w \in Workers : (worker[w].state = "busy") <=> (RunningOn(att, w) # {})

\* Whatever was lost or overwritten, the queue comes to rest once users stop:
\* no job waits or runs for ever and the rows agree.
EventuallySettled == <>[](Settled /\ \A j \in Jobs : job[j].status \in Closed \cup {"none"})

\* A success a worker posts reaches the publish gate, also when the sweep has
\* failed the attempt meanwhile, unless the job or the attempt was cancelled or
\* a fault happened: an exception at the gate or a crash does lose it.
SuccessIsGated ==
    \A a \in AttemptIds :
        agent[a] = "success" ~> \/ a \in gated \/ faults > 0
                                \/ att[a].status = "cancelled"
                                \/ \E j \in Jobs : /\ att[a].job = j
                                                  /\ job[j].status = "cancelled"

\* The queue implements the leases of BuildLeases: an attempt row is a lease
\* while its status is running.
Leases == INSTANCE BuildLeases WITH
              held   <- Running(att),
              issued <- {a \in AttemptIds : att[a].status # "none"},
              lease  <- [a \in AttemptIds |-> [job |-> att[a].job, worker |-> att[a].worker]]
ImplementsLeases == Leases!Spec
=============================================================================
