------------------------------ MODULE LayerPlan -----------------------------
(***************************************************************************)
(* One chain or rpmbuild plan: jobs are released layer by layer, a layer   *)
(* opens when the one below it is built and published.                     *)
(*                                                                         *)
(* advance_rpmbuild_plans_once holds the plan's row from its first read to *)
(* its commit, but neither the rows of the jobs, which it reads once per   *)
(* layer, nor those of publish_tasks.  Cancel, resume and retry read the   *)
(* plan without a lock; they wait for the row only when they write it.     *)
(*                                                                         *)
(* A package is its job: one architecture, no package in two layers.       *)
(* Layers count from the plan's start layer, of which Packages holds those *)
(* the plan has jobs for.  How a job is built, and what becomes of reports *)
(* that meet a cancel or a retry, is in BuildQueue; scans and publish      *)
(* threads are in PublishPipeline.  This is the plan's view of both.       *)
(***************************************************************************)
EXTENDS Integers

CONSTANTS
    Packages,    \* packages of the plan
    LayerOf,     \* the layer of each package
    Depth,       \* number of layers
    Providers,   \* dep_providers of an rpmbuild plan: per package, those it
                 \* depends on
    Elsewhere,   \* packages another job has built since the plan was created,
                 \* by the time their layer opens
    Infected,    \* packages a scanner finds something in
    Lossy,       \* whether the hand-over to the publish gate may raise
    Users,       \* concurrent user requests
    MaxOps,      \* bound: user requests
    MaxFaults,   \* bound: transactions that fail
    None         \* no write

Layers == 0..(Depth - 1)
Layer(c) == {p \in Packages : LayerOf[p] = c}

Open       == {"pending", "running"}
Closed     == {"success", "failed", "cancelled", "skipped"}
JobStatus  == Open \cup Closed \cup {"none"}
PlanStatus == {"running", "success", "failed", "cancelled"}
ScanStates == {"none", "pending", "clean", "skipped"}
TaskStates == {"none", "pending", "running", "success", "failed", "cancelled"}

ASSUME PlanAssumption ==
    /\ Depth \in Nat \ {0}
    /\ LayerOf \in [Packages -> Layers]
    /\ Providers \in [Packages -> SUBSET Packages]
    /\ Elsewhere \subseteq Packages /\ Elsewhere \cap Layer(0) = {}
    /\ Lossy \in BOOLEAN
    /\ Infected \subseteq Packages
    /\ MaxOps \in Nat /\ MaxFaults \in Nat
    /\ None \notin PlanStatus

VARIABLES
    plan,       \* status and current_open_layer; manual: a chain a user wrote,
                \* who may cancel and resume it, without dep_providers
    job,        \* [Packages -> status], "none" = no row
    scan,       \* [Packages -> scan_state]; pending stands for quarantined too,
                \* clean for disregarded
    task,       \* [Packages -> status of the job's newest publish_tasks row]
    handing,    \* successes whose report has not reached the publish gate
    adv,        \* the open transaction of advance_rpmbuild_plans_once
    session,    \* [Users -> an open request: rows it holds or will write]
    published,  \* history: packages whose publish was called a success
    skipped,    \* history: packages enqueued as SKIPPED
    ops, faults \* bounded counters

buildVars == <<scan, task, handing, published>>
vars == <<plan, job, buildVars, adv, session, skipped, ops, faults>>

NoSession == [op |-> "none", jobs |-> {}, tasks |-> {}, plan |-> None]
NoMade    == [p \in Packages |-> "none"]
NoneSeen  == [p \in Packages |-> [status |-> "none", scan |-> "none"]]
Idle      == [on |-> FALSE, cur |-> 0, seen |-> NoneSeen, made |-> NoMade]

\* The first layer is enqueued with the plan, complete or not elsewhere.
Init ==
    /\ plan \in [status : {"running"}, cur : {0}, manual : BOOLEAN]
    /\ job = [p \in Packages |-> IF LayerOf[p] = 0 THEN "pending" ELSE "none"]
    /\ scan = [p \in Packages |-> "none"]
    /\ task = [p \in Packages |-> "none"]
    /\ handing = {}
    /\ adv = Idle
    /\ session = [s \in Users |-> NoSession]
    /\ published = {} /\ skipped = {}
    /\ ops = 0 /\ faults = 0

Fault == faults < MaxFaults /\ faults' = faults + 1

\* Rows a chain cancel has updated and not committed: other writers wait, and
\* a poll skips them.
HeldJobs  == UNION {session[s].jobs : s \in {u \in Users : session[u].op = "cancel"}}
HeldTasks == UNION {session[s].tasks : s \in Users}

-----------------------------------------------------------------------------
(* Jobs and their publication, as far as the plan sees them *)

\* poll_job's layer gate binds while the plan is live.
Gated(p) == plan.status = "running" /\ LayerOf[p] > plan.cur

Claim(p) ==
    /\ job[p] = "pending" /\ p \notin HeldJobs
    /\ ~Gated(p)
    /\ job' = [job EXCEPT ![p] = "running"]
    /\ UNCHANGED <<plan, buildVars, adv, session, skipped, ops, faults>>

\* A report, or a sweep that fails the job.  A build takes longer than the end
\* of the report before it.
Finish(p, verdict) ==
    /\ job[p] = "running" /\ p \notin HeldJobs \cup handing
    /\ job' = [job EXCEPT ![p] = verdict]
    /\ handing' = IF verdict = "success" THEN handing \cup {p} ELSE handing
    /\ UNCHANGED <<plan, scan, task, adv, session, published, skipped, ops, faults>>

\* gate_publish, in a later transaction of the same report.
HandOver(p) ==
    /\ p \in handing
    /\ handing' = handing \ {p}
    /\ IF scan[p] = "clean"
       THEN task' = [task EXCEPT ![p] = "pending"] /\ UNCHANGED scan
       ELSE scan' = [scan EXCEPT ![p] = "pending"] /\ UNCHANGED task
    /\ UNCHANGED <<plan, job, adv, session, published, skipped, ops, faults>>

\* The exception is logged; nobody hands the build over again.
HandOverFails(p) ==
    /\ Lossy
    /\ p \in handing
    /\ handing' = handing \ {p}
    /\ Fault
    /\ UNCHANGED <<plan, job, scan, task, adv, session, published, skipped, ops>>

ScanPasses(p) ==
    /\ scan[p] = "pending" /\ p \notin Infected
    /\ scan' = [scan EXCEPT ![p] = "clean"]
    /\ task' = [task EXCEPT ![p] = "pending"]
    /\ UNCHANGED <<plan, job, handing, adv, session, published, skipped, ops, faults>>

\* The packages are gone from the store.
ScanDrops(p) ==
    /\ scan[p] = "pending"
    /\ scan' = [scan EXCEPT ![p] = "skipped"]
    /\ task' = [task EXCEPT ![p] = "failed"]
    /\ Fault
    /\ UNCHANGED <<plan, job, handing, adv, session, published, skipped, ops>>

TaskStarts(p) ==
    /\ task[p] = "pending" /\ p \notin HeldTasks
    /\ task' = [task EXCEPT ![p] = "running"]
    /\ UNCHANGED <<plan, job, scan, handing, adv, session, published, skipped,
                   ops, faults>>

TaskEnds(p, status) ==
    /\ task[p] = "running"
    /\ task' = [task EXCEPT ![p] = status]
    /\ published' = IF status = "success" THEN published \cup {p} ELSE published
    /\ UNCHANGED <<plan, job, scan, handing, adv, session, skipped, ops, faults>>

-----------------------------------------------------------------------------
(* advance_rpmbuild_plans_once, from the settle loop and after a publish *)

\* FOR UPDATE SKIP LOCKED, then the jobs of the open layer.
AdvanceRead ==
    /\ ~adv.on
    /\ plan.status = "running"
    /\ adv' = [on |-> TRUE, cur |-> plan.cur, made |-> NoMade,
               seen |-> [p \in Packages |-> [status |-> job[p], scan |-> scan[p]]]]
    /\ UNCHANGED <<plan, job, buildVars, session, skipped, ops, faults>>

\* The jobs _layer_status found, and what it makes of them.  The tasks it
\* looks up one by one, later.
Found    == {p \in Layer(adv.cur) : adv.seen[p].status # "none"}
Inflight == \E p \in Found : adv.seen[p].status \in Open
Built    == {p \in Found : adv.seen[p].status = "success"}

\* Mutant: no task yet counts as nothing to wait for.
UnsettledRow(p) == task[p] \in {"pending", "running"}
\* Mutant: a publish that ended badly is waited for.
UnsettledUntilSuccess(p) == task[p] # "success"
Unsettled(p) == task[p] \in {"none", "pending", "running"}

Waits == Inflight \/ \E p \in Built : adv.seen[p].scan = "pending" \/ Unsettled(p)

\* Mutant: the publication of a build does not count.
UncleanJob(p) == adv.seen[p].status \in {"failed", "cancelled"}
Unclean(p) ==
    \/ adv.seen[p].status \in {"failed", "cancelled"}
    \/ p \in Built /\ task[p] \in {"failed", "cancelled"}

\* names_blocked_by_failures: what depends on a failed package, directly or
\* through another that does.
Failed == {p \in Packages : job[p] \in {"failed", "cancelled"}}
DependentsClosed(B) ==
    plan.manual \/ \A p \in Packages : Providers[p] \cap B # {} => p \in B
Skipped ==
    {p \in Packages : \A B \in SUBSET Packages :
        Failed \subseteq B /\ DependentsClosed(B) => p \in B} \ Failed

\* The commit: plan, and the jobs enqueued by this transaction.
Advanced(status, made) ==
    /\ plan' = [plan EXCEPT !.status = status, !.cur = adv.cur]
    /\ job' = [p \in Packages |-> IF made[p] = "none" THEN job[p] ELSE made[p]]
    /\ skipped' = skipped \cup {p \in Packages : made[p] = "skipped"}
    /\ adv' = Idle

\* Mutant: one layer too many.
LastOffByOne(c) == c + 1 > Depth
Last(c) == c + 1 >= Depth

\* _finish_plan looks for failed jobs in all layers.
Onward(made) ==
    IF Last(adv.cur)
    THEN Advanced(IF Failed = {} THEN "success" ELSE "failed", made)
    ELSE /\ adv' = [adv EXCEPT !.cur = @ + 1, !.made = made]
         /\ UNCHANGED <<plan, job, skipped>>

AdvanceWaits ==
    /\ adv.on /\ Waits
    /\ Advanced("running", adv.made)
    /\ UNCHANGED <<buildVars, session, ops, faults>>

\* _stop_unclean_group
AdvanceStops ==
    /\ adv.on /\ ~Waits
    /\ \E p \in Found : Unclean(p)
    /\ Advanced("failed", adv.made)
    /\ UNCHANGED <<buildVars, session, ops, faults>>

\* enqueue_plan_layer_jobs.  A layer with nothing to build is passed at once.
AdvanceOpens ==
    LET fresh == Layer(adv.cur) \ Elsewhere
        made  == [p \in Packages |->
                     IF p \notin fresh THEN adv.made[p]
                     ELSE IF p \in Skipped THEN "skipped" ELSE "pending"]
    IN  /\ adv.on /\ Found = {}
        /\ IF fresh \subseteq Skipped THEN Onward(made) ELSE Advanced("running", made)
        /\ UNCHANGED <<buildVars, session, ops, faults>>

AdvancePasses ==
    /\ adv.on /\ Found # {} /\ ~Waits
    /\ \A p \in Found : ~Unclean(p)
    /\ Onward(adv.made)
    /\ UNCHANGED <<buildVars, session, ops, faults>>

AdvanceFails ==
    /\ adv.on
    /\ adv' = Idle
    /\ Fault
    /\ UNCHANGED <<plan, job, buildVars, session, skipped, ops>>

AdvanceStep == AdvanceWaits \/ AdvanceStops \/ AdvanceOpens \/ AdvancePasses

-----------------------------------------------------------------------------
(* User requests *)

Begin(s, op, jobs, tasks, status) ==
    /\ session[s] = NoSession
    /\ ops < MaxOps /\ ops' = ops + 1
    /\ session' = [session EXCEPT ![s] =
                      [op |-> op, jobs |-> jobs, tasks |-> tasks, plan |-> status]]
    /\ UNCHANGED <<plan, job, buildVars, adv, skipped, faults>>

\* A status is written only if it differs from the one loaded.
Write(loaded, status) == IF loaded = status THEN None ELSE status

\* The open jobs and pending tasks are updated as they stand; the plan, which
\* was read before, is written last.
ChainCancelLoad(s) ==
    LET open == {p \in Packages : job[p] \in Open}
        due  == {p \in Packages : job[p] # "none" /\ task[p] = "pending"}
    IN  /\ plan.manual /\ plan.status = "running"
        /\ open \cap HeldJobs = {} /\ due \cap HeldTasks = {}
        /\ Begin(s, "cancel", open, due, "cancelled")

ChainResumeLoad(s) ==
    LET reopen == {p \in Layer(plan.cur) : job[p] \in {"failed", "cancelled"}}
    IN  /\ plan.manual /\ plan.status # "success"
        /\ reopen # {}
        /\ Begin(s, "resume", reopen, {}, Write(plan.status, "running"))

\* retry_build; it revives a plan that stopped.
RetryLoad(s, p) ==
    /\ job[p] \in Closed
    /\ Begin(s, "retry", {p}, {},
             IF plan.status \in {"cancelled", "failed"} THEN "running" ELSE None)

\* Mutant: nobody holds the plan's row.
PlanUnlocked == TRUE
PlanFree == ~adv.on

RequestCommit(s) ==
    LET r == session[s]
    IN  /\ r # NoSession
        /\ r.plan # None => PlanFree
        /\ r.op # "cancel" => r.jobs \cap HeldJobs = {}
        /\ session' = [session EXCEPT ![s] = NoSession]
        /\ job' = [p \in Packages |-> IF p \notin r.jobs THEN job[p]
                                      ELSE IF r.op = "cancel" THEN "cancelled" ELSE "pending"]
        /\ task' = [p \in Packages |-> IF p \in r.tasks THEN "cancelled" ELSE task[p]]
        /\ plan' = IF r.plan = None THEN plan ELSE [plan EXCEPT !.status = r.plan]
        /\ UNCHANGED <<scan, handing, adv, published, skipped, ops, faults>>

RequestFails(s) ==
    /\ session[s] # NoSession
    /\ session' = [session EXCEPT ![s] = NoSession]
    /\ Fault
    /\ UNCHANGED <<plan, job, buildVars, adv, skipped, ops>>

\* cancel_build of a single job; the plan finds it cancelled.
CancelJob(p) ==
    /\ job[p] \in Open /\ p \notin HeldJobs
    /\ ops < MaxOps /\ ops' = ops + 1
    /\ job' = [job EXCEPT ![p] = "cancelled"]
    /\ UNCHANGED <<plan, buildVars, adv, session, skipped, faults>>

\* A maintainer lets a quarantined build through.
Disregard(p) ==
    /\ scan[p] = "pending" /\ p \in Infected
    /\ ops < MaxOps /\ ops' = ops + 1
    /\ scan' = [scan EXCEPT ![p] = "clean"]
    /\ task' = [task EXCEPT ![p] = "pending"]
    /\ UNCHANGED <<plan, job, handing, adv, session, published, skipped, faults>>

-----------------------------------------------------------------------------
Build(p)   == Claim(p) \/ \E v \in {"success", "failed"} : Finish(p, v)
Publish(p) == \/ HandOver(p) \/ ScanPasses(p) \/ TaskStarts(p)
              \/ \E v \in {"success", "failed"} : TaskEnds(p, v)

Next ==
    \/ \E p \in Packages : \/ Build(p) \/ Publish(p) \/ HandOverFails(p)
                           \/ ScanDrops(p) \/ CancelJob(p) \/ Disregard(p)
    \/ AdvanceRead \/ AdvanceStep \/ AdvanceFails
    \/ \E s \in Users : \/ ChainCancelLoad(s) \/ ChainResumeLoad(s)
                        \/ \E p \in Packages : RetryLoad(s, p)
                        \/ RequestCommit(s) \/ RequestFails(s)

Spec == Init /\ [][Next]_vars

\* Workers or the sweeps end every job, scans and publishes end, the settle
\* loop runs for ever, and a request that began is served: the settle loop
\* leaves the plan's row alone between its passes, so a request that waits for
\* it gets it.
Fairness ==
    /\ WF_vars(\E p \in Packages : Build(p))
    /\ WF_vars(\E p \in Packages : Publish(p))
    /\ WF_vars(AdvanceRead) /\ WF_vars(AdvanceStep)
    /\ \A s \in Users : SF_vars(RequestCommit(s))

FairSpec == Spec /\ Fairness

-----------------------------------------------------------------------------
(* Properties *)

Sessions == [op : {"none", "cancel", "resume", "retry"}, jobs : SUBSET Packages,
             tasks : SUBSET Packages, plan : {"running", "cancelled", None}]
Advances == [on : BOOLEAN, cur : Layers, made : [Packages -> {"none", "pending", "skipped"}],
             seen : [Packages -> [status : JobStatus, scan : ScanStates]]]

TypeOK ==
    /\ plan \in [status : PlanStatus, cur : Layers, manual : BOOLEAN]
    /\ job \in [Packages -> JobStatus]
    /\ scan \in [Packages -> ScanStates]
    /\ task \in [Packages -> TaskStates]
    /\ handing \subseteq Packages
    /\ adv \in Advances
    /\ session \in [Users -> Sessions]
    /\ published \subseteq Packages /\ skipped \subseteq Packages
    /\ ops \in Nat /\ faults \in Nat

\* Packages a later layer need not wait for.
Done == published \cup skipped \cup Elsewhere

\* A layer has jobs only when all packages below it have had a publish that was
\* called a success, whoever retried, cancelled or resumed what in the meantime;
\* the exceptions are packages skipped for a failed dependency or built elsewhere.
\* What such a success says of the repository is in PublishPipeline.
OpenedAfterPublished ==
    \A p, q \in Packages : job[q] # "none" /\ LayerOf[p] < LayerOf[q] => p \in Done

\* A plan called a success has had a successful publish of every package, with
\* the same exceptions.
SuccessIsBuilt == plan.status = "success" => Packages \subseteq Done

\* The advance that runs while a user cancels the chain does not undo the
\* cancel: only a resume or a retry takes a plan out of it.
CancelIsKept ==
    [][plan.status = "cancelled" /\ plan' # plan => plan'.status = "running" /\ ~adv.on]_vars

\* A success that no publish task or verdict will come for: quarantined, or
\* never handed over.
Withheld(p) ==
    job[p] = "success" /\ p \notin handing /\ (task[p] = "none" \/ scan[p] = "pending")

\* A plan comes to rest with all its jobs, however its layers end and whatever
\* requests and failed transactions come in between, but for one that waits
\* for a withheld build.
PlanSettles ==
    <>[](\/ plan.status # "running" /\ \A p \in Packages : job[p] \notin Open
         \/ \E p \in Packages : Withheld(p))
=============================================================================
