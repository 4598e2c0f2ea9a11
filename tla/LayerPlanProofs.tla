--------------------------- MODULE LayerPlanProofs --------------------------
(***************************************************************************)
(* LayerPlan for any number of packages, layers, requests and faults:      *)
(* types, the order in which layers open, what a plan called a success has *)
(* done, that a cancel is not undone by the advance it races with, and     *)
(* that what a plan waits for can go on.                                   *)
(***************************************************************************)
EXTENDS LayerPlan, TLAPS

(* Types *)

LEMMA InitTypes == Init => TypeOK
<1> SUFFICES ASSUME Init PROVE TypeOK
  OBVIOUS
<1> USE PlanAssumption
<1>1. 0 \in Layers
  BY DEF Layers
<1>2. Idle \in Advances
  BY <1>1 DEF Idle, Advances, NoneSeen, NoMade, JobStatus, ScanStates
<1>3. NoSession \in Sessions
  BY DEF NoSession, Sessions
<1> QED
  BY <1>1, <1>2, <1>3 DEF Init, TypeOK, PlanStatus, JobStatus, Open, ScanStates, TaskStates

\* Steps of the jobs and their publication.
LEMMA BuildTypes ==
    ASSUME TypeOK, NEW p \in Packages,
           Build(p) \/ Publish(p) \/ HandOverFails(p) \/ ScanDrops(p) \/ CancelJob(p) \/ Disregard(p)
    PROVE  TypeOK'
<1> USE DEF TypeOK, buildVars
<1>1. CASE Build(p)
  BY <1>1 DEF Build, Claim, Finish, JobStatus, Open, Closed
<1>2. CASE Publish(p)
  <2>1. CASE HandOver(p)
    BY <2>1 DEF HandOver, ScanStates, TaskStates
  <2>2. CASE ScanPasses(p)
    BY <2>2 DEF ScanPasses, ScanStates, TaskStates
  <2>3. CASE TaskStarts(p)
    BY <2>3 DEF TaskStarts, TaskStates
  <2>4. CASE \E v \in {"success", "failed"} : TaskEnds(p, v)
    BY <2>4 DEF TaskEnds, TaskStates
  <2> QED
    BY <1>2, <2>1, <2>2, <2>3, <2>4 DEF Publish
<1>3. CASE HandOverFails(p)
  BY <1>3 DEF HandOverFails, Fault
<1>4. CASE ScanDrops(p)
  BY <1>4 DEF ScanDrops, Fault, ScanStates, TaskStates
<1>5. CASE CancelJob(p)
  BY <1>5 DEF CancelJob, JobStatus, Closed
<1>6. CASE Disregard(p)
  BY <1>6 DEF Disregard, ScanStates, TaskStates
<1> QED
  BY <1>1, <1>2, <1>3, <1>4, <1>5, <1>6

\* What an advance commits is typed.
LEMMA AdvancedTypes ==
    ASSUME TypeOK, NEW status \in PlanStatus,
           NEW made \in [Packages -> {"none", "pending", "skipped"}],
           Advanced(status, made), UNCHANGED <<buildVars, session, ops, faults>>
    PROVE  TypeOK'
<1> USE PlanAssumption
<1>1. Idle \in Advances
  BY DEF Idle, Advances, NoneSeen, NoMade, JobStatus, ScanStates, Layers
<1>2. adv.cur \in Layers
  BY DEF TypeOK, Advances
<1>3. job' \in [Packages -> JobStatus]
  BY DEF TypeOK, Advanced, JobStatus, Open, Closed
<1> QED
  BY <1>1, <1>2, <1>3 DEF TypeOK, Advanced, buildVars

LEMMA OnwardTypes ==
    ASSUME TypeOK, NEW made \in [Packages -> {"none", "pending", "skipped"}],
           Onward(made), UNCHANGED <<buildVars, session, ops, faults>>
    PROVE  TypeOK'
<1> USE PlanAssumption
<1>1. CASE Last(adv.cur)
  <2>1. \E status \in PlanStatus : Advanced(status, made)
    BY <1>1 DEF Onward, PlanStatus
  <2> QED
    BY <2>1, AdvancedTypes
<1>2. CASE ~Last(adv.cur)
  <2>1. adv \in Advances /\ adv.cur + 1 \in Layers
    BY <1>2 DEF TypeOK, Advances, Last, Layers
  <2>2. adv' = [adv EXCEPT !.cur = @ + 1, !.made = made] /\ UNCHANGED <<plan, job, skipped>>
    BY <1>2 DEF Onward
  <2>3. adv' \in Advances
    BY <2>1, <2>2 DEF Advances
  <2> QED
    BY <2>2, <2>3 DEF TypeOK, buildVars
<1> QED
  BY <1>1, <1>2

LEMMA MadeTypes ==
    ASSUME TypeOK
    PROVE  /\ adv.made \in [Packages -> {"none", "pending", "skipped"}]
           /\ [p \in Packages |-> IF p \notin Layer(adv.cur) \ Elsewhere THEN adv.made[p]
                                  ELSE IF p \in Skipped THEN "skipped" ELSE "pending"]
                 \in [Packages -> {"none", "pending", "skipped"}]
<1>1. adv.made \in [Packages -> {"none", "pending", "skipped"}]
  BY DEF TypeOK, Advances
<1> QED
  BY <1>1

LEMMA AdvanceTypes ==
    ASSUME TypeOK, AdvanceRead \/ AdvanceStep \/ AdvanceFails
    PROVE  TypeOK'
<1>1. CASE AdvanceRead
  <2>1. adv' \in Advances
    BY <1>1 DEF AdvanceRead, TypeOK, Advances, NoMade
  <2> QED
    BY <1>1, <2>1 DEF AdvanceRead, TypeOK, buildVars
<1>2. CASE AdvanceWaits
  BY <1>2, MadeTypes, AdvancedTypes DEF AdvanceWaits, PlanStatus
<1>3. CASE AdvanceStops
  BY <1>3, MadeTypes, AdvancedTypes DEF AdvanceStops, PlanStatus
<1>4. CASE AdvanceOpens
  BY <1>4, MadeTypes, AdvancedTypes, OnwardTypes DEF AdvanceOpens, PlanStatus
<1>5. CASE AdvancePasses
  BY <1>5, MadeTypes, OnwardTypes DEF AdvancePasses
<1>6. CASE AdvanceFails
  <2>1. Idle \in Advances
    BY PlanAssumption DEF Idle, Advances, NoneSeen, NoMade, JobStatus, ScanStates, Layers
  <2> QED
    BY <1>6, <2>1 DEF AdvanceFails, TypeOK, Fault, buildVars
<1> QED
  BY <1>1, <1>2, <1>3, <1>4, <1>5, <1>6 DEF AdvanceStep

LEMMA BeginTypes ==
    ASSUME TypeOK, NEW s \in Users, NEW op \in {"cancel", "resume", "retry"},
           NEW jobs \in SUBSET Packages, NEW tasks \in SUBSET Packages,
           NEW status \in {"running", "cancelled", None},
           Begin(s, op, jobs, tasks, status)
    PROVE  TypeOK'
<1>1. session' \in [Users -> Sessions]
  BY DEF Begin, TypeOK, Sessions
<1> QED
  BY <1>1 DEF Begin, TypeOK, buildVars

LEMMA RequestTypes ==
    ASSUME TypeOK, NEW s \in Users,
           \/ ChainCancelLoad(s) \/ ChainResumeLoad(s)
           \/ \E p \in Packages : RetryLoad(s, p)
           \/ RequestCommit(s) \/ RequestFails(s)
    PROVE  TypeOK'
<1>1. CASE ChainCancelLoad(s)
  BY <1>1, BeginTypes DEF ChainCancelLoad
<1>2. CASE ChainResumeLoad(s)
  <2>1. Write(plan.status, "running") \in {"running", "cancelled", None}
    BY DEF Write
  <2> QED
    BY <1>2, <2>1, BeginTypes DEF ChainResumeLoad, Layer
<1>3. CASE \E p \in Packages : RetryLoad(s, p)
  BY <1>3, BeginTypes DEF RetryLoad
<1>4. CASE RequestCommit(s)
  <2>1. session' \in [Users -> Sessions]
    BY <1>4 DEF RequestCommit, NoSession, TypeOK, Sessions
  <2>2. job' \in [Packages -> JobStatus] /\ task' \in [Packages -> TaskStates]
    BY <1>4 DEF RequestCommit, TypeOK, JobStatus, Open, Closed, TaskStates
  <2>3. plan' \in [status : PlanStatus, cur : Layers, manual : BOOLEAN]
    BY <1>4 DEF RequestCommit, TypeOK, Sessions, PlanStatus
  <2> QED
    BY <1>4, <2>1, <2>2, <2>3 DEF RequestCommit, TypeOK
<1>5. CASE RequestFails(s)
  <2>1. session' \in [Users -> Sessions]
    BY <1>5 DEF RequestFails, NoSession, TypeOK, Sessions
  <2> QED
    BY <1>5, <2>1 DEF RequestFails, TypeOK, Fault, buildVars
<1> QED
  BY <1>1, <1>2, <1>3, <1>4, <1>5

LEMMA StepTypes == TypeOK /\ [Next]_vars => TypeOK'
<1> SUFFICES ASSUME TypeOK, [Next]_vars PROVE TypeOK'
  OBVIOUS
<1>1. CASE UNCHANGED vars
  BY <1>1 DEF vars, buildVars, TypeOK
<1>2. CASE Next
  BY <1>2, BuildTypes, AdvanceTypes, RequestTypes DEF Next
<1> QED
  BY <1>1, <1>2

\* Every variable keeps its type; the layer an advance looks at never runs past
\* the plan's last one.
THEOREM TypeCorrect == Spec => []TypeOK
  BY InitTypes, StepTypes, PTL DEF Spec

-----------------------------------------------------------------------------
(* Order *)

HasJob(p) == job[p] # "none"
Seen(p)   == adv.seen[p].status # "none"

\* The rows: layers below the open one are done and were enqueued as a whole,
\* those above it have no jobs, and the history agrees with the rows.
RowsOrdered ==
    /\ \A p \in Packages : LayerOf[p] < plan.cur => p \in Done
    /\ \A p \in Packages : LayerOf[p] < plan.cur => p \in Elsewhere \/ HasJob(p)
    /\ \A p, q \in Layer(plan.cur) : HasJob(q) => p \in Elsewhere \/ HasJob(p)
    /\ \A p \in Packages : HasJob(p) => LayerOf[p] <= plan.cur
    /\ \A p \in Packages : task[p] = "success" => p \in published
    /\ \A p \in Packages : job[p] = "skipped" => p \in skipped
    /\ \A s \in Users : \A p \in session[s].jobs : HasJob(p)

\* The transaction of the advance: what it saw still stands as far as it
\* matters, and the layers it has passed are done once it commits.
AdvanceOrdered ==
    adv.on =>
        /\ plan.status = "running"
        /\ plan.cur <= adv.cur
        /\ \A p \in Packages : LayerOf[p] < adv.cur => p \in Done \/ adv.made[p] = "skipped"
        /\ \A p \in Packages : LayerOf[p] < adv.cur =>
               p \in Elsewhere \/ HasJob(p) \/ adv.made[p] # "none"
        /\ \A p \in Packages : adv.made[p] # "none" =>
               adv.made[p] = "skipped" /\ LayerOf[p] < adv.cur
        /\ \A p \in Packages : adv.seen[p].status = "skipped" => p \in skipped
        /\ \A p \in Packages : Seen(p) => HasJob(p) /\ LayerOf[p] <= plan.cur
        /\ \A p, q \in Layer(plan.cur) : Seen(q) => p \in Elsewhere \/ Seen(p)

Ordered == RowsOrdered /\ AdvanceOrdered /\ SuccessIsBuilt

LEMMA InitOrdered == Init => Ordered
<1> SUFFICES ASSUME Init PROVE Ordered
  OBVIOUS
<1>1. plan.cur = 0 /\ plan.status = "running" /\ ~adv.on
  BY DEF Init, Idle
<1>2. \A p \in Packages : LayerOf[p] \in Nat
  BY PlanAssumption DEF Layers
<1>3. \A p \in Packages : HasJob(p) <=> LayerOf[p] = 0
  BY DEF Init, HasJob
<1>4. \A s \in Users : session[s].jobs = {}
  BY DEF Init, NoSession
<1>5. \A p \in Packages : task[p] # "success" /\ job[p] # "skipped"
  BY DEF Init
<1>6. \A p \in Packages : LayerOf[p] = 0 => LayerOf[p] <= plan.cur
  BY <1>1, <1>2
<1>7. \A p \in Packages : ~(LayerOf[p] < plan.cur)
  <2> TAKE p \in Packages
  <2>1. LayerOf[p] \in Nat
    BY <1>2
  <2>2. ~(LayerOf[p] < 0)
    BY <2>1
  <2> QED
    BY <1>1, <2>2
<1>8. \A p \in Packages : HasJob(p) => LayerOf[p] <= plan.cur
  BY <1>3, <1>6
<1>9. \A p \in Layer(plan.cur) : HasJob(p)
  BY <1>1, <1>3 DEF Layer
<1>10. RowsOrdered
  BY <1>4, <1>5, <1>7, <1>8, <1>9 DEF RowsOrdered
<1> QED
  BY <1>1, <1>10 DEF Ordered, AdvanceOrdered, SuccessIsBuilt

\* A step that opens no layer: jobs neither appear nor vanish nor turn skipped,
\* publications are only added, and the plan changes under no advance.
Kept ==
    /\ plan'.cur = plan.cur /\ plan'.manual = plan.manual
    /\ \/ plan'.status = plan.status
       \/ ~adv.on /\ plan'.status \in {"running", "cancelled"}
    /\ adv' = adv \/ adv' = Idle
    /\ skipped' = skipped
    /\ published \subseteq published'
    /\ \A p \in Packages : job'[p] = "none" <=> job[p] = "none"
    /\ \A p \in Packages : job'[p] = "skipped" => job[p] = "skipped"
    /\ \A p \in Packages : task'[p] = "success" => task[p] = "success" \/ p \in published'
    /\ \A s \in Users : session'[s].jobs \subseteq session[s].jobs \cup {p \in Packages : HasJob(p)}

LEMMA KeptOrdered ==
    ASSUME TypeOK, Ordered, Kept
    PROVE  Ordered'
<1>1. Done \subseteq Done'
  BY DEF Kept, Done
<1>2. \A p \in Packages : HasJob(p)' <=> HasJob(p)
  BY DEF Kept, HasJob
<1>3. \A s \in Users : session[s].jobs \subseteq Packages
  BY DEF TypeOK, Sessions
<1>4. RowsOrdered'
  <2>1. \A s \in Users : \A p \in session'[s].jobs : HasJob(p)'
    BY <1>2, <1>3 DEF Kept, Ordered, RowsOrdered
  <2> QED
    BY <1>1, <1>2, <2>1 DEF Kept, Ordered, RowsOrdered, Layer
<1>5. AdvanceOrdered'
  <2>1. CASE adv' = Idle
    BY <2>1 DEF AdvanceOrdered, Idle
  <2>2. CASE adv' = adv
    BY <1>1, <1>2, <2>2 DEF Kept, Ordered, AdvanceOrdered, Layer, Seen
  <2> QED
    BY <2>1, <2>2 DEF Kept
<1>6. SuccessIsBuilt'
  BY <1>1 DEF Kept, Ordered, SuccessIsBuilt
<1> QED
  BY <1>4, <1>5, <1>6 DEF Ordered

\* Builds and publications open no layer.
LEMMA BuildKept ==
    ASSUME TypeOK, Ordered, NEW p \in Packages,
           Build(p) \/ Publish(p) \/ HandOverFails(p) \/ ScanDrops(p) \/ CancelJob(p) \/ Disregard(p)
    PROVE  Kept
<1> USE DEF TypeOK, Kept, Ordered, RowsOrdered, buildVars, HasJob
<1>1. CASE Build(p)
  BY <1>1 DEF Build, Claim, Finish
<1>2. CASE Publish(p)
  <2>1. CASE HandOver(p)
    BY <2>1 DEF HandOver
  <2>2. CASE ScanPasses(p)
    BY <2>2 DEF ScanPasses
  <2>3. CASE TaskStarts(p)
    BY <2>3 DEF TaskStarts
  <2>4. CASE \E v \in {"success", "failed"} : TaskEnds(p, v)
    BY <2>4 DEF TaskEnds
  <2> QED
    BY <1>2, <2>1, <2>2, <2>3, <2>4 DEF Publish
<1>3. CASE HandOverFails(p)
  BY <1>3 DEF HandOverFails
<1>4. CASE ScanDrops(p)
  BY <1>4 DEF ScanDrops
<1>5. CASE CancelJob(p)
  BY <1>5 DEF CancelJob, Open
<1>6. CASE Disregard(p)
  BY <1>6 DEF Disregard
<1> QED
  BY <1>1, <1>2, <1>3, <1>4, <1>5, <1>6

\* Nor does a request: the jobs it will write have rows, and it writes the plan
\* only while no advance has it.
LEMMA RequestKept ==
    ASSUME TypeOK, Ordered, NEW s \in Users,
           \/ ChainCancelLoad(s) \/ ChainResumeLoad(s)
           \/ \E p \in Packages : RetryLoad(s, p)
           \/ RequestCommit(s) \/ RequestFails(s)
    PROVE  Kept
<1>1. ASSUME NEW op, NEW jobs \in SUBSET {p \in Packages : HasJob(p)}, NEW tasks, NEW status,
             Begin(s, op, jobs, tasks, status)
      PROVE  Kept
  BY <1>1 DEF Begin, Kept, TypeOK, buildVars
<1>2. CASE ChainCancelLoad(s)
  <2>1. {p \in Packages : job[p] \in Open} \in SUBSET {p \in Packages : HasJob(p)}
    BY DEF Open, HasJob
  <2> QED
    BY <1>1, <1>2, <2>1 DEF ChainCancelLoad
<1>3. CASE ChainResumeLoad(s)
  <2>1. {p \in Layer(plan.cur) : job[p] \in {"failed", "cancelled"}}
            \in SUBSET {p \in Packages : HasJob(p)}
    BY DEF Layer, HasJob
  <2> QED
    BY <1>1, <1>3, <2>1 DEF ChainResumeLoad
<1>4. CASE \E p \in Packages : RetryLoad(s, p)
  <2>1. PICK p \in Packages : RetryLoad(s, p)
    BY <1>4
  <2>2. {p} \in SUBSET {q \in Packages : HasJob(q)}
    BY <2>1 DEF RetryLoad, Closed, HasJob
  <2> QED
    BY <1>1, <2>1, <2>2 DEF RetryLoad
<1>5. CASE RequestCommit(s)
  <2>1. \A p \in session[s].jobs : HasJob(p)
    BY DEF Ordered, RowsOrdered
  <2>2. \A p \in Packages : /\ job'[p] = "none" <=> job[p] = "none"
                            /\ job'[p] = "skipped" => job[p] = "skipped"
                            /\ task'[p] = "success" => task[p] = "success"
    BY <1>5, <2>1 DEF RequestCommit, HasJob
  <2>3. \A u \in Users : session'[u].jobs \subseteq session[u].jobs
    BY <1>5 DEF RequestCommit, TypeOK, NoSession
  <2>4. /\ plan'.cur = plan.cur /\ plan'.manual = plan.manual
        /\ \/ plan'.status = plan.status
           \/ ~adv.on /\ plan'.status \in {"running", "cancelled"}
    BY <1>5 DEF RequestCommit, PlanFree, TypeOK, Sessions
  <2>5. task' \in [Packages -> TaskStates] /\ UNCHANGED <<adv, skipped, published>>
    BY <1>5, RequestTypes DEF RequestCommit, TypeOK
  <2>6. \A p \in Packages : task[p] = "success" => p \in published
    BY DEF Ordered, RowsOrdered
  <2> QED
    BY <2>2, <2>3, <2>4, <2>5, <2>6 DEF Kept
<1>6. CASE RequestFails(s)
  <2>1. \A u \in Users : session'[u].jobs \subseteq session[u].jobs
    BY <1>6 DEF RequestFails, TypeOK, NoSession
  <2> QED
    BY <1>6, <2>1 DEF RequestFails, Kept, buildVars
<1> QED
  BY <1>2, <1>3, <1>4, <1>5, <1>6

\* A commit that made what was missing below its layer, or all of it.
LEMMA AdvancedOrdered ==
    ASSUME TypeOK, Ordered, adv.on, NEW status \in PlanStatus,
           NEW made \in [Packages -> {"none", "pending", "skipped"}],
           Advanced(status, made), UNCHANGED <<buildVars, session, ops, faults>>,
           \A p \in Packages : made[p] # "none" => LayerOf[p] <= adv.cur,
           \A p \in Packages : LayerOf[p] < adv.cur => p \in Done \/ made[p] = "skipped",
           \A p \in Packages : LayerOf[p] < adv.cur =>
               p \in Elsewhere \/ HasJob(p) \/ made[p] # "none",
           \A p, q \in Layer(adv.cur) : HasJob(q) \/ made[q] # "none" =>
               p \in Elsewhere \/ HasJob(p) \/ made[p] # "none",
           status = "success" => \A p \in Packages : p \in Done \/ made[p] = "skipped"
    PROVE  Ordered'
<1>1. \A p \in Packages : /\ HasJob(p)' <=> HasJob(p) \/ made[p] # "none"
                          /\ job'[p] = "skipped" => p \in skipped'
  BY DEF Advanced, HasJob, Ordered, RowsOrdered
<1>2. \A p \in Packages : p \in Done' <=> p \in Done \/ made[p] = "skipped"
  BY DEF Advanced, Done, buildVars
<1>3. plan'.cur = adv.cur /\ plan'.status = status /\ ~adv'.on
  BY DEF Advanced, Idle
<1>4. plan.cur <= adv.cur /\ plan.cur \in Nat /\ adv.cur \in Nat
  BY PlanAssumption DEF Ordered, AdvanceOrdered, TypeOK, Advances, Layers
<1>5. \A p \in Packages : LayerOf[p] \in Nat /\ (HasJob(p) => LayerOf[p] <= adv.cur)
  BY <1>4, PlanAssumption DEF Ordered, RowsOrdered, Layers
<1>6. RowsOrdered'
  <2>1. \A p \in Packages : LayerOf[p] < plan'.cur => p \in Done'
    BY <1>2, <1>3
  <2>2. \A p \in Packages : LayerOf[p] < plan'.cur => p \in Elsewhere \/ HasJob(p)'
    BY <1>1, <1>3
  <2>3. \A p, q \in Layer(adv.cur) : HasJob(q)' => p \in Elsewhere \/ HasJob(p)'
    BY <1>1 DEF Layer
  <2>4. \A p \in Packages : HasJob(p)' => LayerOf[p] <= plan'.cur
    BY <1>1, <1>3, <1>5
  <2>5. \A p \in Packages : task'[p] = "success" => p \in published'
    BY DEF Ordered, RowsOrdered, buildVars
  <2>6. \A s \in Users : \A p \in session'[s].jobs : HasJob(p)'
    BY <1>1 DEF Ordered, RowsOrdered, TypeOK, Sessions
  <2> QED
    BY <1>1, <1>3, <2>1, <2>2, <2>3, <2>4, <2>5, <2>6 DEF RowsOrdered, Layer
<1>7. AdvanceOrdered'
  BY <1>3 DEF AdvanceOrdered
<1>8. SuccessIsBuilt'
  BY <1>2, <1>3 DEF SuccessIsBuilt
<1> QED
  BY <1>6, <1>7, <1>8 DEF Ordered

\* What the layers an advance has left behind look like when it goes on.
LEMMA OnwardOrdered ==
    ASSUME TypeOK, Ordered, adv.on,
           NEW made \in [Packages -> {"none", "pending", "skipped"}],
           Onward(made), UNCHANGED <<buildVars, session, ops, faults>>,
           \A p \in Packages : made[p] # "none" => made[p] = "skipped" /\ LayerOf[p] <= adv.cur,
           \A p \in Packages : LayerOf[p] <= adv.cur => p \in Done \/ made[p] = "skipped",
           \A p \in Packages : LayerOf[p] <= adv.cur =>
               p \in Elsewhere \/ HasJob(p) \/ made[p] # "none"
    PROVE  Ordered'
<1>1. adv.cur \in Layers /\ plan.cur \in Layers /\ \A p \in Packages : LayerOf[p] \in Layers
  BY PlanAssumption DEF TypeOK, Advances
<1>2. \A p \in Packages : LayerOf[p] < adv.cur => LayerOf[p] <= adv.cur
  BY <1>1 DEF Layers
<1>3. \A p \in Layer(adv.cur) : LayerOf[p] <= adv.cur
  BY <1>1 DEF Layers, Layer
<1>4. CASE Last(adv.cur)
  <2>1. \A p \in Packages : LayerOf[p] <= adv.cur
    BY <1>1, <1>4, PlanAssumption DEF Last, Layers
  <2>2. PICK status \in PlanStatus : Advanced(status, made)
    BY <1>4 DEF Onward, PlanStatus
  <2> QED
    BY <1>2, <1>3, <2>1, <2>2, AdvancedOrdered DEF Layer
<1>5. CASE ~Last(adv.cur)
  <2>1. adv' = [adv EXCEPT !.cur = @ + 1, !.made = made] /\ UNCHANGED <<plan, job, skipped>>
    BY <1>5 DEF Onward
  <2>2. /\ adv'.on /\ adv'.cur = adv.cur + 1 /\ adv'.made = made /\ adv'.seen = adv.seen
    BY <2>1 DEF TypeOK, Advances
  <2>3. Done' = Done /\ \A p \in Packages : (HasJob(p)' <=> HasJob(p)) /\ (Seen(p)' <=> Seen(p))
    BY <2>1, <2>2 DEF Done, HasJob, Seen, buildVars
  <2>4. RowsOrdered'
    BY <2>1, <2>3 DEF Ordered, RowsOrdered, buildVars, HasJob, Layer
  <2>5. \A p \in Packages : LayerOf[p] < adv'.cur <=> LayerOf[p] <= adv.cur
    BY <1>1, <2>2 DEF Layers
  <2>6. plan'.cur <= adv'.cur
    BY <1>1, <2>1, <2>2 DEF Ordered, AdvanceOrdered, Layers
  <2>7. AdvanceOrdered'
    BY <2>1, <2>2, <2>3, <2>5, <2>6 DEF Ordered, AdvanceOrdered, Layer
  <2>8. SuccessIsBuilt'
    BY <2>1, <2>3 DEF Ordered, SuccessIsBuilt
  <2> QED
    BY <2>4, <2>7, <2>8 DEF Ordered
<1> QED
  BY <1>4, <1>5

\* What the layers up to the plan's have in common, when the advance commits
\* what it made so far.
LEMMA MadeOrdered ==
    ASSUME TypeOK, Ordered, adv.on
    PROVE  \A p, q \in Layer(adv.cur) : HasJob(q) \/ adv.made[q] # "none" =>
               plan.cur = adv.cur /\ (p \in Elsewhere \/ HasJob(p))
<1>1. adv.cur \in Nat /\ plan.cur \in Nat
  BY PlanAssumption DEF TypeOK, Advances, Layers
<1>2. \A q \in Layer(adv.cur) : adv.made[q] = "none" /\ LayerOf[q] = adv.cur
  BY <1>1 DEF Ordered, AdvanceOrdered, Layer
<1>3. \A q \in Layer(adv.cur) : HasJob(q) => plan.cur = adv.cur
  BY <1>1, <1>2 DEF Ordered, RowsOrdered, AdvanceOrdered, Layer
<1> QED
  BY <1>2, <1>3 DEF Ordered, RowsOrdered

LEMMA WaitsOrdered ==
    ASSUME TypeOK, Ordered, AdvanceWaits \/ AdvanceStops
    PROVE  Ordered'
<1>1. PICK status \in {"running", "failed"} : Advanced(status, adv.made)
  BY DEF AdvanceWaits, AdvanceStops
<1>2. adv.on /\ UNCHANGED <<buildVars, session, ops, faults>>
  BY DEF AdvanceWaits, AdvanceStops
<1>3. \A p \in Packages : adv.made[p] # "none" => LayerOf[p] <= adv.cur
  BY <1>2, PlanAssumption DEF Ordered, AdvanceOrdered, TypeOK, Advances, Layers
<1> QED
  BY <1>1, <1>2, <1>3, MadeTypes, MadeOrdered, AdvancedOrdered
     DEF Ordered, AdvanceOrdered, PlanStatus

\* A layer passed clean is done: its builds are published, the rest was
\* skipped, and what has no job is built elsewhere.
LEMMA PassesOrdered ==
    ASSUME TypeOK, Ordered, AdvancePasses
    PROVE  Ordered'
<1>1. adv.on /\ UNCHANGED <<buildVars, session, ops, faults>> /\ Onward(adv.made)
  BY DEF AdvancePasses
<1>2. adv.cur \in Nat /\ plan.cur \in Nat /\ \A p \in Packages : LayerOf[p] \in Nat
  BY PlanAssumption DEF TypeOK, Advances, Layers
<1>3. plan.cur = adv.cur
  BY <1>1, <1>2 DEF AdvancePasses, Found, Seen, Layer, Ordered, AdvanceOrdered
<1>4. \A p \in Layer(adv.cur) : p \in Elsewhere \/ p \in Found
  BY <1>1, <1>3 DEF AdvancePasses, Found, Seen, Ordered, AdvanceOrdered
<1>5. \A p \in Found : adv.seen[p].status \in {"success", "skipped"}
  <2>1. \A p \in Packages : adv.seen[p].status \in JobStatus
    BY DEF TypeOK, Advances
  <2> QED
    BY <2>1 DEF AdvancePasses, Waits, Inflight, Unclean, Found, Layer, JobStatus, Closed
<1>6. \A p \in Built : p \in published
  <2>1. \A p \in Packages : task[p] \in TaskStates
    BY DEF TypeOK
  <2>2. \A p \in Built : ~Unsettled(p) /\ task[p] \notin {"failed", "cancelled"}
    BY DEF AdvancePasses, Waits, Unclean, Built
  <2>3. \A p \in Built : task[p] = "success"
    BY <2>1, <2>2 DEF Unsettled, TaskStates, Built, Found, Layer
  <2> QED
    BY <2>3 DEF Ordered, RowsOrdered, Built, Found, Layer
<1>7. \A p \in Layer(adv.cur) : p \in Done /\ (p \in Elsewhere \/ HasJob(p))
  BY <1>1, <1>4, <1>5, <1>6 DEF Built, Found, Done, Layer, Seen, Ordered, AdvanceOrdered
<1>8. \A p \in Packages : LayerOf[p] <= adv.cur => LayerOf[p] < adv.cur \/ p \in Layer(adv.cur)
  BY <1>2 DEF Layer
<1>9. \A p \in Packages : adv.made[p] # "none" =>
          adv.made[p] = "skipped" /\ LayerOf[p] <= adv.cur
  BY <1>1, <1>2 DEF Ordered, AdvanceOrdered
<1>10. \A p \in Packages : LayerOf[p] <= adv.cur => p \in Done \/ adv.made[p] = "skipped"
  BY <1>1, <1>7, <1>8 DEF Ordered, AdvanceOrdered
<1>11. \A p \in Packages : LayerOf[p] <= adv.cur =>
          p \in Elsewhere \/ HasJob(p) \/ adv.made[p] # "none"
  BY <1>1, <1>7, <1>8 DEF Ordered, AdvanceOrdered
<1> QED
  BY <1>1, <1>9, <1>10, <1>11, MadeTypes, OnwardOrdered

LEMMA OpensOrdered ==
    ASSUME TypeOK, Ordered, AdvanceOpens
    PROVE  Ordered'
<1> DEFINE fresh == Layer(adv.cur) \ Elsewhere
           made == [p \in Packages |-> IF p \notin fresh THEN adv.made[p]
                                        ELSE IF p \in Skipped THEN "skipped" ELSE "pending"]
<1>1. /\ adv.on /\ UNCHANGED <<buildVars, session, ops, faults>>
      /\ IF fresh \subseteq Skipped THEN Onward(made) ELSE Advanced("running", made)
  BY DEF AdvanceOpens
<1>2. adv.cur \in Nat /\ \A p \in Packages : LayerOf[p] \in Nat
  BY PlanAssumption DEF TypeOK, Advances, Layers
<1>3. made \in [Packages -> {"none", "pending", "skipped"}]
  BY MadeTypes
<1>4. \A p \in fresh : made[p] # "none" /\ (fresh \subseteq Skipped => made[p] = "skipped")
  BY DEF Layer
<1>5. \A p \in Packages \ fresh : made[p] = adv.made[p]
  OBVIOUS
<1>6. \A p \in Packages : LayerOf[p] <= adv.cur =>
          (LayerOf[p] < adv.cur /\ p \notin fresh) \/ p \in fresh \/ p \in Elsewhere
  BY <1>2 DEF Layer
<1>7. \A p \in fresh : LayerOf[p] = adv.cur
  BY DEF Layer
<1>8. \A p \in Packages : made[p] # "none" => LayerOf[p] <= adv.cur
  BY <1>1, <1>2, <1>5, <1>7 DEF Ordered, AdvanceOrdered
<1>9. \A p \in Packages : LayerOf[p] < adv.cur => LayerOf[p] <= adv.cur /\ p \notin fresh
  BY <1>2, <1>7
<1>10. \A p \in Packages : LayerOf[p] <= adv.cur =>
          p \in Elsewhere \/ HasJob(p) \/ made[p] # "none"
  BY <1>1, <1>4, <1>5, <1>6 DEF Ordered, AdvanceOrdered
<1>11. \A p \in Packages : LayerOf[p] < adv.cur => p \in Done \/ made[p] = "skipped"
  BY <1>1, <1>5, <1>9 DEF Ordered, AdvanceOrdered
<1>12. CASE fresh \subseteq Skipped
  <2>1. \A p \in Packages : made[p] # "none" => made[p] = "skipped"
    BY <1>1, <1>4, <1>5, <1>12 DEF Ordered, AdvanceOrdered
  <2>2. \A p \in Packages : LayerOf[p] <= adv.cur => p \in Done \/ made[p] = "skipped"
    BY <1>4, <1>6, <1>11, <1>12 DEF Done
  <2> HIDE DEF made
  <2> QED
    BY <1>1, <1>3, <1>8, <1>10, <1>12, <2>1, <2>2, OnwardOrdered
<1>13. CASE ~(fresh \subseteq Skipped)
  <2>1. \A p \in Layer(adv.cur) : p \in Elsewhere \/ made[p] # "none"
    BY <1>4
  <2> HIDE DEF made
  <2> QED
    BY <1>1, <1>3, <1>8, <1>9, <1>10, <1>11, <1>13, <2>1, AdvancedOrdered DEF PlanStatus
<1> QED
  BY <1>12, <1>13

LEMMA AdvanceReadOrdered ==
    ASSUME TypeOK, Ordered, AdvanceRead
    PROVE  Ordered'
<1>1. /\ plan.status = "running"
      /\ adv'.on /\ adv'.cur = plan.cur /\ adv'.made = NoMade
      /\ \A p \in Packages : adv'.seen[p].status = job[p]
      /\ UNCHANGED <<plan, job, buildVars, session, skipped, ops, faults>>
  BY DEF AdvanceRead
<1>2. Done' = Done /\ \A p \in Packages : (HasJob(p)' <=> HasJob(p)) /\ (Seen(p)' <=> HasJob(p))
  BY <1>1 DEF Done, HasJob, Seen, buildVars
<1>3. RowsOrdered'
  BY <1>1, <1>2 DEF Ordered, RowsOrdered, buildVars, HasJob, Layer
<1>4. plan.cur <= adv'.cur /\ \A p \in Packages : adv'.made[p] = "none"
  BY <1>1, PlanAssumption DEF TypeOK, Layers, NoMade
<1>5. AdvanceOrdered'
  BY <1>1, <1>2, <1>4 DEF Ordered, RowsOrdered, AdvanceOrdered, Layer
<1>6. SuccessIsBuilt'
  BY <1>1 DEF SuccessIsBuilt
<1> QED
  BY <1>3, <1>5, <1>6 DEF Ordered

LEMMA AdvanceFailsKept ==
    ASSUME TypeOK, Ordered, AdvanceFails
    PROVE  Kept
  BY DEF AdvanceFails, Kept, buildVars

LEMMA StepOrdered == TypeOK /\ Ordered /\ [Next]_vars => Ordered'
<1> SUFFICES ASSUME TypeOK, Ordered, [Next]_vars PROVE Ordered'
  OBVIOUS
<1>1. CASE UNCHANGED vars
  BY <1>1, KeptOrdered DEF vars, buildVars, Kept
<1>2. CASE \E p \in Packages : \/ Build(p) \/ Publish(p) \/ HandOverFails(p)
                               \/ ScanDrops(p) \/ CancelJob(p) \/ Disregard(p)
  BY <1>2, BuildKept, KeptOrdered
<1>3. CASE AdvanceStep
  BY <1>3, WaitsOrdered, PassesOrdered, OpensOrdered DEF AdvanceStep
<1>4. CASE AdvanceRead \/ AdvanceFails
  BY <1>4, AdvanceReadOrdered, AdvanceFailsKept, KeptOrdered
<1>5. CASE \E s \in Users : \/ ChainCancelLoad(s) \/ ChainResumeLoad(s)
                            \/ \E p \in Packages : RetryLoad(s, p)
                            \/ RequestCommit(s) \/ RequestFails(s)
  BY <1>5, RequestKept, KeptOrdered
<1> QED
  BY <1>1, <1>2, <1>3, <1>4, <1>5 DEF Next

\* The rows, the transaction of the advance and the history stay in order.
THEOREM OrderKept == Spec => []Ordered
  BY InitTypes, StepTypes, InitOrdered, StepOrdered, PTL DEF Spec

-----------------------------------------------------------------------------
(* Results *)

\* A layer has jobs only when the packages of all layers below it had a successful
\* publish, were skipped for a failed dependency or are built elsewhere.
THEOREM LayersInOrder == Spec => []OpenedAfterPublished
<1>1. TypeOK /\ Ordered => OpenedAfterPublished
  <2> SUFFICES ASSUME TypeOK, Ordered, NEW p \in Packages, NEW q \in Packages,
                      HasJob(q), LayerOf[p] < LayerOf[q]
               PROVE  p \in Done
    BY DEF OpenedAfterPublished, HasJob
  <2>1. LayerOf[p] \in Nat /\ LayerOf[q] \in Nat /\ plan.cur \in Nat
    BY PlanAssumption DEF TypeOK, Layers
  <2>2. LayerOf[q] <= plan.cur
    BY DEF Ordered, RowsOrdered
  <2> QED
    BY <2>1, <2>2 DEF Ordered, RowsOrdered
<1> QED
  BY <1>1, TypeCorrect, OrderKept, PTL

\* A plan whose status is success has had a successful publish of all its
\* packages, but for those skipped or built elsewhere.
THEOREM SuccessesBuilt == Spec => []SuccessIsBuilt
<1>1. Ordered => SuccessIsBuilt
  BY DEF Ordered
<1> QED
  BY <1>1, OrderKept, PTL

\* No advance, whatever it read before, writes over a cancel: a cancelled plan
\* leaves that status for running only, and not by an advance.
THEOREM CancelsKept == Spec => CancelIsKept
<1>1. TypeOK /\ Ordered /\ [Next]_vars =>
          [plan.status = "cancelled" /\ plan' # plan => plan'.status = "running" /\ ~adv.on]_vars
  <2> SUFFICES ASSUME TypeOK, Ordered, Next, plan.status = "cancelled", plan' # plan
               PROVE  plan'.status = "running" /\ ~adv.on
    BY DEF vars
  <2>1. ~adv.on
    BY DEF Ordered, AdvanceOrdered
  <2>2. /\ plan \in [status : PlanStatus, cur : Layers, manual : BOOLEAN]
        /\ plan' \in [status : PlanStatus, cur : Layers, manual : BOOLEAN]
    BY StepTypes DEF TypeOK
  <2>3. Kept
    <3>1. ~AdvanceStep /\ ~AdvanceRead
      BY <2>1 DEF AdvanceStep, AdvanceWaits, AdvanceStops, AdvanceOpens, AdvancePasses, AdvanceRead
    <3> QED
      BY <3>1, BuildKept, RequestKept, AdvanceFailsKept DEF Next
  <2> QED
    BY <2>1, <2>2, <2>3 DEF Kept
<1> QED
  BY <1>1, TypeCorrect, OrderKept, PTL DEF Spec, CancelIsKept

-----------------------------------------------------------------------------
(* Waiting *)

\* poll_job's layer gate turns no job away.
GateIsOpen == \A p \in Packages : job[p] = "pending" => ~Gated(p)

\* A request's rows are free, also the plan's row if it writes that.
CanCommit(s) ==
    /\ session[s] # NoSession
    /\ session[s].plan # None => PlanFree
    /\ session[s].op # "cancel" => session[s].jobs \cap HeldJobs = {}

CanBuild(p) ==
    \/ job[p] = "pending" /\ p \notin HeldJobs /\ ~Gated(p)
    \/ job[p] = "running" /\ p \notin HeldJobs \cup handing

CanPublish(p) ==
    \/ p \in handing
    \/ scan[p] = "pending" /\ p \notin Infected
    \/ task[p] = "pending" /\ p \notin HeldTasks
    \/ task[p] = "running"

\* What somebody waits for: a job to end, or the plan for the publication of a
\* build of its open layer.
Awaited(p) ==
    \/ job[p] \in Open
    \/ /\ plan.status = "running" /\ LayerOf[p] = plan.cur /\ job[p] = "success"
       /\ scan[p] = "pending" \/ Unsettled(p)

\* Unless a build is withheld, whoever is waited for can go on, or a request or
\* the advance that holds the rows can.
WaitsEnd ==
    (\E p \in Packages : Awaited(p) /\ ~Withheld(p)) =>
        \/ adv.on
        \/ \E s \in Users : CanCommit(s)
        \/ \E p \in Packages : CanBuild(p) \/ CanPublish(p)

\* A job has a row only up to the open layer, also one that is retried under a
\* plan that a resume or another retry has revived: the gate of poll_job, which
\* looks at the plan's layer without a lock, never keeps a job from a worker.
THEOREM GateStaysOpen == Spec => []GateIsOpen
<1>1. TypeOK /\ Ordered => GateIsOpen
  <2> SUFFICES ASSUME TypeOK, Ordered, NEW p \in Packages, job[p] = "pending"
               PROVE  ~(LayerOf[p] > plan.cur)
    BY DEF GateIsOpen, Gated
  <2>1. LayerOf[p] <= plan.cur
    BY DEF Ordered, RowsOrdered, HasJob
  <2>2. LayerOf[p] \in Nat /\ plan.cur \in Nat
    BY PlanAssumption DEF TypeOK, Layers
  <2> QED
    BY <2>1, <2>2
<1> QED
  BY <1>1, TypeCorrect, OrderKept, PTL

\* With the plan's row free, a cancel has all it needs; without a cancel every
\* other request has.
LEMMA RequestsCommit ==
    ASSUME ~adv.on, \A s \in Users : ~CanCommit(s)
    PROVE  HeldJobs = {} /\ \A s \in Users : session[s] = NoSession
<1>1. \A s \in Users : session[s].op # "cancel"
  BY DEF CanCommit, PlanFree, NoSession
<1>2. HeldJobs = {}
  BY <1>1 DEF HeldJobs
<1> QED
  BY <1>2 DEF CanCommit, PlanFree

\* Advance, requests, workers and publish loop never wait for each other in a
\* circle, for any plan: what the plan or a user waits for can go on.
THEOREM NobodyWaitsInVain == Spec => []WaitsEnd
<1>1. TypeOK /\ GateIsOpen => WaitsEnd
  <2> SUFFICES ASSUME TypeOK, GateIsOpen, NEW p \in Packages, Awaited(p), ~Withheld(p),
                      ~adv.on, \A s \in Users : ~CanCommit(s)
               PROVE  CanBuild(p) \/ CanPublish(p)
    BY DEF WaitsEnd
  <2>1. HeldJobs = {} /\ HeldTasks = {}
    BY RequestsCommit DEF HeldTasks, NoSession
  <2>2. CASE job[p] \in Open
    BY <2>1, <2>2 DEF Open, CanBuild, CanPublish, GateIsOpen
  <2>3. CASE job[p] = "success"
    <3>1. p \in handing \/ (scan[p] # "pending" /\ task[p] # "none")
      BY <2>3 DEF Withheld
    <3>2. scan[p] = "pending" \/ Unsettled(p)
      BY <2>3 DEF Awaited, Open
    <3> QED
      BY <2>1, <3>1, <3>2 DEF CanPublish, Unsettled
  <2> QED
    BY <2>2, <2>3 DEF Awaited
<1> QED
  BY <1>1, TypeCorrect, GateStaysOpen, PTL
=============================================================================
