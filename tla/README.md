# Verification of the Oreon build service

TLA+ models of the Oreon build service's controller, the TLC configurations
that check them on small instances, and proofs that TLAPS checks for every
value of the constants. The code is the reference. Each definition that
translates code is listed in `PROJECT.json` under `map` with the lines it
stands for.

Paths below are relative to `src/src/oreon_build/`.

## The system

One API process (FastAPI over PostgreSQL through async SQLAlchemy) serves users
and workers, and runs the background loops: a sweep every five minutes, a
publish loop, the GitHub catch-up, schedules. Workers are separate machines:
an agent polls for a job, builds it in mock, uploads the packages and posts the
result. Everything the parts share is rows of the database, read and written
from concurrent transactions at READ COMMITTED.

`db/session.py` opens every session with `autoflush=False` and
`expire_on_commit=False`. A handler therefore keeps the column values it read,
through its awaits and its own commits, and writes at its commit the columns it
changed, whatever the row has become. Most of the hazards come from that.

| Component | State | Operations | Hard behaviour | What makes it correct |
|---|---|---|---|---|
| Build queue (`api/worker_api.py`, `api/routers/builds.py`, `services/worker_state_sync.py`, `services/stale_builds.py`, `services/discovery.py`, `services/build_pass.py`) | `build_jobs`, `build_attempts`, `build_attempt_finalizations`, `workers` | poll, report result, cancel check, heartbeat, retry, cancel, bootstrap, reconcile, stale sweeps, wake blocked jobs | requests that write from stale reads, reports posted again, crashes between commits, sweeps racing results | one running attempt per job, worker capacity, an attempt ends once, a success has packages and is published, everything comes to rest |
| Upload and finalization (`api/worker_api.py`, `worker/main.py`) | `artifacts`, `rpm_complete_locks`, an in-memory registry of tasks | ask, presign, PUT, complete, sign, register | a lock with an expiry, completion twice, restarts, two attempts under one key | one signer at a time, the registered digest is the stored object's, every upload ends |
| Scan gate (`services/rpm_scan.py`) | `build_jobs.scan_state`, an in-memory in-flight set | gate, scan, retry pending, disregard | a scan outliving the attempt it judged, a restart losing the in-flight set | no publish before a clean verdict or a disregard, no job waits for its scan for ever |
| Publish tasks (`services/repo_publish.py`, `services/stale_publish_tasks.py`, `api/main.py`) | `publish_tasks` | enqueue, claim, publish in a thread, mark, reclaim | a timeout that does not stop the thread, unconditional marks | every task ends, a success stays one, its packages were shown or another build took their place |
| Repository metadata and pruning (`services/publisher.py`, `api/worker_api.py`) | object store, `repositories` | stage, createrepo, upload, prune | batches out of order, uploads outside the lock | publishing never takes the last file of a package |
| Chain and layer plans (`services/rpmbuild_settle.py`) | `rpmbuild_plans`, jobs' plan layer | advance, settle, stop, cancel, resume | user cancel against the advancing loop, job retry under a closed plan | no job of a layer built before the layer below is clean |
| Discovery plans (`services/discovery.py`) | missing capabilities of a job | block, wake | provider done before the job was blocked | a satisfied job is woken |
| Side tags (`services/side_tags.py`, `api/routers/side_tags.py`) | `side_tags`, the tag's prefix | create, build, promote, scrap, remove package | a wipe in the background against a recreated tag | a promoted package is in its target before the tag's prefix goes |
| Promotions (`services/promotion_jobs.py`, `services/promotion_r2_cleanup.py`) | `promotion_jobs`, both prefixes | request, list, lock, copy, prune, remove | a listing older than the locks, crossing lock orders, restarts | the last file of a package is not lost, every promotion ends |
| GitHub trigger and catch-up (`services/github_push_trigger.py`, `services/github_push_catchup.py`, `api/routers/github_webhook.py`) | `github_push_cursors` | webhook, catch-up cycle | lost, late and repeated deliveries, webhook against cycle, a cap, rewritten history | a change is built, or skipped for a reason the code names |
| Triggers, schedules, mass rebuild (`services/build_trigger_exec.py`, `services/mass_rebuild.py`) | jobs they create | create, start pass | double submission | no duplicate jobs in a pass |
| ISO builds (`services/iso_builds.py`, `worker/iso_job.py`) | `iso_builds`, the image under its name | create, claim, log, upload, result, cancel, requeue | requeue while still building, two rows for one name | a success is the image under its name, every ISO ends |
| Worker agent (`worker/main.py`) | threads of the process | poll, build, cancel check, upload, post | lost replies, death | posts one result per attempt |
| Dependency planning (`services/distgit_order.py`, `services/rpmbuild_order.py`, `services/dep_plan/`, `services/repo_solver.py`) | the layers of a plan | parse, order, create plans, solve | cycles, a package in several layers | providers come first, the last build of a package is a full one |
| Signing, accounts, audit, advisories site, CLI, stubs (`scheduler/main.py`, `publisher/main.py`), web pages, migrations | | | | not modelled: request-local or presentation |

How they interact: a user request or a trigger creates jobs. A chain plan opens
them layer by layer. A worker's poll claims a pending job by inserting an
attempt row. The worker uploads packages to the attempt and posts its result.
The result closes attempt and job and hands the attempt to the scan gate; the
gate enqueues a publish task; the publish loop puts the packages into a
repository, which may wake blocked jobs and complete a layer. The sweep repairs
what lost replies, dead workers and half-done requests leave behind. Promotions
move what side tags hold into the primary branches. Pushes to GitHub, through
webhooks or the catch-up loop, create jobs; ISO builds have a queue of their own
that shares the workers.

`PROJECT.json` lists the hazards at the lines where they bite, with the
properties that would catch them.

## The modules

| Module | Content |
|---|---|
| `BuildLeases` | what the queue promises: attempts are leases, granted once, to a worker with room, on a free job |
| `BuildQueue` | the queue: one action per transaction, and the properties |
| `BuildQueueMC` | constants for TLC |
| `BuildQueueClaims`, `BuildQueueClaimsMC` | a statement of a log message that the code does not keep |
| `BuildQueueProofs` | the theorems |
| `Publication` | what the way into the repository promises: cleared, asked for, shown or replaced, confirmed, in this order and for good |
| `PublishPipeline` | scan gate, publish tasks, publish loop and threads, and their properties |
| `PublishPipelineMC` | constants for TLC |
| `PublishPipelineProofs` | the theorems |
| `LayerPlan` | a chain or rpmbuild plan: the advance, user requests, and their view of builds and publishes |
| `LayerPlanMC` | constants for TLC |
| `LayerPlanClaims` | a statement of the web page that the code does not keep |
| `LayerPlanProofs` | the theorems |
| `RpmFinalize`, `RpmFinalizeProofs` | the upload, signing and registration of an RPM, and theorems |
| `RpmFinalizeClaims` | a statement of a docstring that the code does not keep with its default times |
| `PushCursor`, `PushCursorMC`, `PushCursorProofs` | webhook deliveries and the catch-up cycle over a cursor, constants, theorems |
| `PushCursorClaims` | a statement of a log message that the code does not keep |
| `IsoQueue`, `IsoQueueMC`, `IsoQueueProofs` | ISO rows, their builds and images, on workers that run RPMs as well; constants, theorems |
| `RepoTree`, `RepoTreeMC`, `RepoTreeProofs` | the packages in the bucket under publishes, promotions and scrapped tags, constants, theorems |
| `LayerOrder`, `LayerOrderMC`, `LayerOrderProofs` | the layers of a plan, computed step by step, and the copies they build; constants, theorems |

### BuildQueue

**State.** `job`, `att`, `worker` are the rows; `lastId` is the attempt
sequence; `uploaded`, `finalized` and `gated` are the attempts with artifact
rows, with a finalization row and with a call to `gate_publish`. A behaviour may
start without some jobs and workers: they have no row then. `report[a]` is
the `report_result` request in progress for attempt `a`, with what it read of
the job. `session[s]` is any other open transaction and the columns it will
write. `agent[a]` is the worker's thread for `a`.

**Requests as steps.**

- `poll_job` locks the worker row, and the job row it claims (`FOR UPDATE SKIP
  LOCKED`), so it is one step: `PollClaim`, or `PollNothing` when there is no
  room or no job.
- `retry`, `cancel` and `bootstrap` read without locks: `RetryLoad`,
  `CancelLoad`, `BootstrapLoad` fix in `session[s]` what will be written, and
  `Commit` writes it. `Emit` and `Apply` are the unit of work: a column is
  written only if its new value differs from the value that was loaded.
- `SweepLoad` is one transaction of the sweep task: `reconcile_queue_inconsistencies`,
  then the stale-running policy on what that produced, then stale-pending.
- `report_result` locks the attempt row for its first transaction, reads the
  job row without a lock, and commits up to four times. Its phases are
  `loaded`, then `stored` (or `repaired`), `gated`, `woken`, each ended by one
  of those commits. A session that wants to update an attempt held in phase
  `loaded` waits (`Unlocked`).
- `Rollback` is a transaction that fails or is chosen as a deadlock victim,
  `ApiRestarts` the death of the API process, `WorkerDies` the death of a
  worker, `Orphan` the worker's failure post after its retries ran out. A lost
  reply is the second disjunct of `PollClaim` and of `Answered`. All of these,
  and the exceptions `report_result` swallows, draw on `MaxFaults`.
- Ages are not numbers: `overdue` says an attempt or a pending job is older than
  its stale policy (`build_stale_running_minutes` and its pending counterpart),
  and any update of a job clears it, as `updated_at` does.

**Not in the model.** How `poll_job` chooses among pending jobs (priority,
architecture, burst list, layer gate): any claimable job may be chosen, so the
safety results cover every choice. ISO builds in a worker's load (`IsoQueue` has
both kinds). `mock_complete` and `signing_status`. Log, artifact and audit payloads. The end of a discovery
or chain plan. One request at a time is served per attempt, which the worker's
one thread per attempt ensures short of a proxy that delivers a post twice at
once. The worker rows the sweep reads are taken at its commit. The states
`queued`, `draining` and `unhealthy` are in the enumerations and are never
assigned, so no variable takes them. `poll_job`'s answer for an attempt that
already runs is left out because a locked pending job cannot gain one.

### PublishPipeline

**State.** `scan[j]` is the job's `scan_state`, `open` the jobs that are not a
success, `built` the successful attempts, `task[a]` the row of `publish_tasks`,
`waived` the jobs a maintainer has disregarded the scan of (the audit log has
it). `gate[a]` is the success report of `a` with the `scan_state` it read;
`scheduled` and `scanning` are the scan tasks of the event loop, before and
after they joined the in-flight set, the latter with whose RPM they downloaded.
`loop` is the publish loop, `threads` the calls of `process_repo_publish_sync`.

A worker puts its RPM directly under the prefix, at `repo_rpms_key`, before it
reports. So `file[a]` is the file name of an attempt's RPM (attempts of one
version share it), `objects[f]` the attempt whose bytes the key of `f` holds,
`uploaded` and `shown` are histories: who has put its RPM, and whose RPM was in
the prefix's metadata.

**Steps.**

- `Upload` writes the object of the file name, whatever is there, and whether or
  not the build ever reports.
- `ReportLoad`, `ReportStore`, `Gate`, `ReportEnds` are the commits of
  `report_result`. `Gate` decides on the value that `ReportLoad` read, and
  writes `pending` only if that value was another one, because the session
  compares with what it loaded. A report cut off before `ReportEnds` may come
  again.
- `ScanStart` reads the job, claims the in-flight set and downloads what the
  key holds by then, be it of another attempt; `ScanVerdict`, `ScanMissing` and
  `ScanHeld` are the three ways a scan ends. The verdict is written to the job
  whatever happened since. `ScanMissing` fails the attempt's task, and inserts a
  failed one if there was none.
- `Fetch`, `Start` and the three ends of a batch are the publish loop.
  `BatchTimeout` leaves the thread in place. The marks that end a batch have no
  condition, the mark that starts it has one.
- A thread works under the prefix lock in three parts. `ThreadStages` copies the
  batch's files that the store still has and skips the others. `ThreadPrunes`
  deletes what the batch's files supersede, whether it was published or not, and
  then all but one version of every package under the prefix; which one is the
  newest is left open. `ThreadDescribes` renews the metadata: it then has the
  staged files and, of the rest of the prefix, whatever the mirror picked up,
  also files nobody queued. With nothing staged it leaves the metadata alone and
  the publish is a success all the same.
- `ApiRestarts` drops the loop, the threads, the scan tasks and the requests.

**Not in the model.** Other repository prefixes (they share only the loop),
bootstrap passes (a pass that is not gated, see `BuildQueue`), several RPMs per
attempt, the deletion under `builds/{attempt}/` at the end of a publish (nothing
is there, since workers put their RPMs elsewhere), deletion of objects by
promotions and scrapped tags (see `RepoTree`), a `createrepo_c` that ends well
and writes nothing, the cancel of running tasks when a package is removed from a
side tag. `retry` is one step here, its races are in `BuildQueue`. The retry loop
takes jobs of live plans first, the model only the newest.

### LayerPlan

**State.** `plan` is the row (status, `current_open_layer` and whether it is a
manual chain, which has no `dep_providers` and which users may cancel and
resume), `job` the jobs'
status by package, `scan` and `task` what `_layer_status` reads of their
publication, `handing` the successes between the report's first commit and
`gate_publish`. `adv` is the open transaction of `advance_rpmbuild_plans_once`:
the layer it looks at, what it saw of the jobs, the rows it has inserted and not
committed. `session[s]` is a user request, with the rows it holds or will write.
`published` and `skipped` are histories: packages with a publish task that was a
success, and packages a layer went past. What a successful publish says of the
repository is in `PublishPipeline`.

**Steps.**

- `AdvanceRead` takes the plan's row (`FOR UPDATE SKIP LOCKED`) and reads the
  jobs of the open layer. The publish tasks are looked up after that, job by
  job, so the steps that end a pass read `task` as it is then, and the jobs as
  they were. `AdvanceWaits`, `AdvanceStops`, `AdvanceOpens` and `AdvancePasses`
  are the branches of the loop in their order; `Onward` goes on to the next
  layer in the same transaction or finishes the plan. `Advanced` is the commit:
  the jobs of a new layer become visible together with the layer's number.
- `ChainCancelLoad` updates the rows of jobs and tasks at once, so others wait
  for them (`HeldJobs`, `HeldTasks`), and leaves the plan to its commit, because
  of `autoflush=False`. `ChainResumeLoad` and `RetryLoad` write everything at
  their commit. A request that writes the plan waits for an advance to end
  (`PlanFree`); one that loaded the value it assigns writes nothing (`Write`).
- `Claim` has `poll_job`'s layer gate, which binds only while the plan is live.
- `Finish`, `HandOver`, `ScanPasses`, `TaskStarts`, `TaskEnds` are the plan's
  view of the other two modules, where their races are. `HandOverFails` is the
  exception `report_result` swallows.

**Not in the model.** More than one architecture, a package that a bootstrap
round puts into two layers, blocked jobs, other plans (an advance holds the rows
of all live plans, so they only lengthen it), the refresh of sources on resume,
attempts (a cancelled or retried job's late report is in `BuildQueue`), the end
of a discovery plan by `maybe_finish_discovery_plan`: the results are about
manual chains and rpmbuild plans. The advance's own reads of job states of
other layers (`Failed`) are taken where they decide. That a package is built
elsewhere is a constant, `Elsewhere`, since the answer of
`has_successful_build_for_target` for a package is asked once per layer.

### RpmFinalize

**State.** `agent[a]` is where the worker's upload of attempt `a` stands,
`object` the bytes under the key: whose they are and which signature they have.
`row[a]` is the artifact row, `lock[a]` the row of `rpm_complete_locks`, `run[r]`
a finalizing task of the API process, `registry[a]` the entry of
`_rpm_finalize_tasks`.

**Steps.** `AgentAsks`, `AgentPuts`, `AgentLearns` and `AgentStops` are the
worker's loop around the status question, the presigned PUT and the completion.
`Complete` is the completion request: it starts a task unless one is registered.
The task takes the lock (`Acquire`), waits for another's, removes an expired one
in two steps (`SeeExpired`, `DeleteExpired`, where the delete does not name an
owner), looks again (`Check`), reads the object, signs and uploads, registers,
and releases. `ApiKilled` leaves the locks, `ApiStopped` releases them and may let
an upload through. Every signature is another file, so the digest that is
registered tells whether the object was written again.

`TtlFirst` says whether the lock may expire before the worker's window of retries
ends. Both times are set in the environment, both default to twelve hours, and the
window begins first: without `TtlFirst` a lock left by a killed process outlasts
the worker, which is the finding of `claim_outage`. With `TtlFirst` a lock may
expire at any time, also under a task that signs, and also after the window, so
that the safety results cover every setting.

**Not in the model.** The multipart upload that this one replaced, artifact
downloads, a PUT that reaches the store after its own retry. The key has no
attempt in it, so two attempts of one version share it; other files are
independent.

### PushCursor

**State.** Pushes of a branch are numbered; `tip` is the last one, `cursor` the
row, `delivery[b][n]` the webhook request for a push, `cycle` the session of the
catch-up, `built[p]` the last push that a job of package `p` covers. `gaps` and
`jumped` are histories of the changes that were left out, with a reason. Not every
reason is one the code means to have: see `claim_catchup`.

**Steps.** `HookReads` computes the jobs of a delivery and reads the cursor,
`HookCommits` writes both. `CycleReadsTip`, `CycleBranch`, `CycleCommits` are the
cycle, in one session with `jobs_left` counted over all branches;
`CycleBranchFails` rolls everything back that is not committed.
`InsertConflict` is the unique index that two first writers of a branch meet.
Deliveries are lost, late and repeated, the controller restarts.

**Not in the model.** How paths select packages (a set per push), releases and
architectures, the switch that turns automatic builds off.

### IsoQueue

**State.** `iso` are the rows, `image` the object under each name, `build[t]` a
`run_iso_job` thread with the row it works for; `creating`, `cancelling`,
`sweeping` are requests between their read and their write. `rpms[w]` is the number
of RPM attempts that run on a worker with `Slots[w]` slots.

**Steps.** `ClaimIso` hands a row to a worker for which nothing runs, RPMs included; the
same poll hands out RPMs while a slot is left (`TakesRpm`), also while an ISO waits,
unless the worker is idle. The thread posts its first note
(`Starts`), builds and asks for a cancel (`Finishes`), asks for a URL
(`Presigns`), uploads with `If-None-Match: *` (`Uploads`) and posts its result in
two steps (`ResultReads`, `ResultWrites`), since `iso_result` takes no lock.
`SweepReads` and `SweepWrites` queue a row without a log again.

### RepoTree

**State.** `objects[b]` are the files of a branch, `build[f]` how far an upload is
on its way to its publish task, `pub[t]` the publish thread of a tag, `job[j]` a
promotion, `tag[t]` the tag's row, `wiping[t]` tasks that will delete a prefix.

**Steps.** `Upload` puts a file straight into the tag, outside any lock, as the
worker does. `Take`, `PubPrunes`, `PubEnds` are a batch of publish tasks and what
it deletes. `Lists`, `LocksFirst`, `Copies`, `Prunes`, `Removes`, `Leaves`,
`ScrapsTag` are a promotion; it lists its source before it has any lock, takes
both prefix locks in sorted order, and prunes dev, testing and stable whichever
two it has locked. `Scraps` removes a tag's row and leaves its prefix to `Wipes`,
`Recreates` makes a tag of the same name. `Fails` and `Restarts` end promotions
where they are.

**Not in the model.** Repodata and createrepo, more than one architecture, source
packages and files written directly under `RPMS/`, members and access of tags,
the removal of one package from a tag, the timeout of a publish (it is in
`PublishPipeline`), a prune cut off half-way, `promote_group_from_inventory`,
which nothing calls.

### LayerOrder

**State.** `deps` is the graph `_distgit_order_from_parsed` builds, `left` the
loop's `remaining`, `rest` the packages the generator has not yielded, `layers`
and `cycle` the result. `plan`, `last`, `pinned`, `others` are a plan made of it:
its open layer, the kind of each package's last build, and the full builds that
later layers may find.

**Steps.** `ReadTree` chooses any graph. `Generation` is one step of
`topological_generations`, whose result is appended at once; `Cut` is its
exception: one package leaves the graph and the generator starts anew over
*all* packages not cut, those already laid out included. `CreatePlan`,
`CreateChain`, `OpenLayer` enqueue layers, `OtherBuild` is a build of the same
version beside the plan. What it takes to open the next layer is in `LayerPlan`.

## What the runs show

| Run | Instance | Properties |
|---|---|---|
| `queue` | a job on a worker with room for 2, 2 attempts, 1 request, 1 fault; or that job and a second one, which it wakes and which has a bootstrap pass, on a worker with room for 1; fairness | `OneRunningAttempt`, `WithinCapacity`, `FinalizedHasEnded`, `SuccessHasPackages`, refinement of `BuildLeases`, `EventuallySettled`, `SuccessIsGated` |
| `claim_repair` | 1 job, 2 attempts, 2 requests, 1 fault | the finding below |
| `publish` | 1 job built twice, the first build infected; each with a version of its own and 1 fault, or both under one file name; fairness | `SuccessIsPublished`, `InfectedIsHeld`, `SuccessIsFinal`, refinement of `Publication`, `TasksEnd`, `ScansEnd` |
| `layer_chain` | 4 packages in 3 layers, one built elsewhere, one quarantined, dependencies across layers unless it is a manual chain, 2 requests by 2 users, 1 fault, hand-overs may be lost, fairness | `OpenedAfterPublished`, `SuccessIsBuilt`, `CancelIsKept`, `PlanSettles` |
| `claim_chain_cancel` | 2 packages in 2 layers, 1 request, 1 fault | the finding below |
| `rpm_finalize` | 2 attempts of one file, 3 tasks, a lock that may expire at any time, 1 fault, fairness | `OneSigner`, `RegisteredIsStored`, `UploadsEnd` |
| `claim_outage` | 1 attempt, 2 tasks, the default times, 1 fault, fairness | the finding below |
| `push_cursor` | 2 branches, 3 pushes, one of them rewriting history, 3 packages, a cap of 2, no cursor on one branch, 1 fault, fairness | `NothingSkipped`, `CapKept`, `ChangesAreBuilt` |
| `claim_catchup` | 1 branch, 2 pushes, 2 packages, 1 fault, fairness | the finding below |
| `iso_queue` | 2 rows for one name, 2 workers with 2 slots each that also run RPMs, 3 builds, 1 cancel, 1 fault, fairness | `SuccessIsStored`, `IsoEnds` |
| `repo_promote` | a tag, 3 primary branches, 2 builds of a package they all have, 2 promotions along 3 routes, 1 scrap, error or restart, fairness | `NamesKept`, `PromotionsEnd` |
| `layer_order` | every graph of 4 packages, plans for 3 choices of seeds, 2 manual chains, 1 build beside them, fairness | `ProvidersFirst`, `TreeIsLayered`, `EndsReal`, `OrderEnds` |

`TypeOK` is checked in one run of each module.

**Why the bounds are enough.** The hazards of the queue are races on one job
between a request, a sweep and a report, for an attempt and the attempt that
replaces it: two attempts, a request that loads before another step commits, and
a sweep reach all of them, and one fault is enough for each kind of repair to be
needed. The worker with room for both attempts leaves nothing but the job's own
guards to keep them apart; room for one and two jobs make the limit bind. No
request or fault meets two jobs at once. No bound on time is needed because age is
a flag.

For the pipeline, two attempts of one job are what the verdict kept per job and
the unconditional marks need: a scan, a report or a batch of the first meets the
state of the second, and a batch can hold two tasks. With versions of their own,
one attempt's publish may delete the other's RPM; under one name, one upload
replaces the other between a scan and a publish. A fault is a restart, an
exception or a scan that could not run. One job never competes for its place in
the retry loop: `ScansEnd` for several jobs is not checked.

For plans, two layers show every race of a cancel, a resume or a retry with the
advance that opens the second one, and two requests let one be loaded before the
other commits. The third layer is there for a layer that has nothing to build and
is passed in the same transaction: that is how a package can be skipped for a
dependency that failed again after its own layer was passed, which also takes two
requests to end as a success.

For uploads, two attempts share a key and three tasks allow one to hold the lock,
one to wait for it and one that was started after a restart; with two tasks the
bound would block a completion for ever. For pushes, two on the hooked branch let
a delivery be overtaken, and the cap of two is reached by the three packages. For
ISO builds, a row built twice beside another row of its name takes three builds.
For the tree, two builds make a batch that publishes an older file after a newer
one, and two promotions in opposite directions cross their locks. Four packages
are the fewest for a cycle with something before it and something after it.

The safety properties of all modules are proved without any bound except that
the counters are natural numbers.

**Fairness of BuildQueue** (`FairSpec`). Some request the API has begun is served
(`Report`, `Commit(s)`), the sweep task loops for ever (`SweepLoad`;
`api/main.py` restarts the loop body after any exception), and time passes
(`Time`). Weak fairness is enough since each of these stays enabled until taken.
Workers, users and the network are not assumed to do anything:
`EventuallySettled` holds because the sweep fails what nobody finishes.
`SuccessIsGated` promises nothing once a fault happened, because the code does
lose the publish hand-over when `gate_publish` raises or when the process dies
between the first commit and the second: the exception is logged, and nothing
looks for an ungated success afterwards.

**Fairness of PublishPipeline** (`FairSpec`). For `TasksEnd` (`PublishFairness`):
the publish loop runs (`Batch`), and a task that stays running ages and is swept
(`TaskAges` or `Reclaim`, one of the two). Nothing is assumed of publish threads:
the loop gives up on them. For `ScansEnd` (`ScanFairness`): reports and scan tasks
get their turn, scans end since each subprocess has a time limit, and `RetryScans`
loops. Weak fairness of each group of steps, not of each job or attempt, is enough.
`ScansEnd` needs `MaxFaults`: a package that can never be scanned waits for ever,
and four such jobs keep `retry_pending_scans` from all others.

**Fairness of LayerPlan.** Builds end, since workers or the sweep end them;
publishes and scans end; the settle loop runs for ever. Of a request that waits
for the plan's row strong fairness is assumed: the loop sleeps at least five
seconds between its passes and PostgreSQL hands the row to who waits for it, so
no request is passed over for ever. `PlanSettles` excepts a plan that waits for a
build that is quarantined or was never handed over (`Withheld`), for which the
code does wait without a limit: `rpmbuild_settle_timeout_seconds` ("Max wait for
repodata visibility before failing the active layer", `config.py:410`) is read
nowhere, and `settle_deadline_at` is never set to a time.

**Fairness of the others.** `RpmFinalize`: some worker and some task move on,
since HTTP requests and subprocesses have time limits, completions are posted
again, and locks and windows run out. `PushCursor`: deliveries that arrived are
served and the catch-up loop runs; nothing is assumed of GitHub, so
`ChangesAreBuilt` holds for lost deliveries too, unless a later one overtook them.
`IsoQueue`: workers with nothing at work poll, RPM builds and build threads have
time limits, the sweep and the requests go on. That is not enough for an ISO to be
claimed: a worker with several slots may start an RPM whenever another one ends, and
an ISO is handed out only at zero. So `IsoEnds` is conditional: it promises an end
if some worker gets free of RPMs again and again (`GetsFree`). A worker with one
slot does, since its RPM ends and an idle poll tries ISOs first. Without the
condition TLC finds `IsoEnds` violated on the same instance.
`RepoTree`: some publish or promotion thread that can run does, one weak fairness
for all of them, so that only a deadlock could stop a promotion. `LayerOrder`:
the loop of one call.

## Findings

- The repair of "failed report but artifacts" cannot tell a duplicate of a
  timeout race from a failed build that had uploaded one package and whose
  report arrives twice; such a build becomes a success (`claim_repair`).
- The webhook leaves what a truncated compare did not match to catch-up ("catch-up
  handles the rest") and moves the cursor to its push, behind which catch-up never
  looks; those packages are not built (`claim_catchup`).
- With the default times the lock of a controller that was killed while it finalized
  outlasts the worker's window, and the upload that was to be kept while the
  controller is away is given up (`claim_outage`).
- Cancelling a chain while an advance opens its next layer leaves the jobs of
  that layer pending under a cancelled plan, where the layer gate of `poll_job`
  does not bind and workers build them (`claim_chain_cancel`).

## Observations

What the models except or leave out because the code does it, for whoever
changes this code:

- `sweep_stale_running_builds` writes FAILED to every attempt that it read as
  RUNNING, without a condition, so a result committed in between is overwritten.
- A publish that hangs is marked failed by `wait_for` (40 minutes by default)
  before the policy for stuck tasks (240 minutes) looks at it, and a failed task
  is final; its thread may still publish.
- A webhook delivery sets the cursor to its own push. A delivery that was lost
  before it is then behind the cursor, where no compare looks (`GivenUp`), although
  `config.py:200` describes catch-up as the remedy for missed webhooks.
- The metadata is made from a mirror of the whole prefix. RPMs whose job waits for
  its scan or is quarantined lie under it and are shown with the next publish of
  anything else: `InfectedIsHeld` is about publishes, not about what is shown.
- An attempt whose RPM was deleted by another batch's prune publishes nothing and is
  called a success (`Replaced`). Its prune may still delete the other version of
  the package, which the metadata goes on listing.
- Two versions of a package in one batch: the older file is pruned after it was
  staged, and the publish fails for both unless everything is done anew.
- A scan reads what the key holds when it downloads. If another attempt of the same
  version has uploaded since, that is what it judges.
- On a worker with several slots that always has an RPM at work, no ISO is claimed.
- The delete of an expired finalize lock names no owner and may take the lock of
  the task that has just replaced it. `OneSigner` holds all the same, because of
  the registry, as long as there is one API process.
- Two results posted for one ISO row at the same time may leave columns of both.
  An ISO whose thread is lost after its first note stays RUNNING, and its worker
  is given no other one (`Orphaned`). A requeued ISO whose first build did upload
  fails with a conflict, and its name stays taken.
- Publishing a batch deletes what else bears its names from a tag: a newer upload
  whose own batch then finds its file gone (`FileGone`). A promotion whose listing
  no longer holds copies nothing, prunes all the same, and deletes a tag's prefix
  at its end (`ListingGone`, `PrefixGone`). The prune covers branches whose locks
  it does not hold (`CopyGone`). The wipe of a scrapped tag deletes the builds of
  its successor (`PrefixGone`). A promotion takes files that are not published
  yet, or held by the scanner, along.
- `_kahn_layers` appends generations before it knows of a cycle, and does not
  take them out of `remaining`: with a cycle packages are laid out several times,
  the earlier copies become bootstrap builds, and a package behind the cycle may
  be cut out before what it needs. `topo_layers` in `services/dep_plan/order.py`
  avoids this and has the test for it (`tests/test_build_planner.py`,
  `test_topo_layers_cycle_does_not_duplicate_leaves`).
- A full build of the same version beside a plan makes the plan skip a package's
  real copy, also if a bootstrap copy was built after it.
- `run_mass_rebuild_pass` creates jobs without a version and then looks for
  successes of the latest version, so the successes of its own jobs do not count
  and the next pass queues them again.

## What is proved

`BuildQueueProofs` proves, for all values of the constants that satisfy
`QueueAssumption`:

| Theorem | Statement |
|---|---|
| `TypeCorrect` | `Spec => []TypeOK` |
| `OneBuildPerJob` | `Spec => []OneRunningAttempt` |
| `CapacityRespected` | `Spec => []WithinCapacity` |
| `FinalizedEnded` | `Spec => []FinalizedHasEnded` |
| `SuccessesPackaged` | `Spec => []SuccessHasPackages` |
| `QueueImplementsLeases` | `Spec => ImplementsLeases` |

The argument. `TypeOK` alone is not inductive: `Synced` and `FixedJobs` copy
values out of attempt rows, so the rows they reach must exist and have ended.
`TypeInv` adds that ids are handed out in order, that everything which names an
attempt (a worker's current attempt, an upload, a report, a thread) names an
existing row with a job and a worker, and that a loaded report carries a closing
status. Its proof has one step per action. It needs that the newest member of a
nonempty set of ids is a member, which is lemma `LargestId` (the distances of
ids from the bound are natural numbers, so one of them is least).

With it, every step is of one of two kinds. Either `Kept`: no attempt row
appears, changes its job or worker, or starts to run. Or `PollClaim`: one row
appears, for a job without running attempts, on a worker with room. From
that dichotomy the two exclusion invariants and the refinement follow at once: a
`Kept` step releases a set of leases or stutters, a claim grants one.

`FinalizedHasEnded` needs `Reported`: a request past its first commit belongs
to an attempt that has ended, so the finalization it writes last does too.
`SuccessHasPackages` needs `Packaged`: a thread that posts success, a request
that carries a success or a repair, and an attempt that was gated have uploads,
and no open session will ever write `success` to an attempt that lacks them.

`PublishPipelineProofs` proves, for all values of the constants that satisfy
`PipelineAssumption`:

| Theorem | Statement |
|---|---|
| `TypeCorrect` | `Spec => []TypeOK` |
| `SuccessesPublished` | `Spec => []SuccessIsPublished` |
| `SuccessesFinal` | `Spec => SuccessIsFinal` |
| `InfectedHeld` | `Spec => []InfectedIsHeld` |
| `PipelineImplementsPublication` | `Spec => ImplementsPublication` |
| `OneThreadPerTask` | `Spec => []ThreadsApart` |
| `LoopNeverStuck` | `Spec => []PublisherGoesOn` |

The store only gains uploads (`Grows`): who was replaced stays so, since a key that
lost an attempt's bytes never gets them back, and who was cleared stays so. `Stocked`
says that reports, scans, publishes and what is shown are of attempts that were
uploaded, and that an object is what was uploaded under its name.

`SuccessesPublished` and `SuccessesFinal` share the invariant `Landed`: a thread at
work has staged the files of its tasks but for those that were replaced, a thread
that is done has brought its tasks into the metadata or they were replaced, an idle
loop holds no tasks and a busy one no success. So the publish with nothing staged is
covered: all its tasks were replaced. The last part is what makes a success final
although the marks are unconditional: only the loop makes a success, and it lets go
of the task in the same step.

`InfectedHeld` needs `Vetted`: verdicts that pass, also those a report read earlier,
and the attempts somebody wants published belong to cleared jobs. A job is cleared
by a disregard, or by an upload without findings under a file name of the job, since
that is what a scan can have read.

`PipelineImplementsPublication` combines them. `Upload` may replace and may clear,
`Gate` and `ScanVerdict` ask for an attempt, `Disregard` waives and asks in one
transaction, `ThreadPrunes` makes room, `ThreadDescribes` shows (the metadata changes
only on behalf of a thread with tasks, each of which `Landed` says was staged or
replaced), `BatchDone` confirms. Failed marks, cancels, dropped scans and restarts
withdraw what was asked for, never a confirmation. All other steps are stutters.
What else the metadata shows is left open in `Publication` as it is in the code.

`OneThreadPerTask` and `LoopNeverStuck` rest on the invariant `Served`, and on the
prefix lock for the second half of `ThreadsApart`. The loop
gives up a late thread without stopping it, so what keeps two threads off one task
is the mark it writes then: `failed`, which nothing takes back. Hence tasks of
threads given up are never fetched again, a batch shares no task with any thread
there is, and the threads may be modelled as a set. While the loop waits it has a
live thread, which finishes, raises or is late. TLC finds no violation of `Served`
on the instance of `publish`.

`LayerPlanProofs` proves, for all values of the constants that satisfy
`PlanAssumption`:

| Theorem | Statement |
|---|---|
| `TypeCorrect` | `Spec => []TypeOK` |
| `OrderKept` | `Spec => []Ordered` |
| `LayersInOrder` | `Spec => []OpenedAfterPublished` |
| `SuccessesBuilt` | `Spec => []SuccessIsBuilt` |
| `CancelsKept` | `Spec => CancelIsKept` |
| `GateStaysOpen` | `Spec => []GateIsOpen` |
| `NobodyWaitsInVain` | `Spec => []WaitsEnd` |

All but the first rest on `Ordered`. `OpenedAfterPublished` is not inductive: it
says nothing of the layer the plan has open, nor of an advance that is about to
commit. `RowsOrdered` adds that layers below the open one are done and have all
their jobs, that a layer is enqueued as a whole, that no job lies above the open
layer, that a task that is a success counts its package as published, and that requests
only hold jobs that exist. `AdvanceOrdered` says of an open advance that the
plan it read is still running and not past its layer, that the layers below the
one it looks at are done once it commits, and that what it saw of the open layer
was the whole layer. A step is again of two kinds. `Kept`: no job appears or turns
skipped, publications are only added, and the plan changes only while no advance
holds it; all builds, publishes and requests are (`BuildKept`, `RequestKept`).
Or it is a step of the advance, for which `AdvancedOrdered` and `OnwardOrdered`
state what its commit and its way to the next layer need. `CancelsKept` follows
because an open advance implies a running plan.

`Done` counts a package whose publish was a success once: a later retry, or a
later cancel of its second publish, does not take that back. That is what the code
ensures; whether the package is still the one in the repository, `SuccessIsPublished`
of `PublishPipeline` answers.

`GateStaysOpen` says of the gate in `poll_job`, which looks at the plan's layer
without a lock, that it never turns a pending job away: jobs have rows only up to
the open layer, also after retries and resumes. `NobodyWaitsInVain` is what
`PlanSettles` rests on: an open advance waits for nothing and always has a step, a
cancel needs only the plan's row, which an open advance holds, and other requests
need in addition rows that only a cancel holds. So unless a build is withheld from publishing, a job that is open, or a build whose
publication the plan waits for, can go on. TLC finds no violation of either on the
instance of `layer_chain`.

`RpmFinalizeProofs` proves, for all values of the constants that satisfy
`FinalizeAssumption`, whichever of lock and window is shorter:

| Theorem | Statement |
|---|---|
| `Invariant` | `Spec => []Inv` |
| `TypeCorrect` | `Spec => []TypeOK` |
| `OneSignerHolds` | `Spec => []OneSigner` |
| `RegisteredStaysStored` | `Spec => []RegisteredIsStored` |

`OneSigner` does not rest on the lock, which expires and may be deleted under its
holder, but on `Alone`: the registry names the only task of an attempt.
`RegisteredIsStored` needs three parts more. `Handed`: whoever has a task or an
artifact never PUTs again. `Open`: a task past its check works on a file without
an artifact. `Current`: what a task is about to register is what the key holds,
or another attempt came by.

`PushCursorProofs`, from `PushAssumption`:

| Theorem | Statement |
|---|---|
| `Invariant` | `Spec => []Inv` |
| `TypeCorrect` | `Spec => []TypeOK` |
| `NoChangeSkipped` | `Spec => []NothingSkipped` |
| `CapIsKept` | `Spec => []CapKept` |

`NothingSkipped` speaks of committed cursors. The invariant adds what sessions
hold: a delivery that has read accounts for every change of its push
(`HooksComplete`), a finished one has built it or named a reason (`DoneIsBuilt`),
and a cycle that will write a cursor accounts for all that lies behind it
(`CycleComplete`). `CapCounted` relates the jobs of a cycle to what is left of
the cap.

`IsoQueueProofs`, from `IsoAssumption`:

| Theorem | Statement |
|---|---|
| `Invariant` | `Spec => []Inv` |
| `TypeCorrect` | `Spec => []TypeOK` |
| `SuccessStored` | `Spec => []SuccessIsStored` |

The invariant adds `Results`: a success on its way to the controller has its image
under the name already, and no object is replaced. `Fresh` keeps requests off
rows that are not inserted yet. RPMs change neither. `IsoAssumption` asks for
finitely many rows, so that those running on a worker can be counted.

`RepoTreeProofs`, from `TreeAssumption`:

| Theorem | Statement |
|---|---|
| `TypeCorrect` | `Spec => []TypeOK` |
| `NamesAreKept` | `Spec => NamesKept` |
| `LocksHold` | `Spec => []LocksExclusive` |
| `NoDeadlock` | `Spec => []NobodyStuck` |

`TypeOK` suffices for `NamesKept`, because the exceptions are stated about the
step and the state before it. Each step either only adds files (`BuildsGrow`,
`PromotionsGrow`), or it is one of five that delete, with a lemma each:
`PruneLoses`, `WipeLoses`, `LeaveLoses`, `PrimaryLoses`, `SourceLoses` show that a
name whose last file goes is in one of the four named cases.

`LocksExclusive` says that a branch is locked once. `NobodyStuck` is what
`PromotionsEnd` rests on: while promotions are under way, one of them finds the
lock it needs next free, unless a publish has it, which needs no other. Take, of
the promotions that hold one lock, the one whose lock ranks highest
(`HighestRank`, there are finitely many): its other lock ranks higher still, so no
other of them has it, and who has both waits for nothing. This uses nothing but
that `Rank` tells branches apart, for any number of branches and promotions. The
locks `rpm_publish_locks` takes are below a prefix whose lock is held, in one
order, and add no wait. Of both formulas TLC finds no violation on the instance of
`repo_promote`, and finds `NobodyStuck` violated if the locks are taken as the
promotion names its branches (`OrderedAsGiven`).

`LayerOrderProofs`, from `OrderAssumption`:

| Theorem | Statement |
|---|---|
| `LayerOrderTypes` | `Spec => []TypeOK` |
| `ProvidersBeforeConsumers` | `Spec => []ProvidersFirst` |
| `LayersAreGenerations` | `Spec => []TreeIsLayered` |
| `PlansEndReal` | `Spec => []EndsReal` |
| `LayeringGoesOn` | `Spec => []LoopGoesOn` |
| `LayeringShrinks` | `Spec => [][LoopShrinks]_vars` |

The invariants speak of the finished layers; `IInv` says of the partial ones what
they need. It was checked with TLC on the instance of `layer_order` first.
`LoopInv`: what was yielded has a layer, and a plan is only made of finished
layers. `OrderInv`: what a grounded package needs is laid out before it and leaves
the graph before it. The second half is the point: a cut takes the package with
the lowest indegree, and as long as anything grounded is left there is a package
with indegree zero, which needs nothing that is left (`CutIsFree`), so a grounded
package is never cut ahead of what it needs. `LevelsInv`: until a cycle is met,
each package has at most one layer, and who has none needs something of the newest
layer or something that has none either, which makes generations as early as
possible. `CycleInv`: a cycle is told of only when some package is not grounded.
`PlanInv`: a package is pinned by a real copy of an opened layer or by a build
beside the plan, and the last copy of a package is its real one (`RealIsLast`).

`LayeringGoesOn` and `LayeringShrinks` are the safety half of `OrderEnds`: while
packages are left there is a generation or a package for `min()` to pick, and each
step makes the packages left fewer, or keeps them and makes those not yielded
fewer. That a step that can always be taken is taken is fairness.

## What is only model-checked

The liveness properties (`EventuallySettled`, `SuccessIsGated`, `TasksEnd`,
`ScansEnd`, `PlanSettles`, `UploadsEnd`, `ChangesAreBuilt`,
`IsoEnds`, `PromotionsEnd`, `OrderEnds`), since fairness and ENABLED are out of
the prover's reach, and the four violations. What is not fairness is proved of `OrderEnds`
(`LayeringGoesOn`, `LayeringShrinks`), `PromotionsEnd` (`NoDeadlock`), `TasksEnd`
(`LoopNeverStuck`) and `PlanSettles` (`NobodyWaitsInVain`): that nobody is stuck. Every
invariant and every other action property of the runs is proved.

## Plan

1. Done: `BuildQueue` with `BuildLeases`, `PublishPipeline` with `Publication`,
   `LayerPlan`, `RpmFinalize`, `PushCursor`, `IsoQueue`, `RepoTree` and
   `LayerOrder`, each with its proofs.
2. Next: what is not fairness of the liveness properties of `BuildQueue`,
   `RpmFinalize`, `PushCursor` and `IsoQueue` (a request, an upload, a delivery, an
   ISO under way is never stuck); an abstract specification of the uploads of `RpmFinalize` and its refinement.
3. The end of a discovery plan as an action of `LayerPlan`; more than one
   architecture; several jobs that compete for the retry of their scans, which needs
   a smaller model of the scan gate than `PublishPipeline`.

## Not modelled

Each with its reason; `PROJECT.json` lists the components.

- Two thirds of the repository's lines are command line clients
  (`cli/orbscli.py`, `cli/planner.py`, `cli/chain_metadata.py`, each of them there
  twice), web pages and request handlers that read rows and format answers. They
  keep no state of their own that other parts depend on. The map covers the parts
  that do.
- Parsing spec files, finding dependencies and solving (`services/distgit_order.py`
  before its layering, `services/repo_solver.py`, `services/solv_engine.py`,
  `services/virtual_resolve.py`): conversions of text and calls into libsolv.
  `LayerOrder` takes any graph they may yield.
- Triggers, schedules and mass rebuild: they insert jobs, which `BuildQueue` starts
  from. Concurrent passes of a mass rebuild are serialised by their update of the
  side tag.
- `worker/main.py` outside the threads of builds, uploads and ISOs: mock, source
  downloads, the accounting of slots.
- Signing itself, the release monitor, package deletion and repair scripts,
  accounts and audit, the advisories site, `scheduler/main.py` and
  `publisher/main.py` (stubs), migrations.
- What each module's "Not in the model" names.
