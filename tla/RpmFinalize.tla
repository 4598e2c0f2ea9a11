----------------------------- MODULE RpmFinalize ----------------------------
(***************************************************************************)
(* One RPM on its way into the object store.  A worker PUTs the unsigned   *)
(* file to its key with a presigned URL and asks the controller to         *)
(* complete it; a background task of the API process downloads the object, *)
(* signs it, uploads it to the same key and registers the artifact.        *)
(*                                                                         *)
(* The key is made from the file's name: attempts that build the same      *)
(* version write the same object, while lock and task are per attempt.     *)
(* One file of one job is modelled.                                        *)
(***************************************************************************)
EXTENDS Integers

CONSTANTS
    Attempts,  \* attempts of the job that build this file
    MaxRuns,   \* finalizing tasks that can be told apart at a time
    TtlFirst,  \* the lock may expire before the worker's upload window ends
    MaxFaults, \* bound: restarts, lost requests, failed steps, cancels
    None       \* no attempt, no task

Runs == 1..MaxRuns

ASSUME FinalizeAssumption ==
    /\ MaxRuns \in Nat /\ MaxFaults \in Nat
    /\ TtlFirst \in BOOLEAN
    /\ None \notin Attempts \cup Runs

VARIABLES
    agent,     \* [Attempts -> where the worker's upload is]
    object,    \* what the key holds: whose bytes, and which signature
    row,       \* [Attempts -> what the artifacts row describes]
    lock,      \* [Attempts -> row of rpm_complete_locks: owner, expired]
    run,       \* the finalizing tasks
    registry,  \* [Attempts -> its entry of _rpm_finalize_tasks]
    late,      \* attempts whose upload window is over
    sigs,      \* signatures made
    cancelled, \* the job is cancelled
    faults

apiVars == <<run, registry, lock, row>>
vars    == <<agent, object, apiVars, late, sigs, cancelled, faults>>

\* Signing twice gives two files: the bytes of c differ with its signature.
Nothing == [att |-> None, sig |-> 0]
Raw(a)  == [att |-> a, sig |-> 0]
Free    == [owner |-> None, expired |-> FALSE]
NoRun   == [att |-> None, phase |-> "idle", got |-> Nothing]

Init ==
    /\ agent = [a \in Attempts |-> "staged"]
    /\ object = Nothing
    /\ row = [a \in Attempts |-> Nothing]
    /\ lock = [a \in Attempts |-> Free]
    /\ run = [r \in Runs |-> NoRun]
    /\ registry = [a \in Attempts |-> None]
    /\ late = {} /\ sigs = 0 /\ cancelled = FALSE
    /\ faults = 0

Fault == faults < MaxFaults /\ faults' = faults + 1

Known(a) == row[a] # Nothing

\* Mutant: every completion starts a task.
IdleAnyway(a) == TRUE
Idle(a) == registry[a] = None

\* upload_worker_rpm_status.
Finalizing(a) == ~Known(a) /\ (~Idle(a) \/ (lock[a] # Free /\ ~lock[a].expired))

-----------------------------------------------------------------------------
(* The worker *)

Agent(a, phase) == agent' = [agent EXCEPT ![a] = phase]

\* A retry finds the artifact, or a controller that is still at it.
AgentAsks(a) ==
    /\ agent[a] = "staged" /\ ~cancelled
    /\ Agent(a, IF Known(a) THEN "done" ELSE IF Finalizing(a) THEN "completing" ELSE "putting")
    /\ UNCHANGED <<object, apiVars, late, sigs, cancelled, faults>>

AgentPuts(a) ==
    /\ agent[a] = "putting"
    /\ object' = Raw(a)
    /\ Agent(a, "completing")
    /\ UNCHANGED <<apiVars, late, sigs, cancelled, faults>>

\* No answer to the PUT, whether or not it arrived: all over again.
PutUnsure(a) ==
    /\ agent[a] = "putting"
    /\ object' \in {object, Raw(a)}
    /\ Agent(a, "staged")
    /\ Fault
    /\ UNCHANGED <<apiVars, late, sigs, cancelled>>

AgentLearns(a) ==
    /\ agent[a] = "completing" /\ Known(a) /\ ~cancelled
    /\ Agent(a, "done")
    /\ UNCHANGED <<object, apiVars, late, sigs, cancelled, faults>>

\* Mutant: only a cancelled job makes the worker stop.
GivesUpCancelled(a) == cancelled /\ agent[a] # "putting"
\* Every endpoint but the store refuses the upload of a cancelled job.
GivesUp(a) == (cancelled /\ agent[a] # "putting") \/ a \in late

AgentStops(a) ==
    /\ agent[a] \in {"staged", "putting", "completing"}
    /\ GivesUp(a)
    /\ Agent(a, "gone")
    /\ UNCHANGED <<object, apiVars, late, sigs, cancelled, faults>>

WorkerDies(a) ==
    /\ agent[a] \in {"staged", "putting", "completing"}
    /\ Agent(a, "gone")
    /\ Fault
    /\ UNCHANGED <<object, apiVars, late, sigs, cancelled>>

-----------------------------------------------------------------------------
(* The completion endpoint and its task *)

Unused == {r \in Runs : run[r] = NoRun /\ \A a \in Attempts : lock[a].owner # r}

Goto(r, phase) == run' = [run EXCEPT ![r].phase = phase]

\* The task outlives the request, which is posted again until it is done.
Complete(a) ==
    /\ agent[a] = "completing" /\ ~cancelled
    /\ Idle(a)
    /\ \E r \in Unused :
          /\ \A s \in Unused : r <= s
          /\ run' = [run EXCEPT ![r] = [att |-> a, phase |-> "waiting", got |-> Nothing]]
          /\ registry' = [registry EXCEPT ![a] = r]
    /\ UNCHANGED <<agent, object, lock, row, late, sigs, cancelled, faults>>

\* The done callback.
EndRun(r) ==
    /\ run' = [run EXCEPT ![r] = NoRun]
    /\ registry' = [a \in Attempts |-> IF registry[a] = r THEN None ELSE registry[a]]

\* INSERT ... ON CONFLICT DO NOTHING RETURNING owner.
Acquire(r) ==
    LET a == run[r].att
    IN  /\ run[r].phase = "waiting" /\ lock[a] = Free
        /\ lock' = [lock EXCEPT ![a] = [owner |-> r, expired |-> FALSE]]
        /\ Goto(r, "locked")
        /\ UNCHANGED <<agent, object, registry, row, late, sigs, cancelled, faults>>

Expired(a) == lock[a].expired

SeeExpired(r) ==
    /\ run[r].phase = "waiting" /\ Expired(run[r].att)
    /\ Goto(r, "stale")
    /\ UNCHANGED <<agent, object, registry, lock, row, late, sigs, cancelled, faults>>

\* The DELETE names attempt and key only: it takes whatever lock is there.
DeleteExpired(r) ==
    /\ run[r].phase = "stale"
    /\ lock' = [lock EXCEPT ![run[r].att] = Free]
    /\ Goto(r, "waiting")
    /\ UNCHANGED <<agent, object, registry, row, late, sigs, cancelled, faults>>

\* 409 after an hour: the task ends, the worker posts the completion again.
WaitTooLong(r) ==
    LET a == run[r].att
    IN  /\ run[r].phase = "waiting" /\ lock[a] # Free /\ ~Expired(a)
        /\ EndRun(r)
        /\ UNCHANGED <<agent, object, lock, row, late, sigs, cancelled, faults>>

\* upload_worker_rpm_status again, under the lock.
Check(r) ==
    /\ run[r].phase = "locked"
    /\ Goto(r, IF cancelled \/ Known(run[r].att) THEN "ending" ELSE "reading")
    /\ UNCHANGED <<agent, object, registry, lock, row, late, sigs, cancelled, faults>>

\* The object is the worker's file: sign it.  It is signed already: an earlier
\* task did that and did not register it.  Otherwise the verification fails.
Read(r) ==
    /\ run[r].phase = "reading"
    /\ run' = [run EXCEPT ![r].phase =
                   IF object = Raw(run[r].att) THEN "signing"
                   ELSE IF object.sig > 0 THEN "registering" ELSE "ending",
               ![r].got = object]
    /\ UNCHANGED <<agent, object, registry, lock, row, late, sigs, cancelled, faults>>

Signed(a) == [att |-> a, sig |-> sigs + 1]

SignAndUpload(r) ==
    /\ run[r].phase = "signing"
    /\ object' = Signed(run[r].att) /\ sigs' = sigs + 1
    /\ run' = [run EXCEPT ![r].phase = "registering", ![r].got = object']
    /\ UNCHANGED <<agent, registry, lock, row, late, cancelled, faults>>

Register(r) ==
    /\ run[r].phase = "registering"
    /\ row' = [row EXCEPT ![run[r].att] = run[r].got]
    /\ Goto(r, "ending")
    /\ UNCHANGED <<agent, object, registry, lock, late, sigs, cancelled, faults>>

\* Mutant: the lock's row is kept, without an owner.
ReleasedRow(r) == [a \in Attempts |->
                      IF lock[a].owner = r THEN [lock[a] EXCEPT !.owner = None] ELSE lock[a]]
\* The DELETE of the finally block names the owner.
Released(r) == [a \in Attempts |-> IF lock[a].owner = r THEN Free ELSE lock[a]]

Release(r) ==
    /\ run[r].phase = "ending"
    /\ lock' = Released(r)
    /\ EndRun(r)
    /\ UNCHANGED <<agent, object, row, late, sigs, cancelled, faults>>

\* An error of that DELETE is swallowed; the lock stays.
ReleaseFails(r) ==
    /\ run[r].phase = "ending"
    /\ EndRun(r)
    /\ Fault
    /\ UNCHANGED <<agent, object, lock, row, late, sigs, cancelled>>

Holding == {"locked", "reading", "signing", "registering"}

\* gpg, pesign, the store or the database fails: the task ends with an error.
RunFails(r) ==
    /\ run[r].phase \in Holding
    /\ Goto(r, "ending")
    /\ Fault
    /\ UNCHANGED <<agent, object, registry, lock, row, late, sigs, cancelled>>

RunStep(r) ==
    Acquire(r) \/ SeeExpired(r) \/ DeleteExpired(r) \/ WaitTooLong(r) \/ Check(r)
    \/ Read(r) \/ SignAndUpload(r) \/ Register(r) \/ Release(r)

-----------------------------------------------------------------------------
(* Restarts, time and the job *)

ApiGone == run' = [r \in Runs |-> NoRun] /\ registry' = [a \in Attempts |-> None]

\* Killed: the locks of its tasks stay.
ApiKilled ==
    /\ ApiGone
    /\ Fault
    /\ UNCHANGED <<agent, object, lock, row, late, sigs, cancelled>>

\* Stopped: the tasks are cancelled and release their locks; threads that sign
\* may get their upload through before the process is gone.
ApiStopped ==
    /\ ApiGone
    /\ lock' = [a \in Attempts |->
                   IF \E r \in Runs : lock[a].owner = r /\ run[r] # NoRun THEN Free ELSE lock[a]]
    /\ \/ UNCHANGED <<object, sigs>>
       \/ \E r \in Runs : /\ run[r].phase = "signing"
                          /\ object' = Signed(run[r].att) /\ sigs' = sigs + 1
    /\ Fault
    /\ UNCHANGED <<agent, row, late, cancelled>>

\* The task that holds the lock is gone.
Abandoned(a) == lock[a] # Free /\ ~Expired(a) /\ registry[a] # lock[a].owner

\* Another attempt's unsigned file is in the place of this one's.
Overtaken(a) == object.sig = 0 /\ object # Raw(a)

\* By default lock and window both last twelve hours, and the window starts
\* first.  With TtlFirst they are set so that the lock may expire before the
\* window ends, and then also while its holder signs.
LockExpires(a) ==
    /\ lock[a] # Free /\ ~lock[a].expired
    /\ TtlFirst \/ a \in late
    /\ lock' = [lock EXCEPT ![a].expired = TRUE]
    /\ UNCHANGED <<agent, object, run, registry, row, late, sigs, cancelled, faults>>

\* The window is long: it ends only where nothing but time moves things on.
WindowEnds(a) ==
    /\ agent[a] = "completing" /\ a \notin late
    /\ Overtaken(a) \/ Abandoned(a)
    /\ late' = late \cup {a}
    /\ UNCHANGED <<agent, object, apiVars, sigs, cancelled, faults>>

\* Cancel of the job, or its retry.
JobChanges ==
    /\ cancelled' = ~cancelled
    /\ Fault
    /\ UNCHANGED <<agent, object, apiVars, late, sigs>>

-----------------------------------------------------------------------------
AgentStep(a) == AgentAsks(a) \/ AgentPuts(a) \/ AgentLearns(a) \/ AgentStops(a)

Next ==
    \/ \E a \in Attempts : AgentStep(a) \/ PutUnsure(a) \/ WorkerDies(a)
    \/ \E a \in Attempts : Complete(a) \/ LockExpires(a) \/ WindowEnds(a)
    \/ \E r \in Runs : RunStep(r) \/ ReleaseFails(r) \/ RunFails(r)
    \/ ApiKilled \/ ApiStopped
    \/ JobChanges

Spec == Init /\ [][Next]_vars

\* A worker's requests are retried, a task's subprocesses have time limits, and
\* time passes.
Fairness ==
    /\ WF_vars(\E a \in Attempts : AgentStep(a)) /\ WF_vars(\E a \in Attempts : Complete(a))
    /\ WF_vars(\E r \in Runs : RunStep(r))
    /\ WF_vars(\E a \in Attempts : LockExpires(a))
    /\ WF_vars(\E a \in Attempts : WindowEnds(a))

FairSpec == Spec /\ Fairness

-----------------------------------------------------------------------------
(* Properties *)

Contents == [att : Attempts \cup {None}, sig : Nat]
Phases   == {"idle", "waiting", "stale", "ending"} \cup Holding

TypeOK ==
    /\ agent \in [Attempts -> {"staged", "putting", "completing", "done", "gone"}]
    /\ object \in Contents
    /\ row \in [Attempts -> Contents]
    /\ lock \in [Attempts -> {Free} \cup [owner : Runs, expired : BOOLEAN]]
    /\ run \in [Runs -> {NoRun} \cup [att : Attempts, phase : Phases \ {"idle"}, got : Contents]]
    /\ registry \in [Attempts -> Runs \cup {None}]
    /\ late \subseteq Attempts
    /\ sigs \in Nat
    /\ cancelled \in BOOLEAN
    /\ faults \in Nat

\* An attempt's file is never signed by two tasks at a time: completions posted
\* again, locks that expire under their holder and restarts notwithstanding.
OneSigner ==
    \A r, s \in Runs :
        run[r].phase \in Holding /\ run[s].phase \in Holding /\ run[r].att = run[s].att => r = s

\* An artifact describes the object under its key, unless another attempt has
\* written it since: an attempt's own retries never replace the file whose
\* digest was registered.
RegisteredIsStored ==
    \A a \in Attempts : Known(a) /\ object # row[a] => object.att # a

\* Every upload ends, with an artifact or with an error the worker reports.
UploadsEnd ==
    <>[](\A a \in Attempts : agent[a] \in {"done", "gone"})
=============================================================================
