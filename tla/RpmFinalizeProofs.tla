-------------------------- MODULE RpmFinalizeProofs -------------------------
(***************************************************************************)
(* RpmFinalize for any number of attempts, tasks and faults, and whichever *)
(* of lock and upload window is shorter: types, that no file is signed by  *)
(* two tasks at a time, and that a registered artifact keeps its object.   *)
(***************************************************************************)
EXTENDS RpmFinalize, TLAPS

Tasks == [att : Attempts, phase : Phases \ {"idle"}, got : Contents]

\* One task for an attempt: the registry knows it.
Alone == \A r \in Runs : run[r] # NoRun => registry[run[r].att] = r

\* A worker that has asked for the completion never PUTs its file again.
Uploaded == {"completing", "done", "gone"}
Handed ==
    /\ \A r \in Runs : run[r] # NoRun => agent[run[r].att] \in Uploaded
    /\ \A a \in Attempts : Known(a) => agent[a] \in Uploaded

\* A task that passed its check works on a file without an artifact.
Open ==
    \A r \in Runs : run[r].phase \in {"reading", "signing", "registering"} => ~Known(run[r].att)

\* What a task registers is what the key holds, or another attempt came by.
Current ==
    \A r \in Runs :
        run[r].phase = "registering" /\ object # run[r].got => object.att # run[r].att

Inv == TypeOK /\ Alone /\ Handed /\ Open /\ Current /\ RegisteredIsStored

-----------------------------------------------------------------------------
LEMMA Values ==
    /\ Nothing \in Contents /\ Nothing.att = None
    /\ \A a \in Attempts : Raw(a) \in Contents /\ Raw(a).att = a
    /\ Free \in {Free} \cup [owner : Runs, expired : BOOLEAN]
    /\ NoRun.phase = "idle"
BY DEF Nothing, Raw, Contents, NoRun

LEMMA SignedValue ==
    ASSUME TypeOK, NEW a \in Attempts
    PROVE  Signed(a) \in Contents /\ Signed(a).att = a
BY DEF Signed, Contents, TypeOK

\* A task is one that its record says.
LEMMA TaskOf ==
    ASSUME TypeOK, NEW r \in Runs, run[r].phase # "idle" \/ run[r] # NoRun
    PROVE  /\ run[r] # NoRun /\ run[r] \in Tasks /\ run[r].att \in Attempts
           /\ run[r].phase \in Phases /\ run[r].phase # "idle" /\ run[r].got \in Contents
<1>1. run[r] # NoRun
  BY Values
<1>2. run[r] \in Tasks
  BY <1>1 DEF TypeOK, Tasks
<1> QED
  BY <1>1, <1>2 DEF Tasks

\* A task goes on to a phase.
LEMMA GoesOn ==
    ASSUME TypeOK, NEW r \in Runs, run[r] # NoRun, NEW p \in Phases \ {"idle"}, Goto(r, p)
    PROVE  /\ run' \in [Runs -> {NoRun} \cup Tasks]
           /\ run'[r] # NoRun /\ run'[r].att = run[r].att
           /\ run'[r].phase = p /\ run'[r].got = run[r].got
           /\ \A s \in Runs : s # r => run'[s] = run[s]
<1>1. run[r] \in Tasks
  BY TaskOf
<1>2. run \in [Runs -> {NoRun} \cup Tasks]
  BY DEF TypeOK, Tasks
<1>3. run' = [run EXCEPT ![r] = [run[r] EXCEPT !.phase = p]]
  BY DEF Goto
<1>4. run'[r] = [run[r] EXCEPT !.phase = p]
  BY <1>2, <1>3
<1>5. /\ run'[r] \in Tasks /\ run'[r].att = run[r].att
      /\ run'[r].phase = p /\ run'[r].got = run[r].got
  BY <1>1, <1>4 DEF Tasks
<1>6. run'[r] # NoRun
  BY <1>5, Values
<1>7. \A s \in Runs : s # r => run'[s] = run[s]
  BY <1>2, <1>3
<1>8. run' \in [Runs -> {NoRun} \cup Tasks]
  BY <1>2, <1>3, <1>4, <1>5, <1>7
<1> QED
  BY <1>5, <1>6, <1>7, <1>8

\* A task goes on with an object in its hands.
LEMMA GoesOnWith ==
    ASSUME TypeOK, NEW r \in Runs, run[r] # NoRun, NEW p \in Phases \ {"idle"}, NEW g \in Contents,
           run' = [run EXCEPT ![r].phase = p, ![r].got = g]
    PROVE  /\ run' \in [Runs -> {NoRun} \cup Tasks]
           /\ run'[r] # NoRun /\ run'[r].att = run[r].att
           /\ run'[r].phase = p /\ run'[r].got = g
           /\ \A s \in Runs : s # r => run'[s] = run[s]
<1>1. run[r] \in Tasks
  BY TaskOf
<1>2. run \in [Runs -> {NoRun} \cup Tasks]
  BY DEF TypeOK, Tasks
<1> DEFINE t == [att |-> run[r].att, phase |-> p, got |-> g]
<1>3. t \in Tasks
  BY <1>1 DEF Tasks
<1>4. run'[r] = t
  BY <1>1, <1>2 DEF Tasks
<1>5. t # NoRun
  BY Values
<1>6. \A s \in Runs : s # r => run'[s] = run[s]
  BY <1>2
<1>7. run' \in [Runs -> {NoRun} \cup Tasks]
  BY <1>2, <1>3, <1>4, <1>6
<1> QED
  BY <1>4, <1>5, <1>6, <1>7

\* A task ends.
LEMMA TaskEnds ==
    ASSUME TypeOK, NEW r \in Runs, EndRun(r)
    PROVE  /\ run' \in [Runs -> {NoRun} \cup Tasks]
           /\ registry' \in [Attempts -> Runs \cup {None}]
           /\ \A s \in Runs : run'[s] # NoRun => s # r /\ run'[s] = run[s]
           /\ \A a \in Attempts : registry[a] # r => registry'[a] = registry[a]
BY DEF EndRun, TypeOK, Tasks

LEMMA InvInit == Init => Inv
<1> SUFFICES ASSUME Init PROVE Inv
  OBVIOUS
<1>1. TypeOK
  BY Values, FinalizeAssumption DEF Init, TypeOK
<1>2. \A r \in Runs : run[r] = NoRun
  BY DEF Init
<1>3. \A a \in Attempts : ~Known(a)
  BY DEF Init, Known
<1> QED
  BY <1>1, <1>2, <1>3, Values DEF Inv, Alone, Handed, Open, Current, RegisteredIsStored

-----------------------------------------------------------------------------
(* The worker *)

LEMMA AgentSteps ==
    ASSUME Inv, NEW a \in Attempts, AgentStep(a) \/ PutUnsure(a) \/ WorkerDies(a)
    PROVE  Inv'
<1> USE DEF Inv
<1>1. UNCHANGED <<run, registry, lock, row, late, sigs, cancelled>>
  BY DEF AgentStep, AgentAsks, AgentPuts, AgentLearns, AgentStops, PutUnsure, WorkerDies, apiVars
<1>2. \E p \in {"staged", "putting", "completing", "done", "gone"} :
         agent' = [agent EXCEPT ![a] = p] /\ (agent[a] \in Uploaded => p \in Uploaded)
  BY DEF AgentStep, AgentAsks, AgentPuts, AgentLearns, AgentStops, PutUnsure, WorkerDies,
         Agent, Uploaded
<1>3. object' = object \/ (object' = Raw(a) /\ agent[a] = "putting")
  BY DEF AgentStep, AgentAsks, AgentPuts, AgentLearns, AgentStops, PutUnsure, WorkerDies
<1>4. faults' \in Nat
  BY DEF AgentStep, AgentAsks, AgentPuts, AgentLearns, AgentStops, PutUnsure, WorkerDies,
         Fault, TypeOK
<1>5. TypeOK'
  BY <1>1, <1>2, <1>3, <1>4, Values DEF TypeOK
<1>6. Alone' /\ Open'
  BY <1>1 DEF Alone, Open, Known
<1>7. \A b \in Attempts : agent[b] \in Uploaded => agent'[b] \in Uploaded
  BY <1>2 DEF TypeOK
<1>8. Handed'
  <2>1. \A r \in Runs : run[r] # NoRun => run[r].att \in Attempts
    BY TaskOf
  <2> QED
    BY <1>1, <1>7, <2>1 DEF Handed, Known
<1>9. \* the file that is PUT is nobody's that matters yet
      \A b \in Attempts : agent[b] \in Uploaded => object' = object \/ object'.att # b
  BY <1>3, Values DEF Uploaded
<1>10. Current'
  <2> SUFFICES ASSUME NEW r \in Runs, run[r].phase = "registering", object' # run[r].got
               PROVE  object'.att # run[r].att
    BY <1>1 DEF Current
  <2>1. run[r].att \in Attempts /\ agent[run[r].att] \in Uploaded
    BY TaskOf DEF Handed
  <2> QED
    BY <1>9, <2>1 DEF Current
<1>11. RegisteredIsStored'
  BY <1>1, <1>9 DEF RegisteredIsStored, Handed, Known
<1> QED
  BY <1>5, <1>6, <1>8, <1>10, <1>11

-----------------------------------------------------------------------------
(* Tasks *)

LEMMA CompleteStep ==
    ASSUME Inv, NEW a \in Attempts, Complete(a)
    PROVE  Inv'
<1> USE DEF Inv
<1>1. PICK r \in Unused :
         /\ run' = [run EXCEPT ![r] = [att |-> a, phase |-> "waiting", got |-> Nothing]]
         /\ registry' = [registry EXCEPT ![a] = r]
  BY DEF Complete
<1>2. UNCHANGED <<agent, object, lock, row, late, sigs, cancelled, faults>>
  BY DEF Complete
<1>3. r \in Runs /\ agent[a] = "completing" /\ registry[a] = None
  BY DEF Complete, Unused, Idle
<1> DEFINE t == [att |-> a, phase |-> "waiting", got |-> Nothing]
<1>4. t \in Tasks /\ t.att = a /\ t.phase = "waiting"
  BY Values DEF Tasks, Phases
<1>5. /\ run' \in [Runs -> {NoRun} \cup Tasks] /\ run'[r] = t
      /\ \A s \in Runs : s # r => run'[s] = run[s]
  <2>1. run \in [Runs -> {NoRun} \cup Tasks]
    BY DEF TypeOK, Tasks
  <2> QED
    BY <1>1, <1>3, <1>4, <2>1
<1>6. TypeOK'
  BY <1>1, <1>2, <1>3, <1>5 DEF TypeOK, Tasks
<1>7. Alone'
  <2>1. \A s \in Runs : run[s] # NoRun => run[s].att # a
    BY <1>3, FinalizeAssumption DEF Alone
  <2> QED
    BY <1>1, <1>3, <1>4, <1>5, <2>1, TaskOf DEF Alone, TypeOK
<1>8. Handed'
  BY <1>2, <1>3, <1>4, <1>5 DEF Handed, Known, Uploaded
<1>9. Open' /\ Current'
  BY <1>2, <1>4, <1>5 DEF Open, Current, Known
<1>10. RegisteredIsStored'
  BY <1>2 DEF RegisteredIsStored, Known
<1> QED
  BY <1>6, <1>7, <1>8, <1>9, <1>10

\* Steps that leave object and artifact alone.
LEMMA QuietSteps ==
    ASSUME Inv, NEW r \in Runs,
           Acquire(r) \/ SeeExpired(r) \/ DeleteExpired(r) \/ Check(r) \/ RunFails(r)
    PROVE  Inv'
<1> USE DEF Inv
<1>1. run[r].phase # "idle" /\ run[r] # NoRun
  BY Values DEF Acquire, SeeExpired, DeleteExpired, Check, RunFails, Holding
<1>2. \E p \in Phases \ {"idle", "signing", "registering"} :
         Goto(r, p) /\ (p = "reading" => ~Known(run[r].att))
  BY DEF Acquire, SeeExpired, DeleteExpired, Check, RunFails, Phases, Holding
<1>3. UNCHANGED <<agent, object, registry, row, late, sigs, cancelled>>
  BY DEF Acquire, SeeExpired, DeleteExpired, Check, RunFails
<1>4. /\ lock' \in [Attempts -> {Free} \cup [owner : Runs, expired : BOOLEAN]]
      /\ faults' \in Nat
  <2>1. run[r].att \in Attempts
    BY <1>1, TaskOf
  <2>2. \/ lock' = lock
        \/ lock' = [lock EXCEPT ![run[r].att] = [owner |-> r, expired |-> FALSE]]
        \/ lock' = [lock EXCEPT ![run[r].att] = Free]
    BY DEF Acquire, SeeExpired, DeleteExpired, Check, RunFails
  <2>3. lock' \in [Attempts -> {Free} \cup [owner : Runs, expired : BOOLEAN]]
    <3> DEFINE L == {Free} \cup [owner : Runs, expired : BOOLEAN]
    <3>1. [owner |-> r, expired |-> FALSE] \in L /\ Free \in L
      OBVIOUS
    <3>2. lock \in [Attempts -> L]
      BY DEF TypeOK
    <3> HIDE DEF L
    <3>3. lock' \in [Attempts -> L]
      BY <2>1, <2>2, <3>1, <3>2
    <3> QED
      BY <3>3 DEF L
  <2>4. faults' \in Nat
    BY DEF Acquire, SeeExpired, DeleteExpired, Check, RunFails, Fault, TypeOK
  <2> QED
    BY <2>3, <2>4
<1>5. /\ run' \in [Runs -> {NoRun} \cup Tasks]
      /\ run'[r].att = run[r].att
      /\ run'[r].phase \notin {"signing", "registering"}
      /\ run'[r].phase = "reading" => ~Known(run[r].att)
      /\ \A s \in Runs : s # r => run'[s] = run[s]
  BY <1>1, <1>2, GoesOn
<1>6. TypeOK'
  BY <1>3, <1>4, <1>5 DEF TypeOK, Tasks
<1>7. Alone' /\ Handed'
  BY <1>1, <1>3, <1>5 DEF Alone, Handed, Known
<1>8. Open' /\ Current'
  BY <1>3, <1>5 DEF Open, Current, Known
<1>9. RegisteredIsStored'
  BY <1>3 DEF RegisteredIsStored, Known
<1> QED
  BY <1>6, <1>7, <1>8, <1>9

LEMMA EndSteps ==
    ASSUME Inv, NEW r \in Runs, WaitTooLong(r) \/ Release(r) \/ ReleaseFails(r)
    PROVE  Inv'
<1> USE DEF Inv
<1>1. EndRun(r)
  BY DEF WaitTooLong, Release, ReleaseFails
<1>2. UNCHANGED <<agent, object, row, late, sigs, cancelled>>
  BY DEF WaitTooLong, Release, ReleaseFails
<1>3. /\ lock' \in [Attempts -> {Free} \cup [owner : Runs, expired : BOOLEAN]]
      /\ faults' \in Nat
  BY DEF WaitTooLong, Release, ReleaseFails, Released, Fault, TypeOK
<1>4. TypeOK'
  BY <1>1, <1>2, <1>3, TaskEnds DEF TypeOK, Tasks
<1>5. \A s \in Runs : run'[s] # NoRun => s # r /\ run'[s] = run[s] /\ run[s].att \in Attempts
  BY <1>1, TaskEnds, TaskOf
<1>6. Alone' /\ Handed'
  BY <1>1, <1>2, <1>5, TaskEnds DEF Alone, Handed, Known
<1>7. Open' /\ Current'
  BY <1>2, <1>5, Values DEF Open, Current, Known
<1>8. RegisteredIsStored'
  BY <1>2 DEF RegisteredIsStored, Known
<1> QED
  BY <1>4, <1>6, <1>7, <1>8

LEMMA ReadStep ==
    ASSUME Inv, NEW r \in Runs, Read(r)
    PROVE  Inv'
<1> USE DEF Inv
<1>1. run[r].phase = "reading" /\ run[r] # NoRun
  BY Values DEF Read
<1>2. UNCHANGED <<agent, object, registry, lock, row, late, sigs, cancelled, faults>>
  BY DEF Read
<1>3. /\ run' \in [Runs -> {NoRun} \cup Tasks]
      /\ run'[r].att = run[r].att /\ run'[r].got = object
      /\ \A s \in Runs : s # r => run'[s] = run[s]
  <2> DEFINE To(p) == run' = [run EXCEPT ![r].phase = p, ![r].got = object]
  <2>1. run' = [run EXCEPT ![r].phase =
                    IF object = Raw(run[r].att) THEN "signing"
                    ELSE IF object.sig > 0 THEN "registering" ELSE "ending",
                ![r].got = object]
    BY DEF Read
  <2>2. object \in Contents /\ {"signing", "registering", "ending"} \subseteq Phases \ {"idle"}
    BY DEF TypeOK, Phases, Holding
  <2>3. CASE object = Raw(run[r].att)
    <3>1. To("signing")
      BY <2>1, <2>3
    <3> QED
      BY <1>1, <2>2, <3>1, GoesOnWith
  <2>4. CASE object # Raw(run[r].att) /\ object.sig > 0
    <3>1. To("registering")
      BY <2>1, <2>4
    <3> QED
      BY <1>1, <2>2, <3>1, GoesOnWith
  <2>5. CASE object # Raw(run[r].att) /\ ~(object.sig > 0)
    <3>1. To("ending")
      BY <2>1, <2>5
    <3> QED
      BY <1>1, <2>2, <3>1, GoesOnWith
  <2> QED
    BY <2>3, <2>4, <2>5
<1>4. TypeOK'
  BY <1>2, <1>3 DEF TypeOK, Tasks
<1>5. Alone' /\ Handed'
  BY <1>1, <1>2, <1>3 DEF Alone, Handed, Known
<1>6. Open'
  BY <1>1, <1>2, <1>3 DEF Open, Known
<1>7. Current'
  BY <1>2, <1>3 DEF Current
<1>8. RegisteredIsStored'
  BY <1>2 DEF RegisteredIsStored, Known
<1> QED
  BY <1>4, <1>5, <1>6, <1>7, <1>8

LEMMA SignStep ==
    ASSUME Inv, NEW r \in Runs, SignAndUpload(r)
    PROVE  Inv'
<1> USE DEF Inv
<1>1. run[r].phase = "signing" /\ run[r] # NoRun /\ run[r].att \in Attempts
  BY Values, TaskOf DEF SignAndUpload
<1>2. UNCHANGED <<agent, registry, lock, row, late, cancelled, faults>>
  BY DEF SignAndUpload
<1>3. object' \in Contents /\ object'.att = run[r].att /\ sigs' \in Nat
  BY <1>1, SignedValue DEF SignAndUpload, TypeOK
<1>4. /\ run' \in [Runs -> {NoRun} \cup Tasks]
      /\ run'[r].att = run[r].att /\ run'[r].phase = "registering" /\ run'[r].got = object'
      /\ \A s \in Runs : s # r => run'[s] = run[s]
  <2>1. run' = [run EXCEPT ![r].phase = "registering", ![r].got = object']
    BY DEF SignAndUpload
  <2> QED
    BY <1>1, <1>3, <2>1, GoesOnWith DEF Phases, Holding
<1>5. TypeOK'
  BY <1>2, <1>3, <1>4 DEF TypeOK, Tasks
<1>6. Alone' /\ Handed'
  BY <1>1, <1>2, <1>4 DEF Alone, Handed, Known
<1>7. Open'
  BY <1>1, <1>2, <1>4 DEF Open, Known
<1>8. Current'
  <2>1. \A s \in Runs : s # r /\ run[s].phase = "registering" => run[s].att # run[r].att
    BY <1>1, Values DEF Alone
  <2> QED
    BY <1>3, <1>4, <2>1 DEF Current
<1>9. RegisteredIsStored'
  BY <1>1, <1>2, <1>3 DEF RegisteredIsStored, Known, Open
<1> QED
  BY <1>5, <1>6, <1>7, <1>8, <1>9

LEMMA RegisterStep ==
    ASSUME Inv, NEW r \in Runs, Register(r)
    PROVE  Inv'
<1> USE DEF Inv
<1>1. run[r].phase = "registering" /\ run[r] # NoRun /\ run[r].att \in Attempts
      /\ run[r].got \in Contents
  BY Values, TaskOf DEF Register
<1>2. UNCHANGED <<agent, object, registry, lock, late, sigs, cancelled, faults>>
  BY DEF Register
<1>3. /\ run' \in [Runs -> {NoRun} \cup Tasks]
      /\ run'[r].att = run[r].att /\ run'[r].phase = "ending"
      /\ \A s \in Runs : s # r => run'[s] = run[s]
  BY <1>1, GoesOn DEF Register, Phases
<1>4. /\ row' \in [Attempts -> Contents] /\ row'[run[r].att] = run[r].got
      /\ \A a \in Attempts : a # run[r].att => row'[a] = row[a]
  BY <1>1 DEF Register, TypeOK
<1>5. TypeOK'
  BY <1>2, <1>3, <1>4 DEF TypeOK, Tasks
<1>6. Alone' /\ Handed'
  BY <1>1, <1>2, <1>3, <1>4 DEF Alone, Handed, Known
<1>7. Open'
  <2>1. \A s \in Runs : s # r /\ run[s].phase # "idle" => run[s].att # run[r].att
                                                          /\ run[s].att \in Attempts
    BY <1>1, Values, TaskOf DEF Alone
  <2> QED
    BY <1>3, <1>4, <2>1 DEF Open, Known
<1>8. Current'
  BY <1>2, <1>3 DEF Current
<1>9. RegisteredIsStored'
  BY <1>1, <1>2, <1>4 DEF RegisteredIsStored, Known, Current
<1> QED
  BY <1>5, <1>6, <1>7, <1>8, <1>9

-----------------------------------------------------------------------------
(* Restarts, time and the job *)

LEMMA RestartSteps ==
    ASSUME Inv, ApiKilled \/ ApiStopped
    PROVE  Inv'
<1> USE DEF Inv
<1>1. /\ \A r \in Runs : run'[r] = NoRun
      /\ run' \in [Runs -> {NoRun} \cup Tasks] /\ registry' \in [Attempts -> Runs \cup {None}]
  BY DEF ApiKilled, ApiStopped, ApiGone
<1>2. UNCHANGED <<agent, row, late, cancelled>>
  BY DEF ApiKilled, ApiStopped
<1>3. /\ lock' \in [Attempts -> {Free} \cup [owner : Runs, expired : BOOLEAN]]
      /\ faults' \in Nat
  BY DEF ApiKilled, ApiStopped, Fault, TypeOK
<1>4. \/ UNCHANGED <<object, sigs>>
      \/ \E r \in Runs : /\ run[r].phase = "signing" /\ run[r].att \in Attempts
                         /\ object' = Signed(run[r].att) /\ sigs' = sigs + 1
  BY TaskOf DEF ApiKilled, ApiStopped
<1>5. TypeOK'
  BY <1>1, <1>2, <1>3, <1>4, SignedValue DEF TypeOK, Tasks
<1>6. Alone' /\ Handed' /\ Open' /\ Current'
  BY <1>1, <1>2, Values DEF Alone, Handed, Open, Current, Known
<1>7. RegisteredIsStored'
  BY <1>2, <1>4, SignedValue DEF RegisteredIsStored, Known, Open
<1> QED
  BY <1>5, <1>6, <1>7

LEMMA OtherSteps ==
    ASSUME Inv, JobChanges \/ \E a \in Attempts : LockExpires(a) \/ WindowEnds(a)
    PROVE  Inv'
<1> USE DEF Inv
<1>1. UNCHANGED <<agent, object, run, registry, row, sigs>>
  BY DEF JobChanges, LockExpires, WindowEnds, apiVars
<1>2. lock' \in [Attempts -> {Free} \cup [owner : Runs, expired : BOOLEAN]]
  <2>1. CASE lock' = lock
    BY <2>1 DEF TypeOK
  <2>2. CASE \E a \in Attempts : LockExpires(a)
    <3>1. PICK a \in Attempts : lock[a] # Free /\ lock' = [lock EXCEPT ![a].expired = TRUE]
      BY <2>2 DEF LockExpires
    <3>2. lock[a] \in [owner : Runs, expired : BOOLEAN]
      BY <3>1 DEF TypeOK
    <3> QED
      BY <3>1, <3>2 DEF TypeOK
  <2> QED
    BY <2>1, <2>2 DEF JobChanges, WindowEnds, apiVars
<1>3. late' \subseteq Attempts /\ cancelled' \in BOOLEAN /\ faults' \in Nat
  <2>1. cancelled' = cancelled \/ cancelled' = ~cancelled
    BY DEF JobChanges, LockExpires, WindowEnds
  <2>2. cancelled \in BOOLEAN
    BY DEF TypeOK
  <2>3. cancelled' \in BOOLEAN
    BY <2>1, <2>2
  <2>4. late' \subseteq Attempts /\ faults' \in Nat
    BY DEF JobChanges, LockExpires, WindowEnds, Fault, TypeOK
  <2> QED
    BY <2>3, <2>4
<1>4. TypeOK'
  BY <1>1, <1>2, <1>3 DEF TypeOK
<1>5. Alone' /\ Handed' /\ Open' /\ Current' /\ RegisteredIsStored'
  BY <1>1 DEF Alone, Handed, Open, Current, RegisteredIsStored, Known
<1> QED
  BY <1>4, <1>5

-----------------------------------------------------------------------------
LEMMA InvNext == Inv /\ [Next]_vars => Inv'
<1> SUFFICES ASSUME Inv, [Next]_vars PROVE Inv'
  OBVIOUS
<1>1. CASE UNCHANGED vars
  BY <1>1 DEF vars, apiVars, Inv, TypeOK, Alone, Handed, Open, Current, RegisteredIsStored, Known
<1>2. CASE \E a \in Attempts : AgentStep(a) \/ PutUnsure(a) \/ WorkerDies(a)
  BY <1>2, AgentSteps
<1>3. CASE \E a \in Attempts : Complete(a) \/ LockExpires(a) \/ WindowEnds(a)
  BY <1>3, CompleteStep, OtherSteps
<1>4. CASE \E r \in Runs : RunStep(r) \/ ReleaseFails(r) \/ RunFails(r)
  BY <1>4, QuietSteps, EndSteps, ReadStep, SignStep, RegisterStep DEF RunStep
<1>5. CASE ApiKilled \/ ApiStopped \/ JobChanges
  BY <1>5, RestartSteps, OtherSteps
<1> QED
  BY <1>1, <1>2, <1>3, <1>4, <1>5 DEF Next

THEOREM Invariant == Spec => []Inv
  BY InvInit, InvNext, PTL DEF Spec

\* Every reachable state has the types of the model.
THEOREM TypeCorrect == Spec => []TypeOK
<1>1. Inv => TypeOK
  BY DEF Inv
<1> QED
  BY <1>1, Invariant, PTL

\* Two tasks of the controller never hold and sign one attempt's file together
\* (complete_worker_rpm_upload, _finalize_worker_rpm), although the lock in the
\* database may expire under its holder: the registry of tasks is what counts.
THEOREM OneSignerHolds == Spec => []OneSigner
<1>1. Inv => OneSigner
  <2> SUFFICES ASSUME Inv, NEW r \in Runs, NEW s \in Runs,
                      run[r].phase \in Holding, run[s].phase \in Holding, run[r].att = run[s].att
               PROVE  r = s
    BY DEF OneSigner
  <2>1. run[r] # NoRun /\ run[s] # NoRun
    BY Values DEF Holding
  <2> QED
    BY <2>1 DEF Inv, Alone
<1> QED
  BY <1>1, Invariant, PTL

\* The digest of an artifact stays that of the object under its key, until
\* another attempt of the same version writes there (_finalize_worker_rpm).
THEOREM RegisteredStaysStored == Spec => []RegisteredIsStored
<1>1. Inv => RegisteredIsStored
  BY DEF Inv
<1> QED
  BY <1>1, Invariant, PTL
=============================================================================
