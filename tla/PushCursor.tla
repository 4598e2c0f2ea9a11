----------------------------- MODULE PushCursor -----------------------------
(***************************************************************************)
(* Builds that follow pushes to GitHub.  A webhook delivery enqueues jobs  *)
(* for the packages its push touches; a catch-up cycle compares the tip of *)
(* every branch with a stored cursor and enqueues jobs for what lies in    *)
(* between.  Both move the cursor in the transaction of their jobs.        *)
(*                                                                         *)
(* The pushes of a branch are numbered.  A job builds the branch as it is  *)
(* when a worker clones it, so it covers every push made before it.        *)
(***************************************************************************)
EXTENDS FiniteSets, Integers, Sequences

CONSTANTS
    Branches,   \* (repository, branch) pairs that packages are built from
    Touches,    \* [Branches -> sequence of sets of packages a push changes]
    Forced,     \* <<branch, push>> that rewrite the branch's history
    Hooked,     \* branches of repositories with a webhook
    Unseen,     \* branches that have no cursor yet
    Backfill,   \* github_catchup_bootstrap_commits
    JobCap,     \* github_catchup_max_jobs_per_cycle
    MaxFaults,  \* bound: lost and repeated deliveries, failures, restarts
    NoBranch

Pushes(b)   == 1..Len(Touches[b])
Packages(b) == UNION {Touches[b][n] : n \in Pushes(b)}
Changes     == {c \in UNION {{b} \X Pushes(b) \X Packages(b) : b \in Branches} :
                   c[3] \in Touches[c[1]][c[2]]}

ASSUME PushAssumption ==
    /\ NoBranch \notin Branches /\ Unseen \subseteq Branches /\ Hooked \subseteq Branches
    /\ Backfill \in Nat /\ JobCap \in Nat \ {0} /\ MaxFaults \in Nat
    /\ \A b \in Branches : Len(Touches[b]) \in Nat /\ IsFiniteSet(Packages(b))
    /\ \A b, c \in Branches : b # c => Packages(b) \cap Packages(c) = {}

VARIABLES
    tip,       \* [Branches -> last push]
    cursor,    \* [Branches -> head_sha of its github_push_cursors row]
    delivery,  \* [Branches -> [pushes -> webhook delivery]]
    cycle,     \* the catch-up's session
    built,     \* [packages -> last push their newest job covers]
    gaps,      \* history: changes a transaction left out for a reason of its own
    jumped,    \* history: changes that a webhook moved the cursor past
    faults

vars == <<tip, cursor, delivery, cycle, built, gaps, jumped, faults>>

NoRow   == -1  \* no cursor
NoWrite == -2  \* a session leaves the cursor alone
Keep    == [b \in Branches |-> NoWrite]
Quiet   == [stage |-> "none", jobs |-> {}, cut |-> {}, seen |-> NoRow]
Asleep  == [on |-> FALSE, todo |-> {}, at |-> NoBranch, head |-> 0, left |-> 0,
            jobs |-> {}, cut |-> {}, seen |-> Keep, write |-> Keep]

Init ==
    /\ tip = [b \in Branches |-> 0]
    /\ cursor = [b \in Branches |-> IF b \in Unseen THEN NoRow ELSE 0]
    /\ delivery = [b \in Branches |-> [n \in Pushes(b) |-> Quiet]]
    /\ cycle = Asleep
    /\ built = [p \in UNION {Packages(b) : b \in Branches} |-> 0]
    /\ gaps = {} /\ jumped = {}
    /\ faults = 0

Fault == faults < MaxFaults /\ faults' = faults + 1

Changed(b, from, to) == {c \in Changes : c[1] = b /\ from < c[2] /\ c[2] <= to}
Names(changes)       == {c[3] : c \in changes}

\* A compare that is cut off hides packages, one without any path stands for
\* all of them; a side tag that cannot be made costs its package the job.
Views(b, changes) == (SUBSET Names(changes)) \cup {Packages(b)}
Resolved(changes, view) == IF view = Names(changes) THEN UNCHANGED faults ELSE Fault

\* The jobs of a committed transaction build the branch as it is by then.
Enqueue(jobs) ==
    built' = [p \in DOMAIN built |->
                 IF p \in jobs THEN tip[CHOOSE b \in Branches : p \in Packages(b)] ELSE built[p]]

\* A row inserted meanwhile by someone else makes the insert fail.
InsertConflict(b, seen) == seen = NoRow /\ cursor[b] # NoRow

-----------------------------------------------------------------------------
(* Pushes and their deliveries *)

Deliver(b, n, stage) == delivery' = [delivery EXCEPT ![b][n] = [Quiet EXCEPT !.stage = stage]]

Push(b) ==
    /\ tip[b] < Len(Touches[b])
    /\ tip' = [tip EXCEPT ![b] = @ + 1]
    /\ Deliver(b, tip'[b], IF b \in Hooked THEN "sent" ELSE "lost")
    /\ UNCHANGED <<cursor, cycle, built, gaps, jumped, faults>>

DeliveryLost(b, n) ==
    /\ delivery[b][n].stage \in {"sent", "read"}
    /\ Deliver(b, n, "lost")
    /\ Fault
    /\ UNCHANGED <<tip, cursor, cycle, built, gaps, jumped>>

\* GitHub delivers on request, also what it has delivered before.
Redeliver(b, n) ==
    /\ delivery[b][n].stage \in {"lost", "done"} /\ b \in Hooked
    /\ Deliver(b, n, "sent")
    /\ Fault
    /\ UNCHANGED <<tip, cursor, cycle, built, gaps, jumped>>

\* github_push_webhook up to its commit.
HookReads(b, n) ==
    LET changes == Changed(b, n - 1, n)
    IN  /\ delivery[b][n].stage = "sent"
        /\ \E view \in Views(b, changes) :
              /\ Resolved(changes, view)
              /\ delivery' = [delivery EXCEPT ![b][n] =
                    [stage |-> "read", jobs |-> view, seen |-> cursor[b],
                     cut |-> {c \in changes : c[3] \notin view}]]
        /\ UNCHANGED <<tip, cursor, cycle, built, gaps, jumped>>

\* The cursor becomes this push, whatever it was.  Assigning the value that
\* was read writes nothing.
HookCommits(b, n) ==
    LET hook == delivery[b][n]
    IN  /\ hook.stage = "read"
        /\ IF InsertConflict(b, hook.seen)
           THEN Deliver(b, n, "lost") /\ UNCHANGED <<cursor, built, gaps, jumped>>
           ELSE /\ Deliver(b, n, "done")
                /\ cursor' = IF hook.seen = n THEN cursor ELSE [cursor EXCEPT ![b] = n]
                /\ Enqueue(hook.jobs)
                /\ gaps' = gaps \cup hook.cut
                /\ jumped' = jumped \cup Changed(b, cursor[b], n - 1)
        /\ UNCHANGED <<tip, cycle, faults>>

-----------------------------------------------------------------------------
(* run_github_push_catchup: one session, committed by the loop at the end *)

\* What a session has before its next branch.
Awake == IF cycle.on THEN cycle
         ELSE [Asleep EXCEPT !.on = TRUE, !.todo = Branches, !.left = JobCap]

\* The tip is read before the cursor.
CycleReadsTip(b) ==
    /\ b \in Awake.todo /\ Awake.at = NoBranch
    /\ Awake.left > 0
    /\ cycle' = [Awake EXCEPT !.at = b, !.todo = @ \ {b}, !.head = tip[b]]
    /\ UNCHANGED <<tip, cursor, delivery, built, gaps, jumped, faults>>

\* Where the compare starts.  Without a cursor only the bootstrap window
\* counts; a compare over rewritten history is given up.
Start(b, head) ==
    IF cursor[b] = NoRow
    THEN IF Backfill > 1 THEN IF head > Backfill THEN head - Backfill ELSE 0 ELSE head
    ELSE IF \E n \in Pushes(b) : cursor[b] < n /\ n <= head /\ <<b, n>> \in Forced
         THEN head ELSE cursor[b]

\* Mutant: a branch without a cursor waits for its first webhook.
WritesNotFirst(b, head) == IF cursor[b] \in {NoRow, head} THEN NoWrite ELSE head
\* The cursor always becomes the tip, also of a branch seen for the first time.
Writes(b, head) == IF cursor[b] = head THEN NoWrite ELSE head

\* Mutant: every branch may use up the cap.
RoomEach(view) == JobCap
\* jobs_left
Room(view) == cycle.left

CycleBranch(b) ==
    LET head    == cycle.head
        changes == Changed(b, Start(b, head), head)
    IN  /\ cycle.at = b
        /\ \E view \in Views(b, changes) : \E chosen \in SUBSET view :
              /\ Resolved(changes, view)
              /\ Cardinality(chosen) = IF Cardinality(view) <= Room(view)
                                       THEN Cardinality(view) ELSE Room(view)
              /\ cycle' = [cycle EXCEPT
                    !.at = NoBranch, !.head = 0,
                    !.left = @ - Cardinality(chosen),
                    !.jobs = @ \cup chosen,
                    !.cut = @ \cup Changed(b, cursor[b], Start(b, head))
                              \cup {c \in changes : c[3] \notin chosen},
                    !.seen[b] = IF Writes(b, head) = NoWrite THEN NoWrite ELSE cursor[b],
                    !.write[b] = Writes(b, head)]
        /\ UNCHANGED <<tip, cursor, delivery, built, gaps, jumped>>

\* Mutant: only the jobs of the cycle are taken back.
UndoneJobs(c) == [c EXCEPT !.jobs = {}, !.cut = {}]
\* A rollback takes back what the cycle did for the branches before, too.
Undone(c) == [c EXCEPT !.jobs = {}, !.cut = {}, !.seen = Keep, !.write = Keep]

CycleBranchFails ==
    /\ cycle.at # NoBranch
    /\ cycle' = [Undone(cycle) EXCEPT !.at = NoBranch, !.head = 0]
    /\ Fault
    /\ UNCHANGED <<tip, cursor, delivery, built, gaps, jumped>>

CycleCommits ==
    /\ cycle.on /\ cycle.at = NoBranch
    /\ cycle.todo = {} \/ cycle.left <= 0
    /\ IF \E b \in Branches : cycle.write[b] # NoWrite /\ InsertConflict(b, cycle.seen[b])
       THEN UNCHANGED <<cursor, built, gaps>>
       ELSE /\ cursor' = [b \in Branches |->
                  IF cycle.write[b] = NoWrite THEN cursor[b] ELSE cycle.write[b]]
            /\ Enqueue(cycle.jobs)
            /\ gaps' = gaps \cup cycle.cut
    /\ cycle' = Asleep
    /\ UNCHANGED <<tip, delivery, jumped, faults>>

\* Requests and cycle of the process that ends are rolled back.
ControllerRestarts ==
    /\ cycle' = Asleep
    /\ delivery' = [b \in Branches |-> [n \in Pushes(b) |->
           IF delivery[b][n].stage = "read" THEN [Quiet EXCEPT !.stage = "lost"]
           ELSE delivery[b][n]]]
    /\ Fault
    /\ UNCHANGED <<tip, cursor, built, gaps, jumped>>

-----------------------------------------------------------------------------
Hook(b, n) == HookReads(b, n) \/ HookCommits(b, n)

Cycle == (\E b \in Branches : CycleReadsTip(b) \/ CycleBranch(b)) \/ CycleCommits

Next ==
    \/ \E b \in Branches : Push(b)
    \/ \E b \in Branches : \E n \in Pushes(b) :
          Hook(b, n) \/ DeliveryLost(b, n) \/ Redeliver(b, n)
    \/ Cycle \/ CycleBranchFails
    \/ ControllerRestarts

Spec == Init /\ [][Next]_vars

\* Requests are served, and the loop runs a cycle every few minutes.
Fairness ==
    /\ WF_vars(\E b \in Branches : \E n \in Pushes(b) : Hook(b, n))
    /\ WF_vars(Cycle)

FairSpec == Spec /\ Fairness

-----------------------------------------------------------------------------
(* Properties *)

Hooks(b) == [stage : {"none", "sent", "read", "done", "lost"},
             jobs : SUBSET Packages(b), cut : SUBSET Changes, seen : Int]

Sessions == [on : BOOLEAN, todo : SUBSET Branches, at : Branches \cup {NoBranch},
             head : Nat, left : 0..JobCap, jobs : SUBSET DOMAIN built, cut : SUBSET Changes,
             seen : [Branches -> Int], write : [Branches -> Nat \cup {NoWrite}]]

TypeOK ==
    /\ tip \in [Branches -> Nat] /\ cursor \in [Branches -> Int]
    /\ built \in [UNION {Packages(b) : b \in Branches} -> Nat]
    /\ \A b \in Branches :
          /\ tip[b] <= Len(Touches[b]) /\ NoRow <= cursor[b] /\ cursor[b] <= tip[b]
          /\ cycle.write[b] <= tip[b] /\ (cycle.at = b => cycle.head <= tip[b])
          /\ \A p \in Packages(b) : built[p] <= tip[b]
          /\ delivery[b] \in [Pushes(b) -> Hooks(b)]
          /\ \A n \in Pushes(b) : delivery[b][n].stage = "none" <=> n > tip[b]
    /\ delivery = [b \in Branches |-> delivery[b]]
    /\ cycle \in Sessions
    /\ gaps \subseteq Changes /\ jumped \subseteq Changes
    /\ faults \in Nat

\* Changes the code gives up: packages a compare did not show, jobs over the cap,
\* rewritten history, what lies before the first cursor, and a push whose
\* delivery is late or lost when a later one moves the cursor.  The first of these
\* the code leaves to catch-up by its own word, if a delivery's compare is cut
\* off: PushCursorClaims shows that catch-up does not take it up.
GivenUp(c) == c \in gaps \/ (c \in jumped /\ delivery[c[1]][c[2]].stage # "done")

\* Nothing else is skipped, whatever the two writers of the cursor lose, repeat
\* or roll back: any other change at or behind the cursor, where catch-up never
\* looks again, has a job that builds it.
NothingSkipped ==
    \A c \in Changes : c[2] <= cursor[c[1]] => built[c[3]] >= c[2] \/ GivenUp(c)

\* "Hard cap on jobs enqueued by one catch-up cycle", over all branches.
CapKept == Cardinality(cycle.jobs) <= JobCap

\* Every change is built, with or without its delivery, but for those that the
\* code has given up and passed, some of them against what it says.
ChangesAreBuilt ==
    []<>(\A c \in Changes :
            tip[c[1]] >= c[2] => built[c[3]] >= c[2] \/ (GivenUp(c) /\ c[2] <= cursor[c[1]]))
=============================================================================
