----------------------------- MODULE BuildLeases ----------------------------
(***************************************************************************)
(* What the build queue promises, without its rows and requests: an        *)
(* attempt is a lease of one job to one worker.  A lease is granted under  *)
(* a fresh id, to a worker with room, on a job nobody holds; it ends once  *)
(* and is never granted again.                                             *)
(***************************************************************************)
EXTENDS Integers, FiniteSets

CONSTANTS Jobs, Workers, AttemptIds, MaxParallel, None

VARIABLES
    held,    \* the leases in force
    issued,  \* every id ever granted
    lease    \* per id, the job and the worker it was granted for

vars == <<held, issued, lease>>

HeldBy(w) == {a \in held : lease[a].worker = w}
HeldOn(j) == {a \in held : lease[a].job = j}

Init ==
    /\ held = {}
    /\ issued = {}
    /\ lease = [a \in AttemptIds |-> [job |-> None, worker |-> None]]

Grant(a, j, w) ==
    /\ a \notin issued
    /\ HeldOn(j) = {}
    /\ Cardinality(HeldBy(w)) < MaxParallel[w]
    /\ held' = held \cup {a}
    /\ issued' = issued \cup {a}
    /\ lease' = [lease EXCEPT ![a] = [job |-> j, worker |-> w]]

\* One commit may end several leases: the sweep closes what it finds.
Release(S) ==
    /\ S # {} /\ S \subseteq held
    /\ held' = held \ S
    /\ UNCHANGED <<issued, lease>>

Next ==
    \/ \E a \in AttemptIds, j \in Jobs, w \in Workers : Grant(a, j, w)
    \/ \E S \in SUBSET held : Release(S)

Spec == Init /\ [][Next]_vars
=============================================================================
