----------------------------- MODULE Publication ----------------------------
(***************************************************************************)
(* What the way into the repository promises, without scans, threads and   *)
(* retries.  A build's publish is asked for only once its job is cleared.  *)
(* The repository changes only while some publish is asked for; it may     *)
(* show more than was asked for.  A publish is confirmed only once its     *)
(* build was shown or another build had taken its place.                   *)
(***************************************************************************)
EXTENDS Integers

CONSTANTS Jobs, Attempts, JobOf

VARIABLES
    cleared,   \* jobs that may be published
    uploaded,  \* attempts whose build is in the store, or was
    asked,     \* attempts whose publish is asked for
    visible,   \* attempts that have been in the repository
    replaced,  \* attempts another build has taken the place of
    confirmed  \* attempts whose publish is called a success

vars == <<cleared, uploaded, asked, visible, replaced, confirmed>>

Init ==
    /\ cleared = {} /\ uploaded = {} /\ asked = {}
    /\ visible = {} /\ replaced = {} /\ confirmed = {}

\* A build is stored, perhaps in the place of others.  It may be what a job
\* was waiting for.
Upload(a) ==
    /\ a \notin uploaded /\ uploaded' = uploaded \cup {a}
    /\ cleared \subseteq cleared'
    /\ replaced \subseteq replaced' /\ replaced' \subseteq uploaded
    /\ UNCHANGED <<asked, visible, confirmed>>

Ask(a) ==
    /\ a \in uploaded /\ JobOf[a] \in cleared
    /\ asked' = asked \cup {a}
    /\ UNCHANGED <<cleared, uploaded, visible, replaced, confirmed>>

\* A maintainer clears a job and asks for a publish of it, unless that one was
\* given up before.
Waive(a) ==
    /\ a \in uploaded
    /\ cleared' = cleared \cup {JobOf[a]}
    /\ asked' \in {asked, asked \cup {a}}
    /\ UNCHANGED <<uploaded, visible, replaced, confirmed>>

\* Publishes are given up; a confirmed one never is.
SomeGivenUp == asked' \subseteq asked /\ confirmed \subseteq asked'

Withdraw ==
    /\ SomeGivenUp
    /\ UNCHANGED <<cleared, uploaded, visible, replaced, confirmed>>

\* A publish makes room for its build.
Prune ==
    /\ asked # {}
    /\ replaced \subseteq replaced' /\ replaced' \subseteq uploaded
    /\ UNCHANGED <<cleared, uploaded, asked, visible, confirmed>>

\* A publish shows builds: some that was asked for, or what replaced it, and
\* maybe others.  Those who asked may have given it up.
Show ==
    /\ visible \subseteq visible' /\ visible' \subseteq uploaded
    /\ \E a \in asked : a \in visible' \cup replaced
    /\ SomeGivenUp
    /\ UNCHANGED <<cleared, uploaded, replaced, confirmed>>

Confirm ==
    /\ confirmed \subseteq confirmed'
    /\ confirmed' \subseteq asked \cap (visible \cup replaced)
    /\ UNCHANGED <<cleared, uploaded, asked, visible, replaced>>

Next ==
    \/ \E a \in Attempts : Upload(a) \/ Ask(a) \/ Waive(a)
    \/ Withdraw \/ Prune \/ Show \/ Confirm

Spec == Init /\ [][Next]_vars
=============================================================================
