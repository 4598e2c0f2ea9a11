------------------------------ MODULE IsoQueue ------------------------------
(***************************************************************************)
(* ISO builds: a row that a user creates, a worker that polls for it,      *)
(* builds the image, uploads it under its name and posts the result, and a *)
(* sweep that queues a silent build again.  A row may be built several     *)
(* times and several rows may ask for one name.                            *)
(***************************************************************************)
EXTENDS FiniteSets, Integers

CONSTANTS
    Isos,       \* rows of iso_builds that users ask for
    NameOf,     \* [Isos -> iso_name, its key in the bucket]
    Workers,    \* workers with the iso feature
    Slots,      \* [Workers -> max_parallel, the jobs it runs at a time]
    MaxBuilds,  \* bound: claims
    MaxCancels, \* bound: cancels
    MaxFaults,  \* bound: lost requests, failed builds, dead threads
    Nobody      \* no worker, no ISO, no image

Builds == 1..MaxBuilds
Images == {NameOf[i] : i \in Isos}

ASSUME IsoAssumption ==
    /\ IsFiniteSet(Isos)
    /\ Slots \in [Workers -> Nat \ {0}]
    /\ MaxBuilds \in Nat /\ MaxCancels \in Nat /\ MaxFaults \in Nat
    /\ Nobody \notin Workers \cup Isos

VARIABLES
    iso,        \* [Isos -> row: status, worker, whether it has a log]
    image,      \* [names -> the ISO whose build uploaded the object]
    build,      \* [Builds -> a run_iso_job thread]
    claims,     \* builds handed out
    rpms,       \* [Workers -> RPM attempts that run there]
    creating,   \* requests to create between their checks and the insert
    cancelling, \* requests to cancel between their read and the commit
    sweeping,   \* rows the sweep has read and not yet written
    cancels,
    faults

requests == <<creating, cancelling, sweeping, cancels>>
vars == <<iso, image, build, claims, rpms, requests, faults>>

Ended    == {"success", "failed", "cancelled"}
NoIso    == [status |-> "none", worker |-> Nobody, log |-> FALSE]
NoBuild  == [of |-> Nobody, by |-> Nobody, phase |-> "none", verdict |-> "none", seen |-> "none"]

Init ==
    /\ iso = [i \in Isos |-> NoIso]
    /\ image = [n \in Images |-> Nobody]
    /\ build = [t \in Builds |-> NoBuild]
    /\ claims = 0
    /\ rpms = [w \in Workers |-> 0]
    /\ creating = {} /\ cancelling = {} /\ sweeping = {}
    /\ cancels = 0 /\ faults = 0

Fault == faults < MaxFaults /\ faults' = faults + 1

-----------------------------------------------------------------------------
(* Users *)

\* create_iso_builds: the checks, then the insert.
CreateChecks(i) ==
    /\ iso[i].status = "none" /\ i \notin creating
    /\ image[NameOf[i]] = Nobody
    /\ \A j \in Isos : NameOf[j] = NameOf[i] => iso[j].status \notin {"pending", "running", "success"}
    /\ creating' = creating \cup {i}
    /\ UNCHANGED <<iso, image, build, claims, rpms, cancelling, sweeping, cancels, faults>>

CreateInserts(i) ==
    /\ i \in creating
    /\ creating' = creating \ {i}
    /\ iso' = [iso EXCEPT ![i].status = "pending"]
    /\ UNCHANGED <<image, build, claims, rpms, cancelling, sweeping, cancels, faults>>

\* cancel_iso reads and writes without a lock; the worker keeps the row.
CancelReads(i) ==
    /\ iso[i].status \in {"pending", "running"} /\ i \notin cancelling
    /\ cancels < MaxCancels /\ cancels' = cancels + 1
    /\ cancelling' = cancelling \cup {i}
    /\ UNCHANGED <<iso, image, build, claims, rpms, creating, sweeping, faults>>

CancelWrites(i) ==
    /\ i \in cancelling
    /\ cancelling' = cancelling \ {i}
    /\ iso' = [iso EXCEPT ![i].status = "cancelled"]
    /\ UNCHANGED <<image, build, claims, rpms, creating, sweeping, cancels, faults>>

-----------------------------------------------------------------------------
(* Workers *)

Running(w) == {i \in Isos : iso[i].status = "running" /\ iso[i].worker = w}
Live(w)    == {t \in Builds : build[t].by = w}

Pending    == {i \in Isos : iso[i].status = "pending"}

\* poll_job counts the rows of both kinds that run on the worker.
AtWork(w)  == rpms[w] + Cardinality(Running(w))

\* An ISO goes to a worker for which nothing runs, RPMs included; a lost answer
\* leaves the row running with nobody at it.
ClaimIso(i, w) ==
    /\ i \in Pending
    /\ AtWork(w) = 0 /\ Cardinality(Live(w)) < Slots[w]
    /\ claims < MaxBuilds /\ claims' = claims + 1
    /\ iso' = [iso EXCEPT ![i].status = "running", ![i].worker = w]
    /\ \/ /\ build' = [build EXCEPT ![claims + 1] =
                         [NoBuild EXCEPT !.of = i, !.by = w, !.phase = "start"]]
          /\ UNCHANGED faults
       \/ Fault /\ UNCHANGED build
    /\ UNCHANGED <<image, rpms, requests>>

\* The same poll hands out an RPM while a slot is left.  It tries the ISOs first,
\* but only on a worker with nothing at work.
TakesRpm(w) ==
    /\ AtWork(w) < Slots[w] /\ rpms[w] + Cardinality(Live(w)) < Slots[w]
    /\ AtWork(w) = 0 => Pending = {}
    /\ rpms' = [rpms EXCEPT ![w] = @ + 1]
    /\ UNCHANGED <<iso, image, build, claims, requests, faults>>

RpmEnds(w) ==
    /\ rpms[w] > 0
    /\ rpms' = [rpms EXCEPT ![w] = @ - 1]
    /\ UNCHANGED <<iso, image, build, claims, requests, faults>>

Mine(t) == iso[build[t].of].worker = build[t].by
Turn(t, phase) == build' = [build EXCEPT ![t].phase = phase]
Turned(t, phase, verdict) ==
    build' = [build EXCEPT ![t].phase = phase, ![t].verdict = verdict]

\* iso_progress_log.
Logged(t) ==
    LET i == build[t].of
    IN  iso' = IF Mine(t) /\ iso[i].status = "running" THEN [iso EXCEPT ![i].log = TRUE] ELSE iso

\* The first note; one that is lost is not missed by the worker.
Starts(t) ==
    /\ build[t].phase = "start"
    /\ Turn(t, "building")
    /\ (Logged(t) /\ UNCHANGED faults) \/ (Fault /\ UNCHANGED iso)
    /\ UNCHANGED <<image, claims, rpms, requests>>

Told(t) == Mine(t) /\ iso[build[t].of].status = "cancelled"

\* The cancel check, mock and livemedia-creator, and the notes on the way,
\* which post the whole log again.
Finishes(t) ==
    /\ build[t].phase = "building"
    /\ Logged(t)
    /\ \/ Told(t) /\ Turned(t, "result", "cancelled") /\ UNCHANGED faults
       \/ Turn(t, "presign") /\ UNCHANGED faults
       \/ Turned(t, "result", "failed") /\ Fault
    /\ UNCHANGED <<image, claims, rpms, requests>>

\* iso_presign.  For an object that exists it marks the row failed and raises,
\* which rolls the mark back.
Presigns(t) ==
    LET i == build[t].of
    IN  /\ build[t].phase = "presign"
        /\ IF Mine(t) /\ iso[i].status = "running" /\ image[NameOf[i]] = Nobody
           THEN Turn(t, "put") ELSE Turned(t, "result", "failed")
        /\ UNCHANGED <<iso, image, claims, rpms, requests, faults>>

\* Mutant: the upload replaces what is there.
PutsAnyway(n) == TRUE
\* If-None-Match: *
Puts(n) == image[n] = Nobody

Uploads(t) ==
    LET n    == NameOf[build[t].of]
        put  == IF Puts(n) THEN [image EXCEPT ![n] = build[t].of] ELSE image
    IN  /\ build[t].phase = "put"
        /\ \/ /\ image' = put
              /\ Turned(t, "result", IF Puts(n) THEN "success" ELSE "failed")
              /\ UNCHANGED faults
           \/ \* no answer, whether or not the image arrived
              /\ image' \in {image, put}
              /\ Turned(t, "result", "failed")
              /\ Fault
        /\ UNCHANGED <<iso, claims, rpms, requests>>

\* iso_result: a row of another worker is not found.
ResultReads(t) ==
    /\ build[t].phase = "result"
    /\ build' = [build EXCEPT ![t] = IF Mine(t) THEN [@ EXCEPT !.phase = "posting",
                                                               !.seen = iso[build[t].of].status]
                                     ELSE NoBuild]
    /\ UNCHANGED <<iso, image, claims, rpms, requests, faults>>

\* Any result but the worker's own cancel leaves a row read as cancelled alone;
\* other rows it overwrites, ended ones too.  A status that is assigned what was
\* read is not written.
ResultWrites(t) ==
    LET b == build[t]
    IN  /\ b.phase = "posting"
        /\ iso' = IF b.seen = "cancelled" /\ b.verdict # "cancelled" THEN iso
                  ELSE [iso EXCEPT ![b.of].status = IF b.seen = b.verdict THEN @ ELSE b.verdict,
                                   ![b.of].log = TRUE]
        /\ build' = [build EXCEPT ![t] = NoBuild]
        /\ UNCHANGED <<image, claims, rpms, requests, faults>>

\* The process dies, or its one post of the result is lost.
ThreadLost(t) ==
    /\ build[t] # NoBuild
    /\ build' = [build EXCEPT ![t] = NoBuild]
    /\ Fault
    /\ UNCHANGED <<iso, image, claims, rpms, requests>>

-----------------------------------------------------------------------------
(* reconcile_stale_build_state *)

Posting(i) == \E t \in Builds : build[t].of = i /\ build[t].phase = "start"

\* Mutant: only an empty text counts as no log, not the NULL of a new row.
SilentEmpty(i) == FALSE
\* Fifteen minutes are enough for the first note.
Silent(i) == iso[i].status = "running" /\ ~iso[i].log /\ ~Posting(i)

SweepReads(i) ==
    /\ Silent(i) /\ i \notin sweeping
    /\ sweeping' = sweeping \cup {i}
    /\ UNCHANGED <<iso, image, build, claims, rpms, creating, cancelling, cancels, faults>>

\* Mutant: the row stays with its worker.
RequeuedThere(row) == [row EXCEPT !.status = "pending"]
Requeued(row) == [row EXCEPT !.status = "pending", !.worker = Nobody]

SweepWrites(i) ==
    /\ i \in sweeping
    /\ sweeping' = sweeping \ {i}
    /\ iso' = [iso EXCEPT ![i] = Requeued(@)]
    /\ UNCHANGED <<image, build, claims, rpms, creating, cancelling, cancels, faults>>

-----------------------------------------------------------------------------
BuildStep(t) == Starts(t) \/ Finishes(t) \/ Presigns(t) \/ Uploads(t)
                \/ ResultReads(t) \/ ResultWrites(t)

Next ==
    \/ \E i \in Isos : \/ CreateChecks(i) \/ CreateInserts(i) \/ CancelReads(i) \/ CancelWrites(i)
                       \/ SweepReads(i) \/ SweepWrites(i)
                       \/ \E w \in Workers : ClaimIso(i, w)
    \/ \E w \in Workers : TakesRpm(w) \/ RpmEnds(w)
    \/ \E t \in Builds : BuildStep(t) \/ ThreadLost(t)

Spec == Init /\ [][Next]_vars

\* Workers poll, builds of both kinds have time limits, the sweep runs every few
\* minutes and requests are served.
Fairness ==
    /\ \A i \in Isos : /\ WF_vars(\E w \in Workers : ClaimIso(i, w))
                       /\ WF_vars(SweepReads(i)) /\ WF_vars(SweepWrites(i))
                       /\ WF_vars(CancelWrites(i))
    /\ \A w \in Workers : WF_vars(RpmEnds(w))
    /\ \A t \in Builds : WF_vars(BuildStep(t))

FairSpec == Spec /\ Fairness

-----------------------------------------------------------------------------
(* Properties *)

TypeOK ==
    /\ iso \in [Isos -> [status : {"none", "pending", "running"} \cup Ended,
                         worker : Workers \cup {Nobody}, log : BOOLEAN]]
    /\ \A i \in Isos : iso[i].status = "pending" => iso[i].worker = Nobody
    /\ image \in [Images -> Isos \cup {Nobody}]
    /\ build \in [Builds -> [of : Isos \cup {Nobody}, by : Workers \cup {Nobody},
                             phase : {"none", "start", "building", "presign", "put", "result",
                                      "posting"},
                             verdict : {"none"} \cup Ended,
                             seen : {"none", "pending", "running"} \cup Ended]]
    /\ \A t \in Builds : build[t].phase # "none" => build[t].of \in Isos
    /\ rpms \in [Workers -> Nat] /\ \A w \in Workers : rpms[w] <= Slots[w]
    /\ claims \in 0..MaxBuilds /\ cancels \in Nat /\ faults \in Nat
    /\ creating \subseteq Isos /\ cancelling \subseteq Isos /\ sweeping \subseteq Isos

\* The object under the name of a successful ISO is an image of that ISO, also
\* when two rows ask for one name, a row is built again after a requeue, or a
\* user cancels while the image is on its way.  So a name has one success.
SuccessIsStored ==
    \A i \in Isos : iso[i].status = "success" => image[NameOf[i]] = i

\* A running row that has logged and that nobody builds: it is never queued
\* again, and its worker gets no other ISO until somebody cancels it.
Orphaned(i) ==
    iso[i].status = "running" /\ iso[i].log /\ \A t \in Builds : build[t].of # i

\* A worker gets to no ISO while it has RPMs at work, and nothing keeps RPMs from
\* following each other on one with several slots.
GetsFree(w) == []<>(rpms[w] = 0)

\* If some worker gets free of RPMs again and again, every ISO comes to its end,
\* through silent workers, failures and late writes, unless a thread that had
\* logged is lost.
IsoEnds ==
    (\E w \in Workers : GetsFree(w)) =>
        \A i \in Isos :
            i \in Pending ~>
                iso[i].status \in Ended \/ claims = MaxBuilds \/ \E j \in Isos : Orphaned(j)
=============================================================================
