------------------------------ MODULE RepoTree ------------------------------
(***************************************************************************)
(* The packages of a release as they lie in the bucket: side tags that     *)
(* workers upload to, the primary branches, the publish threads that keep  *)
(* one version of a package in a tag, and the promotions that move a whole *)
(* tree into a primary branch.  One architecture; the repodata is left out.*)
(***************************************************************************)
EXTENDS FiniteSets, Integers

CONSTANTS
    Names,      \* packages; a package also stands for its first version's file
    MaxBuilds,  \* bound: later builds, each with a file of its own
    PackageOf,  \* [Builds -> Names]
    TagOf,      \* [Builds -> Tags]
    Tags,       \* side tags
    Primary,    \* _REPO_CHANNELS
    Released,   \* [Primary -> what they hold at first]
    Rank,       \* [branches -> Nat], the order of their prefixes
    MaxJobs,    \* bound: promotions asked for
    Routes,     \* bound: the pairs <<from, to>> that users ask for
    MaxEvents   \* bound: tags scrapped by users, errors of R2 or createrepo, restarts

Builds   == 1..MaxBuilds  \* in the order of their uploads
Jobs     == 1..MaxJobs    \* promotion jobs, in the order of their requests
Branches == Tags \cup Primary
Files    == Names \cup Builds
NameOf(f) == IF f \in Builds THEN PackageOf[f] ELSE f
NamesOf(files) == {NameOf(f) : f \in files}

ASSUME TreeAssumption ==
    /\ Names \cap Builds = {} /\ Tags \cap Primary = {}
    /\ PackageOf \in [Builds -> Names] /\ TagOf \in [Builds -> Tags]
    /\ Released \in [Primary -> SUBSET Names]
    /\ Rank \in [Branches -> Nat]
    /\ \A b, c \in Branches : Rank[b] = Rank[c] => b = c
    /\ MaxBuilds \in Nat /\ MaxJobs \in Nat /\ MaxEvents \in Nat

VARIABLES
    objects,  \* [Branches -> files in the bucket]
    build,    \* [Builds -> how far its file is: the upload, its publish task]
    pub,      \* [Tags -> the publish thread: its phase and the files of its batch]
    job,      \* [Jobs -> the promotion: phase, from, to, listed and copied files]
    tag,      \* [Tags -> its row: which one, and whether it is there]
    wiping,   \* [Tags -> background tasks about to delete the prefix]
    events

vars == <<objects, build, pub, job, tag, wiping, events>>

NoPub == [phase |-> "idle", files |-> {}]
NoJob == [phase |-> "none", from |-> "none", to |-> "none", row |-> 0,
          listed |-> {}, copied |-> {}]
Over  == [NoJob EXCEPT !.phase = "over"]

Init ==
    /\ objects = [b \in Branches |-> IF b \in Primary THEN Released[b] ELSE {}]
    /\ build = [f \in Builds |-> "none"]
    /\ pub = [t \in Tags |-> NoPub]
    /\ job = [j \in Jobs |-> NoJob]
    /\ tag = [t \in Tags |-> [row |-> 1, live |-> TRUE]]
    /\ wiping = [t \in Tags |-> 0]
    /\ events = 0

Event == events < MaxEvents /\ events' = events + 1

-----------------------------------------------------------------------------
(* Locks: prefix_publish_lock, held by a publish thread or a promotion.    *)

\* Mutant: the locks in the order source, destination.
OrderedAsGiven(j) == <<job[j].from, job[j].to>>

Ordered(j) ==
    IF Rank[job[j].from] < Rank[job[j].to] THEN <<job[j].from, job[j].to>>
                                           ELSE <<job[j].to, job[j].from>>
AtWork == {"copied", "pruned"}
Held(j) ==
    IF job[j].phase \in AtWork THEN {job[j].from, job[j].to}
    ELSE IF job[j].phase = "first" THEN {Ordered(j)[1]} ELSE {}
Free(b) ==
    /\ \A j \in Jobs : b \notin Held(j)
    /\ b \in Tags => pub[b].phase # "pruned"

-----------------------------------------------------------------------------
(* Builds into side tags                                                   *)

\* The worker's PUT goes straight to the tag's RPMS/, under no lock and
\* whether or not the tag still has a row.
Upload(f) ==
    /\ build[f] = "none" /\ \A g \in 1..(f - 1) : build[g] # "none"
    /\ build' = [build EXCEPT ![f] = "stored"]
    /\ objects' = [objects EXCEPT ![TagOf[f]] = @ \cup {f}]
    /\ UNCHANGED <<pub, job, tag, wiping, events>>

\* The gate hands the finished build to a publish task.
HandOver(f) ==
    /\ build[f] = "stored"
    /\ build' = [build EXCEPT ![f] = "due"]
    /\ UNCHANGED <<objects, pub, job, tag, wiping, events>>

Due(t) == {f \in Builds : TagOf[f] = t /\ build[f] = "due"}

\* The loop takes every pending task of the prefix and starts the thread.
Take(t) ==
    /\ pub[t].phase = "idle" /\ Due(t) # {}
    /\ pub' = [pub EXCEPT ![t] = [phase |-> "waits", files |-> Due(t)]]
    /\ build' = [f \in Builds |-> IF f \in Due(t) THEN "taken" ELSE build[f]]
    /\ UNCHANGED <<objects, job, tag, wiping, events>>

\* process_repo_publish_sync, under the prefix lock.  First what else bears a
\* name of the batch goes, then all but one file of each name: the newest, of
\* the batch if it has one there.
Others(held, batch) == {f \in held \ batch : NameOf(f) \in NamesOf(batch)}
OnePerName(kept, held, batch) ==
    /\ NamesOf(kept) = NamesOf(held)
    /\ \A f, g \in kept : NameOf(f) = NameOf(g) => f = g
    /\ \A f \in kept : NameOf(f) \in NamesOf(held \cap batch) => f \in batch

PubPrunes(t) ==
    /\ pub[t].phase = "waits" /\ Free(t)
    /\ LET batch == pub[t].files
           left  == objects[t] \ Others(objects[t], batch)
       IN  \E kept \in SUBSET left :
              /\ OnePerName(kept, left, batch)
              /\ objects' = [objects EXCEPT ![t] = kept]
    /\ pub' = [pub EXCEPT ![t].phase = "pruned"]
    /\ UNCHANGED <<build, job, tag, wiping, events>>

\* The metadata is written, or an error was met: the tasks end either way.
PubEnds(t) ==
    /\ \/ pub[t].phase = "pruned" /\ UNCHANGED events
       \/ pub[t].phase = "waits" /\ Free(t) /\ Event
    /\ build' = [f \in Builds |-> IF f \in pub[t].files THEN "over" ELSE build[f]]
    /\ pub' = [pub EXCEPT ![t] = NoPub]
    /\ UNCHANGED <<objects, job, tag, wiping>>

\* A task whose thread is gone is pending again after some hours.
Reclaims(f) ==
    /\ build[f] = "taken" /\ f \notin pub[TagOf[f]].files
    /\ build' = [build EXCEPT ![f] = "due"]
    /\ UNCHANGED <<objects, pub, job, tag, wiping, events>>

-----------------------------------------------------------------------------
(* Users of a side tag                                                     *)

\* scrap_side_tag deletes the row and leaves the objects to a task.
Unlisted(t) ==
    /\ tag' = [tag EXCEPT ![t].live = FALSE]
    /\ wiping' = [wiping EXCEPT ![t] = @ + 1]

Scraps(t) ==
    /\ tag[t].live /\ Event
    /\ Unlisted(t)
    /\ UNCHANGED <<objects, build, pub, job>>

\* A push or a user creates the tag anew: another row, the same prefix.
Recreates(t) ==
    /\ ~tag[t].live
    /\ tag' = [tag EXCEPT ![t] = [row |-> @.row + 1, live |-> TRUE]]
    /\ UNCHANGED <<objects, build, pub, job, wiping, events>>

Wipes(t) ==
    /\ wiping[t] > 0
    /\ wiping' = [wiping EXCEPT ![t] = @ - 1]
    /\ objects' = [objects EXCEPT ![t] = {}]
    /\ UNCHANGED <<build, pub, job, tag, events>>

-----------------------------------------------------------------------------
(* Promotions: whole_tree_promote_branch                                   *)

Turn(j, phase) == job' = [job EXCEPT ![j].phase = phase]
Ends(j) == job' = [job EXCEPT ![j] = Over]
Active(j) == job[j].phase \notin {"none", "over"}

RowOf(b) == IF b \in Tags THEN tag[b].row ELSE 0
Exists(b) == b \in Tags => tag[b].live
Same(j, from, to) == job[j].from = from /\ job[j].to = to /\ job[j].row = RowOf(from)

\* The endpoints' checks and the busy key of promotion_jobs.
Request(j, from, to) ==
    /\ job[j].phase = "none" /\ \A k \in 1..(j - 1) : job[k].phase # "none"
    /\ <<from, to>> \in Routes
    /\ to \in Primary /\ from # to /\ Exists(from)
    /\ \A k \in Jobs : Active(k) => ~Same(k, from, to)
    /\ job' = [job EXCEPT ![j] = [NoJob EXCEPT !.phase = "asked", !.from = from,
                                               !.to = to, !.row = RowOf(from)]]
    /\ UNCHANGED <<objects, build, pub, tag, wiping, events>>

\* The tree is listed before any lock is taken.
Lists(j) ==
    /\ job[j].phase = "asked"
    /\ LET held == objects[job[j].from]
       IN  job' = [job EXCEPT ![j].listed = held,
                              ![j].phase = IF held = {} THEN "moved" ELSE "listed"]
    /\ UNCHANGED <<objects, build, pub, tag, wiping, events>>

LocksFirst(j) ==
    /\ job[j].phase = "listed" /\ Free(Ordered(j)[1])
    /\ Turn(j, "first")
    /\ UNCHANGED <<objects, build, pub, tag, wiping, events>>

\* Mutant: what is left of the listing is copied.
CopiedWhatIsLeft(j) == job[j].listed \cap objects[job[j].from]

\* classify_promotion_artifacts: the listing holds in the source, or all of
\* it is in the destination already, or nothing is copied.
InSource(j) == job[j].listed \subseteq objects[job[j].from]
Copied(j) ==
    IF InSource(j) \/ job[j].listed \subseteq objects[job[j].to] THEN job[j].listed ELSE {}

Copies(j) ==
    /\ job[j].phase = "first" /\ Free(Ordered(j)[2])
    /\ job' = [job EXCEPT ![j].phase = "copied", ![j].copied = Copied(j)]
    /\ objects' = [objects EXCEPT ![job[j].to] = @ \cup IF InSource(j) THEN job[j].listed ELSE {}]
    /\ UNCHANGED <<build, pub, tag, wiping, events>>

\* Mutant: the listed files themselves are not kept.
SupersededAll(j, held) == {f \in held : NameOf(f) \in NamesOf(job[j].listed)}

\* run_batched_promotion_r2_maintenance: every primary branch loses the other
\* files of the names listed.
Superseded(j, held) == Others(held, job[j].listed)
Prunes(j) ==
    /\ job[j].phase = "copied"
    /\ objects' = [b \in Branches |->
                      IF b \in Primary THEN objects[b] \ Superseded(j, objects[b]) ELSE objects[b]]
    /\ Turn(j, "pruned")
    /\ UNCHANGED <<build, pub, tag, wiping, events>>

\* The destination's metadata needs every copied file, unless it falls back to
\* a full run of createrepo; then what was copied leaves the source.
Described(j) == job[j].copied \subseteq objects[job[j].to]
Removes(j) ==
    /\ job[j].phase = "pruned"
    /\ \/ /\ Turn(j, "moved")
          /\ objects' = [objects EXCEPT ![job[j].from] = @ \ job[j].copied]
       \/ ~Described(j) /\ Ends(j) /\ UNCHANGED objects
    /\ UNCHANGED <<build, pub, tag, wiping, events>>

\* A primary branch is done; a tag loses all that is left under its prefix.
Leaves(j) ==
    /\ job[j].phase = "moved"
    /\ IF job[j].from \in Primary
       THEN Ends(j) /\ UNCHANGED objects
       ELSE Turn(j, "deleted") /\ objects' = [objects EXCEPT ![job[j].from] = {}]
    /\ UNCHANGED <<build, pub, tag, wiping, events>>

\* The tag of a promotion is scrapped with it, if it is still there.
ScrapsTag(j) ==
    /\ job[j].phase = "deleted"
    /\ Ends(j)
    /\ IF tag[job[j].from] = [row |-> job[j].row, live |-> TRUE]
       THEN Unlisted(job[j].from) ELSE UNCHANGED <<tag, wiping>>
    /\ UNCHANGED <<objects, build, pub, events>>

\* An error ends the job where it is; some files may have been copied.
Fails(j) ==
    /\ Active(j) /\ Event
    /\ Ends(j)
    /\ \/ UNCHANGED objects
       \/ /\ job[j].phase = "first" /\ Free(Ordered(j)[2])
          /\ \E some \in SUBSET (job[j].listed \cap objects[job[j].from]) :
                objects' = [objects EXCEPT ![job[j].to] = @ \cup some]
    /\ UNCHANGED <<build, pub, tag, wiping>>

-----------------------------------------------------------------------------
(* A restart of the API ends its threads and tasks. *)
Restarts ==
    /\ Event
    /\ pub' = [t \in Tags |-> NoPub]
    /\ job' = [j \in Jobs |-> IF Active(j) THEN Over ELSE job[j]]
    /\ wiping' = [t \in Tags |-> 0]
    /\ UNCHANGED <<objects, build, tag>>

Publish(t) == Take(t) \/ PubPrunes(t) \/ PubEnds(t)
Promote(j) ==
    \/ Lists(j) \/ LocksFirst(j) \/ Copies(j) \/ Prunes(j) \/ Removes(j)
    \/ Leaves(j) \/ ScrapsTag(j)

Next ==
    \/ \E f \in Builds : Upload(f) \/ HandOver(f) \/ Reclaims(f)
    \/ \E t \in Tags : Publish(t) \/ Scraps(t) \/ Recreates(t) \/ Wipes(t)
    \/ \E j \in Jobs : Promote(j) \/ Fails(j)
    \/ \E j \in Jobs, from, to \in Branches : Request(j, from, to)
    \/ Restarts

Spec == Init /\ [][Next]_vars

\* Some thread that can run on does; nobody needs to build or to ask.  There
\* is only so much to publish and to promote, so this is all it takes.
Threads == (\E t \in Tags : Publish(t)) \/ (\E j \in Jobs : Promote(j))
FairSpec == Spec /\ WF_vars(Threads)

-----------------------------------------------------------------------------
(* Properties *)

Phases == {"none", "asked", "listed", "first", "copied", "pruned", "moved",
           "deleted", "over"}

\* Types.  A promotion copies its whole listing or nothing of it, and nothing
\* before it has both locks.
TypeOK ==
    /\ objects \in [Branches -> SUBSET Files]
    /\ build \in [Builds -> {"none", "stored", "due", "taken", "over"}]
    /\ pub \in [Tags -> [phase : {"idle", "waits", "pruned"}, files : SUBSET Builds]]
    /\ job \in [Jobs -> [phase : Phases, from : Branches \cup {"none"}, to : Primary \cup {"none"},
                         row : Nat, listed : SUBSET Files, copied : SUBSET Files]]
    /\ \A j \in Jobs :
          /\ Active(j) => job[j].from \in Branches /\ job[j].to \in Primary \ {job[j].from}
          /\ job[j].copied \in {{}, job[j].listed}
          /\ job[j].phase \in {"asked", "listed", "first"} => job[j].copied = {}
          /\ job[j].phase = "deleted" => job[j].from \in Tags
    /\ tag \in [Tags -> [row : Nat, live : BOOLEAN]]
    /\ wiping \in [Tags -> Nat]
    /\ events \in 0..MaxEvents

Everywhere == UNION {objects[b] : b \in Branches}
LastLost(n) == n \in NamesOf(Everywhere) /\ n \notin NamesOf(Everywhere)'
Step(j) == job'[j].phase # job[j].phase

\* What the code does not guard: a tag's prefix is deleted with what is in it,
PrefixGone(n) ==
    \E t \in Tags :
       /\ n \in NamesOf(objects[t])
       /\ \/ wiping'[t] < wiping[t]
          \/ \E j \in Jobs : Step(j) /\ job[j].phase = "moved" /\ job[j].from = t
\* a batch is published after an earlier one, or a wipe, took its file,
FileGone(n) ==
    \E t \in Tags :
       /\ pub[t].phase = "waits" /\ pub'[t].phase = "pruned"
       /\ n \in NamesOf(pub[t].files \ objects[t])
\* the listing of a promotion no longer holds, so that it copies nothing,
ListingGone(n) ==
    \E j \in Jobs :
       /\ Step(j) /\ job[j].phase = "copied"
       /\ job[j].copied = {} /\ n \in NamesOf(job[j].listed)
\* another promotion, under other locks, prunes what this one has copied.
CopyGone(n) ==
    \E j \in Jobs :
       /\ Step(j) /\ job[j].phase \in AtWork
       /\ n \in NamesOf(job[j].copied \ objects[job[j].to])

\* Publishing and promoting replace files of a package: but for these four
\* cases, no step takes the last file of a package out of the repository.
NamesKept ==
    [][\A n \in Names : LastLost(n) =>
          PrefixGone(n) \/ FileGone(n) \/ ListingGone(n) \/ CopyGone(n)]_objects

\* Every promotion ends: those that want the same two branches take their
\* locks in one order.
PromotionsEnd == []<>(\A j \in Jobs : ~Active(j))
=============================================================================
