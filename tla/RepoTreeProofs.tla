--------------------------- MODULE RepoTreeProofs ---------------------------
(***************************************************************************)
(* RepoTree for any packages, builds, branches and promotions: types, that *)
(* the last file of a package is only lost in the four named cases, and    *)
(* that those who want the same branches do not wait for each other.       *)
(***************************************************************************)
EXTENDS RepoTree, TLAPS, FiniteSetTheorems, WellFoundedInduction

Promotions ==
    [phase : Phases, from : Branches \cup {"none"}, to : Primary \cup {"none"},
     row : Nat, listed : SUBSET Files, copied : SUBSET Files]

\* What TypeOK says of one promotion.
Good(r) ==
    /\ r \in Promotions
    /\ r.phase \notin {"none", "over"} =>
           r.from \in Branches /\ r.to \in Primary \ {r.from}
    /\ r.copied \in {{}, r.listed}
    /\ r.phase \in {"asked", "listed", "first"} => r.copied = {}
    /\ r.phase = "deleted" => r.from \in Tags

Moved(j) == job' = job \/ \E r : Good(r) /\ job' = [job EXCEPT ![j] = r]

-----------------------------------------------------------------------------
LEMMA JobTypes == TypeOK <=>
    /\ objects \in [Branches -> SUBSET Files]
    /\ build \in [Builds -> {"none", "stored", "due", "taken", "over"}]
    /\ pub \in [Tags -> [phase : {"idle", "waits", "pruned"}, files : SUBSET Builds]]
    /\ job \in [Jobs -> Promotions] /\ \A j \in Jobs : Good(job[j])
    /\ tag \in [Tags -> [row : Nat, live : BOOLEAN]]
    /\ wiping \in [Tags -> Nat]
    /\ events \in 0..MaxEvents
<1>1. ASSUME job \in [Jobs -> Promotions]
      PROVE  (\A j \in Jobs : Good(job[j])) <=>
             \A j \in Jobs :
                /\ Active(j) => job[j].from \in Branches /\ job[j].to \in Primary \ {job[j].from}
                /\ job[j].copied \in {{}, job[j].listed}
                /\ job[j].phase \in {"asked", "listed", "first"} => job[j].copied = {}
                /\ job[j].phase = "deleted" => job[j].from \in Tags
  BY <1>1 DEF Good, Active
<1> QED
  BY <1>1 DEF TypeOK, Promotions

LEMMA CopiedFields ==
    ASSUME NEW x \in Promotions, NEW y, NEW c, y = [x EXCEPT !.phase = "copied", !.copied = c]
    PROVE  y = [phase |-> "copied", from |-> x.from, to |-> x.to, row |-> x.row,
                listed |-> x.listed, copied |-> c]
BY DEF Promotions

LEMMA ListedGood ==
    ASSUME NEW x, Good(x), x.phase = "asked", NEW held \in SUBSET Files,
           NEW next \in {"moved", "listed"},
           NEW y, y = [x EXCEPT !.listed = held, !.phase = next]
    PROVE  Good(y)
<1>1. y = [phase |-> next, from |-> x.from, to |-> x.to, row |-> x.row,
           listed |-> held, copied |-> x.copied]
  BY DEF Good, Promotions
<1>2. y \in Promotions
  BY <1>1 DEF Good, Promotions, Phases
<1> QED
  BY <1>1, <1>2 DEF Good

LEMMA NoJobGood == Good(NoJob) /\ Good(Over)
BY DEF Good, NoJob, Over, Promotions, Phases

LEMMA MovedGood ==
    ASSUME job \in [Jobs -> Promotions], \A j \in Jobs : Good(job[j]), NEW j \in Jobs, Moved(j)
    PROVE  job' \in [Jobs -> Promotions] /\ \A k \in Jobs : Good(job'[k])
<1>1. CASE job' = job
  BY <1>1
<1>2. CASE \E r : Good(r) /\ job' = [job EXCEPT ![j] = r]
  <2>1. PICK r : Good(r) /\ job' = [job EXCEPT ![j] = r]
    BY <1>2
  <2>2. r \in Promotions
    BY <2>1 DEF Good
  <2> QED
    BY <2>1, <2>2
<1> QED
  BY <1>1, <1>2 DEF Moved

LEMMA TurnMoves ==
    ASSUME job \in [Jobs -> Promotions], NEW j \in Jobs, Good(job[j]), Active(j),
           NEW phase \in Phases, Turn(j, phase),
           phase \in {"asked", "listed", "first"} => job[j].copied = {},
           phase = "deleted" => job[j].from \in Tags
    PROVE  Moved(j)
<1> DEFINE r == [job[j] EXCEPT !.phase = phase]
<1>1. job' = [job EXCEPT ![j] = r]
  BY DEF Turn
<1>2. Good(r)
  <2>1. /\ r \in Promotions /\ r.from = job[j].from /\ r.to = job[j].to
        /\ r.copied = job[j].copied /\ r.listed = job[j].listed
    BY DEF Promotions
  <2> QED
    BY <2>1 DEF Good, Active
<1> QED
  BY <1>1, <1>2 DEF Moved

LEMMA EndMoves == ASSUME NEW j \in Jobs, Ends(j) PROVE Moved(j)
BY NoJobGood DEF Ends, Moved

LEMMA TypeInit == Init => TypeOK
<1> SUFFICES ASSUME Init PROVE TypeOK
  OBVIOUS
<1> USE TreeAssumption DEF Init
<1>1. objects \in [Branches -> SUBSET Files]
  BY DEF Branches, Files
<1>2. pub \in [Tags -> [phase : {"idle", "waits", "pruned"}, files : SUBSET Builds]]
  BY DEF NoPub
<1>3. job \in [Jobs -> Promotions] /\ \A j \in Jobs : Good(job[j])
  BY NoJobGood DEF Good
<1>4. /\ build \in [Builds -> {"none", "stored", "due", "taken", "over"}]
      /\ tag \in [Tags -> [row : Nat, live : BOOLEAN]]
      /\ wiping \in [Tags -> Nat] /\ events \in 0..MaxEvents
  OBVIOUS
<1> QED
  BY <1>1, <1>2, <1>3, <1>4, JobTypes

LEMMA BuildSteps ==
    ASSUME TypeOK, NEW f \in Builds, Upload(f) \/ HandOver(f) \/ Reclaims(f)
    PROVE  TypeOK'
<1> USE TreeAssumption DEF TypeOK
<1>1. UNCHANGED <<pub, job, tag, wiping, events>>
  BY DEF Upload, HandOver, Reclaims
<1>2. objects' \in [Branches -> SUBSET Files]
  <2>1. TagOf[f] \in Branches /\ {f} \subseteq Files
    BY DEF Branches, Files
  <2> QED
    BY <2>1 DEF Upload, HandOver, Reclaims
<1>3. build' \in [Builds -> {"none", "stored", "due", "taken", "over"}]
  BY DEF Upload, HandOver, Reclaims
<1> QED
  BY <1>1, <1>2, <1>3 DEF Active

LEMMA PubSteps ==
    ASSUME TypeOK, NEW t \in Tags, Publish(t)
    PROVE  TypeOK'
<1> USE TreeAssumption DEF TypeOK
<1>1. UNCHANGED <<job, tag, wiping>>
  BY DEF Publish, Take, PubPrunes, PubEnds
<1>2. /\ objects' \in [Branches -> SUBSET Files]
      /\ pub' \in [Tags -> [phase : {"idle", "waits", "pruned"}, files : SUBSET Builds]]
      /\ build' \in [Builds -> {"none", "stored", "due", "taken", "over"}]
      /\ events' \in 0..MaxEvents
  <2>1. CASE Take(t)
    BY <2>1 DEF Take, Due
  <2>2. CASE PubPrunes(t)
    <3>1. t \in Branches /\ objects[t] \subseteq Files
      BY DEF Branches
    <3>2. PICK kept \in SUBSET objects[t] : objects' = [objects EXCEPT ![t] = kept]
      BY <2>2 DEF PubPrunes
    <3>3. UNCHANGED <<build, events>> /\ pub' = [pub EXCEPT ![t].phase = "pruned"]
      BY <2>2 DEF PubPrunes
    <3>4. objects' \in [Branches -> SUBSET Files]
      BY <3>1, <3>2
    <3>5. pub' \in [Tags -> [phase : {"idle", "waits", "pruned"}, files : SUBSET Builds]]
      <4>1. [pub[t] EXCEPT !.phase = "pruned"] \in [phase : {"idle", "waits", "pruned"}, files : SUBSET Builds]
        <5>1. pub[t] \in [phase : {"idle", "waits", "pruned"}, files : SUBSET Builds]
          OBVIOUS
        <5> QED
          BY ONLY <5>1
      <4> QED
        BY <3>3, <4>1
    <3> QED
      BY <3>3, <3>4, <3>5
  <2>3. CASE PubEnds(t)
    <3>1. events' \in 0..MaxEvents
      BY <2>3 DEF PubEnds, Event
    <3>2. NoPub \in [phase : {"idle", "waits", "pruned"}, files : SUBSET Builds]
      BY DEF NoPub
    <3> QED
      BY <2>3, <3>1, <3>2 DEF PubEnds
  <2> QED
    BY <2>1, <2>2, <2>3 DEF Publish
<1> QED
  BY <1>1, <1>2 DEF Active

LEMMA UnlistedTypes ==
    ASSUME tag \in [Tags -> [row : Nat, live : BOOLEAN]], wiping \in [Tags -> Nat],
           NEW t \in Tags, Unlisted(t)
    PROVE  tag' \in [Tags -> [row : Nat, live : BOOLEAN]] /\ wiping' \in [Tags -> Nat]
<1>1. [tag[t] EXCEPT !.live = FALSE] \in [row : Nat, live : BOOLEAN]
  OBVIOUS
<1>2. tag' = [tag EXCEPT ![t] = [tag[t] EXCEPT !.live = FALSE]]
  BY DEF Unlisted
<1>3. wiping' = [wiping EXCEPT ![t] = wiping[t] + 1] /\ wiping[t] + 1 \in Nat
  BY DEF Unlisted
<1> QED
  BY <1>1, <1>2, <1>3

LEMMA TagSteps ==
    ASSUME TypeOK, NEW t \in Tags, Scraps(t) \/ Recreates(t) \/ Wipes(t)
    PROVE  TypeOK'
<1> USE TreeAssumption DEF TypeOK
<1>1. UNCHANGED <<build, pub, job>>
  BY DEF Scraps, Recreates, Wipes
<1>2. objects' \in [Branches -> SUBSET Files]
  BY DEF Scraps, Recreates, Wipes
<1>3. /\ tag' \in [Tags -> [row : Nat, live : BOOLEAN]]
      /\ wiping' \in [Tags -> Nat]
  <2>1. CASE Scraps(t)
    BY <2>1, UnlistedTypes DEF Scraps
  <2>2. CASE Recreates(t)
    <3>1. [row |-> tag[t].row + 1, live |-> TRUE] \in [row : Nat, live : BOOLEAN]
      OBVIOUS
    <3> QED
      BY <2>2, <3>1 DEF Recreates
  <2>3. CASE Wipes(t)
    <3>1. wiping[t] - 1 \in Nat
      BY <2>3 DEF Wipes
    <3> QED
      BY <2>3, <3>1 DEF Wipes
  <2> QED
    BY <2>1, <2>2, <2>3
<1>5. events' \in 0..MaxEvents
  BY DEF Scraps, Recreates, Wipes, Event
<1> QED
  BY <1>1, <1>2, <1>3, <1>5 DEF Active

LEMMA RequestStep ==
    ASSUME TypeOK, NEW j \in Jobs, NEW from \in Branches, NEW to \in Branches,
           Request(j, from, to)
    PROVE  TypeOK'
<1> USE TreeAssumption DEF Request
<1> DEFINE r == [NoJob EXCEPT !.phase = "asked", !.from = from, !.to = to, !.row = RowOf(from)]
<1>1. Good(r)
  <2>1. RowOf(from) \in Nat
    BY DEF RowOf, TypeOK
  <2>2. /\ r.phase = "asked" /\ r.from = from /\ r.to = to /\ r.row = RowOf(from)
        /\ r.listed = {} /\ r.copied = {} /\ r \in Promotions
    BY <2>1 DEF NoJob, Promotions, Phases
  <2> QED
    BY <2>2 DEF Good
<1>2. Moved(j)
  BY <1>1 DEF Moved
<1>3. job' \in [Jobs -> Promotions] /\ \A k \in Jobs : Good(job'[k])
  BY <1>2, JobTypes, MovedGood
<1>4. UNCHANGED <<objects, build, pub, tag, wiping, events>>
  OBVIOUS
<1> HIDE DEF Request
<1> QED
  BY <1>3, <1>4 DEF TypeOK, Active, Good, Promotions

LEMMA PromoteSteps ==
    ASSUME TypeOK, NEW j \in Jobs, Promote(j) \/ Fails(j)
    PROVE  TypeOK'
<1> USE TreeAssumption
<1>1. /\ objects \in [Branches -> SUBSET Files]
      /\ tag \in [Tags -> [row : Nat, live : BOOLEAN]] /\ wiping \in [Tags -> Nat]
      /\ job \in [Jobs -> Promotions] /\ Good(job[j])
  BY JobTypes
<1>2. Active(j)
  BY DEF Promote, Lists, LocksFirst, Copies, Prunes, Removes, Leaves, ScrapsTag, Fails, Active
<1>3. job[j].from \in Branches /\ job[j].to \in Primary /\ job[j].to \in Branches
  BY <1>1, <1>2 DEF Good, Active, Branches
<1>4. job[j].listed \subseteq Files
  BY <1>1 DEF Promotions
<1>5. /\ Moved(j) /\ objects' \in [Branches -> SUBSET Files]
      /\ tag' \in [Tags -> [row : Nat, live : BOOLEAN]] /\ wiping' \in [Tags -> Nat]
      /\ events' \in 0..MaxEvents
  <2> USE <1>1, <1>2, <1>3, <1>4
  <2>1. CASE Lists(j)
    <3> DEFINE held == objects[job[j].from]
    <3>1. job[j].phase = "asked" /\ held \in SUBSET Files
      BY <2>1 DEF Lists
    <3>2. ASSUME NEW next \in {"moved", "listed"},
                 job' = [job EXCEPT ![j].listed = held, ![j].phase = next]
          PROVE  Moved(j)
      <4>1. job' = [job EXCEPT ![j] = [job[j] EXCEPT !.listed = held, !.phase = next]]
        BY <3>2
      <4>2. Good([job[j] EXCEPT !.listed = held, !.phase = next])
        BY ONLY <1>1, <3>1, ListedGood
      <4> QED
        BY <4>1, <4>2 DEF Moved
    <3>3. Moved(j)
      <4>1. CASE held = {}
        BY <2>1, <3>2, <4>1 DEF Lists
      <4>2. CASE held # {}
        BY <2>1, <3>2, <4>2 DEF Lists
      <4> QED
        BY <4>1, <4>2
    <3> QED
      BY <2>1, <3>3 DEF Lists, TypeOK
  <2>2. CASE LocksFirst(j)
    BY <2>2, TurnMoves DEF LocksFirst, Good, Phases, TypeOK
  <2>3. CASE Copies(j)
    <3> DEFINE r == [job[j] EXCEPT !.phase = "copied", !.copied = Copied(j)]
    <3>1. Copied(j) \in {{}, job[j].listed}
      BY DEF Copied
    <3>2. r = [phase |-> "copied", from |-> job[j].from, to |-> job[j].to, row |-> job[j].row,
               listed |-> job[j].listed, copied |-> Copied(j)]
      BY ONLY <1>1, CopiedFields DEF Good
    <3> HIDE DEF r
    <3>3. Good(r)
      BY <3>1, <3>2 DEF Good, Active, Promotions, Phases
    <3>4. job' = [job EXCEPT ![j] = r]
      BY <2>3 DEF Copies, r
    <3> QED
      BY <2>3, <3>3, <3>4 DEF Copies, Moved, TypeOK
  <2>4. CASE Prunes(j)
    BY <2>4, TurnMoves DEF Prunes, Phases, TypeOK
  <2>5. CASE Removes(j)
    <3>1. Moved(j)
      <4>1. CASE Turn(j, "moved")
        BY <4>1, TurnMoves DEF Phases
      <4>2. CASE Ends(j)
        BY <4>2, EndMoves
      <4> QED
        BY <2>5, <4>1, <4>2 DEF Removes
    <3>2. objects' \in [Branches -> SUBSET Files]
      BY <2>5 DEF Removes
    <3> QED
      BY <2>5, <3>1, <3>2 DEF Removes, TypeOK
  <2>6. CASE Leaves(j)
    <3>1. CASE job[j].from \in Primary
      BY <2>6, <3>1, EndMoves DEF Leaves, TypeOK
    <3>2. CASE job[j].from \notin Primary
      <4>1. job[j].from \in Tags /\ Turn(j, "deleted")
        BY <2>6, <3>2 DEF Leaves, Branches
      <4>2. Moved(j)
        BY <4>1, TurnMoves DEF Phases
      <4>3. objects' = [objects EXCEPT ![job[j].from] = {}]
        BY <2>6, <3>2 DEF Leaves
      <4> QED
        BY <2>6, <4>2, <4>3 DEF Leaves, TypeOK
    <3> QED
      BY <3>1, <3>2
  <2>7. CASE ScrapsTag(j)
    <3>1. Moved(j)
      BY <2>7, EndMoves DEF ScrapsTag
    <3>2. job[j].from \in Tags
      BY <2>7 DEF ScrapsTag, Good
    <3>3. tag' \in [Tags -> [row : Nat, live : BOOLEAN]] /\ wiping' \in [Tags -> Nat]
      BY <2>7, <3>2, UnlistedTypes DEF ScrapsTag
    <3> QED
      BY <2>7, <3>1, <3>3 DEF ScrapsTag, TypeOK
  <2>8. CASE Fails(j)
    <3>1. Moved(j)
      BY <2>8, EndMoves DEF Fails
    <3>2. events' \in 0..MaxEvents
      BY <2>8 DEF Fails, Event, TypeOK
    <3>3. objects' \in [Branches -> SUBSET Files]
      <4>1. CASE UNCHANGED objects
        BY <4>1
      <4>2. ASSUME NEW some \in SUBSET (job[j].listed \cap objects[job[j].from]),
                   objects' = [objects EXCEPT ![job[j].to] = @ \cup some]
            PROVE  objects' \in [Branches -> SUBSET Files]
        BY <4>2
      <4> QED
        BY <2>8, <4>1, <4>2 DEF Fails
    <3> QED
      BY <2>8, <3>1, <3>2, <3>3 DEF Fails, TypeOK
  <2> QED
    BY <2>1, <2>2, <2>3, <2>4, <2>5, <2>6, <2>7, <2>8 DEF Promote
<1>6. build' = build /\ pub' = pub
  BY DEF Promote, Lists, LocksFirst, Copies, Prunes, Removes, Leaves, ScrapsTag, Fails
<1>7. job' \in [Jobs -> Promotions] /\ \A k \in Jobs : Good(job'[k])
  BY <1>5, JobTypes, MovedGood
<1> QED
  BY <1>5, <1>6, <1>7 DEF TypeOK, Active, Good, Promotions

LEMMA RestartStep == ASSUME TypeOK, Restarts PROVE TypeOK'
<1> USE TreeAssumption DEF Restarts
<1>1. /\ job \in [Jobs -> Promotions] /\ \A j \in Jobs : Good(job[j])
      /\ tag \in [Tags -> [row : Nat, live : BOOLEAN]]
  BY JobTypes
<1>2. Over \in Promotions /\ Good(Over)
  BY NoJobGood DEF Good
<1>3. job' \in [Jobs -> Promotions] /\ \A j \in Jobs : Good(job'[j])
  BY <1>1, <1>2
<1>4. pub' \in [Tags -> [phase : {"idle", "waits", "pruned"}, files : SUBSET Builds]]
  BY DEF NoPub
<1>5. events' \in 0..MaxEvents
  BY DEF Event, TypeOK
<1>6. /\ UNCHANGED <<objects, build, tag>> /\ wiping' \in [Tags -> Nat]
  OBVIOUS
<1> HIDE DEF Restarts
<1> QED
  BY <1>3, <1>4, <1>5, <1>6 DEF TypeOK, Active, Good, Promotions

LEMMA TypeStep == TypeOK /\ [Next]_vars => TypeOK'
<1> SUFFICES ASSUME TypeOK, [Next]_vars PROVE TypeOK'
  OBVIOUS
<1>1. CASE UNCHANGED vars
  BY <1>1 DEF vars, TypeOK, Active
<1>2. ASSUME NEW f \in Builds, Upload(f) \/ HandOver(f) \/ Reclaims(f) PROVE TypeOK'
  BY <1>2, BuildSteps
<1>3. ASSUME NEW t \in Tags, Publish(t) \/ Scraps(t) \/ Recreates(t) \/ Wipes(t) PROVE TypeOK'
  BY <1>3, PubSteps, TagSteps
<1>4. ASSUME NEW j \in Jobs, Promote(j) \/ Fails(j) PROVE TypeOK'
  BY <1>4, PromoteSteps
<1>5. ASSUME NEW j \in Jobs, NEW from \in Branches, NEW to \in Branches, Request(j, from, to)
      PROVE  TypeOK'
  BY <1>5, RequestStep
<1> QED
  BY <1>1, <1>2, <1>3, <1>4, <1>5, RestartStep DEF Next

\* Types hold for any packages, builds, tags, branches and promotions: a
\* promotion copies its whole listing or nothing of it.
THEOREM TypeCorrect == Spec => []TypeOK
BY TypeInit, TypeStep, PTL DEF Spec

-----------------------------------------------------------------------------
(* The last file of a package. *)

LEMMA Lost ==
    ASSUME NEW n, LastLost(n)
    PROVE  /\ \E c \in Branches : \E f \in objects[c] : NameOf(f) = n
           /\ \A b \in Branches : \A g \in objects'[b] : NameOf(g) # n
BY DEF LastLost, Everywhere, NamesOf, NameOf

\* A step that takes nothing out of a branch loses nothing.
LEMMA Growing ==
    ASSUME NEW n, LastLost(n), \A b \in Branches : objects[b] \subseteq objects'[b]
    PROVE  FALSE
BY Lost

LEMMA BuildsGrow ==
    ASSUME TypeOK, NEW f \in Builds, Upload(f) \/ HandOver(f) \/ Reclaims(f)
    PROVE  \A b \in Branches : objects[b] \subseteq objects'[b]
<1>1. objects \in [Branches -> SUBSET Files] /\ TagOf[f] \in Branches
  BY TreeAssumption DEF TypeOK, Branches
<1> QED
  BY <1>1 DEF Upload, HandOver, Reclaims

LEMMA PromotionsGrow ==
    ASSUME TypeOK, NEW j \in Jobs,
           Lists(j) \/ LocksFirst(j) \/ Copies(j) \/ ScrapsTag(j) \/ Fails(j)
    PROVE  \A b \in Branches : objects[b] \subseteq objects'[b]
<1>1. objects \in [Branches -> SUBSET Files]
  BY DEF TypeOK
<1>2. CASE Lists(j) \/ LocksFirst(j) \/ ScrapsTag(j)
  BY <1>2 DEF Lists, LocksFirst, ScrapsTag
<1>3. CASE Copies(j)
  <2>1. PICK more : objects' = [objects EXCEPT ![job[j].to] = @ \cup more]
    BY <1>3 DEF Copies
  <2> QED
    BY <1>1, <2>1
<1>4. CASE Fails(j)
  <2>1. objects' = objects \/ \E more : objects' = [objects EXCEPT ![job[j].to] = @ \cup more]
    BY <1>4 DEF Fails
  <2> QED
    BY <1>1, <2>1
<1> QED
  BY <1>2, <1>3, <1>4

\* A publish thread leaves a file of every name, but for a file of its batch
\* that is no longer there.
LEMMA PruneLoses ==
    ASSUME TypeOK, NEW t \in Tags, PubPrunes(t), NEW n, LastLost(n)
    PROVE  FileGone(n)
<1> DEFINE batch == pub[t].files
           left  == objects[t] \ Others(objects[t], batch)
<1>1. PICK kept \in SUBSET left :
          OnePerName(kept, left, batch) /\ objects' = [objects EXCEPT ![t] = kept]
  BY DEF PubPrunes
<1>2. /\ objects \in [Branches -> SUBSET Files] /\ t \in Branches
      /\ pub[t].phase = "waits" /\ pub'[t].phase = "pruned"
  BY DEF TypeOK, Branches, PubPrunes
<1>3. PICK c \in Branches : \E f \in objects[c] : NameOf(f) = n
  BY Lost
<1>4. PICK f \in objects[c] : NameOf(f) = n
  BY <1>3
<1>5. \A b \in Branches : \A g \in objects'[b] : NameOf(g) # n
  BY Lost
<1>6. c = t
  BY <1>1, <1>2, <1>4, <1>5
<1>7. n \notin NamesOf(left)
  <2>1. objects'[t] = kept /\ NamesOf(kept) = NamesOf(left)
    BY <1>1, <1>2 DEF OnePerName
  <2> QED
    BY <1>2, <1>5, <2>1 DEF NamesOf
<1>8. f \in Others(objects[t], batch)
  BY <1>4, <1>6, <1>7 DEF NamesOf
<1>9. PICK g \in batch : NameOf(g) = n
  BY <1>4, <1>8 DEF Others, NamesOf
<1>10. g \notin objects[t]
  BY <1>7, <1>9 DEF Others, NamesOf
<1> QED
  BY <1>2, <1>9, <1>10 DEF FileGone, NamesOf

LEMMA WipeLoses ==
    ASSUME TypeOK, NEW t \in Tags, Wipes(t), NEW n, LastLost(n)
    PROVE  PrefixGone(n)
<1>1. /\ objects \in [Branches -> SUBSET Files] /\ t \in Branches /\ wiping'[t] < wiping[t]
  BY DEF TypeOK, Branches, Wipes
<1>2. PICK c \in Branches : \E f \in objects[c] : NameOf(f) = n
  BY Lost
<1>3. c = t
  BY <1>1, <1>2, Lost DEF Wipes
<1> QED
  BY <1>1, <1>2, <1>3 DEF PrefixGone, NamesOf

LEMMA LeaveLoses ==
    ASSUME TypeOK, NEW j \in Jobs, Leaves(j), NEW n, LastLost(n)
    PROVE  PrefixGone(n)
<1>1. /\ objects \in [Branches -> SUBSET Files] /\ job \in [Jobs -> Promotions]
      /\ job[j].from \in Branches
  BY JobTypes DEF Leaves, Good
<1>2. PICK c \in Branches : \E f \in objects[c] : NameOf(f) = n
  BY Lost
<1>3. job[j].from \notin Primary
  BY <1>1, Growing DEF Leaves
<1>4. /\ job[j].from \in Tags /\ objects' = [objects EXCEPT ![job[j].from] = {}]
      /\ job[j].phase = "moved" /\ Turn(j, "deleted")
  BY <1>1, <1>3 DEF Leaves, Branches
<1>5. Step(j)
  BY <1>1, <1>4 DEF Turn, Step
<1>6. c = job[j].from
  BY <1>1, <1>2, <1>4, Lost
<1> QED
  BY <1>2, <1>4, <1>5, <1>6 DEF PrefixGone, NamesOf

LEMMA PrimaryLoses ==
    ASSUME TypeOK, NEW j \in Jobs, Prunes(j), NEW n, LastLost(n)
    PROVE  ListingGone(n) \/ CopyGone(n)
<1>1. /\ objects \in [Branches -> SUBSET Files] /\ job \in [Jobs -> Promotions]
      /\ job[j].to \in Primary /\ job[j].to \in Branches
      /\ job[j].copied \in {{}, job[j].listed} /\ job[j].phase = "copied"
  BY JobTypes DEF Prunes, Good, Branches
<1>2. Step(j)
  BY <1>1 DEF Prunes, Turn, Step
<1>3. PICK c \in Branches : \E f \in objects[c] : NameOf(f) = n
  BY Lost
<1>4. PICK f \in objects[c] : NameOf(f) = n
  BY <1>3
<1>5. \A b \in Branches : \A g \in objects'[b] : NameOf(g) # n
  BY Lost
<1>6. f \in Superseded(j, objects[c])
  BY <1>4, <1>5 DEF Prunes
<1>7. PICK g \in job[j].listed : NameOf(g) = n
  BY <1>4, <1>6 DEF Superseded, Others, NamesOf
<1>8. CASE job[j].copied = {}
  BY <1>1, <1>2, <1>7, <1>8 DEF ListingGone, NamesOf
<1>9. CASE job[j].copied = job[j].listed
  <2>1. objects'[job[j].to] = objects[job[j].to] \ Superseded(j, objects[job[j].to])
    BY <1>1 DEF Prunes
  <2>2. g \notin Superseded(j, objects[job[j].to])
    BY <1>7 DEF Superseded, Others
  <2>3. g \notin objects[job[j].to]
    BY <1>1, <1>5, <1>7, <2>1, <2>2
  <2> QED
    BY <1>1, <1>2, <1>7, <1>9, <2>3 DEF CopyGone, AtWork, NamesOf
<1> QED
  BY <1>1, <1>8, <1>9

LEMMA SourceLoses ==
    ASSUME TypeOK, NEW j \in Jobs, Removes(j), NEW n, LastLost(n)
    PROVE  CopyGone(n)
<1>1. /\ objects \in [Branches -> SUBSET Files] /\ job \in [Jobs -> Promotions]
      /\ job[j].from \in Branches /\ job[j].to \in Branches /\ job[j].to # job[j].from
      /\ job[j].phase = "pruned"
  BY JobTypes DEF Removes, Good, Branches
<1>2. PICK c \in Branches : \E f \in objects[c] : NameOf(f) = n
  BY Lost
<1>3. PICK f \in objects[c] : NameOf(f) = n
  BY <1>2
<1>4. \A b \in Branches : \A g \in objects'[b] : NameOf(g) # n
  BY Lost
<1>5. Turn(j, "moved") /\ objects' = [objects EXCEPT ![job[j].from] = @ \ job[j].copied]
  BY <1>3, <1>4 DEF Removes
<1>6. Step(j)
  BY <1>1, <1>5 DEF Turn, Step
<1>7. f \in job[j].copied /\ f \notin objects[job[j].to]
  BY <1>1, <1>3, <1>4, <1>5
<1> QED
  BY <1>1, <1>3, <1>6, <1>7 DEF CopyGone, AtWork, NamesOf

LEMMA NamesStep ==
    ASSUME TypeOK, [Next]_vars, NEW n, LastLost(n)
    PROVE  PrefixGone(n) \/ FileGone(n) \/ ListingGone(n) \/ CopyGone(n)
<1> DEFINE Named == PrefixGone(n) \/ FileGone(n) \/ ListingGone(n) \/ CopyGone(n)
<1>1. CASE UNCHANGED objects
  BY <1>1, Growing
<1>2. ASSUME NEW f \in Builds, Upload(f) \/ HandOver(f) \/ Reclaims(f) PROVE Named
  BY <1>2, BuildsGrow, Growing
<1>3. ASSUME NEW t \in Tags, Publish(t) \/ Scraps(t) \/ Recreates(t) \/ Wipes(t) PROVE Named
  <2>1. CASE Take(t) \/ PubEnds(t) \/ Scraps(t) \/ Recreates(t)
    BY <1>1, <2>1 DEF Take, PubEnds, Scraps, Recreates
  <2> QED
    BY <1>3, <2>1, PruneLoses, WipeLoses DEF Publish
<1>4. ASSUME NEW j \in Jobs, Promote(j) \/ Fails(j) PROVE Named
  BY <1>4, PromotionsGrow, Growing, PrimaryLoses, SourceLoses, LeaveLoses DEF Promote
<1>5. CASE (\E j \in Jobs, from, to \in Branches : Request(j, from, to)) \/ Restarts
  BY <1>1, <1>5 DEF Request, Restarts
<1>6. CASE UNCHANGED vars
  BY <1>1, <1>6 DEF vars
<1>7. Named
  BY <1>2, <1>3, <1>4, <1>5, <1>6 DEF Next
<1> QED
  BY <1>7

\* No step of a publish thread, a promotion or a user takes the last file of a
\* package out of the repository, but in the four cases NamesKept names: for
\* any packages, tags, branches, batches and promotions.
THEOREM NamesAreKept == Spec => NamesKept
<1> DEFINE Named(n) == PrefixGone(n) \/ FileGone(n) \/ ListingGone(n) \/ CopyGone(n)
           Keeps == \A n \in Names : LastLost(n) => Named(n)
<1>1. TypeOK /\ [Next]_vars => [Keeps]_objects
  BY NamesStep
<1> HIDE DEF Keeps
<1>2. Spec => [][Keeps]_objects
  BY <1>1, TypeInit, TypeStep, PTL DEF Spec
<1> QED
  BY <1>2 DEF Keeps, NamesKept

-----------------------------------------------------------------------------
(* The locks                                                               *)

\* A branch's lock is held once: by a promotion, or by a publish at work.
LocksExclusive ==
    /\ \A j, k \in Jobs : j # k => Held(j) \cap Held(k) = {}
    /\ \A j \in Jobs, t \in Tags : t \in Held(j) => pub[t].phase # "pruned"

\* What a promotion under way waits for, if anything, is there.
Proceeds(j) ==
    \/ job[j].phase \in {"asked", "copied", "pruned", "moved", "deleted"}
    \/ job[j].phase = "listed" /\ Free(Ordered(j)[1])
    \/ job[j].phase = "first" /\ Free(Ordered(j)[2])

\* While promotions are under way one of them can go on, unless a publish has a
\* lock; that one has all it needs and ends.
NobodyStuck ==
    (\E j \in Jobs : Active(j)) =>
        (\E t \in Tags : pub[t].phase = "pruned") \/ \E j \in Jobs : Proceeds(j)

LEMMA OrderedPair ==
    ASSUME TypeOK, NEW j \in Jobs, Active(j)
    PROVE  /\ {Ordered(j)[1], Ordered(j)[2]} = {job[j].from, job[j].to}
           /\ Ordered(j)[1] \in Branches /\ Ordered(j)[2] \in Branches
           /\ Rank[Ordered(j)[1]] < Rank[Ordered(j)[2]]
<1> DEFINE from == job[j].from
           to   == job[j].to
<1>1. from \in Branches /\ to \in Branches /\ from # to
  BY DEF TypeOK, Branches
<1> HIDE DEF from, to
<1>2. Rank[from] \in Int /\ Rank[to] \in Int /\ Rank[from] # Rank[to]
  BY <1>1, TreeAssumption
<1>3. CASE Rank[from] < Rank[to]
  <2>1. Ordered(j) = <<from, to>>
    BY <1>3 DEF Ordered, from, to
  <2> QED
    BY <1>1, <1>3, <2>1 DEF from, to
<1>4. CASE ~(Rank[from] < Rank[to])
  <2>1. Ordered(j) = <<to, from>>
    BY <1>4 DEF Ordered, from, to
  <2>2. Rank[to] < Rank[from]
    BY <1>2, <1>4
  <2> QED
    BY <1>1, <2>1, <2>2 DEF from, to
<1> QED
  BY <1>3, <1>4

\* A promotion whose row stays keeps its locks.
LEMMA HeldStays ==
    ASSUME NEW j \in Jobs, job'[j] = job[j]
    PROVE  Held(j)' = Held(j)
  BY DEF Held, Ordered

\* A step of one promotion keeps the locks apart if it takes free ones only.
LEMMA LocksTaken ==
    ASSUME LocksExclusive, NEW j \in Jobs, UNCHANGED pub,
           \A k \in Jobs \ {j} : job'[k] = job[k],
           \A b \in Held(j)' : b \in Held(j) \/ Free(b)
    PROVE  LocksExclusive'
<1>1. \A k \in Jobs \ {j} : Held(k)' = Held(k)
  BY HeldStays
<1>2. \A b \in Held(j)', k \in Jobs \ {j} : b \notin Held(k)
  BY DEF LocksExclusive, Free
<1>3. \A b \in Held(j)' : b \in Tags => pub[b].phase # "pruned"
  BY DEF LocksExclusive, Free
<1> QED
  BY <1>1, <1>2, <1>3 DEF LocksExclusive

LEMMA PromotionLocks ==
    ASSUME TypeOK, LocksExclusive, NEW j \in Jobs,
           \/ Promote(j) \/ Fails(j)
           \/ \E from, to \in Branches : Request(j, from, to)
    PROVE  LocksExclusive'
<1>1. UNCHANGED pub /\ \A k \in Jobs \ {j} : job'[k] = job[k]
  BY DEF Promote, Lists, LocksFirst, Copies, Prunes, Removes, Leaves, ScrapsTag, Fails,
         Request, Turn, Ends, TypeOK
<1>2. ASSUME job'[j].phase \notin {"first", "copied", "pruned"}
      PROVE  Held(j)' = {}
  BY <1>2 DEF Held, AtWork
<1>3. CASE \/ Lists(j) \/ Removes(j) \/ Leaves(j) \/ ScrapsTag(j) \/ Fails(j)
           \/ \E from, to \in Branches : Request(j, from, to)
  <2>1. job'[j].phase \in {"asked", "listed", "moved", "deleted", "over"}
    <3>1. CASE Lists(j)
      <4>1. \E phase \in {"moved", "listed"} :
               job'[j] = [job[j] EXCEPT !.listed = objects[job[j].from], !.phase = phase]
        BY <3>1 DEF Lists, TypeOK
      <4> QED
        BY <4>1 DEF TypeOK
    <3>2. CASE Removes(j) \/ Leaves(j) \/ ScrapsTag(j) \/ Fails(j)
      BY <3>2 DEF Removes, Leaves, ScrapsTag, Fails, Turn, Ends, Over, NoJob, TypeOK
    <3>3. CASE \E from, to \in Branches : Request(j, from, to)
      <4>1. PICK from, to \in Branches : Request(j, from, to)
        BY <3>3
      <4> DEFINE r == [NoJob EXCEPT !.phase = "asked", !.from = from, !.to = to,
                                    !.row = RowOf(from)]
      <4>2. job'[j] = r
        BY <4>1 DEF Request, TypeOK
      <4>3. r.phase = "asked"
        BY DEF NoJob
      <4> QED
        BY <4>2, <4>3
    <3> QED
      BY <1>3, <3>1, <3>2, <3>3
  <2> QED
    BY <1>1, <1>2, <2>1, LocksTaken
<1>4. CASE LocksFirst(j)
  <2>1. /\ job'[j].phase = "first" /\ job'[j].from = job[j].from /\ job'[j].to = job[j].to
        /\ Free(Ordered(j)[1])
    BY <1>4 DEF LocksFirst, Turn, TypeOK
  <2>2. Held(j)' = {Ordered(j)[1]}
    BY <2>1 DEF Held, AtWork, Ordered
  <2> QED
    BY <1>1, <2>1, <2>2, LocksTaken
<1>5. CASE Copies(j)
  <2>1. /\ job'[j].phase = "copied" /\ job'[j].from = job[j].from /\ job'[j].to = job[j].to
        /\ job[j].phase = "first" /\ Free(Ordered(j)[2])
    BY <1>5 DEF Copies, TypeOK
  <2>2. Held(j) = {Ordered(j)[1]}
    BY <2>1 DEF Held, AtWork
  <2>3. Held(j)' = {Ordered(j)[1], Ordered(j)[2]}
    <3>1. Held(j)' = {job[j].from, job[j].to}
      BY <2>1 DEF Held, AtWork
    <3> QED
      BY <2>1, <3>1, OrderedPair DEF Active
  <2> QED
    BY <1>1, <2>1, <2>2, <2>3, LocksTaken
<1>6. CASE Prunes(j)
  <2>1. /\ job'[j].phase = "pruned" /\ job'[j].from = job[j].from /\ job'[j].to = job[j].to
        /\ job[j].phase = "copied"
    BY <1>6 DEF Prunes, Turn, TypeOK
  <2>2. Held(j)' = Held(j)
    BY <2>1 DEF Held, AtWork
  <2> QED
    BY <1>1, <2>2, LocksTaken
<1> QED
  BY <1>3, <1>4, <1>5, <1>6 DEF Promote

LEMMA OtherLocks ==
    ASSUME TypeOK, LocksExclusive,
           \/ \E f \in Builds : Upload(f) \/ HandOver(f) \/ Reclaims(f)
           \/ \E t \in Tags : Publish(t) \/ Scraps(t) \/ Recreates(t) \/ Wipes(t)
           \/ Restarts
    PROVE  LocksExclusive'
<1>1. CASE UNCHANGED <<pub, job>>
  <2>1. \A j \in Jobs : Held(j)' = Held(j)
    BY <1>1, HeldStays
  <2> QED
    BY <1>1, <2>1 DEF LocksExclusive
<1>2. ASSUME NEW t \in Tags, Publish(t)
      PROVE  LocksExclusive'
  <2>1. \A j \in Jobs : Held(j)' = Held(j)
    BY <1>2, HeldStays DEF Publish, Take, PubPrunes, PubEnds
  <2>2. \A u \in Tags \ {t} : pub'[u] = pub[u]
    BY <1>2 DEF Publish, Take, PubPrunes, PubEnds, TypeOK
  <2>3. pub'[t].phase = "pruned" => Free(t)
    BY <1>2 DEF Publish, Take, PubPrunes, PubEnds, NoPub, TypeOK
  <2> QED
    BY <2>1, <2>2, <2>3 DEF LocksExclusive, Free
<1>3. CASE Restarts
  <2>1. \A j \in Jobs : Held(j)' = {}
    <3>1. \A j \in Jobs : job'[j].phase \in {"none", "over"}
      BY <1>3 DEF Restarts, Active, Over, NoJob
    <3> QED
      BY <3>1 DEF Held, AtWork
  <2> QED
    BY <2>1 DEF LocksExclusive
<1> QED
  BY <1>1, <1>2, <1>3 DEF Upload, HandOver, Reclaims, Scraps, Recreates, Wipes

LEMMA LocksStep == TypeOK /\ LocksExclusive /\ [Next]_vars => LocksExclusive'
<1> SUFFICES ASSUME TypeOK, LocksExclusive, [Next]_vars PROVE LocksExclusive'
  OBVIOUS
<1>1. CASE UNCHANGED vars
  <2>1. UNCHANGED <<pub, job>>
    BY <1>1 DEF vars
  <2>2. \A j \in Jobs : Held(j)' = Held(j)
    BY <2>1, HeldStays
  <2> QED
    BY <2>1, <2>2 DEF LocksExclusive
<1>2. CASE Next
  BY <1>2, PromotionLocks, OtherLocks DEF Next
<1> QED
  BY <1>1, <1>2

LEMMA LocksInit == Init => LocksExclusive
<1> SUFFICES ASSUME Init PROVE LocksExclusive
  OBVIOUS
<1>1. \A j \in Jobs : Held(j) = {}
  BY DEF Init, NoJob, Held, AtWork
<1> QED
  BY <1>1 DEF LocksExclusive

\* prefix_publish_lock does what it is for, although a promotion needs two of
\* them: nobody else is at work in a branch that a promotion or publish is in.
THEOREM LocksHold == Spec => []LocksExclusive
  BY TypeInit, TypeStep, LocksInit, LocksStep, PTL DEF Spec

\* Of finitely many promotions one has the highest rank: a smallest set of
\* those ranked above a member is empty.
LEMMA HighestRank ==
    ASSUME NEW r \in [Jobs -> Int], NEW K \in SUBSET Jobs, K # {}
    PROVE  \E k \in K : \A m \in K : r[m] <= r[k]
<1> DEFINE Above(k) == {m \in K : r[m] > r[k]}
           T == {Above(k) : k \in K}
           R == StrictSubsetOrdering(K)
<1>1. IsFiniteSet(K)
  <2>1. IsFiniteSet(Jobs)
    BY TreeAssumption, FS_Interval DEF Jobs
  <2> QED
    BY <2>1, FS_Subset
<1>2. IsWellFoundedOn(R, SUBSET K)
  BY <1>1, FS_StrictSubsetOrderingWellFounded, FS_FiniteSubsetsOfFinite
<1>3. T \subseteq SUBSET K /\ T # {}
  OBVIOUS
<1>4. \E x \in T : \A y \in T : ~(<<y, x>> \in R)
  <2> HIDE DEF T, R
  <2> QED
    BY <1>2, <1>3, WFMin
<1>5. PICK k \in K : \A m \in K : ~(<<Above(m), Above(k)>> \in R)
  BY <1>4
<1>6. ASSUME NEW m \in K, ~(r[m] <= r[k]) PROVE FALSE
  <2>1. \A n \in K : r[n] \in Int
    OBVIOUS
  <2>2. r[m] > r[k] /\ ~(r[m] > r[m]) /\ \A n \in K : r[n] > r[m] => r[n] > r[k]
    BY <1>6, <2>1
  <2>3. Above(m) \subseteq Above(k) /\ m \in Above(k) /\ m \notin Above(m)
    BY <2>2
  <2>4. <<Above(m), Above(k)>> \in (SUBSET K) \X (SUBSET K) /\ Above(m) # Above(k)
    BY <2>3
  <2>5. <<Above(m), Above(k)>> \in R
    BY <2>3, <2>4 DEF StrictSubsetOrdering
  <2> QED
    BY <1>5, <2>5
<1> QED
  BY <1>6

\* The promotion with one lock whose lock has the highest rank: nobody who
\* waits has the other one, which ranks higher still.
LEMMA InvNobodyStuck == TypeOK => NobodyStuck
<1> SUFFICES ASSUME TypeOK, NEW j \in Jobs, Active(j),
                    \A t \in Tags : pub[t].phase # "pruned",
                    \A k \in Jobs : ~Proceeds(k)
             PROVE  FALSE
  BY DEF NobodyStuck
<1>1. \A k \in Jobs : Active(k) => job[k].phase \in {"listed", "first"}
  BY DEF TypeOK, Active, Phases, Proceeds
<1>2. \A k \in Jobs : Held(k) = IF job[k].phase = "first" THEN {Ordered(k)[1]} ELSE {}
  BY <1>1 DEF Held, AtWork, Active
<1> DEFINE K == {k \in Jobs : job[k].phase = "first"}
<1>3. CASE K = {}
  <2>1. \A b : Free(b)
    BY <1>2, <1>3 DEF Free
  <2> QED
    BY <1>1, <1>3, <2>1 DEF Proceeds
<1>4. CASE K # {}
  <2> DEFINE r == [k \in Jobs |-> IF k \in K THEN Rank[Ordered(k)[1]] ELSE 0]
  <2>1. \A k \in K : Active(k)
    BY DEF Active
  <2>2. r \in [Jobs -> Int]
    BY <2>1, OrderedPair, TreeAssumption
  <2>3. PICK k \in K : \A m \in K : r[m] <= r[k]
    <3> HIDE DEF r, K
    <3>1. K \subseteq Jobs
      BY DEF K
    <3> QED
      BY <1>4, <2>2, <3>1, HighestRank
  <2>4. \A m \in K : Rank[Ordered(m)[1]] <= Rank[Ordered(k)[1]]
    BY <2>3
  <2>5. /\ Rank[Ordered(k)[1]] < Rank[Ordered(k)[2]]
        /\ Rank[Ordered(k)[1]] \in Int /\ Rank[Ordered(k)[2]] \in Int
    BY <2>1, OrderedPair, TreeAssumption
  <2>6. \A m \in K : Ordered(m)[1] # Ordered(k)[2]
    BY <2>4, <2>5
  <2>7. Free(Ordered(k)[2])
    BY <1>2, <2>6 DEF Free
  <2> QED
    BY <2>7 DEF Proceeds
<1> QED
  BY <1>3, <1>4

\* Promotions that cross, in whatever number and between whatever branches, do
\* not wait for each other: ordered_prefix_pair sorts the two locks.
THEOREM NoDeadlock == Spec => []NobodyStuck
  BY InvNobodyStuck, TypeCorrect, PTL
=============================================================================
