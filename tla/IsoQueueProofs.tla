--------------------------- MODULE IsoQueueProofs ---------------------------
(***************************************************************************)
(* IsoQueue for any number of rows, names, workers and builds: types, and  *)
(* that the object under the name of a successful ISO is its own.          *)
(***************************************************************************)
EXTENDS IsoQueue, FiniteSetTheorems, TLAPS

Rows   == [status : {"none", "pending", "running"} \cup Ended,
           worker : Workers \cup {Nobody}, log : BOOLEAN]
Works  == [of : Isos \cup {Nobody}, by : Workers \cup {Nobody},
           phase : {"none", "start", "building", "presign", "put", "result", "posting"},
           verdict : {"none"} \cup Ended,
           seen : {"none", "pending", "running"} \cup Ended]

\* Nobody has anything to do with a row before it is inserted.
Untouched(i) ==
    /\ iso[i] = NoIso
    /\ i \notin cancelling /\ i \notin sweeping
    /\ \A t \in Builds : build[t].of # i

Fresh ==
    \A i \in Isos : /\ i \in creating => iso[i].status = "none"
                    /\ iso[i].status = "none" => Untouched(i)

\* A success that is on its way to the controller is stored already.
Results ==
    \A t \in Builds :
        build[t].phase \in {"result", "posting"} =>
            /\ build[t].verdict \in Ended
            /\ build[t].verdict = "success" => image[NameOf[build[t].of]] = build[t].of

Inv == TypeOK /\ Fresh /\ Results /\ SuccessIsStored

-----------------------------------------------------------------------------
LEMMA InvInit == Init => Inv
<1> SUFFICES ASSUME Init PROVE Inv
  OBVIOUS
<1> USE IsoAssumption DEF Init
<1>1. TypeOK
  <2>1. NoIso \in Rows /\ NoBuild \in Works
    BY DEF NoIso, NoBuild, Rows, Works, Ended
  <2>2. iso \in [Isos -> Rows] /\ build \in [Builds -> Works]
    BY <2>1
  <2> QED
    BY <2>2 DEF TypeOK, NoIso, NoBuild, Rows, Works
<1>2. Fresh
  BY DEF Fresh, Untouched, NoIso, NoBuild
<1>3. Results /\ SuccessIsStored
  BY DEF Results, SuccessIsStored, NoIso, NoBuild
<1> QED
  BY <1>1, <1>2, <1>3 DEF Inv

(* Users and the sweep: the row itself, and who has read it. *)

LEMMA RowSteps ==
    ASSUME Inv, NEW i \in Isos,
           \/ CreateChecks(i) \/ CreateInserts(i) \/ CancelReads(i) \/ CancelWrites(i)
           \/ SweepReads(i) \/ SweepWrites(i)
    PROVE  Inv'
<1> USE IsoAssumption DEF Inv
<1>1. UNCHANGED <<image, build, claims, rpms, faults>>
  BY DEF CreateChecks, CreateInserts, CancelReads, CancelWrites, SweepReads, SweepWrites
<1>2. /\ iso' \in [Isos -> Rows]
      /\ \A x \in Isos : x # i => iso'[x] = iso[x]
      /\ \/ iso'[i] = iso[i]
         \/ iso'[i].status = "cancelled"
         \/ iso'[i].status = "pending" /\ iso'[i].worker = Nobody
  <2>1. iso \in [Isos -> Rows]
    BY DEF TypeOK, Rows
  <2>2. CASE CreateInserts(i)
    <3>1. iso[i].worker = Nobody
      BY <2>2 DEF CreateInserts, Fresh, Untouched, NoIso
    <3>2. iso' = [iso EXCEPT ![i].status = "pending"]
      BY <2>2 DEF CreateInserts
    <3> QED
      BY <2>1, <3>1, <3>2 DEF Rows
  <2>3. CASE CancelWrites(i)
    BY <2>1, <2>3 DEF CancelWrites, Rows, Ended
  <2>4. CASE SweepWrites(i)
    <3>1. iso' = [iso EXCEPT ![i] = [@ EXCEPT !.status = "pending", !.worker = Nobody]]
      BY <2>4 DEF SweepWrites, Requeued
    <3> QED
      BY <2>1, <3>1 DEF Rows
  <2>5. CASE CreateChecks(i) \/ CancelReads(i) \/ SweepReads(i)
    BY <2>1, <2>5 DEF CreateChecks, CancelReads, SweepReads
  <2> QED
    BY <2>2, <2>3, <2>4, <2>5
<1>3. /\ creating' \subseteq Isos /\ cancelling' \subseteq Isos /\ sweeping' \subseteq Isos
      /\ cancels' \in Nat
  BY DEF CreateChecks, CreateInserts, CancelReads, CancelWrites, SweepReads, SweepWrites, TypeOK
<1>4. TypeOK'
  BY <1>1, <1>2, <1>3 DEF TypeOK, Rows
<1>5. Fresh'
  <2>1. CASE CreateChecks(i)
    BY <2>1 DEF CreateChecks, Fresh, Untouched
  <2>2. CASE CreateInserts(i)
    BY <1>2, <2>2 DEF CreateInserts, Fresh, Untouched, TypeOK
  <2>3. CASE CancelReads(i)
    BY <2>3 DEF CancelReads, Fresh, Untouched
  <2>4. CASE CancelWrites(i)
    BY <1>2, <2>4 DEF CancelWrites, Fresh, Untouched, TypeOK
  <2>5. CASE SweepReads(i)
    BY <2>5 DEF SweepReads, Silent, Fresh, Untouched
  <2>6. CASE SweepWrites(i)
    <3>1. iso'[i].status = "pending"
      BY <2>6 DEF SweepWrites, Requeued, TypeOK
    <3> QED
      BY <1>2, <2>6, <3>1 DEF SweepWrites, Fresh, Untouched
  <2> QED
    BY <2>1, <2>2, <2>3, <2>4, <2>5, <2>6
<1>6. Results'
  BY <1>1 DEF Results
<1>7. SuccessIsStored'
  BY <1>1, <1>2 DEF SuccessIsStored
<1> QED
  BY <1>4, <1>5, <1>6, <1>7

-----------------------------------------------------------------------------
(* Threads *)

BuildsOK == build \in [Builds -> Works] /\ \A t \in Builds : build[t].phase # "none" => build[t].of \in Isos

\* A step of a thread does not touch a row that is not inserted yet.
LEMMA FreshKept ==
    ASSUME Fresh, creating' = creating, cancelling' = cancelling, sweeping' = sweeping,
           \A i \in Isos : iso'[i] = iso[i] \/ (iso[i].status # "none" /\ iso'[i].status # "none"),
           \A t \in Builds : build'[t].of = build[t].of \/ build'[t].of \notin Isos
    PROVE  Fresh'
BY DEF Fresh, Untouched

\* A thread goes to its next phase.
LEMMA Turns ==
    ASSUME TypeOK, NEW t \in Builds, build[t].phase # "none",
           NEW p \in {"building", "presign", "put", "result"}, Turn(t, p)
    PROVE  /\ BuildsOK'
           /\ \A x \in Builds : build'[x].of = build[x].of
           /\ build'[t].phase = p
           /\ \A x \in Builds : x # t => build'[x] = build[x]
<1>1. build' = [build EXCEPT ![t].phase = p]
  BY DEF Turn
<1>2. build \in [Builds -> Works] /\ \A x \in Builds : build[x].phase # "none" => build[x].of \in Isos
  BY DEF TypeOK, Works
<1> QED
  BY <1>1, <1>2 DEF BuildsOK, Works

LEMMA Ends ==
    ASSUME TypeOK, NEW t \in Builds, build[t].phase # "none", NEW v \in Ended, Turned(t, "result", v)
    PROVE  /\ BuildsOK'
           /\ \A x \in Builds : build'[x].of = build[x].of
           /\ build'[t].phase = "result" /\ build'[t].verdict = v
           /\ \A x \in Builds : x # t => build'[x] = build[x]
<1>1. build' = [build EXCEPT ![t].phase = "result", ![t].verdict = v]
  BY DEF Turned
<1>2. build \in [Builds -> Works] /\ \A x \in Builds : build[x].phase # "none" => build[x].of \in Isos
  BY DEF TypeOK, Works
<1>3. build'[t] = [build[t] EXCEPT !.phase = "result", !.verdict = v]
  BY <1>1, <1>2
<1>4. /\ build'[t] \in Works /\ build'[t].of = build[t].of
      /\ build'[t].phase = "result" /\ build'[t].verdict = v
  <2> DEFINE r == [of |-> build[t].of, by |-> build[t].by, phase |-> "result",
                   verdict |-> v, seen |-> build[t].seen]
  <2>1. build[t] \in Works
    BY <1>2
  <2>2. build'[t] = r
    BY <1>3, <2>1 DEF Works
  <2>3. r \in Works
    BY <2>1 DEF Works
  <2> QED
    BY <2>2, <2>3
<1>5. \A x \in Builds : x # t => build'[x] = build[x]
  BY <1>1, <1>2
<1>6. build' \in [Builds -> Works]
  BY <1>1, <1>2, <1>3, <1>4, <1>5
<1> QED
  BY <1>2, <1>4, <1>5, <1>6 DEF BuildsOK

\* A note changes no status and no worker.
LEMMA Notes ==
    ASSUME TypeOK, NEW t \in Builds, build[t].of \in Isos, Logged(t) \/ UNCHANGED iso
    PROVE  /\ iso' \in [Isos -> Rows]
           /\ \A i \in Isos : /\ iso'[i].status = iso[i].status /\ iso'[i].worker = iso[i].worker
                              /\ iso'[i] = iso[i] \/ iso[i].status # "none"
<1>1. iso' = iso \/ (iso[build[t].of].status = "running" /\ iso' = [iso EXCEPT ![build[t].of].log = TRUE])
  BY DEF Logged
<1>2. iso \in [Isos -> Rows]
  BY DEF TypeOK, Rows
<1>3. CASE iso' = iso
  BY <1>2, <1>3
<1>4. CASE iso[build[t].of].status = "running" /\ iso' = [iso EXCEPT ![build[t].of].log = TRUE]
  BY <1>2, <1>4 DEF Rows
<1> QED
  BY <1>1, <1>3, <1>4

\* A claim makes a new thread, if its answer arrives.
LEMMA ClaimStep ==
    ASSUME Inv, NEW i \in Isos, NEW w \in Workers, ClaimIso(i, w)
    PROVE  Inv'
<1> USE IsoAssumption DEF Inv, requests
<1>1. claims + 1 \in Builds /\ claims' \in 0..MaxBuilds
  BY DEF ClaimIso, TypeOK, Builds
<1>2. \/ build' = build
      \/ build' = [build EXCEPT ![claims + 1] =
             [of |-> i, by |-> w, phase |-> "start", verdict |-> "none", seen |-> "none"]]
  BY DEF ClaimIso, NoBuild
<1>3. BuildsOK'
  <2>1. [of |-> i, by |-> w, phase |-> "start", verdict |-> "none", seen |-> "none"] \in Works
    BY DEF Works
  <2>2. build \in [Builds -> Works] /\ \A x \in Builds : build[x].phase # "none" => build[x].of \in Isos
    BY DEF TypeOK, Works
  <2> QED
    BY <1>1, <1>2, <2>1, <2>2 DEF BuildsOK
<1>4. /\ iso' \in [Isos -> Rows]
      /\ iso[i].status = "pending" /\ iso'[i].status = "running"
      /\ \A x \in Isos : x # i => iso'[x] = iso[x]
  BY DEF ClaimIso, Pending, TypeOK, Rows, Ended
<1>5. TypeOK'
  BY <1>1, <1>3, <1>4 DEF ClaimIso, TypeOK, BuildsOK, Rows, Works, Fault
<1>6. Fresh'
  BY <1>1, <1>2, <1>4 DEF ClaimIso, TypeOK, Fresh, Untouched
<1>7. Results'
  <2>1. image' = image
    BY DEF ClaimIso
  <2>2. \A x \in Builds : build'[x] = build[x] \/ build'[x].phase = "start"
    BY <1>1, <1>2 DEF TypeOK
  <2> QED
    BY <2>1, <2>2 DEF Results
<1>8. SuccessIsStored'
  BY <1>4 DEF ClaimIso, SuccessIsStored
<1> QED
  BY <1>5, <1>6, <1>7, <1>8

\* RPMs touch nothing but their own count, which the slots bound.
LEMMA RpmSteps ==
    ASSUME Inv, NEW w \in Workers, TakesRpm(w) \/ RpmEnds(w)
    PROVE  Inv'
<1> USE IsoAssumption DEF Inv, requests
<1>1. UNCHANGED <<iso, image, build, claims, creating, cancelling, sweeping, cancels, faults>>
  BY DEF TakesRpm, RpmEnds
<1>2. rpms \in [Workers -> Nat] /\ \A v \in Workers : rpms[v] <= Slots[v]
  BY DEF TypeOK
<1>3. rpms' \in [Workers -> Nat] /\ \A v \in Workers : rpms'[v] <= Slots[v]
  <2>1. CASE TakesRpm(w)
    <3>1. rpms[w] + 1 <= Slots[w]
      <4> DEFINE n == Cardinality(Running(w))
      <4>1. n \in Nat /\ rpms[w] + n < Slots[w]
        BY <2>1, FS_Subset, FS_CardinalityType DEF TakesRpm, AtWork, Running
      <4> HIDE DEF n
      <4> QED
        BY <1>2, <4>1
    <3> QED
      BY <1>2, <2>1, <3>1 DEF TakesRpm
  <2>2. CASE RpmEnds(w)
    BY <1>2, <2>2 DEF RpmEnds
  <2> QED
    BY <2>1, <2>2
<1>4. TypeOK'
  BY <1>1, <1>3 DEF TypeOK
<1>5. Fresh' /\ Results' /\ SuccessIsStored'
  BY <1>1 DEF Fresh, Untouched, Results, SuccessIsStored
<1> QED
  BY <1>4, <1>5

\* A thread up to its upload.
LEMMA WorkSteps ==
    ASSUME Inv, NEW t \in Builds, Starts(t) \/ Finishes(t) \/ Presigns(t) \/ Uploads(t)
    PROVE  Inv'
<1> USE IsoAssumption DEF Inv, requests
<1>1. /\ build[t].phase \in {"start", "building", "presign", "put"}
      /\ build[t].of \in Isos
  BY DEF Starts, Finishes, Presigns, Uploads, TypeOK
<1>2. /\ BuildsOK'
      /\ \A x \in Builds : build'[x].of = build[x].of
      /\ \A x \in Builds : x # t => build'[x] = build[x]
      /\ build'[t].phase = "result" => build'[t].verdict \in Ended
  <2>1. CASE Starts(t)
    BY <1>1, <2>1, Turns DEF Starts
  <2>2. CASE Finishes(t)
    BY <1>1, <2>2, Turns, Ends DEF Finishes, Ended
  <2>3. CASE Presigns(t)
    BY <1>1, <2>3, Turns, Ends DEF Presigns, Ended
  <2>4. CASE Uploads(t)
    <3>1. Turned(t, "result", "success") \/ Turned(t, "result", "failed")
      BY <2>4 DEF Uploads
    <3> QED
      BY <1>1, <3>1, Ends DEF Ended
  <2> QED
    BY <2>1, <2>2, <2>3, <2>4
<1>3. /\ iso' \in [Isos -> Rows]
      /\ \A i \in Isos : /\ iso'[i].status = iso[i].status /\ iso'[i].worker = iso[i].worker
                         /\ iso'[i] = iso[i] \/ iso[i].status # "none"
  BY <1>1, Notes DEF Starts, Finishes, Presigns, Uploads
<1>4. UNCHANGED <<claims, rpms, creating, cancelling, sweeping, cancels>>
  BY DEF Starts, Finishes, Presigns, Uploads
<1>5. \* an image stays
      /\ image' \in [Images -> Isos \cup {Nobody}]
      /\ \A n \in Images : image[n] # Nobody => image'[n] = image[n]
  <2>1. \/ image' = image
        \/ (image[NameOf[build[t].of]] = Nobody
            /\ image' = [image EXCEPT ![NameOf[build[t].of]] = build[t].of])
    BY DEF Starts, Finishes, Presigns, Uploads, Puts
  <2> QED
    BY <1>1, <2>1 DEF TypeOK
<1>6. faults' \in Nat
  BY DEF Starts, Finishes, Presigns, Uploads, TypeOK, Fault
<1>7. TypeOK'
  BY <1>2, <1>3, <1>4, <1>5, <1>6 DEF TypeOK, BuildsOK, Rows, Works
<1>8. Fresh'
  BY <1>2, <1>3, <1>4, FreshKept
<1>9. build'[t].phase = "result" /\ build'[t].verdict = "success"
         => image'[NameOf[build[t].of]] = build[t].of
  <2>1. CASE Starts(t)
    BY <1>1, <2>1, Turns DEF Starts
  <2>2. CASE Finishes(t)
    BY <1>1, <2>2, Turns, Ends DEF Finishes, Ended
  <2>3. CASE Presigns(t)
    BY <1>1, <2>3, Turns, Ends DEF Presigns, Ended
  <2>4. CASE Uploads(t)
    <3>1. CASE Turned(t, "result", "failed")
      BY <1>1, <3>1, Ends DEF Ended
    <3>2. CASE Turned(t, "result", "success")
      <4>1. build'[t].verdict = "success"
        BY <1>1, <3>2, Ends DEF Ended
      <4>2. ~Turned(t, "result", "failed")
        BY <1>1, <4>1, Ends DEF Ended
      <4>3. image' = [image EXCEPT ![NameOf[build[t].of]] = build[t].of]
        BY <2>4, <4>2 DEF Uploads
      <4> QED
        BY <1>1, <4>3 DEF TypeOK, Images
    <3> QED
      BY <2>4, <3>1, <3>2 DEF Uploads
  <2> QED
    BY <2>1, <2>2, <2>3, <2>4
<1>10. Results'
  <2> SUFFICES ASSUME NEW x \in Builds, build'[x].phase \in {"result", "posting"}
               PROVE  /\ build'[x].verdict \in Ended
                      /\ build'[x].verdict = "success" => image'[NameOf[build'[x].of]] = build'[x].of
    BY DEF Results
  <2>1. CASE x = t
    BY <1>2, <1>9, <2>1, Turns, Ends, <1>1 DEF Starts, Finishes, Presigns, Uploads, Ended
  <2>2. CASE x # t
    <3>1. build'[x] = build[x] /\ build[x].of \in Isos
      BY <1>2, <2>2 DEF TypeOK
    <3> QED
      BY <1>5, <3>1 DEF Results, Images
  <2> QED
    BY <2>1, <2>2
<1>11. SuccessIsStored'
  BY <1>3, <1>5 DEF SuccessIsStored, Images
<1> QED
  BY <1>7, <1>8, <1>10, <1>11

\* The result of a thread.
LEMMA ResultSteps ==
    ASSUME Inv, NEW t \in Builds, ResultReads(t) \/ ResultWrites(t) \/ ThreadLost(t)
    PROVE  Inv'
<1> USE IsoAssumption DEF Inv, requests
<1>1. (build[t].phase # "none" /\ build[t].of \in Isos) \/ ThreadLost(t)
  BY DEF ResultReads, ResultWrites, TypeOK
<1>2. UNCHANGED <<image, claims, rpms, creating, cancelling, sweeping, cancels>>
  BY DEF ResultReads, ResultWrites, ThreadLost
<1>3. /\ BuildsOK'
      /\ \A x \in Builds : build'[x].of \in {build[x].of, Nobody}
      /\ \A x \in Builds : \/ build'[x] = build[x] \/ build'[x] = NoBuild
                           \/ (build[x].phase = "result" /\ build'[x].verdict = build[x].verdict
                               /\ build'[x].of = build[x].of)
  <2>1. NoBuild \in Works /\ NoBuild.phase = "none" /\ NoBuild.of = Nobody
    BY DEF NoBuild, Works
  <2>2. CASE build' = [build EXCEPT ![t] = NoBuild]
    BY <2>1, <2>2 DEF TypeOK, BuildsOK, Works
  <2>3. CASE ResultReads(t) /\ build' # [build EXCEPT ![t] = NoBuild]
    <3>1. build' = [build EXCEPT ![t] = [@ EXCEPT !.phase = "posting",
                                                  !.seen = iso[build[t].of].status]]
      BY <2>3 DEF ResultReads
    <3>2. iso[build[t].of].status \in {"none", "pending", "running"} \cup Ended
      BY <1>1, <2>3 DEF ResultReads, TypeOK
    <3>3. build \in [Builds -> Works] /\ \A x \in Builds : build[x].phase # "none" => build[x].of \in Isos
      BY DEF TypeOK, Works
    <3>4. build'[t] = [build[t] EXCEPT !.phase = "posting", !.seen = iso[build[t].of].status]
      BY <3>1, <3>3
    <3>5. /\ build'[t] \in Works /\ build'[t].of = build[t].of
          /\ build'[t].verdict = build[t].verdict
      <4> DEFINE r == [of |-> build[t].of, by |-> build[t].by, phase |-> "posting",
                       verdict |-> build[t].verdict, seen |-> iso[build[t].of].status]
      <4>1. build[t] \in Works
        BY <3>3
      <4>2. build'[t] = r
        BY <3>4, <4>1 DEF Works
      <4>3. r \in Works
        BY <3>2, <4>1 DEF Works
      <4> QED
        BY <4>2, <4>3
    <3>6. \A x \in Builds : x # t => build'[x] = build[x]
      BY <3>1, <3>3
    <3>7. build' \in [Builds -> Works]
      BY <3>1, <3>3, <3>4, <3>5, <3>6
    <3> QED
      BY <1>1, <2>3, <3>3, <3>5, <3>6, <3>7 DEF ResultReads, BuildsOK
  <2> QED
    BY <2>2, <2>3 DEF ResultWrites, ThreadLost
<1>4. /\ iso' \in [Isos -> Rows]
      /\ \A i \in Isos :
            \/ iso'[i] = iso[i]
            \/ /\ build[t].phase = "posting" /\ build[t].of = i
               /\ iso'[i].worker = iso[i].worker
               /\ iso'[i].status \in {iso[i].status, build[t].verdict}
  <2>1. CASE iso' = iso
    BY <2>1 DEF TypeOK, Rows
  <2>2. CASE iso' # iso
    <3>1. build[t].phase = "posting" /\ build[t].of \in Isos /\ build[t].verdict \in Ended
      BY <1>1, <2>2 DEF ResultReads, ResultWrites, ThreadLost, Results, TypeOK
    <3>2. iso' = [iso EXCEPT ![build[t].of].status =
                                 IF build[t].seen = build[t].verdict THEN @ ELSE build[t].verdict,
                             ![build[t].of].log = TRUE]
      BY <2>2 DEF ResultReads, ResultWrites, ThreadLost
    <3> QED
      BY <3>1, <3>2 DEF TypeOK, Rows
  <2> QED
    BY <2>1, <2>2
<1>5. faults' \in Nat
  BY DEF ResultReads, ResultWrites, ThreadLost, TypeOK, Fault
<1>6. build[t].phase = "posting" =>
         /\ build[t].verdict \in Ended
         /\ build[t].verdict = "success" => image[NameOf[build[t].of]] = build[t].of
  BY DEF Results
<1>7. \A i \in Isos : build[t].of = i => iso[i].status # "none"
  BY DEF Fresh, Untouched
<1>8. TypeOK'
  BY <1>2, <1>3, <1>4, <1>5, <1>6 DEF TypeOK, BuildsOK, Rows, Works, Ended
<1>9. Fresh'
  BY <1>2, <1>3, <1>4, <1>6, <1>7, FreshKept DEF Ended
<1>10. Results'
  BY <1>2, <1>3 DEF Results, NoBuild
<1>11. SuccessIsStored'
  BY <1>2, <1>4, <1>6 DEF SuccessIsStored
<1> QED
  BY <1>8, <1>9, <1>10, <1>11

-----------------------------------------------------------------------------
LEMMA InvNext == Inv /\ [Next]_vars => Inv'
<1> SUFFICES ASSUME Inv, [Next]_vars PROVE Inv'
  OBVIOUS
<1>1. CASE UNCHANGED vars
  BY <1>1 DEF vars, requests, Inv, TypeOK, Fresh, Untouched, Results, SuccessIsStored
<1>2. CASE \E i \in Isos : \/ CreateChecks(i) \/ CreateInserts(i) \/ CancelReads(i) \/ CancelWrites(i)
                            \/ SweepReads(i) \/ SweepWrites(i)
                            \/ \E w \in Workers : ClaimIso(i, w)
  BY <1>2, RowSteps, ClaimStep
<1>3. CASE \E w \in Workers : TakesRpm(w) \/ RpmEnds(w)
  BY <1>3, RpmSteps
<1>4. CASE \E t \in Builds : BuildStep(t) \/ ThreadLost(t)
  BY <1>4, WorkSteps, ResultSteps DEF BuildStep
<1> QED
  BY <1>1, <1>2, <1>3, <1>4 DEF Next

THEOREM Invariant == Spec => []Inv
  BY InvInit, InvNext, PTL DEF Spec

\* Every reachable state has the types of the model; a queued row has no worker.
THEOREM TypeCorrect == Spec => []TypeOK
<1>1. Inv => TypeOK
  BY DEF Inv
<1> QED
  BY <1>1, Invariant, PTL

\* The object under the name of a successful ISO build was uploaded by a build
\* of that row (iso_presign, run_iso_job, iso_result).
THEOREM SuccessStored == Spec => []SuccessIsStored
<1>1. Inv => SuccessIsStored
  BY DEF Inv
<1> QED
  BY <1>1, Invariant, PTL
=============================================================================
