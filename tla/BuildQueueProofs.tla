-------------------------- MODULE BuildQueueProofs --------------------------
(***************************************************************************)
(* Type correctness of BuildQueue and the leases it implements, for any    *)
(* number of jobs, workers, requests and attempts.                         *)
(***************************************************************************)
EXTENDS BuildQueue, TLAPS, FiniteSetTheorems, WellFoundedInduction

-----------------------------------------------------------------------------
(* Lemmas about the operators of the model *)

\* Some numbers have a least one.
LEMMA LeastNumber ==
    ASSUME NEW S \in SUBSET Nat, S # {}
    PROVE  \E m \in S : \A b \in S : m <= b
<1>1. PICK m \in S : \A b \in S : ~(<<b, m>> \in OpToRel(<, Nat))
  BY WFMin, NatLessThanWellFounded
<1>2. \A b \in S : ~(b < m)
  BY <1>1 DEF OpToRel
<1> QED
  BY <1>2

\* Some ids have a largest one: its distance from the bound is the least.
LEMMA LargestId ==
    ASSUME NEW n \in Nat, NEW S \in SUBSET (1..n), S # {}
    PROVE  \E m \in S : \A b \in S : b <= m
<1> DEFINE T == {n - b : b \in S}
<1>1. T \subseteq Nat /\ T # {}
  <2>1. \A b \in S : n - b \in Nat
    OBVIOUS
  <2>2. PICK b \in S : TRUE
    OBVIOUS
  <2>3. n - b \in T
    OBVIOUS
  <2> QED
    BY <2>1, <2>3
<1>2. PICK x \in T : \A y \in T : x <= y
  <2> HIDE DEF T
  <2> QED
    BY <1>1, LeastNumber
<1>3. PICK m \in S : x = n - m
  OBVIOUS
<1>4. \A b \in S : n - m <= n - b
  BY <1>2, <1>3
<1>5. m \in Int /\ \A b \in S : b \in Int
  OBVIOUS
<1> QED
  BY <1>4, <1>5

LEMMA AttemptsFinite ==
    ASSUME NEW S \in SUBSET AttemptIds
    PROVE  IsFiniteSet(S) /\ Cardinality(S) \in Nat
<1>1. IsFiniteSet(AttemptIds)
  BY QueueAssumption, FS_Interval DEF AttemptIds
<1> QED
  BY <1>1, FS_Subset, FS_CardinalityType

\* The newest of some attempt ids is one of them.
LEMMA NewestIsMember ==
    ASSUME NEW S \in SUBSET AttemptIds, S # {}
    PROVE  Newest(S) \in S
<1>1. \E m \in S : \A b \in S : b <= m
  BY QueueAssumption, LargestId DEF AttemptIds
<1> QED
  BY <1>1 DEF Newest

LEMMA NewestType ==
    ASSUME NEW S \in SUBSET AttemptIds
    PROVE  Newest(S) \in AttemptIds \cup {None}
<1>1. CASE S = {}
  BY <1>1 DEF Newest
<1>2. CASE S # {}
  BY <1>2, NewestIsMember
<1> QED
  BY <1>1, <1>2

LEMMA SyncedType ==
    ASSUME NEW at, NEW w
    PROVE  Synced(at, w) \in WorkerRows
<1>1. RunningOn(at, w) \in SUBSET AttemptIds
  BY DEF RunningOn, Running
<1>2. Newest(RunningOn(at, w)) \in AttemptIds \cup {None}
  BY <1>1, NewestType
<1> QED
  BY <1>2 DEF Synced, WorkerRows

-----------------------------------------------------------------------------
(* The invariant *)

\* Ids are handed out in order, and whatever refers to an attempt (a request,
\* a build thread, a pending write) refers to one that has a row.
Rows ==
    /\ \A a \in AttemptIds :
          /\ att[a].status # "none" <=> a <= lastId
          /\ a <= lastId => att[a].job \in Jobs /\ att[a].worker \in Workers
          /\ agent[a] # "none" => a <= lastId
          /\ report[a].phase # "idle" => a <= lastId
          /\ report[a].phase = "loaded" => report[a].says \in Closed
    /\ \A s \in Sessions, a \in AttemptIds :
          session[s].atts[a] # None => a <= lastId

TypeInv == TypeOK /\ Rows

LEMMA InitTypeInv == Init => TypeInv
<1> SUFFICES ASSUME Init PROVE TypeInv
  OBVIOUS
<1> USE QueueAssumption DEF Init
<1>1. TypeOK
  BY DEF TypeOK, JobRows, AttemptRows, WorkerRows, Requests, Transactions,
        JobStatus, Closed, Terminal, NoReport, NoWrites
<1>2. Rows
  BY DEF Rows, AttemptIds, NoReport, NoWrites
<1> QED
  BY <1>1, <1>2 DEF TypeInv

LEMMA PollTypeInv ==
    ASSUME TypeInv, NEW w \in Workers, Poll(w)
    PROVE  TypeInv'
<1> USE DEF TypeInv
<1>1. CASE Heartbeat(w)
  <2>1. TypeOK'
    BY <1>1 DEF TypeOK, WorkerRows, Heartbeat
  <2>2. Rows'
    BY <1>1 DEF Rows, Heartbeat
  <2> QED
    BY <2>1, <2>2
<1>2. CASE PollNothing(w)
  <2>1. Newest(RunningOn(att, w)) \in AttemptIds \cup {None}
    BY NewestType DEF RunningOn, Running
  <2>2. Polled(w) \in WorkerRows
    BY <2>1 DEF TypeOK, Polled, WorkerRows
  <2>3. TypeOK'
    BY <1>2, <2>2 DEF TypeOK, PollNothing
  <2>4. Rows'
    BY <1>2 DEF Rows, PollNothing
  <2> QED
    BY <2>3, <2>4
<1>3. ASSUME NEW j \in Jobs, PollClaim(w, j) PROVE TypeInv'
  <2>1. lastId + 1 \in AttemptIds /\ lastId' = lastId + 1 /\ lastId' \in 0..MaxAttempts
    BY <1>3, QueueAssumption DEF TypeOK, PollClaim, AttemptIds
  <2>2. TypeOK'
    <3>1. job' \in [Jobs -> JobRows]
      BY <1>3 DEF TypeOK, PollClaim, JobRow, JobRows, JobStatus
    <3>2. att' \in [AttemptIds -> AttemptRows]
      BY <1>3, <2>1 DEF TypeOK, PollClaim, AttemptRows
    <3>3. worker' \in [Workers -> WorkerRows]
      BY <1>3, <2>1 DEF TypeOK, PollClaim, WorkerRows
    <3>4. /\ agent' \in [AttemptIds -> {"none", "building", "done"} \cup Closed]
          /\ faults' \in Nat
      BY <1>3, <2>1 DEF TypeOK, PollClaim, Fault
    <3> QED
      BY <1>3, <2>1, <3>1, <3>2, <3>3, <3>4 DEF TypeOK, PollClaim
  <2>3. Rows'
    BY <1>3, <2>1, QueueAssumption DEF TypeOK, Rows, PollClaim, AttemptIds
  <2> QED
    BY <2>2, <2>3
<1> QED
  BY <1>1, <1>2, <1>3 DEF Poll
\* What every step but a claim does to the attempts: none appears, none
\* changes its job or its worker, none starts to run.
Kept ==
    /\ lastId' = lastId
    /\ \A a \in AttemptIds :
          /\ att'[a].job = att[a].job /\ att'[a].worker = att[a].worker
          /\ \/ att'[a].status = att[a].status
             \/ att[a].status # "none" /\ att'[a].status \in Closed

\* Ending one attempt that has a row, or leaving the attempts alone.
LEMMA EndsKept ==
    ASSUME TypeInv, lastId' = lastId, NEW a \in AttemptIds, a <= lastId,
           NEW v \in Closed, att' = [att EXCEPT ![a] = Ends(@, v)]
    PROVE  Kept /\ att' \in [AttemptIds -> AttemptRows]
<1>1. att \in [AttemptIds -> AttemptRows] /\ att[a].status # "none"
  BY DEF TypeInv, TypeOK, Rows
<1>2. att' \in [AttemptIds -> AttemptRows]
  BY <1>1 DEF Ends, AttemptRows
<1>3. Kept
  BY <1>1 DEF Kept, Ends, AttemptRows
<1> QED
  BY <1>2, <1>3

\* Rows follows when the attempts are kept and no reference is made to an
\* attempt that had none before.
LEMMA RowsKept ==
    ASSUME TypeInv, Kept,
           \A a \in AttemptIds : agent'[a] = "none" \/ agent[a] # "none" \/ a <= lastId,
           \A a \in AttemptIds : report'[a].phase = "idle" \/ a <= lastId,
           \A a \in AttemptIds :
              report'[a].phase # "loaded" \/ report'[a].says \in Closed,
           \A s \in Sessions, a \in AttemptIds :
              session'[s].atts[a] = None \/ a <= lastId
    PROVE  Rows'
BY DEF TypeInv, Kept, Rows, Closed, Terminal

LEMMA ThreadTypeInv ==
    ASSUME TypeInv, NEW a \in AttemptIds, Thread(a)
    PROVE  TypeInv' /\ Kept
<1>1. TypeOK'
  <2>1. CASE Upload(a)
    BY <2>1 DEF TypeInv, TypeOK, Upload
  <2>2. ASSUME NEW v \in Closed, Decide(a, v) PROVE TypeOK'
    BY <2>2 DEF TypeInv, TypeOK, Decide, dbVars, Closed, Terminal
  <2>3. CASE Orphan(a)
    BY <2>3 DEF TypeInv, TypeOK, Orphan, dbVars, Fault, Closed, Terminal
  <2> QED
    BY <2>1, <2>2, <2>3 DEF Thread
<1>2. Kept
  BY DEF Thread, Upload, Decide, Orphan, dbVars, Kept
<1>3. agent[a] # "none"
  BY DEF Thread, Upload, Decide, Orphan, Closed, Terminal
<1>4. /\ \A b \in AttemptIds \ {a} : agent'[b] = agent[b]
      /\ report' = report /\ session' = session
  BY DEF TypeInv, TypeOK, Thread, Upload, Decide, Orphan
<1>5. Rows'
  <2>1. \A b \in AttemptIds : agent'[b] = "none" \/ agent[b] # "none" \/ b <= lastId
    BY <1>3, <1>4
  <2> QED
    BY <1>2, <1>4, <2>1, RowsKept DEF TypeInv, Rows
<1> QED
  BY <1>1, <1>2, <1>5 DEF TypeInv

LEMMA WorkerDiesTypeInv ==
    ASSUME TypeInv, NEW w \in Workers, WorkerDies(w)
    PROVE  TypeInv' /\ Kept
<1>1. TypeOK'
  BY DEF TypeInv, TypeOK, WorkerDies, dbVars, Fault
<1>2. Kept
  BY DEF WorkerDies, dbVars, Kept
<1>3. \A a \in AttemptIds : agent'[a] = "none" \/ agent[a] # "none" \/ a <= lastId
  BY DEF WorkerDies
<1>4. report' = report /\ session' = session
  BY DEF WorkerDies
<1>5. Rows'
  BY <1>2, <1>3, <1>4, RowsKept DEF TypeInv, Rows
<1> QED
  BY <1>1, <1>2, <1>5 DEF TypeInv
\* A request is served, and a thread posts, only for an attempt with a row.
LEMMA ReportHasRow ==
    ASSUME TypeInv, NEW a \in AttemptIds, Report(a) \/ ReportFails(a)
    PROVE  a <= lastId /\ att[a].job \in Jobs /\ att[a].worker \in Workers
<1>1. agent[a] # "none" \/ report[a].phase # "idle"
  BY DEF Report, ReportFails, ReportLoad, ReportAlreadyFinalized,
         ReportJobCancelled, ReportBlocked, ReportIgnored, ReportRepair,
         ReportStore, ReportGate, ReportWake, ReportFinish, Closed, Terminal
<1> QED
  BY <1>1 DEF TypeInv, Rows

LEMMA AnsweredType ==
    ASSUME TypeInv, NEW a \in AttemptIds, Answered(a)
    PROVE  /\ agent' \in [AttemptIds -> {"none", "building", "done"} \cup Closed]
           /\ faults' \in Nat
BY DEF TypeInv, TypeOK, Answered, Fault

LEMMA GotoType ==
    ASSUME TypeInv, NEW a \in AttemptIds,
           NEW phase \in {"idle", "loaded", "stored", "repaired", "gated", "woken"},
           Goto(a, phase)
    PROVE  report' \in [AttemptIds -> Requests]
<1>1. [NoReport EXCEPT !.phase = phase] \in Requests
  BY DEF NoReport, Requests, JobStatus
<1> QED
  BY <1>1 DEF TypeInv, TypeOK, Goto

\* A step of report_result for one attempt points at no other attempt.
LEMMA ReportRows ==
    ASSUME TypeInv, Kept, NEW a \in AttemptIds, a <= lastId,
           \A b \in AttemptIds \ {a} : agent'[b] = agent[b] /\ report'[b] = report[b],
           report'[a].phase # "loaded" \/ report'[a].says \in Closed,
           session' = session
    PROVE  Rows'
<1>1. \A b \in AttemptIds : agent'[b] = "none" \/ agent[b] # "none" \/ b <= lastId
  OBVIOUS
<1>2. \A b \in AttemptIds :
         /\ report'[b].phase = "idle" \/ b <= lastId
         /\ report'[b].phase # "loaded" \/ report'[b].says \in Closed
  BY DEF TypeInv, Rows
<1>3. \A s \in Sessions, b \in AttemptIds : session'[s].atts[b] = None \/ b <= lastId
  BY DEF TypeInv, Rows
<1> QED
  BY <1>1, <1>2, <1>3, RowsKept

LEMMA StoreRowsType ==
    ASSUME TypeInv, NEW a \in AttemptIds, a <= lastId,
           NEW v \in Closed, NEW jv \in JobStatus, NEW n \in BOOLEAN,
           lastId' = lastId, StoreRows(a, v, jv, n)
    PROVE  /\ Kept
           /\ job' \in [Jobs -> JobRows]
           /\ att' \in [AttemptIds -> AttemptRows]
           /\ worker' \in [Workers -> WorkerRows]
<1>1. att[a].job \in Jobs /\ att[a].worker \in Workers
  BY DEF TypeInv, Rows
<1>2. Kept /\ att' \in [AttemptIds -> AttemptRows]
  BY EndsKept DEF StoreRows
<1>3. worker' \in [Workers -> WorkerRows]
  BY <1>1, SyncedType DEF TypeInv, TypeOK, StoreRows
<1>4. job' \in [Jobs -> JobRows]
  <2>1. Apply(job[att[a].job].status, Emit(report[a].snap, jv)) \in JobStatus
    BY <1>1 DEF TypeInv, TypeOK, JobRows, Apply, Emit
  <2> QED
    BY <1>1, <2>1 DEF TypeInv, TypeOK, StoreRows, JobRow, JobRows
<1> QED
  BY <1>2, <1>3, <1>4

LEMMA ReportTypeInv ==
    ASSUME TypeInv, NEW a \in AttemptIds, Report(a) \/ ReportFails(a)
    PROVE  TypeInv' /\ Kept
<1>1. a <= lastId /\ att[a].job \in Jobs /\ att[a].worker \in Workers
  BY ReportHasRow
<1>2. /\ \A b \in AttemptIds \ {a} : agent'[b] = agent[b] /\ report'[b] = report[b]
      /\ session' = session
      /\ lastId' = lastId
  <2> USE DEF Report, ReportFails, Goto, Ended, Answered, TypeInv, TypeOK, dbVars
  <2>1. CASE ReportLoad(a) \/ ReportAlreadyFinalized(a) \/ ReportFails(a)
    BY <2>1 DEF ReportLoad, ReportAlreadyFinalized
  <2>2. CASE ReportJobCancelled(a) \/ ReportBlocked(a) \/ ReportIgnored(a)
    BY <2>2 DEF ReportJobCancelled, ReportBlocked, ReportIgnored
  <2>3. CASE ReportRepair(a) \/ ReportStore(a)
    BY <2>3 DEF ReportRepair, ReportStore
  <2>4. CASE ReportGate(a) \/ ReportWake(a) \/ ReportFinish(a)
    BY <2>4 DEF ReportGate, ReportWake, ReportFinish
  <2> QED
    BY <2>1, <2>2, <2>3, <2>4
<1>3. TypeOK' /\ Kept
  <2>1. CASE ReportLoad(a)
    <3>1. report' \in [AttemptIds -> Requests]
      BY <1>1, <2>1 DEF ReportLoad, TypeInv, TypeOK, Requests, JobRows
    <3> QED
      BY <2>1, <3>1 DEF ReportLoad, TypeInv, TypeOK, dbVars, Kept
  <2>2. CASE ReportAlreadyFinalized(a)
    BY <2>2, AnsweredType DEF ReportAlreadyFinalized, TypeInv, TypeOK, dbVars, Kept
  <2>3. CASE ReportJobCancelled(a)
    <3>1. Kept /\ att' \in [AttemptIds -> AttemptRows]
      <4>1. CASE att[a].status = "running"
        BY <1>1, <2>3, <4>1, EndsKept DEF ReportJobCancelled, CancelledRow, Closed, Terminal
      <4>2. CASE att[a].status # "running"
        <5>1. att' = att
          BY <2>3, <4>2 DEF ReportJobCancelled, CancelledRow, TypeInv, TypeOK
        <5> QED
          BY <2>3, <5>1 DEF ReportJobCancelled, Kept, TypeInv, TypeOK
      <4> QED
        BY <4>1, <4>2
    <3>2. worker' \in [Workers -> WorkerRows]
      BY <1>1, <2>3, SyncedType DEF ReportJobCancelled, TypeInv, TypeOK
    <3>3. report' \in [AttemptIds -> Requests]
      BY <2>3, GotoType DEF ReportJobCancelled, Ended
    <3> QED
      BY <2>3, <3>1, <3>2, <3>3, AnsweredType DEF ReportJobCancelled, TypeInv, TypeOK
  <2>4. CASE ReportBlocked(a)
    <3>1. job[att[a].job].next \in BOOLEAN
      BY <1>1 DEF TypeInv, TypeOK, JobRows
    <3>2. /\ Kept
          /\ job' \in [Jobs -> JobRows]
          /\ att' \in [AttemptIds -> AttemptRows]
          /\ worker' \in [Workers -> WorkerRows]
      BY <1>1, <1>2, <2>4, <3>1, StoreRowsType DEF ReportBlocked, Closed, JobStatus
    <3>3. report' \in [AttemptIds -> Requests]
      BY <2>4, GotoType DEF ReportBlocked, Ended
    <3> QED
      BY <2>4, <3>2, <3>3, AnsweredType DEF ReportBlocked, TypeInv, TypeOK
  <2>5. CASE ReportIgnored(a)
    <3>1. report' \in [AttemptIds -> Requests]
      BY <2>5, GotoType DEF ReportIgnored, Ended
    <3> QED
      BY <2>5, <3>1, AnsweredType DEF ReportIgnored, TypeInv, TypeOK, dbVars, Kept
  <2>6. CASE ReportRepair(a)
    <3>1. job[att[a].job].next \in BOOLEAN
      BY <1>1 DEF TypeInv, TypeOK, JobRows
    <3>2. /\ Kept
          /\ job' \in [Jobs -> JobRows]
          /\ att' \in [AttemptIds -> AttemptRows]
          /\ worker' \in [Workers -> WorkerRows]
      BY <1>1, <1>2, <2>6, <3>1, StoreRowsType DEF ReportRepair, Closed, Terminal, JobStatus
    <3>3. report' \in [AttemptIds -> Requests]
      BY <2>6, GotoType DEF ReportRepair
    <3> QED
      BY <2>6, <3>2, <3>3 DEF ReportRepair, TypeInv, TypeOK
  <2>7. CASE ReportStore(a)
    <3>1. report[a].says \in Closed
      BY <2>7 DEF ReportStore, TypeInv, Rows
    <3>2. report[a].next \in BOOLEAN /\ job[att[a].job].next \in BOOLEAN
      BY <1>1 DEF TypeInv, TypeOK, Requests, JobRows
    <3> DEFINE jv == IF PassAgain(a) THEN "pending" ELSE report[a].says
               n  == ~PassAgain(a) /\ job[att[a].job].next
    <3>3. jv \in JobStatus /\ n \in BOOLEAN
      BY <3>1, <3>2 DEF JobStatus
    <3>4. StoreRows(a, report[a].says, jv, n)
      BY <2>7 DEF ReportStore
    <3>5. /\ Kept
          /\ job' \in [Jobs -> JobRows]
          /\ att' \in [AttemptIds -> AttemptRows]
          /\ worker' \in [Workers -> WorkerRows]
      <4> HIDE DEF jv, n
      <4> QED
        BY <1>1, <1>2, <3>1, <3>3, <3>4, StoreRowsType
    <3>6. report' \in [AttemptIds -> Requests]
      BY <2>7, GotoType DEF ReportStore, AfterStore
    <3> QED
      BY <2>7, <3>5, <3>6 DEF ReportStore, TypeInv, TypeOK
  <2>8. CASE ReportGate(a)
    <3>1. report' \in [AttemptIds -> Requests]
      BY <2>8, GotoType DEF ReportGate
    <3> QED
      BY <2>8, <3>1 DEF ReportGate, TypeInv, TypeOK, Kept, Fault
  <2>9. CASE ReportWake(a)
    <3>1. report' \in [AttemptIds -> Requests]
      BY <2>9, GotoType DEF ReportWake
    <3>2. job' \in [Jobs -> JobRows]
      <4>1. \A j \in Jobs : job[j] \in JobRows /\ JobRow("pending", job[j].next) \in JobRows
        BY DEF TypeInv, TypeOK, JobRow, JobRows, JobStatus
      <4>2. CASE job' = job
        BY <4>2 DEF TypeInv, TypeOK
      <4>3. CASE job' # job
        BY <2>9, <4>1, <4>3 DEF ReportWake
      <4> QED
        BY <4>2, <4>3
    <3> QED
      BY <2>9, <3>1, <3>2 DEF ReportWake, TypeInv, TypeOK, Kept, Fault
  <2>10. CASE ReportFinish(a)
    <3>1. report' \in [AttemptIds -> Requests]
      BY <2>10, GotoType DEF ReportFinish, Ended
    <3> QED
      BY <2>10, <3>1, AnsweredType DEF ReportFinish, TypeInv, TypeOK, Kept
  <2>11. CASE ReportFails(a)
    <3>1. report' \in [AttemptIds -> Requests]
      BY <2>11, GotoType DEF ReportFails, Ended
    <3>2. /\ agent' \in [AttemptIds -> {"none", "building", "done"} \cup Closed]
          /\ faults' \in Nat
      BY <2>11 DEF ReportFails, TypeInv, TypeOK, Fault
    <3> QED
      BY <2>11, <3>1, <3>2 DEF ReportFails, TypeInv, TypeOK, dbVars, Kept
  <2> QED
    BY <2>1, <2>2, <2>3, <2>4, <2>5, <2>6, <2>7, <2>8, <2>9, <2>10, <2>11 DEF Report
<1>4. report'[a].phase # "loaded" \/ report'[a].says \in Closed
  <2>1. CASE ReportLoad(a)
    BY <2>1 DEF ReportLoad, TypeInv, TypeOK
  <2>2. CASE ReportAlreadyFinalized(a)
    BY <2>2 DEF ReportAlreadyFinalized
  <2>3. CASE ~(ReportLoad(a) \/ ReportAlreadyFinalized(a))
    <3>1. PICK phase \in {"idle", "stored", "repaired", "gated", "woken"} : Goto(a, phase)
      BY <2>3 DEF Report, ReportFails, ReportJobCancelled, ReportBlocked,
                  ReportIgnored, ReportRepair, ReportStore, AfterStore,
                  ReportGate, ReportWake, ReportFinish, Ended
    <3> QED
      BY <3>1 DEF Goto, NoReport, TypeInv, TypeOK
  <2> QED
    BY <2>1, <2>2, <2>3
<1>5. Rows'
  BY <1>1, <1>2, <1>3, <1>4, ReportRows
<1> QED
  BY <1>3, <1>5 DEF TypeInv

\* Opening a transaction changes nothing but that transaction.
LEMMA OpenTypeInv ==
    ASSUME TypeInv, NEW s \in Sessions, NEW writes \in Transactions,
           \A a \in AttemptIds : writes.atts[a] = None \/ a <= lastId,
           Open(s, writes), ops' \in Nat
    PROVE  TypeInv' /\ Kept
<1>1. TypeOK'
  BY DEF TypeInv, TypeOK, Open, dbVars
<1>2. Kept
  BY DEF Open, dbVars, Kept
<1>3. \A t \in Sessions, a \in AttemptIds : session'[t].atts[a] = None \/ a <= lastId
  BY DEF TypeInv, TypeOK, Rows, Open
<1>4. Rows'
  BY <1>2, <1>3, RowsKept DEF TypeInv, Rows, Open
<1> QED
  BY <1>1, <1>2, <1>4 DEF TypeInv

LEMMA WritingType ==
    ASSUME NEW j \in Jobs, NEW status \in JobStatus \cup {None},
           NEW S, NEW boot \in SUBSET Jobs
    PROVE  Writing(j, status, S, boot) \in Transactions
BY DEF Writing, Transactions, Closed, Terminal

LEMMA AdminTypeInv ==
    ASSUME TypeInv, NEW s \in Admins, Admin(s)
    PROVE  TypeInv' /\ Kept
<1> s \in Sessions
  BY DEF Sessions
<1>1. ops \in Nat
  BY DEF TypeInv, TypeOK
<1>2. PICK j \in Jobs : RetryLoad(s, j) \/ CancelLoad(s, j) \/ BootstrapLoad(s, j)
  BY DEF Admin
<1>3. CASE RetryLoad(s, j)
  <2>1. Writing(j, "pending", {}, {}) \in Transactions
    BY WritingType DEF JobStatus
  <2>2. \A a \in AttemptIds : Writing(j, "pending", {}, {}).atts[a] = None
    BY DEF Writing
  <2> QED
    BY <1>1, <1>3, <2>1, <2>2, OpenTypeInv DEF RetryLoad, AdminOpens
<1>4. CASE CancelLoad(s, j)
  <2> DEFINE S == RunningFor(att, j)
  <2>1. Writing(j, "cancelled", S, {}) \in Transactions
    BY WritingType DEF JobStatus, Closed, Terminal
  <2>2. \A a \in AttemptIds : Writing(j, "cancelled", S, {}).atts[a] = None \/ a <= lastId
    BY DEF Writing, RunningFor, Running, TypeInv, Rows
  <2> HIDE DEF S
  <2> QED
    BY <1>1, <1>4, <2>1, <2>2, OpenTypeInv DEF CancelLoad, AdminOpens, S
<1>5. CASE BootstrapLoad(s, j)
  <2> DEFINE e == Emit(job[j].status, "pending")
  <2>1. Writing(j, e, {}, {j}) \in Transactions
    BY WritingType DEF Emit, JobStatus
  <2>2. \A a \in AttemptIds : Writing(j, e, {}, {j}).atts[a] = None
    BY DEF Writing
  <2>3. Open(s, Writing(j, e, {}, {j})) /\ ops' \in Nat
    BY <1>1, <1>5 DEF BootstrapLoad, AdminOpens
  <2> HIDE DEF e
  <2> QED
    BY <2>1, <2>2, <2>3, OpenTypeInv
<1> QED
  BY <1>2, <1>3, <1>4, <1>5

-----------------------------------------------------------------------------
(* The sweep *)

\* Reconciling gives a job a status a job can have.
LEMMA FixedJobsType ==
    ASSUME TypeInv
    PROVE  FixedJobs(job, att) \in [Jobs -> JobRows]
<1> DEFINE S == OrphanJobs(job, att)
           f == [j \in Jobs |-> IF RowsOf(att, j) = {} THEN "failed"
                                ELSE att[Newest(RowsOf(att, j))].status]
<1>1. ASSUME NEW j \in S PROVE f[j] \in JobStatus
  <2>1. j \in Jobs
    BY DEF OrphanJobs
  <2>2. CASE RowsOf(att, j) = {}
    BY <2>1, <2>2 DEF JobStatus, Closed, Terminal
  <2>3. CASE RowsOf(att, j) # {}
    <3>1. Newest(RowsOf(att, j)) \in RowsOf(att, j)
      BY <2>3, NewestIsMember DEF RowsOf
    <3>2. att[Newest(RowsOf(att, j))].status \in Closed \cup {"running"}
      BY <3>1 DEF RowsOf, TypeInv, TypeOK, AttemptRows
    <3> QED
      BY <2>1, <2>3, <3>2 DEF JobStatus
  <2> QED
    BY <2>2, <2>3
<1>2. FixedJobs(job, att) = WithStatus(job, S, f)
  BY DEF FixedJobs
<1> HIDE DEF S, f
<1> QED
  BY <1>1, <1>2 DEF WithStatus, TypeInv, TypeOK, JobRows

LEMMA SweptJobsType ==
    ASSUME TypeInv
    PROVE  SweptJobs(job, att) \in [Jobs -> JobRows]
<1>1. FixedJobs(job, att) \in [Jobs -> JobRows]
  BY FixedJobsType
<1>2. "failed" \in JobStatus
  BY DEF JobStatus, Closed, Terminal
<1> DEFINE fixed == FixedJobs(job, att)
           S == StaleJobs(fixed, FixedAttempts(fixed, att))
<1>3. SweptJobs(job, att) = WithStatus(fixed, S, [j \in Jobs |-> "failed"])
  BY DEF SweptJobs
<1>4. S \subseteq Jobs
  BY DEF StaleJobs
<1> HIDE DEF fixed, S
<1>5. fixed \in [Jobs -> JobRows]
  BY <1>1 DEF fixed
<1> QED
  BY <1>2, <1>3, <1>4, <1>5 DEF WithStatus, JobRows

\* The sweep ends running attempts, none as a success, and touches no other.
Ending(at) ==
    /\ at \in [AttemptIds -> AttemptRows]
    /\ \A a \in AttemptIds :
          \/ at[a] = att[a]
          \/ att[a].status = "running" /\ at[a].status \in Closed \ {"success"}

LEMMA FixedAttemptsEnding ==
    ASSUME TypeInv, NEW jb \in [Jobs -> JobRows]
    PROVE  Ending(FixedAttempts(jb, att))
<1> DEFINE S == OrphanAttempts(jb, att)
           f == [a \in S |-> CASE jb[att[a].job].status = "pending" -> "cancelled"
                               [] jb[att[a].job].status = "success" -> "failed"
                               [] OTHER -> jb[att[a].job].status]
<1>1. ASSUME NEW a \in S
      PROVE  a \in AttemptIds /\ att[a].status = "running" /\ f[a] \in Closed \ {"success"}
  BY DEF OrphanAttempts, Running, Closed, Terminal
<1>2. FixedAttempts(jb, att) = WithStatus(att, S, f)
  BY DEF FixedAttempts
<1> HIDE DEF S, f
<1> QED
  BY <1>1, <1>2 DEF Ending, WithStatus, TypeInv, TypeOK, AttemptRows

LEMMA SweptAttemptsEnding ==
    ASSUME TypeInv
    PROVE  Ending(SweptAttempts(job, att))
<1> DEFINE fixed == FixedAttempts(FixedJobs(job, att), att)
<1>1. Ending(fixed)
  BY FixedJobsType, FixedAttemptsEnding
<1>2. SweptAttempts(job, att)
        = WithStatus(fixed, StaleAttempts(fixed), [a \in AttemptIds |-> "failed"])
  BY DEF SweptAttempts
<1> HIDE DEF fixed
<1>3. \A a \in StaleAttempts(fixed) : a \in AttemptIds /\ fixed[a].status = "running"
  BY DEF StaleAttempts, Running
<1>4. "failed" \in Closed \ {"success"} /\ "running" \notin Closed
  BY DEF Closed, Terminal
<1> QED
  BY <1>1, <1>2, <1>3, <1>4 DEF Ending, WithStatus, AttemptRows

LEMMA SweepLoadTypeInv ==
    ASSUME TypeInv, SweepLoad
    PROVE  TypeInv' /\ Kept
<1> DEFINE jb == SweptJobs(job, att)
           at == SweptAttempts(job, att)
           writes == [open |-> TRUE, boot |-> {},
                      jobs |-> [j \in Jobs |-> Emit(job[j].status, jb[j].status)],
                      atts |-> [a \in AttemptIds |-> Emit(att[a].status, at[a].status)]]
<1>1. jb \in [Jobs -> JobRows] /\ Ending(at)
  BY SweptJobsType, SweptAttemptsEnding
<1>2. Open(Sweeper, writes) /\ ops' = ops
  BY DEF SweepLoad
<1> HIDE DEF jb, at
<1>3. writes \in Transactions
  BY <1>1 DEF Transactions, Emit, JobRows, Ending
<1>4. \A a \in AttemptIds : writes.atts[a] = None \/ a <= lastId
  BY <1>1 DEF Ending, Emit, TypeInv, Rows
<1>5. Sweeper \in Sessions /\ ops' \in Nat
  BY <1>2 DEF Sessions, TypeInv, TypeOK
<1> HIDE DEF writes
<1> QED
  BY <1>2, <1>3, <1>4, <1>5, OpenTypeInv

-----------------------------------------------------------------------------
(* Commits, rollbacks, restarts and time *)

LEMMA ReconciledType ==
    ASSUME TypeInv, NEW at, NEW w \in Workers
    PROVE  Reconciled(at, w) \in WorkerRows
<1>1. RunningOn(at, w) \in SUBSET AttemptIds
  BY DEF RunningOn, Running
<1>2. Newest(RunningOn(at, w)) \in AttemptIds \cup {None}
  BY <1>1, NewestType
<1> QED
  BY <1>2 DEF Reconciled, TypeInv, TypeOK, WorkerRows

LEMMA CommitTypeInv ==
    ASSUME TypeInv, NEW s \in Sessions, Commit(s)
    PROVE  TypeInv' /\ Kept
<1>1. job' \in [Jobs -> JobRows]
  BY DEF Commit, CommittedJobs, JobRow, Apply, TypeInv, TypeOK, JobRows, Transactions
<1>2. att' \in [AttemptIds -> AttemptRows] /\ Kept
  <2>1. \A a \in AttemptIds :
           session[s].atts[a] # None =>
              a <= lastId /\ att[a].status # "none" /\ session[s].atts[a] \in Closed
    BY DEF TypeInv, TypeOK, Rows, Transactions
  <2>2. \A a \in AttemptIds :
           att'[a] = IF session[s].atts[a] = None THEN att[a]
                     ELSE Ends(att[a], session[s].atts[a])
    BY DEF Commit, CommittedAttempts
  <2>3. \A a \in AttemptIds, v \in Closed :
           /\ Ends(att[a], v) \in AttemptRows
           /\ Ends(att[a], v).status = v
           /\ Ends(att[a], v).job = att[a].job
           /\ Ends(att[a], v).worker = att[a].worker
    BY DEF TypeInv, TypeOK, Ends, AttemptRows
  <2>4. att \in [AttemptIds -> AttemptRows]
    BY DEF TypeInv, TypeOK
  <2>5. att' \in [AttemptIds -> AttemptRows]
    BY <2>1, <2>3, <2>4 DEF Commit, CommittedAttempts
  <2>6. Kept
    BY <2>1, <2>2, <2>3 DEF Kept, Commit
  <2> QED
    BY <2>5, <2>6
<1>3. worker' \in [Workers -> WorkerRows]
  BY SyncedType, ReconciledType DEF Commit, CommittedWorkers, TypeInv, TypeOK
<1>4. NoWrites \in Transactions
  BY DEF NoWrites, Transactions
<1>5. TypeOK'
  BY <1>1, <1>2, <1>3, <1>4 DEF Commit, TypeInv, TypeOK
<1>6. \A t \in Sessions, a \in AttemptIds : session'[t].atts[a] = None \/ a <= lastId
  BY DEF TypeInv, TypeOK, Rows, Commit, NoWrites
<1>7. Rows'
  BY <1>2, <1>6, RowsKept DEF TypeInv, Rows, Commit
<1> QED
  BY <1>2, <1>5, <1>7 DEF TypeInv

LEMMA RollbackTypeInv ==
    ASSUME TypeInv, NEW s \in Sessions, Rollback(s)
    PROVE  TypeInv' /\ Kept
<1>1. NoWrites \in Transactions
  BY DEF NoWrites, Transactions
<1>2. TypeOK'
  BY <1>1 DEF Rollback, TypeInv, TypeOK, dbVars, Fault
<1>3. Kept
  BY DEF Rollback, dbVars, Kept
<1>4. \A t \in Sessions, a \in AttemptIds : session'[t].atts[a] = None \/ a <= lastId
  BY DEF TypeInv, TypeOK, Rows, Rollback, NoWrites
<1>5. Rows'
  BY <1>3, <1>4, RowsKept DEF TypeInv, Rows, Rollback
<1> QED
  BY <1>2, <1>3, <1>5 DEF TypeInv

LEMMA ApiRestartsTypeInv ==
    ASSUME TypeInv, ApiRestarts
    PROVE  TypeInv' /\ Kept
<1>1. NoWrites \in Transactions /\ NoReport \in Requests
  BY DEF NoWrites, Transactions, NoReport, Requests, JobStatus
<1>2. TypeOK'
  BY <1>1 DEF ApiRestarts, TypeInv, TypeOK, dbVars, Fault
<1>3. Kept
  BY DEF ApiRestarts, dbVars, Kept
<1>4. /\ \A t \in Sessions, a \in AttemptIds : session'[t].atts[a] = None
      /\ \A a \in AttemptIds : report'[a].phase = "idle"
      /\ agent' = agent
  BY DEF ApiRestarts, NoWrites, NoReport
<1>5. \A a \in AttemptIds : report'[a].phase # "loaded" \/ report'[a].says \in Closed
  BY <1>4
<1>6. Rows'
  BY <1>3, <1>4, <1>5, RowsKept DEF TypeInv, Rows
<1> QED
  BY <1>2, <1>3, <1>6 DEF TypeInv

LEMMA TimeTypeInv ==
    ASSUME TypeInv, Time
    PROVE  TypeInv' /\ Kept
<1>1. ASSUME NEW a \in AttemptIds, AttemptOverdue(a) PROVE TypeOK' /\ Kept
  <2>1. PICK row \in AttemptRows :
           /\ row = [att[a] EXCEPT !.overdue = TRUE]
           /\ att' = [att EXCEPT ![a] = row]
    <3>1. att[a] \in AttemptRows
      BY <1>1 DEF TypeInv, TypeOK
    <3>2. [att[a] EXCEPT !.overdue = TRUE] \in AttemptRows
      BY <3>1 DEF AttemptRows
    <3> QED
      BY <1>1, <3>2 DEF AttemptOverdue
  <2>2. att' \in [AttemptIds -> AttemptRows]
    BY <2>1 DEF TypeInv, TypeOK
  <2>3. /\ att'[a].status = att[a].status
        /\ att'[a].job = att[a].job /\ att'[a].worker = att[a].worker
    BY <2>1 DEF TypeInv, TypeOK, AttemptRows
  <2>4. \A b \in AttemptIds \ {a} : att'[b] = att[b]
    BY <2>1 DEF TypeInv, TypeOK
  <2>5. Kept
    BY <1>1, <2>3, <2>4 DEF AttemptOverdue, Kept
  <2> QED
    BY <1>1, <2>2, <2>5 DEF AttemptOverdue, TypeInv, TypeOK
<1>2. ASSUME NEW j \in Jobs, JobOverdue(j) PROVE TypeOK' /\ Kept
  <2>1. job' \in [Jobs -> JobRows]
    BY <1>2 DEF JobOverdue, TypeInv, TypeOK, JobRows
  <2> QED
    BY <1>2, <2>1 DEF JobOverdue, TypeInv, TypeOK, Kept
<1>3. TypeOK' /\ Kept
  BY <1>1, <1>2 DEF Time
<1>4. agent' = agent /\ report' = report /\ session' = session
  BY DEF Time, AttemptOverdue, JobOverdue
<1>5. Rows'
  BY <1>3, <1>4, RowsKept DEF TypeInv, Rows
<1> QED
  BY <1>3, <1>5 DEF TypeInv

-----------------------------------------------------------------------------
(* The theorems *)

Claims == \E w \in Workers, j \in Jobs : PollClaim(w, j)

LEMMA StepTypeInv ==
    ASSUME TypeInv, [Next]_vars
    PROVE  TypeInv' /\ (Kept \/ Claims)
<1>1. CASE UNCHANGED vars
  BY <1>1 DEF vars, dbVars, TypeInv, TypeOK, Rows, Kept
<1>2. ASSUME NEW w \in Workers, Poll(w) PROVE TypeInv' /\ (Kept \/ Claims)
  <2>1. TypeInv'
    BY <1>2, PollTypeInv
  <2>2. Kept \/ Claims
    BY <1>2 DEF Poll, Heartbeat, PollNothing, Kept, Claims
  <2> QED
    BY <2>1, <2>2
<1>3. ASSUME NEW w \in Workers, WorkerDies(w) PROVE TypeInv' /\ (Kept \/ Claims)
  BY <1>3, WorkerDiesTypeInv
<1>4. ASSUME NEW a \in AttemptIds, Thread(a) PROVE TypeInv' /\ (Kept \/ Claims)
  BY <1>4, ThreadTypeInv
<1>5. ASSUME NEW a \in AttemptIds, Report(a) \/ ReportFails(a)
      PROVE  TypeInv' /\ (Kept \/ Claims)
  BY <1>5, ReportTypeInv
<1>6. ASSUME NEW s \in Admins, Admin(s) PROVE TypeInv' /\ (Kept \/ Claims)
  BY <1>6, AdminTypeInv
<1>7. CASE SweepLoad
  BY <1>7, SweepLoadTypeInv
<1>8. ASSUME NEW s \in Sessions, Commit(s) \/ Rollback(s)
      PROVE  TypeInv' /\ (Kept \/ Claims)
  BY <1>8, CommitTypeInv, RollbackTypeInv
<1>9. CASE ApiRestarts
  BY <1>9, ApiRestartsTypeInv
<1>10. CASE Time
  BY <1>10, TimeTypeInv
<1> QED
  BY <1>1, <1>2, <1>3, <1>4, <1>5, <1>6, <1>7, <1>8, <1>9, <1>10 DEF Next

\* Every variable keeps its type, whatever the instance: in particular no job
\* and no attempt is ever given a status outside its enumeration.
THEOREM TypeCorrect == Spec => []TypeOK
<1>1. TypeInv /\ [Next]_vars => TypeInv'
  BY StepTypeInv
<1>2. TypeInv => TypeOK
  BY DEF TypeInv
<1> QED
  BY InitTypeInv, <1>1, <1>2, PTL DEF Spec

\* A kept step can only take attempts out of the running ones, and a claim
\* adds the fresh id to those of one job and one worker.
LEMMA KeptRunning ==
    ASSUME Kept
    PROVE  /\ Running(att') \subseteq Running(att)
           /\ \A j \in Jobs : RunningFor(att', j) \subseteq RunningFor(att, j)
           /\ \A w \in Workers : RunningOn(att', w) \subseteq RunningOn(att, w)
<1>1. "running" \notin Closed
  BY DEF Closed, Terminal
<1>2. Running(att') \subseteq Running(att)
  BY <1>1 DEF Kept, Running
<1> QED
  BY <1>2 DEF Kept, Running, RunningFor, RunningOn

LEMMA ClaimRunning ==
    ASSUME TypeInv, NEW w \in Workers, NEW j \in Jobs, PollClaim(w, j),
           NEW a, a = lastId + 1
    PROVE  /\ a \in AttemptIds
           /\ att[a].status = "none" /\ a \notin Running(att)
           /\ Running(att') = Running(att) \cup {a}
           /\ att'[a].status = "running" /\ att'[a].job = j /\ att'[a].worker = w
           /\ \A b \in AttemptIds \ {a} : att'[b] = att[b]
           /\ RunningFor(att, j) = {}
           /\ Cardinality(RunningOn(att, w)) < MaxParallel[w]
<1>1. a \in AttemptIds /\ ~(a <= lastId)
  BY QueueAssumption DEF TypeInv, TypeOK, PollClaim, AttemptIds
<1>2. att[a].status = "none" /\ a \notin Running(att)
  BY <1>1 DEF TypeInv, Rows, Running
<1>3. att' = [att EXCEPT ![a] = [status |-> "running", job |-> j,
                                 worker |-> w, overdue |-> FALSE]]
  BY DEF PollClaim
<1>4. /\ att'[a] = [status |-> "running", job |-> j, worker |-> w, overdue |-> FALSE]
      /\ \A b \in AttemptIds \ {a} : att'[b] = att[b]
  BY <1>1, <1>3 DEF TypeInv, TypeOK
<1>5. Running(att') = Running(att) \cup {a}
  <2>1. ASSUME NEW b \in AttemptIds
        PROVE  att'[b].status = "running" <=> att[b].status = "running" \/ b = a
    <3>1. CASE b = a
      BY <1>4, <3>1
    <3>2. CASE b # a
      BY <1>4, <3>2
    <3> QED
      BY <3>1, <3>2
  <2> QED
    BY <1>1, <2>1, Zenon DEF Running
<1>6. HasRoom(w) /\ Claimable(j)
  BY DEF PollClaim
<1>7. RunningFor(att, j) = {} /\ Cardinality(RunningOn(att, w)) < MaxParallel[w]
  BY <1>6 DEF HasRoom, Claimable
<1> QED
  BY <1>1, <1>2, <1>4, <1>5, <1>7

\* A job is never built by two attempts at once, whatever retries, cancels,
\* sweeps and late results have made of the job row: poll_job looks at the
\* running attempts too, and nothing but a claim makes an attempt run.
THEOREM OneBuildPerJob == Spec => []OneRunningAttempt
<1> DEFINE Inv == TypeInv /\ OneRunningAttempt
<1>1. Init => Inv
  <2>1. Init => OneRunningAttempt
    BY DEF Init, OneRunningAttempt, RunningFor, Running
  <2> QED
    BY <2>1, InitTypeInv
<1>2. Inv /\ [Next]_vars => Inv'
  <2> SUFFICES ASSUME Inv, [Next]_vars PROVE Inv'
    OBVIOUS
  <2>1. TypeInv' /\ (Kept \/ Claims)
    BY StepTypeInv
  <2>2. CASE Kept
    BY <2>1, <2>2, KeptRunning DEF OneRunningAttempt
  <2>3. ASSUME NEW w \in Workers, NEW j \in Jobs, PollClaim(w, j)
        PROVE  OneRunningAttempt'
    <3>0. PICK new : new = lastId + 1
      OBVIOUS
    <3>1. /\ new \in AttemptIds
          /\ Running(att') = Running(att) \cup {new}
          /\ \A a \in AttemptIds \ {new} : att'[a] = att[a]
          /\ att'[new].job = j
          /\ RunningFor(att, j) = {}
      BY <2>3, <3>0, ClaimRunning
    <3>2. Running(att) \subseteq AttemptIds /\ new \notin Running(att)
      BY <2>3, <3>0, ClaimRunning DEF Running
    <3>3. RunningFor(att', j) = {new}
      BY <3>1, <3>2 DEF RunningFor
    <3>4. \A i \in Jobs \ {j} : RunningFor(att', i) = RunningFor(att, i)
      BY <3>1, <3>2 DEF RunningFor
    <3> QED
      BY <3>3, <3>4 DEF OneRunningAttempt
  <2> QED
    BY <2>1, <2>2, <2>3 DEF Claims
<1>3. Inv => OneRunningAttempt
  OBVIOUS
<1> QED
  BY <1>1, <1>2, <1>3, PTL DEF Spec

\* A worker never holds more running attempts than it declared room for.
THEOREM CapacityRespected == Spec => []WithinCapacity
<1> DEFINE Inv == TypeInv /\ WithinCapacity
<1>1. Init => Inv
  <2> SUFFICES ASSUME Init PROVE WithinCapacity
    BY InitTypeInv
  <2>1. \A w \in Workers : RunningOn(att, w) = {}
    BY DEF Init, RunningOn, Running
  <2>2. \A w \in Workers : MaxParallel[w] \in Nat
    BY QueueAssumption
  <2> QED
    BY <2>1, <2>2, FS_EmptySet DEF WithinCapacity
<1>2. Inv /\ [Next]_vars => Inv'
  <2> SUFFICES ASSUME Inv, [Next]_vars PROVE Inv'
    OBVIOUS
  <2>1. TypeInv' /\ (Kept \/ Claims)
    BY StepTypeInv
  <2>2. \A w \in Workers : /\ MaxParallel[w] \in Nat
                           /\ RunningOn(att, w) \in SUBSET AttemptIds
    BY QueueAssumption DEF RunningOn, Running
  <2>3. CASE Kept
    <3> SUFFICES ASSUME NEW w \in Workers
                 PROVE  Cardinality(RunningOn(att', w)) <= MaxParallel[w]
      BY <2>1 DEF WithinCapacity
    <3>1. RunningOn(att', w) \in SUBSET RunningOn(att, w)
      BY <2>3, KeptRunning
    <3>2. Cardinality(RunningOn(att', w)) <= Cardinality(RunningOn(att, w))
      BY <2>2, <3>1, AttemptsFinite, FS_Subset
    <3>3. Cardinality(RunningOn(att, w)) \in Nat /\ Cardinality(RunningOn(att', w)) \in Nat
      BY <2>2, <3>1, AttemptsFinite
    <3> QED
      BY <2>2, <3>2, <3>3 DEF WithinCapacity
  <2>4. ASSUME NEW w \in Workers, NEW j \in Jobs, PollClaim(w, j)
        PROVE  WithinCapacity'
    <3>0. PICK new : new = lastId + 1
      OBVIOUS
    <3>1. /\ new \in AttemptIds /\ new \notin Running(att)
          /\ Running(att') = Running(att) \cup {new}
          /\ \A a \in AttemptIds \ {new} : att'[a] = att[a]
          /\ att'[new].worker = w
          /\ Cardinality(RunningOn(att, w)) < MaxParallel[w]
      BY <2>4, <3>0, ClaimRunning
    <3>2. Running(att) \subseteq AttemptIds
      BY DEF Running
    <3>3. RunningOn(att', w) = RunningOn(att, w) \cup {new}
      BY <3>1, <3>2 DEF RunningOn
    <3>4. \A v \in Workers \ {w} : RunningOn(att', v) = RunningOn(att, v)
      BY <3>1, <3>2 DEF RunningOn
    <3>5. Cardinality(RunningOn(att', w)) = Cardinality(RunningOn(att, w)) + 1
      <4>1. new \notin RunningOn(att, w)
        BY <3>1 DEF RunningOn
      <4> QED
        BY <2>2, <3>3, <4>1, AttemptsFinite, FS_AddElement
    <3>6. Cardinality(RunningOn(att, w)) \in Nat
      BY <2>2, AttemptsFinite
    <3>7. Cardinality(RunningOn(att', w)) <= MaxParallel[w]
      BY <2>2, <3>1, <3>5, <3>6
    <3> QED
      BY <3>4, <3>7 DEF WithinCapacity
  <2> QED
    BY <2>1, <2>3, <2>4 DEF Claims
<1>3. Inv => WithinCapacity
  OBVIOUS
<1> QED
  BY <1>1, <1>2, <1>3, PTL DEF Spec

\* What FinalizedHasEnded needs of the requests: past its first commit a
\* request belongs to an attempt that has ended, and only attempts with a row
\* are finalized.
Reported ==
    /\ FinalizedHasEnded
    /\ \A a \in finalized : a <= lastId
    /\ \A a \in AttemptIds :
          report[a].phase \in {"stored", "repaired", "gated", "woken"}
             => a \notin Running(att)

\* A step of report_result leaves the request's own attempt ended whenever it
\* finalizes it or goes past the first commit.
LEMMA ReportEnds ==
    ASSUME TypeInv, Reported, NEW a \in AttemptIds, Report(a) \/ ReportFails(a)
    PROVE  /\ \A b \in AttemptIds \ {a} : report'[b] = report[b]
           /\ finalized' \subseteq finalized \cup {a}
           /\ \/ a \notin Running(att')
              \/ /\ report'[a].phase \in {"idle", "loaded"}
                 /\ finalized' = finalized
<1> USE DEF TypeInv, TypeOK, Goto, Ended, NoReport
<1>1. "running" \notin Closed
  BY DEF Closed, Terminal
<1>2. CASE ReportLoad(a) \/ ReportAlreadyFinalized(a) \/ ReportFails(a)
  BY <1>2, ReportHasRow DEF ReportLoad, ReportAlreadyFinalized, ReportFails, dbVars
<1>3. CASE ReportJobCancelled(a)
  <2>1. att'[a] = CancelledRow(att[a]) /\ att[a] \in AttemptRows
    BY <1>3 DEF ReportJobCancelled
  <2>2. att'[a].status # "running"
    BY <2>1 DEF CancelledRow, Ends, AttemptRows
  <2> QED
    BY <1>3, <2>2 DEF ReportJobCancelled, Running
<1>4. CASE ReportBlocked(a) \/ ReportRepair(a) \/ ReportStore(a)
  <2>1. report[a].says \in Closed
    BY <1>4 DEF ReportBlocked, ReportRepair, ReportStore, Rows
  <2>2. PICK v \in Closed : att' = [att EXCEPT ![a] = Ends(@, v)]
    BY <1>4, <2>1 DEF ReportBlocked, ReportRepair, ReportStore, StoreRows, Closed, Terminal
  <2>3. a \notin Running(att')
    BY <1>1, <2>2 DEF Running, Ends, AttemptRows
  <2>4. finalized' = finalized /\ \A b \in AttemptIds \ {a} : report'[b] = report[b]
    BY <1>4 DEF ReportBlocked, ReportRepair, ReportStore
  <2> QED
    BY <2>3, <2>4
<1>5. CASE ReportIgnored(a)
  BY <1>5 DEF ReportIgnored, dbVars
<1>6. CASE ReportGate(a) \/ ReportWake(a) \/ ReportFinish(a)
  <2>1. a \notin Running(att) /\ att' = att
    BY <1>6 DEF ReportGate, ReportWake, ReportFinish, Reported
  <2>2. /\ finalized' \subseteq finalized \cup {a}
        /\ \A b \in AttemptIds \ {a} : report'[b] = report[b]
    BY <1>6 DEF ReportGate, ReportWake, ReportFinish
  <2> QED
    BY <2>1, <2>2
<1> QED
  BY <1>2, <1>3, <1>4, <1>5, <1>6 DEF Report

\* No step takes the finalized attempts, or a request past its first commit,
\* back to a running attempt.
LEMMA StepReported ==
    ASSUME TypeInv, Reported, [Next]_vars
    PROVE  Reported'
<1>1. TypeInv' /\ (Kept \/ Claims)
  BY StepTypeInv
<1>2. ASSUME NEW w \in Workers, NEW j \in Jobs, PollClaim(w, j) PROVE Reported'
  <2>1. PICK new : new = lastId + 1
    OBVIOUS
  <2>2. /\ Running(att') = Running(att) \cup {new}
        /\ lastId \in Nat /\ lastId' = lastId + 1
        /\ finalized' = finalized /\ report' = report
    <3>1. Running(att') = Running(att) \cup {new}
      BY <1>2, <2>1, ClaimRunning
    <3>2. lastId \in Nat
      BY QueueAssumption DEF TypeInv, TypeOK
    <3> QED
      BY <1>2, <3>1, <3>2 DEF PollClaim
  <2>3. new \notin finalized /\ (new \in AttemptIds => report[new].phase = "idle")
    BY <2>1, <2>2 DEF Reported, TypeInv, Rows
  <2>4. \A a \in finalized : a \in Int
    BY QueueAssumption DEF TypeInv, TypeOK, AttemptIds
  <2>5. FinalizedHasEnded'
    BY <2>2, <2>3 DEF Reported, FinalizedHasEnded
  <2>6. \A a \in finalized' : a <= lastId'
    BY <2>2, <2>4 DEF Reported
  <2>7. \A a \in AttemptIds :
           report'[a].phase \in {"stored", "repaired", "gated", "woken"}
              => a \notin Running(att')
    BY <2>2, <2>3 DEF Reported
  <2> QED
    BY <2>5, <2>6, <2>7 DEF Reported
<1>3. ASSUME NEW a \in AttemptIds, Report(a) \/ ReportFails(a), Kept PROVE Reported'
  <2>1. /\ \A b \in AttemptIds \ {a} : report'[b] = report[b]
        /\ finalized' \subseteq finalized \cup {a}
        /\ \/ a \notin Running(att')
           \/ /\ report'[a].phase \in {"idle", "loaded"}
              /\ finalized' = finalized
    BY <1>3, ReportEnds
  <2>2. Running(att') \subseteq Running(att) /\ lastId' = lastId /\ a <= lastId
    BY <1>3, KeptRunning, ReportHasRow DEF Kept
  <2> QED
    BY <2>1, <2>2 DEF Reported, FinalizedHasEnded
<1>4. ASSUME Kept, finalized' = finalized,
             \A a \in AttemptIds : report'[a] = report[a] \/ report'[a].phase = "idle"
      PROVE  Reported'
  BY <1>4, KeptRunning DEF Reported, FinalizedHasEnded, Kept
<1>5. CASE Claims
  BY <1>2, <1>5 DEF Claims
<1>6. CASE Kept /\ ~(\E a \in AttemptIds : Report(a) \/ ReportFails(a))
  <2>1. /\ finalized' = finalized
        /\ \A a \in AttemptIds : report'[a] = report[a] \/ report'[a].phase = "idle"
    <3>1. CASE \E w \in Workers : Poll(w) \/ WorkerDies(w)
      BY <3>1 DEF Poll, Heartbeat, PollNothing, PollClaim, WorkerDies, dbVars
    <3>2. CASE \E a \in AttemptIds : Thread(a)
      BY <3>2 DEF Thread, Upload, Decide, Orphan, dbVars
    <3>3. CASE SweepLoad \/ \E s \in Admins : Admin(s)
      BY <3>3 DEF SweepLoad, Admin, RetryLoad, CancelLoad, BootstrapLoad,
                  AdminOpens, Open, dbVars
    <3>4. CASE \E s \in Sessions : Commit(s) \/ Rollback(s)
      BY <3>4 DEF Commit, Rollback, dbVars
    <3>5. CASE ApiRestarts
      BY <3>5 DEF ApiRestarts, NoReport, dbVars
    <3>6. CASE Time \/ UNCHANGED vars
      BY <3>6 DEF Time, AttemptOverdue, JobOverdue, vars, dbVars
    <3> QED
      BY <1>6, <3>1, <3>2, <3>3, <3>4, <3>5, <3>6 DEF Next
  <2> QED
    BY <1>4, <1>6, <2>1
<1> QED
  BY <1>1, <1>3, <1>5, <1>6

\* A finalized attempt has ended: a report that is answered "already
\* finalized" is never that of a build the controller still shows as running.
THEOREM FinalizedEnded == Spec => []FinalizedHasEnded
<1> DEFINE Inv == TypeInv /\ Reported
<1>1. Init => Inv
  <2>1. Init => Reported
    BY DEF Init, Reported, FinalizedHasEnded, NoReport
  <2> QED
    BY <2>1, InitTypeInv
<1>2. Inv /\ [Next]_vars => Inv'
  BY StepTypeInv, StepReported
<1>3. Inv => FinalizedHasEnded
  BY DEF Reported
<1> QED
  BY <1>1, <1>2, <1>3, PTL DEF Spec


\* What SuccessHasPackages needs: whoever is about to make an attempt a
\* success, or to hand it to the publish gate, holds its packages already, and
\* no sweep and no user makes a success.
Packaged ==
    /\ SuccessHasPackages
    /\ \A a \in AttemptIds :
          /\ agent[a] = "success" => a \in uploaded
          /\ report[a].phase = "loaded" /\ report[a].says = "success" => a \in uploaded
          /\ report[a].phase \in {"stored", "repaired"} => a \in uploaded
    /\ \A s \in Sessions, a \in AttemptIds : session[s].atts[a] # "success"

LEMMA NoneNoStatus == None # "success"
BY QueueAssumption DEF JobStatus, Closed, Terminal

LEMMA OpenPackaged ==
    ASSUME TypeInv, Packaged, NEW s \in Sessions, NEW writes, Open(s, writes),
           \A a \in AttemptIds : writes.atts[a] # "success"
    PROVE  Packaged'
BY DEF TypeInv, TypeOK, Packaged, SuccessHasPackages, Open, dbVars

LEMMA ReportPackaged ==
    ASSUME TypeInv, Packaged, NEW a \in AttemptIds, Report(a) \/ ReportFails(a)
    PROVE  Packaged'
<1> DEFINE PackagedAt(b) ==
              /\ att'[b].status = "success" \/ b \in gated' => b \in uploaded'
              /\ agent'[b] = "success" => b \in uploaded'
              /\ report'[b].phase = "loaded" /\ report'[b].says = "success" => b \in uploaded'
              /\ report'[b].phase \in {"stored", "repaired"} => b \in uploaded'
<1>1. session' = session /\ uploaded' = uploaded
  BY DEF Report, ReportFails, ReportLoad, ReportAlreadyFinalized,
         ReportJobCancelled, ReportBlocked, ReportIgnored, ReportRepair,
         ReportStore, ReportGate, ReportWake, ReportFinish, dbVars
<1>2. \A b \in AttemptIds \ {a} :
         /\ att'[b] = att[b] /\ agent'[b] = agent[b] /\ report'[b] = report[b]
         /\ b \in gated' <=> b \in gated
  <2> USE DEF TypeInv, TypeOK, Goto, Ended, Answered
  <2>1. CASE ReportLoad(a) \/ ReportAlreadyFinalized(a) \/ ReportFails(a)
    BY <2>1 DEF ReportLoad, ReportAlreadyFinalized, ReportFails, dbVars
  <2>2. CASE ReportJobCancelled(a) \/ ReportBlocked(a) \/ ReportIgnored(a)
    BY <2>2 DEF ReportJobCancelled, ReportBlocked, ReportIgnored, StoreRows, dbVars
  <2>3. CASE ReportRepair(a) \/ ReportStore(a)
    BY <2>3 DEF ReportRepair, ReportStore, StoreRows
  <2>4. CASE ReportGate(a) \/ ReportWake(a) \/ ReportFinish(a)
    BY <2>4 DEF ReportGate, ReportWake, ReportFinish
  <2> QED
    BY <2>1, <2>2, <2>3, <2>4 DEF Report
<1>3. \A b \in AttemptIds \ {a} : PackagedAt(b)
  BY <1>1, <1>2 DEF Packaged, SuccessHasPackages
<1>4. agent'[a] = "success" => a \in uploaded
  <2>1. agent'[a] = "done" \/ agent' = agent
    BY DEF TypeInv, TypeOK, Report, ReportFails, ReportLoad, ReportAlreadyFinalized,
           ReportJobCancelled, ReportBlocked, ReportIgnored, ReportRepair,
           ReportStore, ReportGate, ReportWake, ReportFinish, Answered, dbVars
  <2> QED
    BY <2>1 DEF Packaged
<1>5. PackagedAt(a)
  <2> USE DEF TypeInv, TypeOK, Goto, Ended, NoReport
  <2>1. CASE ReportLoad(a)
    BY <1>1, <1>4, <2>1 DEF ReportLoad, dbVars, Packaged, SuccessHasPackages
  <2>2. CASE ReportAlreadyFinalized(a) \/ ReportFails(a) \/ ReportIgnored(a)
    BY <1>1, <1>4, <2>2 DEF ReportAlreadyFinalized, ReportFails, ReportIgnored,
                            dbVars, Packaged, SuccessHasPackages
  <2>3. CASE ReportJobCancelled(a)
    <3>1. att'[a] = CancelledRow(att[a]) /\ att[a] \in AttemptRows
      BY <2>3 DEF ReportJobCancelled
    <3>2. att'[a].status = "success" => att[a].status = "success"
      BY <3>1 DEF CancelledRow, Ends, AttemptRows
    <3> QED
      BY <1>1, <1>4, <2>3, <3>2 DEF ReportJobCancelled, Packaged, SuccessHasPackages
  <2>4. CASE ReportBlocked(a)
    <3>1. att'[a].status = "blocked"
      BY <2>4 DEF ReportBlocked, StoreRows, Ends, AttemptRows
    <3> QED
      BY <1>1, <1>4, <2>4, <3>1 DEF ReportBlocked, Packaged, SuccessHasPackages
  <2>5. CASE ReportRepair(a)
    <3>1. a \in uploaded
      BY <2>5 DEF ReportRepair, StaleFailure
    <3> QED
      BY <1>1, <3>1
  <2>6. CASE ReportStore(a)
    <3>1. att'[a].status = report[a].says /\ gated' = gated
      BY <2>6 DEF ReportStore, StoreRows, Ends, AttemptRows
    <3>2. report'[a].phase # "loaded"
      BY <2>6 DEF ReportStore, AfterStore
    <3>3. report'[a].phase \in {"stored", "repaired"} => report[a].says = "success"
      BY <2>6 DEF ReportStore, AfterStore
    <3>4. report[a].says = "success" => a \in uploaded
      BY <2>6 DEF ReportStore, Packaged
    <3> QED
      BY <1>1, <1>4, <3>1, <3>2, <3>3, <3>4 DEF Packaged, SuccessHasPackages
  <2>7. CASE ReportGate(a)
    <3>1. a \in uploaded
      BY <2>7 DEF ReportGate, Packaged
    <3> QED
      BY <1>1, <3>1
  <2>8. CASE ReportWake(a) \/ ReportFinish(a)
    BY <1>1, <1>4, <2>8 DEF ReportWake, ReportFinish, Packaged, SuccessHasPackages
  <2> QED
    BY <2>1, <2>2, <2>3, <2>4, <2>5, <2>6, <2>7, <2>8 DEF Report
<1>6. \A b \in AttemptIds : PackagedAt(b)
  BY <1>3, <1>5
<1> HIDE DEF PackagedAt
<1>7. SuccessHasPackages'
  BY <1>6 DEF PackagedAt, SuccessHasPackages
<1> QED
  BY <1>1, <1>6, <1>7 DEF PackagedAt, Packaged

LEMMA StepPackaged ==
    ASSUME TypeInv, Packaged, [Next]_vars
    PROVE  Packaged'
<1> USE DEF TypeInv, TypeOK, Packaged, SuccessHasPackages
<1>1. CASE UNCHANGED vars
  BY <1>1 DEF vars, dbVars
<1>2. ASSUME NEW w \in Workers, Heartbeat(w) \/ PollNothing(w) \/ WorkerDies(w)
      PROVE  Packaged'
  BY <1>2 DEF Heartbeat, PollNothing, WorkerDies, dbVars
<1>3. ASSUME NEW w \in Workers, NEW j \in Jobs, PollClaim(w, j) PROVE Packaged'
  <2>1. PICK new : new = lastId + 1
    OBVIOUS
  <2>2. /\ new \in AttemptIds
        /\ att'[new].status = "running"
        /\ \A b \in AttemptIds \ {new} : att'[b] = att[b]
    BY <1>3, <2>1, ClaimRunning
  <2>3. /\ gated' = gated /\ uploaded' = uploaded
        /\ report' = report /\ session' = session
        /\ \A a \in AttemptIds : agent'[a] = agent[a] \/ agent'[a] \in {"building", "done"}
    BY <1>3 DEF PollClaim
  <2>4. new \in gated => new \in uploaded
    OBVIOUS
  <2> QED
    BY <2>2, <2>3, <2>4
<1>4. ASSUME NEW a \in AttemptIds, Thread(a) PROVE Packaged'
  BY <1>4 DEF Thread, Upload, Decide, Orphan, dbVars
<1>5. ASSUME NEW a \in AttemptIds, Report(a) \/ ReportFails(a) PROVE Packaged'
  BY <1>5, ReportPackaged
<1>6. ASSUME NEW s \in Admins, NEW j \in Jobs,
             RetryLoad(s, j) \/ CancelLoad(s, j) \/ BootstrapLoad(s, j)
      PROVE  Packaged'
  <2>1. PICK status, S, boot : Open(s, Writing(j, status, S, boot))
    BY <1>6 DEF RetryLoad, CancelLoad, BootstrapLoad, AdminOpens
  <2>2. \A a \in AttemptIds : Writing(j, status, S, boot).atts[a] # "success"
    BY NoneNoStatus DEF Writing
  <2>3. s \in Sessions
    BY DEF Sessions
  <2> QED
    BY <2>1, <2>2, <2>3, OpenPackaged
<1>7. CASE SweepLoad
  <2> DEFINE at == SweptAttempts(job, att)
             writes == [open |-> TRUE, boot |-> {},
                        jobs |-> [j \in Jobs |-> Emit(job[j].status, SweptJobs(job, att)[j].status)],
                        atts |-> [a \in AttemptIds |-> Emit(att[a].status, at[a].status)]]
  <2>1. Open(Sweeper, writes)
    BY <1>7 DEF SweepLoad
  <2>2. Ending(at)
    BY SweptAttemptsEnding
  <2> HIDE DEF at
  <2>3. \A a \in AttemptIds : writes.atts[a] # "success"
    BY <2>2, NoneNoStatus DEF Emit, Ending
  <2>4. Sweeper \in Sessions
    BY DEF Sessions
  <2> HIDE DEF writes
  <2> QED
    BY <2>1, <2>3, <2>4, OpenPackaged
<1>8. ASSUME NEW s \in Sessions, Commit(s) PROVE Packaged'
  <2>1. \A a \in AttemptIds : att'[a].status = "success" => att[a].status = "success"
    BY <1>8 DEF Commit, CommittedAttempts, Ends, AttemptRows
  <2>2. \A t \in Sessions, a \in AttemptIds : session'[t].atts[a] # "success"
    BY <1>8, NoneNoStatus DEF Commit, NoWrites
  <2> QED
    BY <1>8, <2>1, <2>2 DEF Commit
<1>9. ASSUME NEW s \in Sessions, Rollback(s) PROVE Packaged'
  BY <1>9, NoneNoStatus DEF Rollback, NoWrites, dbVars
<1>10. CASE ApiRestarts
  BY <1>10, NoneNoStatus DEF ApiRestarts, NoWrites, NoReport, dbVars
<1>11. CASE Time
  <2>1. \A a \in AttemptIds : att'[a].status = att[a].status
    BY <1>11 DEF Time, AttemptOverdue, JobOverdue, AttemptRows
  <2>2. UNCHANGED <<uploaded, gated, agent, report, session>>
    BY <1>11 DEF Time, AttemptOverdue, JobOverdue
  <2> QED
    BY <2>1, <2>2
<1> QED
  BY <1>1, <1>2, <1>3, <1>4, <1>5, <1>6, <1>7, <1>8, <1>9, <1>10, <1>11
     DEF Next, Poll, Admin

\* A success left packages behind, also one restored from a failure.
THEOREM SuccessesPackaged == Spec => []SuccessHasPackages
<1> DEFINE Inv == TypeInv /\ Packaged
<1>1. Init => Inv
  <2>1. Init => Packaged
    BY NoneNoStatus DEF Init, Packaged, SuccessHasPackages, NoReport, NoWrites
  <2> QED
    BY <2>1, InitTypeInv
<1>2. Inv /\ [Next]_vars => Inv'
  BY StepTypeInv, StepPackaged
<1>3. Inv => SuccessHasPackages
  BY DEF Packaged
<1> QED
  BY <1>1, <1>2, <1>3, PTL DEF Spec

-----------------------------------------------------------------------------
(* The queue implements the leases *)

LeaseIds == {a \in AttemptIds : att[a].status # "none"}
LeaseOf  == [a \in AttemptIds |-> [job |-> att[a].job, worker |-> att[a].worker]]

\* A claim is the grant of a lease that was never issued, on a job and to a
\* worker that may take it.
LEMMA ClaimGrants ==
    ASSUME TypeInv, NEW w \in Workers, NEW j \in Jobs, PollClaim(w, j)
    PROVE  Leases!Next
<1>1. PICK new : new = lastId + 1
  OBVIOUS
<1>2. /\ new \in AttemptIds
      /\ att[new].status = "none" /\ new \notin Running(att)
      /\ Running(att') = Running(att) \cup {new}
      /\ att'[new].status = "running" /\ att'[new].job = j /\ att'[new].worker = w
      /\ \A b \in AttemptIds \ {new} : att'[b] = att[b]
      /\ RunningFor(att, j) = {}
      /\ Cardinality(RunningOn(att, w)) < MaxParallel[w]
  BY <1>1, ClaimRunning
<1>3. Running(att) \subseteq AttemptIds
  BY DEF Running
<1>4. /\ {a \in Running(att) : LeaseOf[a].job = j} = RunningFor(att, j)
      /\ {a \in Running(att) : LeaseOf[a].worker = w} = RunningOn(att, w)
  BY <1>3 DEF LeaseOf, RunningFor, RunningOn
<1>5. LeaseIds' = LeaseIds \cup {new} /\ new \notin LeaseIds
  BY <1>2 DEF LeaseIds
<1>6. LeaseOf' = [LeaseOf EXCEPT ![new] = [job |-> j, worker |-> w]]
  BY <1>2 DEF LeaseOf
<1>7. Leases!Cardinality(RunningOn(att, w)) = Cardinality(RunningOn(att, w))
  BY Zenon DEF Cardinality, Leases!Cardinality
<1>8. Leases!Grant(new, j, w)
  <2>1. new \notin LeaseIds /\ LeaseIds' = LeaseIds \cup {new}
    BY <1>5
  <2>2. Leases!HeldOn(j) = {}
    BY <1>2, <1>4 DEF Leases!HeldOn, LeaseOf
  <2>3. Leases!HeldBy(w) = RunningOn(att, w)
    BY <1>4 DEF Leases!HeldBy, LeaseOf
  <2>4. Leases!Cardinality(Leases!HeldBy(w)) < MaxParallel[w]
    BY <1>2, <1>7, <2>3
  <2> QED
    BY <1>2, <1>6, <2>1, <2>2, <2>4 DEF Leases!Grant, LeaseIds, LeaseOf
<1> QED
  BY <1>2, <1>8 DEF Leases!Next

\* A step that keeps the attempts ends the leases it ends, or changes nothing.
LEMMA KeptReleases ==
    ASSUME TypeInv, Kept
    PROVE  [Leases!Next]_Leases!vars
<1> DEFINE S == Running(att) \ Running(att')
<1>1. Running(att') \subseteq Running(att)
  BY KeptRunning
<1>2. LeaseIds' = LeaseIds
  BY DEF LeaseIds, Kept, Closed, Terminal
<1>3. LeaseOf' = LeaseOf
  BY DEF LeaseOf, Kept
<1>4. CASE S = {}
  <2>1. Running(att') = Running(att)
    BY <1>1, <1>4
  <2> QED
    BY <1>2, <1>3, <2>1 DEF Leases!vars, LeaseIds, LeaseOf
<1>5. CASE S # {}
  <2>1. S \in SUBSET Running(att) /\ Running(att') = Running(att) \ S
    BY <1>1
  <2> HIDE DEF S
  <2>2. Leases!Release(S)
    BY <1>2, <1>3, <1>5, <2>1 DEF Leases!Release, LeaseIds, LeaseOf
  <2> QED
    BY <2>1, <2>2 DEF Leases!Next
<1> QED
  BY <1>4, <1>5

\* The build queue implements its lease specification: attempts are granted
\* once, end once, and are never taken up again.
THEOREM QueueImplementsLeases == Spec => ImplementsLeases
<1>1. Init => Leases!Init
  BY DEF Init, Leases!Init, Running
<1>2. TypeInv /\ [Next]_vars => TypeInv' /\ [Leases!Next]_Leases!vars
  <2> SUFFICES ASSUME TypeInv, [Next]_vars
               PROVE  TypeInv' /\ [Leases!Next]_Leases!vars
    OBVIOUS
  <2>1. TypeInv' /\ (Kept \/ Claims)
    BY StepTypeInv
  <2>2. CASE Kept
    BY <2>1, <2>2, KeptReleases
  <2>3. CASE Claims
    BY <2>1, <2>3, ClaimGrants DEF Claims
  <2> QED
    BY <2>1, <2>2, <2>3
<1> QED
  BY InitTypeInv, <1>1, <1>2, PTL DEF Spec, ImplementsLeases, Leases!Spec
=============================================================================
