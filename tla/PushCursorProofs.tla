-------------------------- MODULE PushCursorProofs --------------------------
(***************************************************************************)
(* PushCursor for any branches, pushes, cap and faults: types, that one    *)
(* catch-up cycle keeps to its cap, and that the cursor passes no change   *)
(* that is neither built nor given up for a reason the code has.           *)
(***************************************************************************)
EXTENDS PushCursor, TLAPS, FiniteSetTheorems

AllPackages == UNION {Packages(b) : b \in Branches}

Settled(c) == built[c[3]] >= c[2] \/ GivenUp(c)

\* What a delivery has read accounts for its push.
HooksComplete ==
    \A b \in Branches : \A n \in Pushes(b) :
        delivery[b][n].stage = "read" =>
            \A c \in Changed(b, n - 1, n) :
                c[3] \in delivery[b][n].jobs \/ c \in delivery[b][n].cut

\* A delivery that is done leaves nothing of its push behind.
DoneIsBuilt ==
    \A c \in Changes : delivery[c[1]][c[2]].stage = "done" => built[c[3]] >= c[2] \/ c \in gaps

\* A cycle that moves a cursor has accounted for all that lies behind it.
CycleComplete ==
    \A c \in Changes :
        c[2] <= cycle.write[c[1]] => Settled(c) \/ c[3] \in cycle.jobs \/ c \in cycle.cut

CapCounted ==
    /\ IsFiniteSet(cycle.jobs)
    /\ Cardinality(cycle.jobs) + cycle.left <= JobCap

Inv == TypeOK /\ HooksComplete /\ DoneIsBuilt /\ CycleComplete /\ CapCounted /\ NothingSkipped

-----------------------------------------------------------------------------
(* Changes and jobs *)

LEMMA ChangeParts ==
    ASSUME NEW c \in Changes
    PROVE  /\ c[1] \in Branches /\ c[2] \in Pushes(c[1]) /\ c[3] \in Packages(c[1])
           /\ c[2] \in Nat /\ c[2] >= 1
           /\ c[3] \in AllPackages
BY DEF Changes, Pushes, AllPackages

LEMMA ChangedParts ==
    ASSUME NEW b \in Branches, NEW from, NEW to
    PROVE  /\ Changed(b, from, to) \in SUBSET Changes
           /\ Names(Changed(b, from, to)) \in SUBSET Packages(b)
           /\ \A c \in Changes : (c \in Changed(b, from, to) <=> c[1] = b /\ from < c[2] /\ c[2] <= to)
BY ChangeParts DEF Changed, Names

LEMMA ViewParts ==
    ASSUME NEW b \in Branches, NEW from, NEW to, NEW view \in Views(b, Changed(b, from, to))
    PROVE  view \in SUBSET Packages(b) /\ IsFiniteSet(view)
<1>1. view \in SUBSET Packages(b)
  BY ChangedParts DEF Views
<1> QED
  BY <1>1, PushAssumption, FS_Subset

\* A package belongs to one branch.
LEMMA OwnerOf ==
    ASSUME NEW b \in Branches, NEW p \in Packages(b)
    PROVE  (CHOOSE x \in Branches : p \in Packages(x)) = b
<1> DEFINE o == CHOOSE x \in Branches : p \in Packages(x)
<1>1. o \in Branches /\ p \in Packages(o)
  OBVIOUS
<1>2. o # b => Packages(o) \cap Packages(b) = {}
  BY <1>1, PushAssumption
<1> QED
  BY <1>1, <1>2

\* Jobs build the tip, and nothing is built less than before.
LEMMA EnqueueBuilds ==
    ASSUME TypeOK, NEW jobs, Enqueue(jobs), tip' = tip
    PROVE  /\ built' \in [AllPackages -> Nat]
           /\ \A b \in Branches : \A p \in Packages(b) :
                 /\ built'[p] = IF p \in jobs THEN tip[b] ELSE built[p]
                 /\ built'[p] >= built[p] /\ built'[p] <= tip[b]
<1>1. built \in [AllPackages -> Nat] /\ DOMAIN built = AllPackages
  BY DEF TypeOK, AllPackages
<1>2. \A b \in Branches : \A p \in Packages(b) :
         built'[p] = IF p \in jobs THEN tip[b] ELSE built[p]
  <2> TAKE b \in Branches
  <2> TAKE p \in Packages(b)
  <2>1. p \in AllPackages
    BY DEF AllPackages
  <2>2. built'[p] = IF p \in jobs THEN tip[CHOOSE x \in Branches : p \in Packages(x)] ELSE built[p]
    BY <1>1, <2>1 DEF Enqueue
  <2> QED
    BY <2>2, OwnerOf
<1>3. \A b \in Branches : tip[b] \in Nat /\ \A p \in Packages(b) : built[p] \in Nat /\ built[p] <= tip[b]
  BY <1>1 DEF TypeOK, AllPackages
<1>4. \A p \in AllPackages : built'[p] \in Nat
  BY <1>2, <1>3 DEF AllPackages
<1>5. built' = [p \in AllPackages |-> built'[p]]
  BY <1>1 DEF Enqueue
<1>6. built' \in [AllPackages -> Nat]
  BY <1>4, <1>5
<1>7. \A b \in Branches : \A p \in Packages(b) : built'[p] >= built[p] /\ built'[p] <= tip[b]
  BY <1>2, <1>3
<1> QED
  BY <1>2, <1>6, <1>7

\* What is settled stays so while jobs and gaps only grow, and a delivery is
\* done only with what it stands for.
LEMMA SettledStays ==
    ASSUME NEW c \in Changes, Settled(c),
           built[c[3]] \in Nat, built'[c[3]] \in Nat, built'[c[3]] >= built[c[3]],
           gaps \subseteq gaps', jumped \subseteq jumped',
           \/ delivery'[c[1]][c[2]].stage # "done"
           \/ delivery[c[1]][c[2]].stage = "done"
           \/ built'[c[3]] >= c[2] \/ c \in gaps'
    PROVE  Settled(c)'
BY ChangeParts DEF Settled, GivenUp

LEMMA BuiltIsNat ==
    ASSUME TypeOK, NEW c \in Changes
    PROVE  built[c[3]] \in Nat
BY ChangeParts DEF TypeOK, AllPackages

\* A step that changes one delivery.
LEMMA DeliveryTypes ==
    ASSUME TypeOK, NEW b \in Branches, NEW n \in Pushes(b), NEW h \in Hooks(b),
           delivery' = [delivery EXCEPT ![b][n] = h]
    PROVE  /\ delivery' = [x \in Branches |-> delivery'[x]]
           /\ \A x \in Branches : delivery'[x] \in [Pushes(x) -> Hooks(x)]
           /\ delivery'[b][n] = h
           /\ \A x \in Branches : \A m \in Pushes(x) :
                 x # b \/ m # n => delivery'[x][m] = delivery[x][m]
<1>1. /\ delivery = [x \in Branches |-> delivery[x]]
      /\ \A x \in Branches : delivery[x] \in [Pushes(x) -> Hooks(x)]
  BY DEF TypeOK
<1>2. delivery' = [delivery EXCEPT ![b] = [delivery[b] EXCEPT ![n] = h]]
  OBVIOUS
<1>3. delivery'[b] = [delivery[b] EXCEPT ![n] = h] /\ \A x \in Branches : x # b => delivery'[x] = delivery[x]
  BY <1>1, <1>2
<1>4. delivery'[b] \in [Pushes(b) -> Hooks(b)]
  BY <1>1, <1>3
<1>5. delivery' = [x \in Branches |-> delivery'[x]]
  BY <1>1, <1>2
<1> QED
  BY <1>1, <1>3, <1>4, <1>5

LEMMA QuietHook ==
    ASSUME NEW b \in Branches,
           NEW s \in {"none", "sent", "read", "done", "lost"}
    PROVE  [Quiet EXCEPT !.stage = s] \in Hooks(b) /\ [Quiet EXCEPT !.stage = s].stage = s
BY DEF Quiet, Hooks, NoRow

-----------------------------------------------------------------------------
(* Pushes and their deliveries *)

\* Only a delivery changes, and it is not done.
LEMMA CalmStep ==
    ASSUME Inv, UNCHANGED <<cursor, cycle, built, gaps, jumped>>,
           \A b \in Branches : \A n \in Pushes(b) :
               delivery'[b][n] = delivery[b][n] \/ delivery'[b][n].stage # "done"
    PROVE  DoneIsBuilt' /\ CycleComplete' /\ CapCounted' /\ NothingSkipped'
<1> USE DEF Inv
<1>1. \A c \in Changes : /\ delivery'[c[1]][c[2]] = delivery[c[1]][c[2]]
                            \/ delivery'[c[1]][c[2]].stage # "done"
                         /\ Settled(c) => Settled(c)'
  BY ChangeParts DEF Settled, GivenUp
<1>2. DoneIsBuilt'
  BY <1>1 DEF DoneIsBuilt
<1>3. CycleComplete'
  BY <1>1 DEF CycleComplete
<1>4. CapCounted'
  BY DEF CapCounted
<1>5. NothingSkipped'
  BY <1>1 DEF NothingSkipped, Settled
<1> QED
  BY <1>2, <1>3, <1>4, <1>5

LEMMA PushStep ==
    ASSUME Inv, NEW b \in Branches, Push(b)
    PROVE  Inv'
<1> USE DEF Inv
<1>1. /\ tip \in [Branches -> Nat] /\ tip[b] < Len(Touches[b]) /\ Len(Touches[b]) \in Nat
      /\ tip' = [tip EXCEPT ![b] = tip[b] + 1]
      /\ UNCHANGED <<cursor, cycle, built, gaps, jumped, faults>>
  BY PushAssumption DEF Push, TypeOK
<1>2. PICK n \in Pushes(b) : n = tip[b] + 1
  BY <1>1 DEF Pushes
<1>3. tip' \in [Branches -> Nat] /\ tip'[b] = n /\ \A x \in Branches : x # b => tip'[x] = tip[x]
  BY <1>1, <1>2
<1>4. PICK h \in Hooks(b) :
         delivery' = [delivery EXCEPT ![b][n] = h] /\ h.stage \in {"sent", "lost"}
  <2>1. delivery' = [delivery EXCEPT ![b][n] =
                       [Quiet EXCEPT !.stage = IF b \in Hooked THEN "sent" ELSE "lost"]]
    BY <1>1, <1>2 DEF Push, Deliver
  <2> QED
    BY <2>1, QuietHook
<1>5. /\ delivery' = [x \in Branches |-> delivery'[x]]
      /\ \A x \in Branches : delivery'[x] \in [Pushes(x) -> Hooks(x)]
      /\ delivery'[b][n] = h
      /\ \A x \in Branches : \A m \in Pushes(x) :
            x # b \/ m # n => delivery'[x][m] = delivery[x][m]
  <2>1. TypeOK /\ h \in Hooks(b) /\ delivery' = [delivery EXCEPT ![b][n] = h]
    BY <1>4
  <2> HIDE DEF Inv
  <2> QED
    BY <2>1, DeliveryTypes
<1>6. TypeOK'
  <2>1. \A x \in Branches :
          /\ tip'[x] <= Len(Touches[x]) /\ NoRow <= cursor'[x] /\ cursor'[x] <= tip'[x]
          /\ cycle'.write[x] <= tip'[x] /\ (cycle'.at = x => cycle'.head <= tip'[x])
    <3> TAKE x \in Branches
    <3>1. /\ tip[x] <= Len(Touches[x]) /\ NoRow <= cursor[x] /\ cursor[x] <= tip[x]
          /\ cycle.write[x] <= tip[x] /\ (cycle.at = x => cycle.head <= tip[x])
          /\ cursor[x] \in Int /\ tip[x] \in Nat
      BY DEF TypeOK
    <3>2. cycle.write[x] \in Int /\ cycle.head \in Nat /\ Len(Touches[x]) \in Nat
      BY PushAssumption DEF TypeOK, Sessions, NoWrite
    <3>3. tip'[x] \in Nat /\ tip[x] <= tip'[x] /\ tip'[x] <= Len(Touches[x])
      BY <1>1, <1>2, <1>3, <3>1, <3>2
    <3> HIDE DEF Inv
    <3> QED
      BY <1>1, <3>1, <3>2, <3>3 DEF NoRow
  <2>2. \A x \in Branches : \A p \in Packages(x) : built'[p] <= tip'[x]
    <3> TAKE x \in Branches
    <3> TAKE p \in Packages(x)
    <3>1. built[p] \in Nat /\ built[p] <= tip[x] /\ tip[x] \in Nat
      <4>1. p \in AllPackages
        BY DEF AllPackages
      <4> QED
        BY <4>1 DEF TypeOK, AllPackages
    <3> QED
      BY <1>1, <1>2, <1>3, <3>1
  <2>3. \A x \in Branches : \A m \in Pushes(x) : delivery'[x][m].stage = "none" <=> m > tip'[x]
    <3> TAKE x \in Branches
    <3> TAKE m \in Pushes(x)
    <3>1. CASE x = b /\ m = n
      BY <1>3, <1>4, <1>5, <3>1
    <3>2. CASE x # b
      BY <1>3, <1>5, <3>2 DEF TypeOK
    <3>3. CASE x = b /\ m # n
      <4>1. m \in Nat /\ (m > n <=> m > tip[b])
        BY <1>1, <1>2, <3>3 DEF Pushes
      <4> QED
        BY <1>3, <1>5, <3>3, <4>1 DEF TypeOK
    <3> QED
      BY <3>1, <3>2, <3>3
  <2>4. cycle' \in Sessions' /\ built' \in [AllPackages -> Nat] /\ cursor' \in [Branches -> Int]
        /\ gaps' \subseteq Changes /\ jumped' \subseteq Changes /\ faults' \in Nat
    BY <1>1 DEF TypeOK, Sessions, AllPackages
  <2> HIDE DEF Inv
  <2> QED
    BY <1>3, <1>5, <2>1, <2>2, <2>3, <2>4 DEF TypeOK, AllPackages
<1>7. HooksComplete'
  BY <1>4, <1>5 DEF HooksComplete
<1>8. \A x \in Branches : \A m \in Pushes(x) :
         delivery'[x][m] = delivery[x][m] \/ delivery'[x][m].stage # "done"
  BY <1>4, <1>5
<1> QED
  BY <1>1, <1>6, <1>7, <1>8, CalmStep

\* A delivery is lost, made again, or has been read; or it is too late to
\* insert the first cursor.
LEMMA DeliverySteps ==
    ASSUME Inv, NEW b \in Branches, NEW n \in Pushes(b),
           \/ DeliveryLost(b, n) \/ Redeliver(b, n) \/ HookReads(b, n)
           \/ HookCommits(b, n) /\ InsertConflict(b, delivery[b][n].seen)
    PROVE  Inv'
<1> USE DEF Inv
<1>1. UNCHANGED <<tip, cursor, cycle, built, gaps, jumped>>
  BY DEF DeliveryLost, Redeliver, HookReads, HookCommits
<1>2. faults' \in Nat
  BY DEF DeliveryLost, Redeliver, HookReads, HookCommits, Resolved, Fault, TypeOK
<1>3. delivery[b][n].stage # "none"
  BY DEF DeliveryLost, Redeliver, HookReads, HookCommits
<1>4. PICK h \in Hooks(b) :
         /\ delivery' = [delivery EXCEPT ![b][n] = h]
         /\ h.stage \in {"sent", "lost", "read"}
         /\ h.stage = "read" => \A c \in Changed(b, n - 1, n) : c[3] \in h.jobs \/ c \in h.cut
  <2>1. CASE DeliveryLost(b, n)
    <3>1. delivery' = [delivery EXCEPT ![b][n] = [Quiet EXCEPT !.stage = "lost"]]
      BY <2>1 DEF DeliveryLost, Deliver
    <3> QED
      BY <3>1, QuietHook
  <2>2. CASE Redeliver(b, n)
    <3>1. delivery' = [delivery EXCEPT ![b][n] = [Quiet EXCEPT !.stage = "sent"]]
      BY <2>2 DEF Redeliver, Deliver
    <3> QED
      BY <3>1, QuietHook
  <2>3. CASE HookReads(b, n)
    <3> DEFINE changes == Changed(b, n - 1, n)
    <3>1. PICK view \in Views(b, changes) :
             delivery' = [delivery EXCEPT ![b][n] =
                [stage |-> "read", jobs |-> view, seen |-> cursor[b],
                 cut |-> {c \in changes : c[3] \notin view}]]
      BY <2>3 DEF HookReads
    <3> DEFINE h == [stage |-> "read", jobs |-> view, seen |-> cursor[b],
                     cut |-> {c \in changes : c[3] \notin view}]
    <3>2. view \in SUBSET Packages(b) /\ changes \in SUBSET Changes /\ cursor[b] \in Int
      BY ViewParts, ChangedParts DEF TypeOK
    <3>3. h \in Hooks(b)
      BY <3>2 DEF Hooks
    <3>4. \A c \in changes : c[3] \in h.jobs \/ c \in h.cut
      OBVIOUS
    <3> QED
      BY <3>1, <3>3, <3>4
  <2>4. CASE HookCommits(b, n) /\ InsertConflict(b, delivery[b][n].seen)
    <3>1. delivery' = [delivery EXCEPT ![b][n] = [Quiet EXCEPT !.stage = "lost"]]
      BY <2>4 DEF HookCommits, Deliver
    <3> QED
      BY <3>1, QuietHook
  <2> QED
    BY <2>1, <2>2, <2>3, <2>4
<1>5. /\ delivery' = [x \in Branches |-> delivery'[x]]
      /\ \A x \in Branches : delivery'[x] \in [Pushes(x) -> Hooks(x)]
      /\ delivery'[b][n] = h
      /\ \A x \in Branches : \A m \in Pushes(x) :
            x # b \/ m # n => delivery'[x][m] = delivery[x][m]
  <2>1. TypeOK /\ h \in Hooks(b) /\ delivery' = [delivery EXCEPT ![b][n] = h]
    BY <1>4
  <2> HIDE DEF Inv
  <2> QED
    BY <2>1, DeliveryTypes
<1>6. TypeOK'
  <2>1. \A x \in Branches : \A m \in Pushes(x) : delivery'[x][m].stage = "none" <=> m > tip'[x]
    BY <1>1, <1>3, <1>4, <1>5 DEF TypeOK
  <2>2. Sessions' = Sessions
    BY <1>1 DEF Sessions
  <2> QED
    BY <1>1, <1>2, <1>5, <2>1, <2>2 DEF TypeOK
<1>7. HooksComplete'
  BY <1>4, <1>5 DEF HooksComplete
<1>8. \A x \in Branches : \A m \in Pushes(x) :
         delivery'[x][m] = delivery[x][m] \/ delivery'[x][m].stage # "done"
  BY <1>4, <1>5
<1> QED
  BY <1>1, <1>6, <1>7, <1>8, CalmStep

\* A webhook's transaction.
LEMMA HookStores ==
    ASSUME Inv, NEW b \in Branches, NEW n \in Pushes(b),
           HookCommits(b, n), ~InsertConflict(b, delivery[b][n].seen)
    PROVE  Inv'
<1> USE DEF Inv
<1> DEFINE hook == delivery[b][n]
<1>1. /\ hook.stage = "read" /\ hook \in Hooks(b)
      /\ Enqueue(hook.jobs)
      /\ gaps' = gaps \cup hook.cut
      /\ jumped' = jumped \cup Changed(b, cursor[b], n - 1)
      /\ UNCHANGED <<tip, cycle, faults>>
  BY DEF HookCommits, TypeOK
<1>2. n \in Nat /\ n <= tip[b] /\ tip[b] \in Nat /\ cursor[b] \in Int /\ -1 <= cursor[b]
      /\ cursor[b] <= tip[b]
  BY <1>1 DEF TypeOK, Pushes, NoRow
<1>3. /\ cursor' \in [Branches -> Int] /\ cursor'[b] \in {cursor[b], n}
      /\ \A x \in Branches : x # b => cursor'[x] = cursor[x]
  BY <1>2 DEF HookCommits, TypeOK
<1>4. PICK h \in Hooks(b) : delivery' = [delivery EXCEPT ![b][n] = h] /\ h.stage = "done"
  <2>1. delivery' = [delivery EXCEPT ![b][n] = [Quiet EXCEPT !.stage = "done"]]
    BY DEF HookCommits, Deliver
  <2> QED
    BY <2>1, QuietHook
<1>5. /\ delivery' = [x \in Branches |-> delivery'[x]]
      /\ \A x \in Branches : delivery'[x] \in [Pushes(x) -> Hooks(x)]
      /\ delivery'[b][n] = h
      /\ \A x \in Branches : \A m \in Pushes(x) :
            x # b \/ m # n => delivery'[x][m] = delivery[x][m]
  <2>1. TypeOK /\ h \in Hooks(b) /\ delivery' = [delivery EXCEPT ![b][n] = h]
    BY <1>4
  <2> HIDE DEF Inv, hook
  <2> QED
    BY <2>1, DeliveryTypes
<1>6. /\ built' \in [AllPackages -> Nat]
      /\ \A x \in Branches : \A p \in Packages(x) :
            /\ built'[p] = IF p \in hook.jobs THEN tip[x] ELSE built[p]
            /\ built'[p] >= built[p] /\ built'[p] <= tip[x]
  BY <1>1, EnqueueBuilds
<1>7. hook.cut \subseteq Changes /\ Changed(b, cursor[b], n - 1) \subseteq Changes
  BY <1>1, ChangedParts DEF Hooks
<1>8. TypeOK'
  <2>1. Sessions' = Sessions
    BY <1>6 DEF Sessions, TypeOK, AllPackages
  <2>2. \A x \in Branches : \A m \in Pushes(x) : delivery'[x][m].stage = "none" <=> m > tip[x]
    BY <1>1, <1>4, <1>5 DEF TypeOK
  <2>3. \A x \in Branches : NoRow <= cursor'[x] /\ cursor'[x] <= tip[x]
    <3> TAKE x \in Branches
    <3>1. NoRow <= cursor[x] /\ cursor[x] <= tip[x]
      BY DEF TypeOK
    <3>2. NoRow <= n /\ n <= tip[b]
      BY <1>2 DEF NoRow
    <3> QED
      BY <1>3, <3>1, <3>2
  <2>4. \A x \in Branches : \A p \in Packages(x) : built'[p] <= tip[x]
    BY <1>6
  <2> QED
    BY <1>1, <1>3, <1>5, <1>6, <1>7, <2>1, <2>2, <2>3, <2>4 DEF TypeOK, AllPackages
<1>9. HooksComplete'
  BY <1>4, <1>5 DEF HooksComplete
<1>10. \A c \in Changes : /\ built[c[3]] \in Nat /\ built'[c[3]] \in Nat
                          /\ built'[c[3]] >= built[c[3]]
  BY <1>6, BuiltIsNat, ChangeParts
<1>11. DoneIsBuilt'
  <2> SUFFICES ASSUME NEW c \in Changes, delivery'[c[1]][c[2]].stage = "done"
               PROVE  built'[c[3]] >= c[2] \/ c \in gaps'
    BY DEF DoneIsBuilt
  <2>0. c[1] \in Branches /\ c[2] \in Pushes(c[1]) /\ c[2] \in Nat /\ c[3] \in Packages(c[1])
    BY ChangeParts
  <2>1. CASE c[1] = b /\ c[2] = n
    <3>1. c \in Changed(b, n - 1, n)
      BY <1>2, <2>1, ChangedParts
    <3>2. c[3] \in hook.jobs \/ c \in hook.cut
      BY <1>1, <3>1 DEF HooksComplete
    <3> QED
      BY <1>1, <1>2, <1>6, <2>0, <2>1, <3>2
  <2>2. CASE ~(c[1] = b /\ c[2] = n)
    <3>1. built[c[3]] >= c[2] \/ c \in gaps
      BY <1>5, <2>0, <2>2 DEF DoneIsBuilt
    <3> QED
      BY <1>1, <1>10, <2>0, <3>1
  <2> QED
    BY <2>1, <2>2
<1>12. \A c \in Changes : Settled(c) => Settled(c)'
  <2> TAKE c \in Changes
  <2>1. \/ delivery'[c[1]][c[2]].stage # "done"
        \/ built'[c[3]] >= c[2] \/ c \in gaps'
    BY <1>11 DEF DoneIsBuilt
  <2>2. gaps \subseteq gaps' /\ jumped \subseteq jumped'
    BY <1>1
  <2> QED
    BY <1>10, <2>1, <2>2, SettledStays
<1>13. CycleComplete'
  BY <1>1, <1>12 DEF CycleComplete
<1>14. CapCounted'
  BY <1>1 DEF CapCounted
<1>15. NothingSkipped'
  <2> SUFFICES ASSUME NEW c \in Changes, c[2] <= cursor'[c[1]] PROVE Settled(c)'
    BY DEF NothingSkipped, Settled
  <2>0. c[1] \in Branches /\ c[2] \in Nat
    BY ChangeParts
  <2>1. CASE c[2] <= cursor[c[1]]
    BY <1>12, <2>1 DEF NothingSkipped, Settled
  <2>2. CASE ~(c[2] <= cursor[c[1]])
    <3>1. c[1] = b /\ c[2] <= n /\ cursor[b] < c[2]
      BY <1>2, <1>3, <2>0, <2>2
    <3>2. CASE c[2] = n
      <4>1. delivery'[c[1]][c[2]].stage = "done"
        BY <1>4, <1>5, <3>1, <3>2
      <4> QED
        BY <1>11, <4>1 DEF DoneIsBuilt, Settled, GivenUp
    <3>3. CASE c[2] # n
      <4>1. c \in Changed(b, cursor[b], n - 1)
        BY <1>2, <2>0, <3>1, <3>3, ChangedParts
      <4>2. c \in jumped'
        BY <1>1, <4>1
      <4> QED
        BY <1>11, <4>2 DEF DoneIsBuilt, Settled, GivenUp
    <3> QED
      BY <3>2, <3>3
  <2> QED
    BY <2>1, <2>2
<1> QED
  BY <1>8, <1>9, <1>11, <1>13, <1>14, <1>15

-----------------------------------------------------------------------------
(* The catch-up cycle *)

LEMMA AsleepParts ==
    ASSUME TypeOK
    PROVE  /\ Asleep \in Sessions
           /\ Asleep.at = NoBranch /\ Asleep.jobs = {} /\ Asleep.cut = {} /\ Asleep.left = 0
           /\ \A b \in Branches : Asleep.write[b] = NoWrite
BY PushAssumption DEF Asleep, Keep, Sessions, NoWrite

\* What a cycle goes on from.
LEMMA AwakeParts ==
    ASSUME Inv
    PROVE  /\ Awake \in Sessions
           /\ \A b \in Branches : Awake.write[b] <= tip[b]
           /\ \A c \in Changes : c[2] <= Awake.write[c[1]] =>
                 Settled(c) \/ c[3] \in Awake.jobs \/ c \in Awake.cut
           /\ IsFiniteSet(Awake.jobs) /\ Cardinality(Awake.jobs) + Awake.left <= JobCap
<1> USE DEF Inv
<1>1. CASE cycle.on
  BY <1>1 DEF Awake, TypeOK, CycleComplete, CapCounted
<1>2. CASE ~cycle.on
  <2> DEFINE w == [on |-> TRUE, todo |-> Branches, at |-> NoBranch, head |-> 0, left |-> JobCap,
                   jobs |-> {}, cut |-> {}, seen |-> Keep, write |-> Keep]
  <2>1. Awake = w
    BY <1>2 DEF Awake, Asleep
  <2>2. w \in Sessions
    BY PushAssumption DEF Sessions, Keep, NoWrite
  <2>3. \A b \in Branches : w.write[b] = -2 /\ tip[b] \in Nat
    BY DEF Keep, NoWrite, TypeOK
  <2>4. IsFiniteSet(w.jobs) /\ Cardinality(w.jobs) + w.left <= JobCap
    BY FS_EmptySet, PushAssumption
  <2>5. \A c \in Changes : ~(c[2] <= w.write[c[1]])
    BY <2>3, ChangeParts
  <2> QED
    BY <2>1, <2>2, <2>3, <2>4, <2>5
<1> QED
  BY <1>1, <1>2

\* Only the session changes.
LEMMA CycleOnly ==
    ASSUME Inv, UNCHANGED <<tip, cursor, delivery, built, gaps, jumped>>, faults' \in Nat,
           cycle' \in Sessions,
           \A b \in Branches : /\ cycle'.write[b] <= tip[b]
                               /\ cycle'.at = b => cycle'.head <= tip[b],
           \A c \in Changes : c[2] <= cycle'.write[c[1]] =>
               Settled(c) \/ c[3] \in cycle'.jobs \/ c \in cycle'.cut,
           IsFiniteSet(cycle'.jobs), Cardinality(cycle'.jobs) + cycle'.left <= JobCap
    PROVE  Inv'
<1> USE DEF Inv
<1>1. Sessions' = Sessions
  BY DEF Sessions
<1>2. TypeOK'
  BY <1>1 DEF TypeOK
<1>3. \A c \in Changes : Settled(c)' <=> Settled(c)
  BY DEF Settled, GivenUp
<1>4. HooksComplete' /\ DoneIsBuilt'
  BY DEF HooksComplete, DoneIsBuilt
<1>5. CycleComplete'
  BY <1>3 DEF CycleComplete
<1>6. CapCounted' /\ NothingSkipped'
  BY DEF CapCounted, NothingSkipped, GivenUp
<1> QED
  BY <1>2, <1>4, <1>5, <1>6

LEMMA TipStep ==
    ASSUME Inv, NEW b \in Branches, CycleReadsTip(b)
    PROVE  Inv'
<1> DEFINE w == [on |-> Awake.on, todo |-> Awake.todo \ {b}, at |-> b, head |-> tip[b],
                 left |-> Awake.left, jobs |-> Awake.jobs, cut |-> Awake.cut,
                 seen |-> Awake.seen, write |-> Awake.write]
<1>1. /\ Awake \in Sessions
      /\ \A x \in Branches : Awake.write[x] <= tip[x]
      /\ \A c \in Changes : c[2] <= Awake.write[c[1]] =>
            Settled(c) \/ c[3] \in Awake.jobs \/ c \in Awake.cut
      /\ IsFiniteSet(Awake.jobs) /\ Cardinality(Awake.jobs) + Awake.left <= JobCap
  BY AwakeParts
<1>2. cycle' = w
  BY <1>1 DEF CycleReadsTip, Sessions
<1>3. tip[b] \in Nat /\ faults \in Nat
  BY DEF Inv, TypeOK
<1>4. w \in Sessions
  BY <1>1, <1>3 DEF Sessions
<1>5. UNCHANGED <<tip, cursor, delivery, built, gaps, jumped, faults>>
  BY DEF CycleReadsTip
<1>6. /\ cycle'.write = Awake.write /\ cycle'.jobs = Awake.jobs /\ cycle'.cut = Awake.cut
      /\ cycle'.left = Awake.left /\ cycle'.at = b /\ cycle'.head = tip[b]
  BY <1>2
<1>7. \A x \in Branches : cycle'.write[x] <= tip[x] /\ (cycle'.at = x => cycle'.head <= tip[x])
  BY <1>1, <1>3, <1>6
<1> QED
  BY <1>1, <1>2, <1>3, <1>4, <1>5, <1>6, <1>7, CycleOnly

LEMMA BranchStep ==
    ASSUME Inv, NEW b \in Branches, CycleBranch(b)
    PROVE  Inv'
<1> USE DEF Inv
<1> DEFINE head == cycle.head
           start == Start(b, head)
           changes == Changed(b, start, head)
<1>0. PICK view \in Views(b, changes) : \E chosen \in SUBSET view :
         /\ Resolved(changes, view)
         /\ Cardinality(chosen) = IF Cardinality(view) <= Room(view)
                                  THEN Cardinality(view) ELSE Room(view)
         /\ cycle' = [cycle EXCEPT
               !.at = NoBranch, !.head = 0,
               !.left = @ - Cardinality(chosen),
               !.jobs = @ \cup chosen,
               !.cut = @ \cup Changed(b, cursor[b], start) \cup {c \in changes : c[3] \notin chosen},
               !.seen[b] = IF Writes(b, head) = NoWrite THEN NoWrite ELSE cursor[b],
               !.write[b] = Writes(b, head)]
  BY DEF CycleBranch
<1>1. PICK chosen \in SUBSET view :
         /\ Resolved(changes, view)
         /\ Cardinality(chosen) = IF Cardinality(view) <= Room(view)
                                  THEN Cardinality(view) ELSE Room(view)
         /\ cycle' = [cycle EXCEPT
               !.at = NoBranch, !.head = 0,
               !.left = @ - Cardinality(chosen),
               !.jobs = @ \cup chosen,
               !.cut = @ \cup Changed(b, cursor[b], start) \cup {c \in changes : c[3] \notin chosen},
               !.seen[b] = IF Writes(b, head) = NoWrite THEN NoWrite ELSE cursor[b],
               !.write[b] = Writes(b, head)]
  BY <1>0
<1> DEFINE cut == cycle.cut \cup Changed(b, cursor[b], start) \cup {c \in changes : c[3] \notin chosen}
           seen == [cycle.seen EXCEPT ![b] = IF Writes(b, head) = NoWrite THEN NoWrite ELSE cursor[b]]
           write == [cycle.write EXCEPT ![b] = Writes(b, head)]
           w == [on |-> cycle.on, todo |-> cycle.todo, at |-> NoBranch, head |-> 0,
                 left |-> cycle.left - Cardinality(chosen), jobs |-> cycle.jobs \cup chosen,
                 cut |-> cut, seen |-> seen, write |-> write]
<1>2. cycle \in Sessions /\ cycle.at = b
  BY DEF CycleBranch, TypeOK
<1>3. cycle' = w
  BY <1>1, <1>2 DEF Sessions
<1>4. /\ head \in Nat /\ head <= tip[b] /\ tip[b] \in Nat
      /\ cursor[b] \in Int /\ cursor[b] <= tip[b]
      /\ start \in Int
  BY <1>2, PushAssumption DEF TypeOK, Sessions, Start
<1>5. view \in SUBSET Packages(b) /\ IsFiniteSet(view)
  BY ViewParts
<1>6. /\ chosen \in SUBSET Packages(b) /\ IsFiniteSet(chosen) /\ Cardinality(chosen) \in Nat
      /\ Cardinality(view) \in Nat
  BY <1>5, FS_Subset, FS_CardinalityType
<1>7. Cardinality(chosen) <= cycle.left /\ cycle.left \in 0..JobCap
  BY <1>1, <1>2, <1>6, PushAssumption DEF Sessions, Room
<1>8. /\ IsFiniteSet(cycle.jobs \cup chosen)
      /\ Cardinality(cycle.jobs \cup chosen) + (cycle.left - Cardinality(chosen)) <= JobCap
  <2>1. IsFiniteSet(cycle.jobs) /\ Cardinality(cycle.jobs) + cycle.left <= JobCap
    BY DEF CapCounted
  <2>2. /\ IsFiniteSet(cycle.jobs \cup chosen)
        /\ Cardinality(cycle.jobs \cup chosen) =
              Cardinality(cycle.jobs) + Cardinality(chosen) - Cardinality(cycle.jobs \cap chosen)
    BY <1>6, <2>1, FS_Union
  <2>3. Cardinality(cycle.jobs \cap chosen) \in Nat /\ Cardinality(cycle.jobs) \in Nat
    BY <1>6, <2>1, FS_Intersection, FS_CardinalityType
  <2> QED
    BY <1>6, <1>7, <2>1, <2>2, <2>3, PushAssumption
<1>9. Writes(b, head) \in {NoWrite, head}
  BY DEF Writes
<1>10. /\ write \in [Branches -> Nat \cup {NoWrite}] /\ write[b] = Writes(b, head)
       /\ \A x \in Branches : x # b => write[x] = cycle.write[x]
  BY <1>2, <1>4, <1>9 DEF Sessions
<1>11. /\ Changed(b, cursor[b], start) \in SUBSET Changes
       /\ changes \in SUBSET Changes
       /\ \A c \in Changes : /\ c \in Changed(b, cursor[b], start) <=> c[1] = b /\ cursor[b] < c[2] /\ c[2] <= start
                             /\ c \in changes <=> c[1] = b /\ start < c[2] /\ c[2] <= head
  BY ChangedParts
<1> HIDE DEF start, changes, write
<1>12. w \in Sessions
  <2>1. cycle.left - Cardinality(chosen) \in 0..JobCap
    BY <1>6, <1>7, PushAssumption
  <2>2. cycle.jobs \cup chosen \in SUBSET DOMAIN built
    <3>1. chosen \subseteq DOMAIN built
      BY <1>6 DEF TypeOK
    <3> QED
      BY <1>2, <3>1 DEF Sessions
  <2>3. cut \in SUBSET Changes
    BY <1>2, <1>11 DEF Sessions
  <2>4. seen \in [Branches -> Int]
    BY <1>2, <1>4 DEF Sessions, NoWrite
  <2> HIDE DEF cut, seen
  <2> QED
    BY <1>2, <1>10, <2>1, <2>2, <2>3, <2>4 DEF Sessions
<1>13. \A c \in Changes : c[2] <= write[c[1]] =>
          Settled(c) \/ c[3] \in cycle.jobs \cup chosen \/ c \in cut
  <2> SUFFICES ASSUME NEW c \in Changes, c[2] <= write[c[1]], ~Settled(c),
                      c[3] \notin chosen
               PROVE  c[3] \in cycle.jobs \/ c \in cut
    OBVIOUS
  <2>1. c[1] \in Branches /\ c[2] \in Nat
    BY ChangeParts
  <2>2. CASE c[1] # b
    BY <1>10, <2>1, <2>2 DEF CycleComplete
  <2>3. CASE c[1] = b
    <3>1. c[2] <= head
      BY <1>4, <1>9, <1>10, <2>1, <2>3 DEF NoWrite
    <3>2. ~(c[2] <= cursor[b])
      BY <2>3 DEF NothingSkipped, Settled
    <3>3. c \in Changed(b, cursor[b], start) \/ c \in changes
      BY <1>4, <1>11, <2>1, <2>3, <3>1, <3>2
    <3> QED
      BY <3>3
  <2> QED
    BY <2>2, <2>3
<1>14. UNCHANGED <<tip, cursor, delivery, built, gaps, jumped>> /\ faults' \in Nat
  BY <1>1 DEF CycleBranch, Resolved, Fault, TypeOK
<1>15. /\ cycle'.write = write /\ cycle'.jobs = cycle.jobs \cup chosen /\ cycle'.cut = cut
       /\ cycle'.left = cycle.left - Cardinality(chosen) /\ cycle'.at = NoBranch
  BY <1>3
<1>16. \A x \in Branches : cycle'.write[x] <= tip[x] /\ cycle'.at # x
  <2> TAKE x \in Branches
  <2>1. cycle.write[x] <= tip[x] /\ x # NoBranch
    BY PushAssumption DEF TypeOK
  <2>2. Writes(b, head) <= tip[b]
    BY <1>4, <1>9 DEF NoWrite
  <2> QED
    BY <1>10, <1>15, <2>1, <2>2
<1> HIDE DEF w, cut, seen, Inv
<1> QED
  BY <1>3, <1>8, <1>12, <1>13, <1>14, <1>15, <1>16, CycleOnly

\* A rollback.
LEMMA UndoStep ==
    ASSUME Inv, CycleBranchFails
    PROVE  Inv'
<1> USE DEF Inv
<1> DEFINE w == [on |-> cycle.on, todo |-> cycle.todo, at |-> NoBranch, head |-> 0,
                 left |-> cycle.left, jobs |-> {}, cut |-> {}, seen |-> Keep, write |-> Keep]
<1>1. cycle \in Sessions
  BY DEF TypeOK
<1>2. cycle' = w
  BY <1>1 DEF CycleBranchFails, Undone, Sessions
<1>3. w \in Sessions
  BY <1>1 DEF Sessions, Keep, NoWrite
<1>4. \A x \in Branches : w.write[x] = -2 /\ tip[x] \in Nat /\ x # NoBranch
  BY PushAssumption DEF Keep, NoWrite, TypeOK
<1>5. \A c \in Changes : ~(c[2] <= w.write[c[1]])
  BY <1>4, ChangeParts
<1>6. IsFiniteSet(w.jobs) /\ Cardinality(w.jobs) + w.left <= JobCap
  BY <1>1, FS_EmptySet, PushAssumption DEF Sessions
<1>7. UNCHANGED <<tip, cursor, delivery, built, gaps, jumped>> /\ faults' \in Nat
  BY DEF CycleBranchFails, Fault, TypeOK
<1>8. \A x \in Branches : w.write[x] <= tip[x] /\ w.at # x
  BY <1>4
<1> HIDE DEF w, Inv
<1> QED
  BY <1>2, <1>3, <1>5, <1>6, <1>7, <1>8, CycleOnly

\* The commit is refused, or the process ends.
LEMMA DroppedCycle ==
    ASSUME Inv, UNCHANGED <<tip, cursor, built, gaps, jumped>>, faults' \in Nat,
           cycle' = Asleep,
           \/ delivery' = delivery
           \/ delivery' = [b \in Branches |-> [n \in Pushes(b) |->
                  IF delivery[b][n].stage = "read" THEN [Quiet EXCEPT !.stage = "lost"]
                  ELSE delivery[b][n]]]
    PROVE  Inv'
<1> USE DEF Inv
<1>1. /\ Asleep \in Sessions /\ Asleep.at = NoBranch /\ Asleep.jobs = {} /\ Asleep.left = 0
      /\ \A x \in Branches : Asleep.write[x] = NoWrite
  BY AsleepParts
<1>2. /\ delivery' = [x \in Branches |-> delivery'[x]]
      /\ \A x \in Branches : delivery'[x] \in [Pushes(x) -> Hooks(x)]
      /\ \A x \in Branches : \A m \in Pushes(x) :
            \/ delivery'[x][m] = delivery[x][m]
            \/ delivery[x][m].stage = "read" /\ delivery'[x][m].stage = "lost"
  <2>1. CASE delivery' = delivery
    BY <2>1 DEF TypeOK
  <2>2. CASE delivery' = [b \in Branches |-> [n \in Pushes(b) |->
                 IF delivery[b][n].stage = "read" THEN [Quiet EXCEPT !.stage = "lost"]
                 ELSE delivery[b][n]]]
    <3>1. \A x \in Branches : \A m \in Pushes(x) :
             /\ delivery[x][m] \in Hooks(x)
             /\ [Quiet EXCEPT !.stage = "lost"] \in Hooks(x)
             /\ [Quiet EXCEPT !.stage = "lost"].stage = "lost"
      BY QuietHook DEF TypeOK
    <3> HIDE DEF Inv
    <3> QED
      BY <2>2, <3>1
  <2> QED
    BY <2>1, <2>2
<1>3. \A x \in Branches : cycle'.write[x] <= tip[x] /\ cycle'.at # x
  BY <1>1, PushAssumption DEF TypeOK, NoWrite
<1>4. TypeOK'
  <2>1. Sessions' = Sessions
    BY DEF Sessions
  <2>2. \A x \in Branches : \A m \in Pushes(x) : delivery'[x][m].stage = "none" <=> m > tip'[x]
    <3>1. \A x \in Branches : \A m \in Pushes(x) : delivery[x][m].stage = "none" <=> m > tip[x]
      BY DEF TypeOK
    <3>2. \A x \in Branches : \A m \in Pushes(x) :
             delivery'[x][m].stage = "none" <=> delivery[x][m].stage = "none"
      BY <1>2
    <3> QED
      BY <3>1, <3>2
  <2> QED
    BY <1>1, <1>2, <1>3, <2>1, <2>2 DEF TypeOK
<1>5. HooksComplete'
  BY <1>2 DEF HooksComplete
<1>6. DoneIsBuilt'
  BY <1>2, ChangeParts DEF DoneIsBuilt
<1>7. CycleComplete'
  <2>1. \A c \in Changes : c[1] \in Branches /\ ~(c[2] <= NoWrite)
    BY ChangeParts DEF NoWrite
  <2> QED
    BY <1>1, <2>1 DEF CycleComplete
<1>8. CapCounted'
  BY <1>1, FS_EmptySet, PushAssumption DEF CapCounted
<1>9. NothingSkipped'
  <2>1. \A c \in Changes : delivery'[c[1]][c[2]] = delivery[c[1]][c[2]]
                           \/ delivery'[c[1]][c[2]].stage # "done"
    BY <1>2, ChangeParts
  <2> QED
    BY <2>1 DEF NothingSkipped, GivenUp
<1> QED
  BY <1>4, <1>5, <1>6, <1>7, <1>8, <1>9

\* The loop commits a cycle.
LEMMA CycleStores ==
    ASSUME Inv, CycleCommits,
           ~\E b \in Branches : cycle.write[b] # NoWrite /\ InsertConflict(b, cycle.seen[b])
    PROVE  Inv'
<1> USE DEF Inv
<1>1. /\ cursor' = [b \in Branches |->
             IF cycle.write[b] = NoWrite THEN cursor[b] ELSE cycle.write[b]]
      /\ Enqueue(cycle.jobs)
      /\ gaps' = gaps \cup cycle.cut
      /\ cycle' = Asleep
      /\ UNCHANGED <<tip, delivery, jumped, faults>>
  BY DEF CycleCommits
<1>2. cycle \in Sessions /\ Asleep \in Sessions /\ cycle.cut \in SUBSET Changes
  BY AsleepParts DEF TypeOK, Sessions
<1>3. /\ built' \in [AllPackages -> Nat]
      /\ \A x \in Branches : \A p \in Packages(x) :
            /\ built'[p] = IF p \in cycle.jobs THEN tip[x] ELSE built[p]
            /\ built'[p] >= built[p] /\ built'[p] <= tip[x]
  BY <1>1, EnqueueBuilds
<1>4. \A x \in Branches :
         /\ cursor'[x] = cursor[x] \/ (cursor'[x] = cycle.write[x] /\ cycle.write[x] \in Nat)
         /\ cursor'[x] \in Int /\ NoRow <= cursor'[x] /\ cursor'[x] <= tip[x]
  <2> TAKE x \in Branches
  <2>1. /\ cycle.write[x] \in Nat \cup {NoWrite} /\ cycle.write[x] <= tip[x]
        /\ cursor[x] \in Int /\ NoRow <= cursor[x] /\ cursor[x] <= tip[x]
    BY <1>2 DEF Sessions, TypeOK
  <2>2. cursor'[x] = IF cycle.write[x] = NoWrite THEN cursor[x] ELSE cycle.write[x]
    BY <1>1
  <2>3. CASE cycle.write[x] = NoWrite
    BY <2>1, <2>2, <2>3
  <2>4. CASE cycle.write[x] # NoWrite
    <3>1. cursor'[x] = cycle.write[x] /\ cycle.write[x] \in Nat
      BY <2>1, <2>2, <2>4
    <3> HIDE DEF Inv
    <3> QED
      BY <2>1, <3>1 DEF NoRow
  <2> QED
    BY <2>3, <2>4
<1>5. TypeOK'
  <2>1. Sessions' = Sessions
    BY <1>3 DEF Sessions, TypeOK, AllPackages
  <2>2. cursor' \in [Branches -> Int]
    BY <1>1, <1>4
  <2>3. \A x \in Branches : cycle'.write[x] <= tip[x] /\ cycle'.at # x
    BY <1>1, AsleepParts, PushAssumption DEF TypeOK, NoWrite
  <2>4. \A x \in Branches : \A p \in Packages(x) : built'[p] <= tip[x]
    BY <1>3
  <2> QED
    BY <1>1, <1>2, <1>3, <1>4, <2>1, <2>2, <2>3, <2>4 DEF TypeOK, AllPackages
<1>6. HooksComplete'
  BY <1>1 DEF HooksComplete
<1>7. \A c \in Changes : /\ built[c[3]] \in Nat /\ built'[c[3]] \in Nat
                         /\ built'[c[3]] >= built[c[3]]
  BY <1>3, BuiltIsNat, ChangeParts
<1>8. DoneIsBuilt'
  <2> SUFFICES ASSUME NEW c \in Changes, delivery[c[1]][c[2]].stage = "done"
               PROVE  built'[c[3]] >= c[2] \/ c \in gaps'
    BY <1>1 DEF DoneIsBuilt
  <2>1. built[c[3]] >= c[2] \/ c \in gaps
    BY DEF DoneIsBuilt
  <2> QED
    BY <1>1, <1>7, <2>1, ChangeParts
<1>9. \A c \in Changes : Settled(c) => Settled(c)'
  <2> TAKE c \in Changes
  <2>1. gaps \subseteq gaps' /\ jumped \subseteq jumped' /\ delivery' = delivery
    BY <1>1
  <2> QED
    BY <1>7, <2>1, SettledStays
<1>10. CycleComplete'
  <2>1. \A c \in Changes : c[1] \in Branches /\ ~(c[2] <= NoWrite)
    BY ChangeParts DEF NoWrite
  <2> QED
    BY <1>1, <2>1, AsleepParts DEF CycleComplete
<1>11. CapCounted'
  <2>1. cycle'.jobs = {} /\ cycle'.left = 0
    BY <1>1, AsleepParts
  <2> HIDE DEF Inv
  <2> QED
    BY <2>1, FS_EmptySet, PushAssumption DEF CapCounted
<1>12. NothingSkipped'
  <2> SUFFICES ASSUME NEW c \in Changes, c[2] <= cursor'[c[1]] PROVE Settled(c)'
    BY DEF NothingSkipped, Settled
  <2>0. c[1] \in Branches /\ c[2] \in Nat /\ c[3] \in Packages(c[1])
    BY ChangeParts
  <2>1. CASE cursor'[c[1]] = cursor[c[1]]
    BY <1>9, <2>1 DEF NothingSkipped, Settled
  <2>2. CASE cursor'[c[1]] = cycle.write[c[1]]
    <3>1. Settled(c) \/ c[3] \in cycle.jobs \/ c \in cycle.cut
      BY <2>2 DEF CycleComplete
    <3>2. CASE c[3] \in cycle.jobs
      <4>1. built'[c[3]] = tip[c[1]] /\ c[2] <= tip[c[1]] /\ tip[c[1]] \in Nat
        <5>1. built'[c[3]] = tip[c[1]]
          BY <1>3, <2>0, <3>2
        <5>2. cursor'[c[1]] \in Int /\ cursor'[c[1]] <= tip[c[1]] /\ tip[c[1]] \in Nat
          BY <1>4, <2>0 DEF TypeOK
        <5> QED
          BY <2>0, <5>1, <5>2
      <4> QED
        BY <2>0, <4>1 DEF Settled
    <3>3. CASE c \in cycle.cut
      BY <1>1, <3>3 DEF Settled, GivenUp
    <3> QED
      BY <1>9, <3>1, <3>2, <3>3
  <2> QED
    BY <1>4, <2>0, <2>1, <2>2
<1> QED
  BY <1>5, <1>6, <1>8, <1>10, <1>11, <1>12

-----------------------------------------------------------------------------
LEMMA InvInit == Init => Inv
<1> SUFFICES ASSUME Init PROVE Inv
  OBVIOUS
<1>1. /\ tip = [b \in Branches |-> 0]
      /\ cursor = [b \in Branches |-> IF b \in Unseen THEN NoRow ELSE 0]
      /\ delivery = [b \in Branches |-> [n \in Pushes(b) |-> Quiet]]
      /\ cycle = Asleep /\ built = [p \in AllPackages |-> 0]
      /\ gaps = {} /\ jumped = {} /\ faults = 0
  BY DEF Init, AllPackages
<1>2. \A b \in Branches : Quiet \in Hooks(b) /\ Quiet.stage = "none"
  BY DEF Quiet, Hooks, NoRow
<1>3. /\ Asleep \in Sessions /\ Asleep.at = NoBranch /\ Asleep.jobs = {} /\ Asleep.left = 0
      /\ \A b \in Branches : Asleep.write[b] = -2
  BY PushAssumption DEF Asleep, Keep, Sessions, NoWrite
<1>4. \A b \in Branches : \A n \in Pushes(b) : n > 0
  BY PushAssumption DEF Pushes
<1>5. \A b \in Branches : /\ cursor[b] \in {-1, 0} /\ tip[b] = 0 /\ b # NoBranch
                          /\ Len(Touches[b]) >= 0
  BY <1>1, PushAssumption DEF NoRow
<1>6. TypeOK
  <2>1. tip \in [Branches -> Nat] /\ cursor \in [Branches -> Int] /\ built \in [AllPackages -> Nat]
    BY <1>1 DEF NoRow
  <2>2. \A b \in Branches :
          /\ tip[b] <= Len(Touches[b]) /\ NoRow <= cursor[b] /\ cursor[b] <= tip[b]
          /\ cycle.write[b] <= tip[b] /\ (cycle.at = b => cycle.head <= tip[b])
    BY <1>1, <1>3, <1>5 DEF NoRow
  <2>3. \A b \in Branches : \A p \in Packages(b) : built[p] <= tip[b]
    BY <1>1, <1>5 DEF AllPackages
  <2>4. /\ delivery = [b \in Branches |-> delivery[b]]
        /\ \A b \in Branches :
              /\ delivery[b] \in [Pushes(b) -> Hooks(b)]
              /\ \A n \in Pushes(b) : delivery[b][n].stage = "none" <=> n > tip[b]
    BY <1>1, <1>2, <1>4, <1>5
  <2> QED
    BY <1>1, <1>3, <2>1, <2>2, <2>3, <2>4 DEF TypeOK, AllPackages
<1>7. HooksComplete /\ DoneIsBuilt
  <2>1. \A b \in Branches : \A n \in Pushes(b) : delivery[b][n].stage = "none"
    BY <1>1, <1>2
  <2> QED
    BY <2>1, ChangeParts DEF HooksComplete, DoneIsBuilt
<1>8. CycleComplete
  <2>1. \A c \in Changes : ~(c[2] <= cycle.write[c[1]])
    BY <1>1, <1>3, ChangeParts
  <2> QED
    BY <2>1 DEF CycleComplete
<1>9. CapCounted
  BY <1>1, <1>3, FS_EmptySet, PushAssumption DEF CapCounted
<1>10. NothingSkipped
  <2>1. \A c \in Changes : ~(c[2] <= cursor[c[1]])
    BY <1>5, ChangeParts
  <2> QED
    BY <2>1 DEF NothingSkipped
<1> QED
  BY <1>6, <1>7, <1>8, <1>9, <1>10 DEF Inv

LEMMA InvNext == Inv /\ [Next]_vars => Inv'
<1> SUFFICES ASSUME Inv, [Next]_vars PROVE Inv'
  OBVIOUS
<1>1. CASE UNCHANGED vars
  <2>1. UNCHANGED <<tip, cursor, delivery, cycle, built, gaps, jumped, faults>>
    BY <1>1 DEF vars
  <2>2. TypeOK'
    <3>1. Sessions' = Sessions
      BY <2>1 DEF Sessions
    <3> QED
      BY <2>1, <3>1 DEF Inv, TypeOK
  <2> QED
    BY <2>1, <2>2 DEF Inv, HooksComplete, DoneIsBuilt, CycleComplete, Settled, GivenUp,
                      CapCounted, NothingSkipped
<1>2. CASE \E b \in Branches : Push(b)
  BY <1>2, PushStep
<1>3. CASE \E b \in Branches : \E n \in Pushes(b) :
              Hook(b, n) \/ DeliveryLost(b, n) \/ Redeliver(b, n)
  BY <1>3, DeliverySteps, HookStores DEF Hook
<1>4. CASE \E b \in Branches : CycleReadsTip(b) \/ CycleBranch(b)
  BY <1>4, TipStep, BranchStep
<1>5. CASE CycleBranchFails
  BY <1>5, UndoStep
<1>6. CASE CycleCommits
  <2>1. CASE \E b \in Branches : cycle.write[b] # NoWrite /\ InsertConflict(b, cycle.seen[b])
    <3>1. /\ UNCHANGED <<tip, cursor, built, gaps, jumped, delivery, faults>> /\ cycle' = Asleep
      BY <1>6, <2>1 DEF CycleCommits
    <3> QED
      BY <3>1, DroppedCycle DEF Inv, TypeOK
  <2> QED
    BY <1>6, <2>1, CycleStores
<1>7. CASE ControllerRestarts
  <2>1. faults' \in Nat
    BY <1>7 DEF ControllerRestarts, Fault, Inv, TypeOK
  <2> QED
    BY <1>7, <2>1, DroppedCycle DEF ControllerRestarts
<1> QED
  BY <1>1, <1>2, <1>3, <1>4, <1>5, <1>6, <1>7 DEF Next, Cycle

THEOREM Invariant == Spec => []Inv
  BY InvInit, InvNext, PTL DEF Spec

\* Every reachable state has the types of the model; no cursor is ahead of its
\* branch.
THEOREM TypeCorrect == Spec => []TypeOK
<1>1. Inv => TypeOK
  BY DEF Inv
<1> QED
  BY <1>1, Invariant, PTL

\* A change at or behind the cursor of its branch is built or was given up for
\* one of the reasons the code has (apply_github_push, run_github_push_catchup).
THEOREM NoChangeSkipped == Spec => []NothingSkipped
<1>1. Inv => NothingSkipped
  BY DEF Inv
<1> QED
  BY <1>1, Invariant, PTL

\* A catch-up cycle over any number of branches enqueues no more than
\* github_catchup_max_jobs_per_cycle jobs (run_github_push_catchup).
THEOREM CapIsKept == Spec => []CapKept
<1>1. Inv => CapKept
  <2> SUFFICES ASSUME Inv PROVE Cardinality(cycle.jobs) <= JobCap
    BY DEF CapKept
  <2>1. /\ IsFiniteSet(cycle.jobs) /\ Cardinality(cycle.jobs) + cycle.left <= JobCap
        /\ cycle.left \in 0..JobCap
    BY DEF Inv, CapCounted, TypeOK, Sessions
  <2>2. Cardinality(cycle.jobs) \in Nat
    BY <2>1, FS_CardinalityType
  <2> QED
    BY <2>1, <2>2, PushAssumption
<1> QED
  BY <1>1, Invariant, PTL
=============================================================================
