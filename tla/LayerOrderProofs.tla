-------------------------- MODULE LayerOrderProofs --------------------------
(***************************************************************************)
(* LayerOrder for any packages, whatever they need, for any seeds and any  *)
(* chain: types, the order of the layers, what a cycle does to it, and     *)
(* what a plan leaves built.                                               *)
(***************************************************************************)
EXTENDS LayerOrder, TLAPS, FiniteSetTheorems, WellFoundedInduction

-----------------------------------------------------------------------------
(* Least and greatest numbers *)

LEMMA LeastNumber ==
    ASSUME NEW S \in SUBSET Nat, S # {}
    PROVE  \E m \in S : \A b \in S : m <= b
<1>1. PICK m \in S : \A b \in S : ~(<<b, m>> \in OpToRel(<, Nat))
  BY WFMin, NatLessThanWellFounded
<1>2. \A b \in S : ~(b < m)
  BY <1>1 DEF OpToRel
<1> QED
  BY <1>2

\* Bounded numbers have a greatest one: its distance from the bound is least.
LEMMA GreatestNumber ==
    ASSUME NEW n \in Nat, NEW S \in SUBSET (0..n), S # {}
    PROVE  \E m \in S : \A b \in S : m >= b
<1> DEFINE T == {n - b : b \in S}
<1>1. T \subseteq Nat /\ T # {}
  <2>1. \A b \in S : n - b \in Nat
    OBVIOUS
  <2>2. PICK b \in S : TRUE
    OBVIOUS
  <2>3. n - b \in T
    OBVIOUS
  <2> QED
    BY <2>1, <2>3
<1>2. PICK x \in T : \A y \in T : x <= y
  <2> HIDE DEF T
  <2> QED
    BY <1>1, LeastNumber
<1>3. PICK m \in S : x = n - m
  OBVIOUS
<1>4. \A b \in S : n - m <= n - b
  BY <1>2, <1>3
<1>5. m \in Int /\ \A b \in S : b \in Int
  OBVIOUS
<1> QED
  BY <1>4, <1>5

\* Finitely many numbers have a least one, also below zero: among the sets of
\* numbers below a number of S, a smallest one is empty.
LEMMA LeastOfFinite ==
    ASSUME NEW S \in SUBSET Int, IsFiniteSet(S), S # {}
    PROVE  \E m \in S : \A b \in S : m <= b
<1> DEFINE Below(b) == {c \in S : c < b}
           T == {Below(b) : b \in S}
           R == StrictSubsetOrdering(S)
<1>1. IsWellFoundedOn(R, SUBSET S)
  BY FS_StrictSubsetOrderingWellFounded, FS_FiniteSubsetsOfFinite
<1>2. T \subseteq SUBSET S /\ T # {}
  OBVIOUS
<1>3. \E x \in T : \A y \in T : ~(<<y, x>> \in R)
  <2> HIDE DEF T, R
  <2> QED
    BY <1>1, <1>2, WFMin
<1>4. PICK m \in S : \A b \in S : ~(<<Below(b), Below(m)>> \in R)
  BY <1>3
<1>5. ASSUME NEW b \in S, ~(m <= b) PROVE FALSE
  <2>1. \A c \in S : c \in Int
    OBVIOUS
  <2>2. b < m /\ ~(b < b) /\ \A c \in S : c < b => c < m
    BY <1>5, <2>1
  <2>3. Below(b) \subseteq Below(m) /\ b \in Below(m) /\ b \notin Below(b)
    BY <2>2
  <2>4. <<Below(b), Below(m)>> \in (SUBSET S) \X (SUBSET S) /\ Below(b) # Below(m)
    BY <2>3
  <2> HIDE DEF Below
  <2> QED
    BY <1>4, <2>3, <2>4 DEF StrictSubsetOrdering
<1> QED
  BY <1>5

-----------------------------------------------------------------------------
(* The copies of a package *)

LEMMA CopiesType ==
    ASSUME NEW gs \in Seq(SUBSET Packages), NEW p
    PROVE  /\ CopiesOf(gs, p) \subseteq 1..Len(gs) /\ Len(gs) \in Nat
           /\ \A l \in CopiesOf(gs, p) : l \in Int /\ l >= 1 /\ l <= Len(gs)
  BY DEF CopiesOf

\* A layer more is a copy more of its packages.
LEMMA AppendCopies ==
    ASSUME NEW gs \in Seq(SUBSET Packages), NEW g \in SUBSET Packages, NEW p
    PROVE  /\ p \in g => CopiesOf(Append(gs, g), p) = CopiesOf(gs, p) \cup {Len(gs) + 1}
           /\ p \notin g => CopiesOf(Append(gs, g), p) = CopiesOf(gs, p)
<1>1. /\ Len(gs) \in Nat /\ Len(Append(gs, g)) = Len(gs) + 1
      /\ \A l \in 1..Len(gs) : Append(gs, g)[l] = gs[l]
      /\ Append(gs, g)[Len(gs) + 1] = g
  OBVIOUS
<1>2. 1..Len(gs) + 1 = (1..Len(gs)) \cup {Len(gs) + 1}
  BY <1>1
<1> QED
  BY <1>1, <1>2 DEF CopiesOf

LEMMA FirstIsLeast ==
    ASSUME TypeOK, NEW p, CopiesOf(layers, p) # {}
    PROVE  /\ First(p) \in CopiesOf(layers, p)
           /\ \A m \in CopiesOf(layers, p) : First(p) <= m
<1>1. CopiesOf(layers, p) \in SUBSET Nat
  BY CopiesType DEF TypeOK
<1>2. \E l \in CopiesOf(layers, p) : \A m \in CopiesOf(layers, p) : l <= m
  BY <1>1, LeastNumber
<1> QED
  BY <1>2 DEF First

LEMMA LastIsGreatest ==
    ASSUME TypeOK, NEW p, CopiesOf(layers, p) # {}
    PROVE  /\ Last(p) \in CopiesOf(layers, p)
           /\ \A m \in CopiesOf(layers, p) : Last(p) >= m
<1>1. CopiesOf(layers, p) \in SUBSET (0..Len(layers)) /\ Len(layers) \in Nat
  <2>1. 1..Len(layers) \subseteq 0..Len(layers)
    BY DEF TypeOK
  <2> QED
    BY <2>1, CopiesType DEF TypeOK
<1>2. \E l \in CopiesOf(layers, p) : \A m \in CopiesOf(layers, p) : l >= m
  BY <1>1, GreatestNumber
<1> QED
  BY <1>2 DEF Last

-----------------------------------------------------------------------------
(* Grounded packages *)

LEMMA GroundedNeeds ==
    ASSUME NEW p \in Packages, Grounded(p), NEW q \in deps[p]
    PROVE  q \in Packages /\ Grounded(q)
<1>1. PICK s \in SUBSET Packages :
          /\ p \in s /\ \A r \in s : deps[r] \subseteq s
          /\ \A t \in (SUBSET s) \ {{}} : Free(t) # {}
  BY DEF Grounded
<1>2. q \in s
  BY <1>1
<1> QED
  BY <1>1, <1>2 DEF Grounded

\* Of some grounded packages, one needs none of the others.
LEMMA GroundedFree ==
    ASSUME NEW t \in SUBSET Packages, t # {}, \A p \in t : Grounded(p)
    PROVE  Free(t) # {}
<1>1. PICK p \in t : TRUE
  OBVIOUS
<1>2. PICK s \in SUBSET Packages :
          /\ p \in s /\ \A r \in s : deps[r] \subseteq s
          /\ \A u \in (SUBSET s) \ {{}} : Free(u) # {}
  BY <1>1 DEF Grounded
<1>3. Free(t \cap s) # {}
  <2>1. p \in t \cap s
    BY <1>1, <1>2
  <2>2. t \cap s \in (SUBSET s) \ {{}}
    BY <2>1
  <2> QED
    BY <1>2, <2>2
<1>4. PICK q \in t \cap s : deps[q] \cap (t \cap s) = {}
  BY <1>3 DEF Free
<1>5. deps[q] \subseteq s
  BY <1>2
<1> QED
  BY <1>4, <1>5 DEF Free

-----------------------------------------------------------------------------
(* The inductive invariant *)

\* What generations have been yielded of has a layer.
LaidOut == \A p \in Packages \ rest : CopiesOf(layers, p) # {}

\* The loop and the plan do not overlap.
LoopInv ==
    /\ rest = {} => left = {}
    /\ cycle => layers # <<>>
    /\ deps # NoTree => LaidOut
    /\ plan = NoPlan => LaidOut \/ (layers = <<>> /\ left = {})
    /\ plan # NoPlan => layers # <<>> /\ left = {}

\* What a grounded package needs is laid out before it, and leaves the graph
\* before it does.
OrderInv ==
    \A c \in Packages : Grounded(c) => \A p \in deps[c] :
        /\ \A l \in CopiesOf(layers, c) : \E m \in CopiesOf(layers, p) : m < l
        /\ c \notin left => p \notin left
        /\ c \notin rest =>
              /\ p \notin rest
              /\ \A m \in CopiesOf(layers, p) : \E l \in CopiesOf(layers, c) : m < l

\* Until a cycle is met a package has at most one layer, and one that has none
\* needs something of the newest layer or something that has none either.
LevelsInv ==
    deps # NoTree /\ ~cycle =>
        /\ \A p \in rest : CopiesOf(layers, p) = {}
        /\ \A p \in Packages \ rest : \E l \in 1..Len(layers) :
              /\ CopiesOf(layers, p) = {l}
              /\ \A q \in deps[p] : q \notin rest /\ \A m \in CopiesOf(layers, q) : m < l
              /\ l > 1 => \E q \in deps[p] : q \in layers[l - 1]
        /\ layers # <<>> => \A c \in rest : deps[c] \cap (rest \cup layers[Len(layers)]) # {}

\* A cycle is told for a reason.
CycleInv == cycle => \E p \in Packages : ~Grounded(p)

\* The real copies of a layer that the plan builds.
Real(l) ==
    (IF l = plan.start THEN plan.seeds \cap layers[l] ELSE layers[l]) \ Boots(layers, l)

\* A package is pinned by its real copy or beside the plan; what the opened
\* layers have real copies of was last built in full, or is pinned from beside.
PlanInv ==
    /\ \A p \in others : last[p] # "none"
    /\ plan = NoPlan => pinned = {} /\ others = {}
    /\ plan # NoPlan =>
        /\ plan.start \in 1..plan.open
        /\ \A p \in plan.seeds : \E l \in CopiesOf(layers, p) : l >= plan.start
        /\ \A p \in pinned : p \in others \/ \E l \in plan.start..plan.open : p \in Real(l)
        /\ \A l \in plan.start..plan.open : \A p \in Real(l) :
              last[p] = "full" \/ (last[p] = "bootstrap" /\ p \in others)

IInv == TypeOK /\ LoopInv /\ OrderInv /\ LevelsInv /\ CycleInv /\ PlanInv

-----------------------------------------------------------------------------
(* Types *)

LEMMA InitInv == Init => IInv
<1> SUFFICES ASSUME Init PROVE IInv
  OBVIOUS
<1>1. \A p : CopiesOf(layers, p) = {}
  BY DEF Init, CopiesOf
<1>2. TypeOK
  <2>1. deps \in [Packages -> SUBSET Packages] /\ last \in [Packages -> Kinds]
    BY DEF Init, NoTree, Kinds
  <2>2. layers \in Seq(SUBSET Packages) /\ Len(layers) = 0
    BY DEF Init
  <2>3. plan \in [seeds : SUBSET Packages, start : Nat, open : 0..Len(layers)]
    BY <2>2 DEF Init, NoPlan
  <2> QED
    BY <2>1, <2>2, <2>3 DEF Init, TypeOK
<1>3. LoopInv
  BY DEF Init, LoopInv
<1>4. OrderInv
  BY DEF Init, OrderInv, NoTree
<1>5. LevelsInv /\ CycleInv
  BY DEF Init, LevelsInv, CycleInv
<1>6. PlanInv
  BY DEF Init, PlanInv
<1> QED
  BY <1>2, <1>3, <1>4, <1>5, <1>6 DEF IInv

\* Enqueue says what each package was last built as, and pins packages.
LEMMA EnqueueType ==
    ASSUME TypeOK, NEW gs \in Seq(SUBSET Packages), NEW l \in 1..Len(gs), NEW found,
           Enqueue(gs, l, found)
    PROVE  last' \in [Packages -> Kinds] /\ pinned' \subseteq Packages
  BY DEF TypeOK, Enqueue, Kinds

LEMMA SeedsAreLaidOut ==
    ASSUME IInv, Ordered, plan = NoPlan
    PROVE  /\ rest = {} /\ \A p \in Packages : CopiesOf(layers, p) # {}
           /\ \A p \in Packages : First(p) \in CopiesOf(layers, p) /\ First(p) \in 1..Len(layers)
<1>1. rest = {} /\ \A p \in Packages : CopiesOf(layers, p) # {}
  BY DEF IInv, TypeOK, LoopInv, LaidOut, Ordered
<1>2. layers \in Seq(SUBSET Packages) /\ TypeOK
  BY DEF IInv, TypeOK
<1> QED
  BY <1>1, <1>2, FirstIsLeast, CopiesType

LEMMA TypeStep == IInv /\ [Next]_vars => TypeOK'
<1> SUFFICES ASSUME IInv, [Next]_vars PROVE TypeOK'
  OBVIOUS
<1> USE OrderAssumption
<1>t. TypeOK
  BY DEF IInv
<1>1. CASE ReadTree
  BY <1>t, <1>1 DEF ReadTree, TypeOK
<1>2. CASE Generation
  <2>1. Free(rest) \in SUBSET Packages
    BY <1>t DEF Free, TypeOK
  <2>2. /\ layers' \in Seq(SUBSET Packages) /\ Len(layers') = Len(layers) + 1
        /\ plan' = plan
    BY <1>t, <1>2, <2>1 DEF Generation, TypeOK
  <2>3. plan' \in [seeds : SUBSET Packages, start : Nat, open : 0..Len(layers')]
    BY <1>t, <2>2 DEF TypeOK
  <2>4. left' \subseteq Packages /\ rest' \subseteq left'
    BY <1>t, <1>2 DEF Generation, RemainingAfter, TypeOK
  <2> QED
    BY <1>t, <1>2, <2>2, <2>3, <2>4 DEF Generation, TypeOK
<1>3. CASE Cut
  <2>1. PICK p \in left : CutOut(p)
    BY <1>3 DEF Cut
  <2>2. {p} \in SUBSET Packages
    BY <1>t DEF TypeOK
  <2>3. /\ layers' \in Seq(SUBSET Packages) /\ Len(layers') = Len(layers) + 1
        /\ plan' = plan
    BY <1>t, <1>3, <2>1, <2>2 DEF Cut, CutOut, TypeOK
  <2>4. plan' \in [seeds : SUBSET Packages, start : Nat, open : 0..Len(layers')]
    BY <1>t, <2>3 DEF TypeOK
  <2> QED
    BY <1>t, <1>3, <2>1, <2>3, <2>4 DEF Cut, CutOut, TypeOK
<1>4. ASSUME NEW seeds \in SeedSets, CreatePlan(seeds) PROVE TypeOK'
  <2>1. Ordered /\ plan = NoPlan /\ seeds \subseteq Packages
    BY <1>4 DEF CreatePlan
  <2>2. PICK s \in {First(p) : p \in seeds} :
            /\ plan' = [seeds |-> seeds, start |-> s, open |-> s]
            /\ last' = [p \in Packages |->
                          IF p \in seeds /\ First(p) = s THEN "full" ELSE last[p]]
    BY <1>4 DEF CreatePlan
  <2>3. s \in 1..Len(layers) /\ Len(layers) \in Nat
    BY <1>t, <2>1, <2>2, SeedsAreLaidOut DEF TypeOK
  <2>4. plan' \in [seeds : SUBSET Packages, start : Nat, open : 0..Len(layers)]
    BY <2>1, <2>2, <2>3
  <2>5. last' \in [Packages -> Kinds]
    BY <1>t, <2>2 DEF TypeOK, Kinds
  <2> QED
    BY <1>t, <1>4, <2>4, <2>5 DEF CreatePlan, TypeOK
<1>5. ASSUME NEW groups \in Chains, CreateChain(groups) PROVE TypeOK'
  <2>1. groups \in Seq(SUBSET Packages) /\ groups # <<>>
    BY OrderAssumption
  <2>2. 1 \in 1..Len(groups) /\ Len(groups) \in Nat
    BY <2>1
  <2>3. groups[1] \in SUBSET Packages
    BY <2>1, <2>2
  <2>4. plan' \in [seeds : SUBSET Packages, start : Nat, open : 0..Len(layers')]
    BY <1>5, <2>2, <2>3 DEF CreateChain
  <2>5. last' \in [Packages -> Kinds] /\ pinned' \subseteq Packages
    BY <1>t, <1>5, <2>1, <2>2, EnqueueType DEF CreateChain
  <2> QED
    BY <1>t, <1>5, <2>1, <2>4, <2>5 DEF CreateChain, TypeOK
<1>6. CASE OpenLayer
  <2>1. plan.open + 1 \in 1..Len(layers) /\ Len(layers) \in Nat
    BY <1>t, <1>6 DEF OpenLayer, TypeOK
  <2>2. last' \in [Packages -> Kinds] /\ pinned' \subseteq Packages
    BY <1>t, <1>6, <2>1, EnqueueType DEF OpenLayer, TypeOK
  <2>3. plan' \in [seeds : SUBSET Packages, start : Nat, open : 0..Len(layers)]
    <3>1. /\ plan \in [seeds : SUBSET Packages, start : Nat, open : 0..Len(layers)]
          /\ plan' = [plan EXCEPT !.open = plan.open + 1]
          /\ plan.open + 1 \in 0..Len(layers)
      BY <1>t, <1>6, <2>1 DEF OpenLayer, TypeOK
    <3> QED
      BY <3>1
  <2> QED
    BY <1>t, <1>6, <2>2, <2>3 DEF OpenLayer, TypeOK
<1>7. ASSUME NEW p \in Packages, OtherBuild(p) PROVE TypeOK'
  BY <1>t, <1>7 DEF OtherBuild, TypeOK, Kinds
<1>8. CASE UNCHANGED vars
  BY <1>t, <1>8 DEF vars, TypeOK
<1> QED
  BY <1>1, <1>2, <1>3, <1>4, <1>5, <1>6, <1>7, <1>8 DEF Next

-----------------------------------------------------------------------------
(* The loop *)

\* Before anything is read or asked for.
LEMMA NothingYet ==
    ASSUME IInv, layers = <<>>, left = {}
    PROVE  rest = {} /\ plan = NoPlan /\ deps = NoTree /\ cycle = FALSE
<1>1. rest = {} /\ plan = NoPlan /\ cycle = FALSE
  BY DEF IInv, TypeOK, LoopInv
<1>2. \A p : CopiesOf(layers, p) = {}
  BY DEF CopiesOf
<1>3. ASSUME deps # NoTree PROVE FALSE
  <2>1. Packages = {}
    BY <1>1, <1>2, <1>3 DEF IInv, LoopInv, LaidOut
  <2>2. deps = [p \in Packages |-> deps[p]]
    BY DEF IInv, TypeOK
  <2> QED
    BY <1>3, <2>1, <2>2 DEF NoTree
<1> QED
  BY <1>1, <1>3

\* No plan is made before the last package is laid out.
LEMMA NoPlanYet ==
    ASSUME IInv, rest # {}
    PROVE  plan = NoPlan
  BY DEF IInv, TypeOK, LoopInv

LEMMA GenerationCopies ==
    ASSUME IInv, Generation, NEW p
    PROVE  /\ p \in Free(rest) => CopiesOf(layers', p) = CopiesOf(layers, p) \cup {Len(layers) + 1}
           /\ p \notin Free(rest) => CopiesOf(layers', p) = CopiesOf(layers, p)
<1>1. layers \in Seq(SUBSET Packages) /\ Free(rest) \in SUBSET Packages
  BY DEF IInv, TypeOK, Free
<1> QED
  BY <1>1, AppendCopies DEF Generation

LEMMA CutCopies ==
    ASSUME IInv, NEW c \in left, CutOut(c), NEW p
    PROVE  /\ p = c => CopiesOf(layers', p) = CopiesOf(layers, p) \cup {Len(layers) + 1}
           /\ p # c => CopiesOf(layers', p) = CopiesOf(layers, p)
<1>1. layers \in Seq(SUBSET Packages) /\ {c} \in SUBSET Packages
  BY DEF IInv, TypeOK
<1> QED
  BY <1>1, AppendCopies DEF CutOut

LEMMA LoopStep == IInv /\ [Next]_vars => LoopInv'
<1> SUFFICES ASSUME IInv, [Next]_vars PROVE LoopInv'
  OBVIOUS
<1> USE OrderAssumption
<1>t. TypeOK /\ LoopInv
  BY DEF IInv
<1>1. CASE ReadTree
  <2>1. plan = NoPlan /\ cycle = FALSE
    BY <1>1, NothingYet DEF ReadTree
  <2> QED
    BY <1>1, <2>1 DEF ReadTree, LoopInv, LaidOut
<1>2. CASE Generation
  <2>1. rest # {} /\ plan = NoPlan
    BY <1>2, NoPlanYet DEF Generation, Free
  <2>2. LaidOut
    BY <1>t, <2>1 DEF LoopInv, TypeOK
  <2>3. LaidOut'
    <3> SUFFICES ASSUME NEW p \in Packages \ rest' PROVE CopiesOf(layers', p) # {}
      BY DEF LaidOut
    <3>1. CASE p \in Free(rest)
      BY <1>2, <3>1, GenerationCopies
    <3>2. CASE p \notin Free(rest)
      BY <1>2, <2>2, <3>2, GenerationCopies DEF Generation, LaidOut
    <3> QED
      BY <3>1, <3>2
  <2>4. rest' = {} => left' = {}
    <3>1. SUFFICES ASSUME rest' = {} PROVE left' = {}
      OBVIOUS
    <3>2. Free(rest) = rest
      BY <1>2, <3>1 DEF Generation, Free
    <3> QED
      BY <1>2, <3>2 DEF Generation, RemainingAfter
  <2>5. layers' # <<>>
    BY <1>t, <1>2 DEF Generation, TypeOK
  <2> QED
    BY <1>2, <2>1, <2>3, <2>4, <2>5 DEF Generation, LoopInv
<1>3. CASE Cut
  <2>1. rest # {} /\ plan = NoPlan
    BY <1>3, NoPlanYet DEF Cut
  <2>2. LaidOut
    BY <1>t, <2>1 DEF LoopInv, TypeOK
  <2>3. PICK c \in left : CutOut(c)
    BY <1>3 DEF Cut
  <2>4. LaidOut'
    <3> SUFFICES ASSUME NEW p \in Packages \ rest' PROVE CopiesOf(layers', p) # {}
      BY DEF LaidOut
    <3>1. CASE p = c
      BY <2>3, <3>1, CutCopies
    <3>2. CASE p # c
      <4>1. p \notin rest
        BY <1>t, <1>3, <2>3, <3>2 DEF Cut, CutOut, TypeOK
      <4> QED
        BY <2>2, <2>3, <3>2, <4>1, CutCopies DEF LaidOut
    <3> QED
      BY <3>1, <3>2
  <2>5. layers' # <<>>
    BY <1>t, <2>3 DEF CutOut, TypeOK
  <2> QED
    BY <1>3, <2>1, <2>4, <2>5 DEF Cut, LoopInv
<1>4. ASSUME NEW seeds \in SeedSets, CreatePlan(seeds) PROVE LoopInv'
  <2>1. plan' # NoPlan
    <3>1. PICK s \in {First(p) : p \in seeds} : plan' = [seeds |-> seeds, start |-> s, open |-> s]
      BY <1>4 DEF CreatePlan
    <3>2. seeds # {}
      OBVIOUS
    <3> QED
      BY <3>1, <3>2 DEF NoPlan
  <2> QED
    BY <1>t, <1>4, <2>1 DEF CreatePlan, Ordered, LoopInv, LaidOut
<1>5. ASSUME NEW groups \in Chains, CreateChain(groups) PROVE LoopInv'
  <2>1. deps = NoTree
    BY <1>5, NothingYet DEF CreateChain
  <2>2. groups # <<>> /\ groups[1] # {}
    BY OrderAssumption
  <2>3. plan' # NoPlan /\ layers' # <<>>
    BY <1>5, <2>2 DEF CreateChain, NoPlan
  <2> QED
    BY <1>t, <1>5, <2>1, <2>3 DEF CreateChain, LoopInv, NoTree
<1>6. CASE OpenLayer
  <2>1. plan' # NoPlan
    <3>1. plan'.open # 0
      BY <1>t, <1>6 DEF OpenLayer, TypeOK
    <3> QED
      BY <3>1 DEF NoPlan
  <2> QED
    BY <1>t, <1>6, <2>1 DEF OpenLayer, LoopInv, LaidOut
<1>7. ASSUME NEW p \in Packages, OtherBuild(p) PROVE LoopInv'
  BY <1>t, <1>7 DEF OtherBuild, LoopInv, LaidOut, NoPlan
<1>8. CASE UNCHANGED vars
  BY <1>t, <1>8 DEF vars, LoopInv, LaidOut, NoPlan
<1> QED
  BY <1>1, <1>2, <1>3, <1>4, <1>5, <1>6, <1>7, <1>8 DEF Next

-----------------------------------------------------------------------------
(* The order of grounded packages *)

LEMMA GroundedKept ==
    ASSUME deps' = deps, NEW p
    PROVE  Grounded(p)' <=> Grounded(p)
  BY DEF Grounded, Free

\* With a grounded package left, one that is left needs nothing that is left:
\* no other can have the lowest indegree.
LEMMA CutIsFree ==
    ASSUME IInv, NEW c \in left, CutOut(c), NEW g \in left, Grounded(g)
    PROVE  deps[c] \cap left = {}
<1> USE OrderAssumption
<1>t. TypeOK
  BY DEF IInv
<1> DEFINE t == {p \in left : Grounded(p)}
<1>1. Free(t) # {}
  <2>1. t \in SUBSET Packages /\ t # {} /\ \A p \in t : Grounded(p)
    BY <1>t DEF TypeOK
  <2> HIDE DEF t
  <2> QED
    BY <2>1, GroundedFree
<1>2. PICK q \in t : deps[q] \cap t = {}
  BY <1>1 DEF Free
<1>3. q \in left /\ deps[q] \cap left = {}
  <2>1. q \in Packages /\ Grounded(q)
    BY <1>t DEF TypeOK
  <2>2. \A r \in deps[q] : Grounded(r)
    BY <2>1, GroundedNeeds
  <2> QED
    BY <1>2, <2>2
<1>4. CASE q = c
  BY <1>3, <1>4
<1>5. CASE q # c
  <2>1. CutBefore(c, q)
    BY <1>3, <1>5 DEF CutOut
  <2>2. Indegree(q) = 0
    BY <1>3, FS_EmptySet DEF Indegree
  <2>3. IsFiniteSet(deps[c] \cap left)
    <3>1. deps[c] \cap left \in SUBSET Packages
      BY <1>t DEF TypeOK
    <3> QED
      BY <3>1, FS_Subset
  <2>4. Indegree(c) \in Nat /\ (Indegree(c) = 0 => deps[c] \cap left = {})
    BY <2>3, FS_CardinalityType, FS_EmptySet DEF Indegree
  <2>5. Indegree(c) < Indegree(q) \/ Indegree(c) = Indegree(q)
    BY <2>1 DEF CutBefore
  <2> QED
    BY <2>2, <2>4, <2>5
<1> QED
  BY <1>4, <1>5

LEMMA OrderStep == IInv /\ [Next]_vars => OrderInv'
<1> SUFFICES ASSUME IInv, [Next]_vars PROVE OrderInv'
  OBVIOUS
<1> USE OrderAssumption
<1>t. TypeOK /\ OrderInv /\ Len(layers) \in Nat
  BY DEF IInv, TypeOK
<1>c. \A p : \A l \in CopiesOf(layers, p) : l \in Int /\ l <= Len(layers)
  BY <1>t, CopiesType DEF TypeOK
<1>1. CASE ReadTree
  <2>1. \A p : CopiesOf(layers, p)' = {}
    BY <1>1 DEF ReadTree, CopiesOf
  <2>2. deps' \in [Packages -> SUBSET Packages] /\ left' = Packages /\ rest' = Packages
    BY <1>1 DEF ReadTree
  <2> QED
    BY <2>1, <2>2 DEF OrderInv
<1>2. CASE Generation
  <2>1. deps' = deps /\ rest' = rest \ Free(rest) /\ (left' = left \/ left' = {})
    BY <1>2 DEF Generation, RemainingAfter
  <2>2. rest # {} /\ LaidOut
    <3>1. rest # {}
      BY <1>2 DEF Generation, Free
    <3>2. plan = NoPlan
      BY <3>1, NoPlanYet
    <3> QED
      BY <3>1, <3>2 DEF IInv, TypeOK, LoopInv
  <2>3. SUFFICES ASSUME NEW c \in Packages, Grounded(c), NEW p \in deps[c]
                 PROVE  /\ \A l \in CopiesOf(layers', c) : \E m \in CopiesOf(layers', p) : m < l
                        /\ c \notin left' => p \notin left'
                        /\ c \notin rest' =>
                              /\ p \notin rest'
                              /\ \A m \in CopiesOf(layers', p) :
                                    \E l \in CopiesOf(layers', c) : m < l
    BY <2>1, GroundedKept DEF OrderInv
  <2>4. p \in Packages
    BY <2>3, GroundedNeeds
  <2>5. /\ \A l \in CopiesOf(layers, c) : \E m \in CopiesOf(layers, p) : m < l
        /\ c \notin left => p \notin left
        /\ c \notin rest =>
              /\ p \notin rest
              /\ \A m \in CopiesOf(layers, p) : \E l \in CopiesOf(layers, c) : m < l
    BY <1>t, <2>3 DEF OrderInv
  <2>6. c \notin left' => p \notin left'
    BY <2>1, <2>5
  <2>7. CASE c \in Free(rest)
    <3>1. p \notin rest
      BY <2>7 DEF Free
    <3>2. p \notin Free(rest) /\ CopiesOf(layers, p) # {}
      BY <2>2, <2>4, <3>1 DEF Free, LaidOut
    <3>3. /\ CopiesOf(layers', p) = CopiesOf(layers, p)
          /\ CopiesOf(layers', c) = CopiesOf(layers, c) \cup {Len(layers) + 1}
      BY <1>2, <2>7, <3>2, GenerationCopies
    <3>4. \A m \in CopiesOf(layers, p) : m < Len(layers) + 1
      BY <1>t, <1>c
    <3> QED
      BY <2>1, <2>5, <2>6, <3>1, <3>2, <3>3, <3>4
  <2>8. CASE c \notin Free(rest)
    <3>1. CopiesOf(layers', c) = CopiesOf(layers, c)
      BY <1>2, <2>8, GenerationCopies
    <3>2. CopiesOf(layers, p) \subseteq CopiesOf(layers', p)
      BY <1>2, GenerationCopies
    <3>3. p \notin rest => CopiesOf(layers', p) = CopiesOf(layers, p)
      BY <1>2, GenerationCopies DEF Free
    <3> QED
      BY <2>1, <2>5, <2>6, <2>8, <3>1, <3>2, <3>3
  <2> QED
    BY <2>7, <2>8
<1>3. CASE Cut
  <2>1. PICK k \in left : CutOut(k)
    BY <1>3 DEF Cut
  <2>2. deps' = deps /\ rest' = left \ {k} /\ left' = left \ {k}
    BY <1>3, <2>1 DEF Cut, CutOut
  <2>3. LaidOut
    <3>1. rest # {}
      BY <1>3 DEF Cut
    <3>2. plan = NoPlan
      BY <3>1, NoPlanYet
    <3> QED
      BY <3>1, <3>2 DEF IInv, TypeOK, LoopInv
  <2>4. SUFFICES ASSUME NEW c \in Packages, Grounded(c), NEW p \in deps[c]
                 PROVE  /\ \A l \in CopiesOf(layers', c) : \E m \in CopiesOf(layers', p) : m < l
                        /\ c \notin left' =>
                              /\ p \notin left'
                              /\ \A m \in CopiesOf(layers', p) :
                                    \E l \in CopiesOf(layers', c) : m < l
    BY <2>2, GroundedKept DEF OrderInv
  <2>5. p \in Packages
    BY <2>4, GroundedNeeds
  <2>6. /\ \A l \in CopiesOf(layers, c) : \E m \in CopiesOf(layers, p) : m < l
        /\ c \notin left => p \notin left
        /\ c \notin rest =>
              /\ p \notin rest
              /\ \A m \in CopiesOf(layers, p) : \E l \in CopiesOf(layers, c) : m < l
    BY <1>t, <2>4 DEF OrderInv
  <2>7. CASE c = k
    <3>1. p \notin left
      BY <2>1, <2>4, <2>7, CutIsFree
    <3>2. p # k /\ CopiesOf(layers, p) # {}
      BY <1>t, <2>1, <2>3, <2>5, <3>1 DEF LaidOut, TypeOK
    <3>3. /\ CopiesOf(layers', p) = CopiesOf(layers, p)
          /\ CopiesOf(layers', c) = CopiesOf(layers, c) \cup {Len(layers) + 1}
      BY <2>1, <2>7, <3>2, CutCopies
    <3>4. \A m \in CopiesOf(layers, p) : m < Len(layers) + 1
      BY <1>t, <1>c
    <3> QED
      BY <2>2, <2>6, <3>1, <3>2, <3>3, <3>4
  <2>8. CASE c # k
    <3>1. CopiesOf(layers', c) = CopiesOf(layers, c)
      BY <2>1, <2>8, CutCopies
    <3>2. CopiesOf(layers, p) \subseteq CopiesOf(layers', p)
      BY <2>1, CutCopies
    <3>3. c \notin left' => c \notin left /\ c \notin rest
      BY <1>t, <2>2, <2>8 DEF TypeOK
    <3>4. p \notin left => CopiesOf(layers', p) = CopiesOf(layers, p)
      BY <2>1, CutCopies
    <3> QED
      BY <2>2, <2>6, <3>1, <3>2, <3>3, <3>4
  <2> QED
    BY <2>7, <2>8
<1>4. ASSUME NEW seeds \in SeedSets, CreatePlan(seeds) PROVE OrderInv'
  BY <1>t, <1>4, GroundedKept DEF CreatePlan, OrderInv
<1>5. ASSUME NEW groups \in Chains, CreateChain(groups) PROVE OrderInv'
  <2>1. deps' = NoTree
    BY <1>5, NothingYet DEF CreateChain
  <2> QED
    BY <2>1 DEF OrderInv, NoTree
<1>6. CASE OpenLayer
  BY <1>t, <1>6, GroundedKept DEF OpenLayer, OrderInv
<1>7. ASSUME NEW p \in Packages, OtherBuild(p) PROVE OrderInv'
  BY <1>t, <1>7, GroundedKept DEF OtherBuild, OrderInv
<1>8. CASE UNCHANGED vars
  BY <1>t, <1>8, GroundedKept DEF vars, OrderInv
<1> QED
  BY <1>1, <1>2, <1>3, <1>4, <1>5, <1>6, <1>7, <1>8 DEF Next

-----------------------------------------------------------------------------
(* Levels, and cycles *)

\* What was needed first is laid out when what needs it is: a level is the
\* number of the generation.
LEMMA LevelsOfGeneration ==
    ASSUME IInv, Generation, deps # NoTree, ~cycle
    PROVE  /\ \A p \in rest' : CopiesOf(layers', p) = {}
           /\ \A p \in Packages \ rest' : \E l \in 1..Len(layers') :
                 /\ CopiesOf(layers', p) = {l}
                 /\ \A q \in deps[p] :
                       q \notin rest' /\ \A m \in CopiesOf(layers', q) : m < l
                 /\ l > 1 => \E q \in deps[p] : q \in layers'[l - 1]
           /\ \A c \in rest' : deps[c] \cap (rest' \cup layers'[Len(layers')]) # {}
<1>t. TypeOK /\ LevelsInv /\ LaidOut
  BY DEF IInv, LoopInv
<1>1. /\ rest' = rest \ Free(rest) /\ Free(rest) \subseteq rest
      /\ layers' = Append(layers, Free(rest))
      /\ Free(rest) \in SUBSET Packages /\ layers \in Seq(SUBSET Packages)
  BY <1>t DEF Generation, Free, TypeOK
<1>2. /\ Len(layers) \in Nat /\ Len(layers') = Len(layers) + 1
      /\ \A l \in 1..Len(layers) : layers'[l] = layers[l]
      /\ layers'[Len(layers')] = Free(rest)
  BY <1>1
<1>3. /\ \A p \in rest : CopiesOf(layers, p) = {}
      /\ \A p \in Packages \ rest : \E l \in 1..Len(layers) :
            /\ CopiesOf(layers, p) = {l}
            /\ \A q \in deps[p] : q \notin rest /\ \A m \in CopiesOf(layers, q) : m < l
            /\ l > 1 => \E q \in deps[p] : q \in layers[l - 1]
      /\ layers # <<>> => \A c \in rest : deps[c] \cap (rest \cup layers[Len(layers)]) # {}
  BY <1>t DEF LevelsInv
<1>4. \A p \in rest' : CopiesOf(layers', p) = {}
  BY <1>1, <1>3, GenerationCopies
<1>5. ASSUME NEW p \in Packages \ rest'
      PROVE  \E l \in 1..Len(layers') :
                 /\ CopiesOf(layers', p) = {l}
                 /\ \A q \in deps[p] :
                       q \notin rest' /\ \A m \in CopiesOf(layers', q) : m < l
                 /\ l > 1 => \E q \in deps[p] : q \in layers'[l - 1]
  <2>1. CASE p \in Free(rest)
    <3> DEFINE n == Len(layers) + 1
    <3>1. CopiesOf(layers', p) = {n}
      BY <1>1, <1>3, <2>1, GenerationCopies
    <3>2. \A q \in deps[p] : q \notin rest
      BY <2>1 DEF Free
    <3>3. \A q \in deps[p] : \A m \in CopiesOf(layers', q) : m < n
      <4> SUFFICES ASSUME NEW q \in deps[p], NEW m \in CopiesOf(layers', q) PROVE m < n
        OBVIOUS
      <4>1. m \in CopiesOf(layers, q)
        BY <1>1, <3>2, GenerationCopies
      <4> QED
        BY <1>1, <4>1, CopiesType
    <3>4. ASSUME n > 1 PROVE \E q \in deps[p] : q \in layers'[n - 1]
      <4>1. layers # <<>>
        BY <1>2, <3>4
      <4>2. deps[p] \cap (rest \cup layers[Len(layers)]) # {}
        BY <1>1, <1>3, <2>1, <4>1
      <4>3. PICK q \in deps[p] : q \in layers[Len(layers)]
        BY <3>2, <4>2
      <4>4. n - 1 = Len(layers) /\ Len(layers) \in 1..Len(layers)
        BY <1>2, <3>4
      <4> QED
        BY <1>2, <4>3, <4>4
    <3>5. n \in 1..Len(layers')
      BY <1>2
    <3> HIDE DEF n
    <3> QED
      BY <1>1, <3>1, <3>2, <3>3, <3>4, <3>5
  <2>2. CASE p \notin Free(rest)
    <3>1. p \notin rest
      BY <1>1, <2>2
    <3>2. PICK l \in 1..Len(layers) :
              /\ CopiesOf(layers, p) = {l}
              /\ \A q \in deps[p] : q \notin rest /\ \A m \in CopiesOf(layers, q) : m < l
              /\ l > 1 => \E q \in deps[p] : q \in layers[l - 1]
      BY <1>3, <3>1
    <3>3. CopiesOf(layers', p) = {l}
      BY <2>2, <3>2, GenerationCopies
    <3>4. \A q \in deps[p] : q \notin rest' /\ \A m \in CopiesOf(layers', q) : m < l
      BY <1>1, <3>2, GenerationCopies
    <3>5. l \in 1..Len(layers') /\ (l > 1 => layers'[l - 1] = layers[l - 1])
      BY <1>2
    <3> QED
      BY <3>2, <3>3, <3>4, <3>5
  <2> QED
    BY <2>1, <2>2
<1>6. \A c \in rest' : deps[c] \cap (rest' \cup layers'[Len(layers')]) # {}
  <2>1. \A c \in rest' : deps[c] \cap rest # {}
    BY <1>1 DEF Free
  <2>2. rest = rest' \cup layers'[Len(layers')]
    BY <1>1, <1>2
  <2> QED
    BY <2>1, <2>2
<1> QED
  BY <1>4, <1>5, <1>6

LEMMA LevelsStep == IInv /\ [Next]_vars => LevelsInv'
<1> SUFFICES ASSUME IInv, [Next]_vars PROVE LevelsInv'
  OBVIOUS
<1>t. LevelsInv
  BY DEF IInv
<1>1. CASE ReadTree
  <2>1. \A p : CopiesOf(layers, p)' = {}
    BY <1>1 DEF ReadTree, CopiesOf
  <2> QED
    BY <1>1, <2>1 DEF ReadTree, LevelsInv
<1>2. CASE Generation
  <2>1. deps' = deps /\ cycle' = cycle
    BY <1>2 DEF Generation
  <2> QED
    BY <1>2, <2>1, LevelsOfGeneration DEF LevelsInv
<1>3. CASE Cut
  BY <1>3 DEF Cut, CutOut, LevelsInv
<1>4. ASSUME NEW seeds \in SeedSets, CreatePlan(seeds) PROVE LevelsInv'
  BY <1>t, <1>4 DEF CreatePlan, LevelsInv, NoTree
<1>5. ASSUME NEW groups \in Chains, CreateChain(groups) PROVE LevelsInv'
  <2>1. deps' = NoTree
    BY <1>5, NothingYet DEF CreateChain
  <2> QED
    BY <2>1 DEF LevelsInv, NoTree
<1>6. CASE OpenLayer
  BY <1>t, <1>6 DEF OpenLayer, LevelsInv, NoTree
<1>7. ASSUME NEW p \in Packages, OtherBuild(p) PROVE LevelsInv'
  BY <1>t, <1>7 DEF OtherBuild, LevelsInv, NoTree
<1>8. CASE UNCHANGED vars
  BY <1>t, <1>8 DEF vars, LevelsInv, NoTree
<1> QED
  BY <1>1, <1>2, <1>3, <1>4, <1>5, <1>6, <1>7, <1>8 DEF Next

LEMMA CycleStep == IInv /\ [Next]_vars => CycleInv'
<1> SUFFICES ASSUME IInv, [Next]_vars PROVE CycleInv'
  OBVIOUS
<1>t. CycleInv
  BY DEF IInv
<1>1. CASE ReadTree
  BY <1>1, NothingYet DEF ReadTree, CycleInv
<1>2. CASE Cut
  <2>1. rest \in SUBSET Packages /\ rest # {} /\ Free(rest) = {}
    BY <1>2 DEF IInv, TypeOK, Cut
  <2>2. PICK p \in Packages : ~Grounded(p)
    BY <2>1, GroundedFree
  <2>3. deps' = deps
    BY <1>2 DEF Cut
  <2> QED
    BY <2>2, <2>3, GroundedKept DEF CycleInv
<1>3. CASE deps' = deps /\ cycle' = cycle
  BY <1>t, <1>3, GroundedKept DEF CycleInv
<1>4. Generation \/ UNCHANGED vars => deps' = deps /\ cycle' = cycle
  BY DEF Generation, vars
<1>5. ASSUME NEW seeds \in SeedSets, CreatePlan(seeds) PROVE deps' = deps /\ cycle' = cycle
  BY <1>5 DEF CreatePlan
<1>6. ASSUME NEW groups \in Chains, CreateChain(groups) PROVE deps' = deps /\ cycle' = cycle
  BY <1>6 DEF CreateChain
<1>7. OpenLayer => deps' = deps /\ cycle' = cycle
  BY DEF OpenLayer
<1>8. ASSUME NEW p \in Packages, OtherBuild(p) PROVE deps' = deps /\ cycle' = cycle
  BY <1>8 DEF OtherBuild
<1> QED
  BY <1>1, <1>2, <1>3, <1>4, <1>5, <1>6, <1>7, <1>8 DEF Next

-----------------------------------------------------------------------------
(* The builds of a plan *)

\* What is built with everything on, or was beside the plan and for bootstrap
\* since.
BuiltReal(p) == last[p] = "full" \/ (last[p] = "bootstrap" /\ p \in others)

\* A layer that is built changes the last build of its own packages only.
LEMMA EnqueueEffect ==
    ASSUME TypeOK, NEW l, NEW found, Enqueue(layers, l, found), NEW p \in Packages
    PROVE  /\ p \in Boots(layers, l) => last'[p] = "bootstrap"
           /\ p \in layers[l] \ (Boots(layers, l) \cup found) => last'[p] = "full"
           /\ p \notin layers[l] \/ p \in found \ Boots(layers, l) => last'[p] = last[p]
           /\ last[p] # "none" => last'[p] # "none"
  BY DEF Enqueue, Boots, TypeOK

\* A package has no copy after its real one.
LEMMA RealIsLast ==
    ASSUME TypeOK, NEW l \in Nat, NEW p \in Real(l)
    PROVE  p \in layers[l] /\ \A m \in 1..Len(layers) : p \in layers[m] => m <= l
<1>1. p \in layers[l] /\ p \notin Boots(layers, l)
  BY DEF Real
<1>2. \A m \in CopiesOf(layers, p) : ~(m > l)
  BY <1>1 DEF Boots
<1> QED
  BY <1>1, <1>2 DEF CopiesOf

LEMMA PlanOfOpenLayer ==
    ASSUME IInv, OpenLayer
    PROVE  PlanInv'
<1>t. TypeOK /\ PlanInv
  BY DEF IInv
<1> DEFINE n == plan.open + 1
<1>1. /\ n \in 1..Len(layers) /\ Len(layers) \in Nat /\ plan.open \in Nat
      /\ plan.start \in 1..plan.open /\ plan # NoPlan /\ plan.open = n - 1
  BY <1>t DEF OpenLayer, TypeOK, PlanInv
<1>2. /\ plan'.start = plan.start /\ plan'.seeds = plan.seeds /\ plan'.open = n
      /\ layers' = layers /\ others' = others /\ plan' # NoPlan
  <2>1. plan' = [plan EXCEPT !.open = n] /\ layers' = layers /\ others' = others
    BY DEF OpenLayer
  <2>2. plan \in [seeds : SUBSET Packages, start : Nat, open : 0..Len(layers)]
    BY <1>t DEF TypeOK
  <2>3. plan'.start = plan.start /\ plan'.seeds = plan.seeds /\ plan'.open = n
    BY <2>1, <2>2
  <2>4. plan' # NoPlan
    BY <1>1, <2>3 DEF NoPlan
  <2> QED
    BY <2>1, <2>3, <2>4
<1>3. Enqueue(layers, n, pinned) /\ pinned' = pinned \cup (layers[n] \ (Boots(layers, n) \cup pinned))
  BY DEF OpenLayer, Enqueue
<1>4. \A l : Real(l)' = Real(l)
  BY <1>2 DEF Real
<1>5. plan'.start..plan'.open = (plan.start..plan.open) \cup {n}
  BY <1>1, <1>2
<1>6. Real(n) = layers[n] \ Boots(layers, n)
  BY <1>1 DEF Real
<1>7. layers[n] \subseteq Packages
  BY <1>t, <1>1 DEF TypeOK
<1> HIDE DEF n
<1>8. \A p \in others' : last'[p] # "none"
  BY <1>t, <1>2, <1>3, EnqueueEffect DEF PlanInv, TypeOK
<1>9. \A p \in pinned' : p \in others' \/ \E l \in plan'.start..plan'.open : p \in Real(l)'
  BY <1>t, <1>1, <1>2, <1>3, <1>4, <1>5, <1>6 DEF PlanInv
<1>10. ASSUME NEW l \in plan.start..plan.open, NEW p \in Real(l) PROVE BuiltReal(p)'
  <2>1. l \in 1..Len(layers) /\ l < n
    BY <1>1
  <2>2. p \notin layers[n] /\ p \in Packages
    BY <1>t, <1>1, <2>1, RealIsLast DEF TypeOK
  <2>3. last'[p] = last[p]
    BY <1>t, <1>3, <2>2, EnqueueEffect
  <2>4. BuiltReal(p)
    BY <1>t, <1>1 DEF PlanInv, BuiltReal
  <2> QED
    BY <1>2, <2>3, <2>4 DEF BuiltReal
<1>11. ASSUME NEW p \in Real(n) PROVE BuiltReal(p)'
  <2>1. p \in layers[n] \ Boots(layers, n) /\ p \in Packages
    BY <1>6, <1>7
  <2>2. CASE p \notin pinned
    BY <1>t, <1>3, <2>1, <2>2, EnqueueEffect DEF BuiltReal
  <2>3. CASE p \in pinned
    <3>1. p \in others
      <4>1. ASSUME NEW l \in plan.start..plan.open, p \in Real(l) PROVE FALSE
        <5>1. l \in 1..Len(layers) /\ l < n
          BY <1>1
        <5> QED
          BY <1>t, <1>1, <2>1, <4>1, <5>1, RealIsLast
      <4> QED
        BY <1>t, <1>1, <2>3, <4>1 DEF PlanInv
    <3>2. last'[p] = last[p]
      BY <1>t, <1>3, <2>1, <2>3, EnqueueEffect
    <3>3. last[p] \in Kinds /\ last[p] # "none"
      BY <1>t, <2>1, <3>1 DEF PlanInv, TypeOK
    <3> QED
      BY <1>2, <3>1, <3>2, <3>3 DEF BuiltReal, Kinds
  <2> QED
    BY <2>2, <2>3
<1>12. \A l \in plan'.start..plan'.open : \A p \in Real(l)' : BuiltReal(p)'
  BY <1>4, <1>5, <1>10, <1>11
<1>13. plan'.start \in 1..plan'.open
  BY <1>1, <1>2
<1>14. \A p \in plan'.seeds : \E l \in CopiesOf(layers', p) : l >= plan'.start
  BY <1>t, <1>1, <1>2 DEF PlanInv
<1> QED
  BY <1>2, <1>8, <1>9, <1>12, <1>13, <1>14 DEF PlanInv, BuiltReal

LEMMA PlanOfCreatePlan ==
    ASSUME IInv, NEW seeds \in SeedSets, CreatePlan(seeds)
    PROVE  PlanInv'
<1> USE OrderAssumption
<1>t. TypeOK /\ PlanInv
  BY DEF IInv
<1>1. /\ Ordered /\ plan = NoPlan /\ seeds \subseteq Packages /\ seeds # {}
      /\ layers' = layers /\ pinned' = pinned /\ others' = others
      /\ pinned = {} /\ others = {}
  BY <1>t DEF CreatePlan, PlanInv
<1>2. PICK s \in {First(p) : p \in seeds} :
          /\ \A p \in seeds : s <= First(p)
          /\ plan' = [seeds |-> seeds, start |-> s, open |-> s]
          /\ last' = [p \in Packages |-> IF p \in seeds /\ First(p) = s THEN "full" ELSE last[p]]
  BY DEF CreatePlan
<1>3. \A p \in Packages : First(p) \in CopiesOf(layers, p) /\ First(p) \in 1..Len(layers)
  BY <1>1, SeedsAreLaidOut
<1>4. s \in 1..Len(layers) /\ Len(layers) \in Nat
  BY <1>t, <1>1, <1>2, <1>3 DEF TypeOK
<1>5. /\ plan'.start = s /\ plan'.open = s /\ plan'.seeds = seeds
      /\ plan'.start..plan'.open = {s} /\ plan' # NoPlan
  <2>1. plan'.start = s /\ plan'.open = s /\ plan'.seeds = seeds
    BY <1>2
  <2> QED
    BY <1>4, <2>1 DEF NoPlan
<1>6. \A p \in plan'.seeds : \E l \in CopiesOf(layers', p) : l >= plan'.start
  <2> SUFFICES ASSUME NEW p \in seeds PROVE \E l \in CopiesOf(layers, p) : l >= s
    BY <1>1, <1>5
  <2>1. First(p) \in CopiesOf(layers, p) /\ First(p) >= s
    BY <1>1, <1>2, <1>3, <1>4
  <2> QED
    BY <2>1
<1>7. ASSUME NEW p \in Real(s)' PROVE last'[p] = "full"
  <2>1. p \in seeds \cap layers[s] /\ p \in Packages
    <3>1. Real(s)' = (seeds \cap layers[s]) \ Boots(layers, s)
      BY <1>1, <1>5 DEF Real
    <3> QED
      BY <1>1, <3>1
  <2>2. s \in CopiesOf(layers, p)
    BY <1>4, <2>1 DEF CopiesOf
  <2>3. First(p) <= s
    BY <1>t, <2>2, FirstIsLeast
  <2>4. s <= First(p)
    BY <1>2, <2>1
  <2>5. First(p) \in 1..Len(layers)
    BY <1>3, <2>1
  <2>6. First(p) = s
    BY <1>4, <2>3, <2>4, <2>5
  <2> QED
    BY <1>2, <2>1, <2>6
<1>8. plan'.start \in 1..plan'.open
  BY <1>4, <1>5
<1> QED
  BY <1>1, <1>5, <1>6, <1>7, <1>8 DEF PlanInv

LEMMA PlanOfCreateChain ==
    ASSUME IInv, NEW groups \in Chains, CreateChain(groups)
    PROVE  PlanInv'
<1> USE OrderAssumption
<1>t. TypeOK /\ PlanInv
  BY DEF IInv
<1>1. /\ groups \in Seq(SUBSET Packages) /\ groups # <<>>
      /\ Len(groups) \in Nat /\ 1 \in 1..Len(groups) /\ groups[1] \subseteq Packages
  <2>1. groups \in Seq(SUBSET Packages) /\ groups # <<>>
    OBVIOUS
  <2>2. Len(groups) \in Nat /\ 1 \in 1..Len(groups)
    BY <2>1
  <2> QED
    BY <2>1, <2>2
<1>2. /\ plan = NoPlan /\ pinned = {} /\ others = {} /\ others' = others
      /\ layers' = groups
      /\ plan'.start = 1 /\ plan'.open = 1 /\ plan'.seeds = groups[1]
      /\ plan' # NoPlan
  BY <1>t DEF CreateChain, PlanInv, NoPlan
<1>3. /\ last' = [p \in Packages |->
                    IF p \in Boots(groups, 1) THEN "bootstrap"
                    ELSE IF p \in groups[1] \ Boots(groups, 1) THEN "full" ELSE last[p]]
      /\ pinned' = groups[1] \ Boots(groups, 1)
  BY <1>2 DEF CreateChain, Enqueue
<1>4. Real(1)' = groups[1] \ Boots(groups, 1)
  BY <1>2 DEF Real, Boots, CopiesOf
<1>5. \A p \in plan'.seeds : \E l \in CopiesOf(layers', p) : l >= plan'.start
  BY <1>1, <1>2 DEF CopiesOf
<1>6. \A p \in Real(1)' : last'[p] = "full"
  BY <1>1, <1>3, <1>4 DEF Boots
<1>7. plan'.start..plan'.open = {1}
  BY <1>2
<1> QED
  BY <1>2, <1>3, <1>4, <1>5, <1>6, <1>7 DEF PlanInv

LEMMA PlanStep == IInv /\ [Next]_vars => PlanInv'
<1> SUFFICES ASSUME IInv, [Next]_vars PROVE PlanInv'
  OBVIOUS
<1>t. TypeOK /\ PlanInv
  BY DEF IInv
<1>1. CASE ReadTree
  <2>1. plan = NoPlan
    BY <1>1, NothingYet DEF ReadTree
  <2> QED
    BY <1>t, <1>1, <2>1 DEF ReadTree, PlanInv, NoPlan
<1>2. CASE Generation
  <2>1. plan = NoPlan
    BY <1>2, NoPlanYet DEF Generation, Free
  <2> QED
    BY <1>t, <1>2, <2>1 DEF Generation, PlanInv, NoPlan
<1>3. CASE Cut
  <2>1. plan = NoPlan
    BY <1>3, NoPlanYet DEF Cut
  <2> QED
    BY <1>t, <1>3, <2>1 DEF Cut, PlanInv, NoPlan
<1>4. ASSUME NEW seeds \in SeedSets, CreatePlan(seeds) PROVE PlanInv'
  BY <1>4, PlanOfCreatePlan
<1>5. ASSUME NEW groups \in Chains, CreateChain(groups) PROVE PlanInv'
  BY <1>5, PlanOfCreateChain
<1>6. CASE OpenLayer
  BY <1>6, PlanOfOpenLayer
<1>7. ASSUME NEW p \in Packages, OtherBuild(p) PROVE PlanInv'
  <2>1. /\ plan # NoPlan /\ plan' = plan /\ layers' = layers
        /\ others' = others \cup {p} /\ pinned' = pinned \cup {p}
        /\ last' = [last EXCEPT ![p] = "full"]
    BY <1>7 DEF OtherBuild
  <2>2. \A l : Real(l)' = Real(l)
    BY <2>1 DEF Real
  <2>3. \A q \in Packages : last'[q] = IF q = p THEN "full" ELSE last[q]
    BY <1>t, <2>1 DEF TypeOK
  <2>4. ASSUME NEW l \in plan.start..plan.open, NEW q \in Real(l) PROVE BuiltReal(q)'
    <3>1. q \in Packages
      <4>1. plan.open \in 0..Len(layers) /\ plan.start \in Nat /\ plan.start >= 1
        BY <1>t, <2>1 DEF TypeOK, PlanInv
      <4>2. l \in 1..Len(layers)
        BY <1>t, <4>1 DEF TypeOK
      <4> QED
        BY <1>t, <4>2, RealIsLast DEF TypeOK
    <3>2. BuiltReal(q)
      BY <1>t, <2>1 DEF PlanInv, BuiltReal
    <3> QED
      BY <2>1, <2>3, <3>1, <3>2 DEF BuiltReal
  <2>5. \A q \in others' : last'[q] # "none"
    BY <1>t, <2>1, <2>3 DEF PlanInv, TypeOK
  <2> QED
    BY <1>t, <2>1, <2>2, <2>4, <2>5 DEF PlanInv, BuiltReal, NoPlan
<1>8. CASE UNCHANGED vars
  <2>1. \A l : Real(l)' = Real(l)
    BY <1>8 DEF vars, Real
  <2> QED
    BY <1>t, <1>8, <2>1 DEF vars, PlanInv, NoPlan
<1> QED
  BY <1>1, <1>2, <1>3, <1>4, <1>5, <1>6, <1>7, <1>8 DEF Next

-----------------------------------------------------------------------------
(* What the invariant says once the loop, or the plan, is through *)

LEMMA InvProvidersFirst == IInv => ProvidersFirst
<1> SUFFICES ASSUME IInv, FromTree, NEW c \in Packages, Grounded(c), NEW p \in deps[c]
             PROVE  First(p) < First(c) /\ Last(p) < Last(c)
  BY DEF ProvidersFirst
<1>1. /\ rest = {} /\ left = {} /\ LaidOut /\ TypeOK /\ OrderInv
      /\ layers \in Seq(SUBSET Packages)
  BY DEF IInv, TypeOK, LoopInv, FromTree, Ordered
<1>2. p \in Packages
  BY GroundedNeeds
<1>3. CopiesOf(layers, c) # {} /\ CopiesOf(layers, p) # {}
  BY <1>1, <1>2 DEF LaidOut
<1>4. /\ \A l \in CopiesOf(layers, c) : \E m \in CopiesOf(layers, p) : m < l
      /\ \A m \in CopiesOf(layers, p) : \E l \in CopiesOf(layers, c) : m < l
  BY <1>1 DEF OrderInv
<1>5. /\ First(c) \in CopiesOf(layers, c) /\ First(p) \in CopiesOf(layers, p)
      /\ Last(c) \in CopiesOf(layers, c) /\ Last(p) \in CopiesOf(layers, p)
      /\ \A m \in CopiesOf(layers, p) : First(p) <= m
      /\ \A l \in CopiesOf(layers, c) : Last(c) >= l
  BY <1>1, <1>3, FirstIsLeast, LastIsGreatest
<1>6. \A q : \A l \in CopiesOf(layers, q) : l \in Int
  BY <1>1, CopiesType
<1>7. First(p) < First(c)
  <2>1. PICK m \in CopiesOf(layers, p) : m < First(c)
    BY <1>4, <1>5
  <2>2. First(p) <= m /\ First(p) \in Int /\ First(c) \in Int /\ m \in Int
    BY <1>5, <1>6
  <2> QED
    BY <2>1, <2>2
<1>8. Last(p) < Last(c)
  <2>1. PICK l \in CopiesOf(layers, c) : Last(p) < l
    BY <1>4, <1>5
  <2>2. Last(c) >= l /\ Last(p) \in Int /\ Last(c) \in Int /\ l \in Int
    BY <1>5, <1>6
  <2> QED
    BY <2>1, <2>2
<1> QED
  BY <1>7, <1>8

\* Of some packages, one that is laid out first needs none of the others.
LEMMA LevelsAreGrounded ==
    ASSUME IInv, FromTree, ~cycle, NEW p \in Packages
    PROVE  Grounded(p)
<1>1. rest = {} /\ TypeOK /\ layers \in Seq(SUBSET Packages) /\ Len(layers) \in Nat
  BY DEF IInv, TypeOK, FromTree, Ordered
<1>2. \A q \in Packages : \E l \in 1..Len(layers) :
          /\ CopiesOf(layers, q) = {l}
          /\ \A r \in deps[q] : \A m \in CopiesOf(layers, r) : m < l
  BY <1>1 DEF IInv, LevelsInv, FromTree
<1>3. \A q \in Packages : deps[q] \subseteq Packages
  BY <1>1 DEF TypeOK
<1>4. ASSUME NEW t \in (SUBSET Packages) \ {{}} PROVE Free(t) # {}
  <2> DEFINE L == {l \in 1..Len(layers) : \E q \in t : l \in CopiesOf(layers, q)}
  <2>1. L \in SUBSET Nat /\ L # {}
    <3>1. PICK q \in t : TRUE
      BY <1>4
    <3>2. PICK l \in 1..Len(layers) : CopiesOf(layers, q) = {l}
      BY <1>2, <1>4, <3>1
    <3>3. l \in L
      BY <3>1, <3>2
    <3> QED
      BY <1>1, <3>3
  <2>2. PICK l \in L : \A m \in L : l <= m
    <3> HIDE DEF L
    <3> QED
      BY <2>1, LeastNumber
  <2>3. PICK q \in t : l \in CopiesOf(layers, q)
    BY <2>2
  <2>4. ASSUME NEW r \in deps[q] \cap t PROVE FALSE
    <3>1. q \in Packages /\ r \in Packages
      BY <1>4
    <3>2. \A m \in CopiesOf(layers, r) : m < l
      BY <1>2, <2>3, <3>1
    <3>3. PICK m \in 1..Len(layers) : CopiesOf(layers, r) = {m}
      BY <1>2, <3>1
    <3>4. m \in L /\ m < l /\ l \in Int
      BY <2>1, <2>2, <3>2, <3>3
    <3> QED
      BY <2>2, <3>4
  <2> QED
    BY <2>4 DEF Free
<1> QED
  BY <1>3, <1>4 DEF Grounded

LEMMA InvTreeIsLayered == IInv => TreeIsLayered
<1> SUFFICES ASSUME IInv, FromTree
             PROVE  /\ cycle = (\E p \in Packages : ~Grounded(p))
                    /\ cycle \/ \A p \in Packages : \E l \in 1..Len(layers) :
                          /\ CopiesOf(layers, p) = {l}
                          /\ \A q \in deps[p] : First(q) < l
                          /\ l > 1 => \E q \in deps[p] : First(q) = l - 1
  BY DEF TreeIsLayered
<1>1. /\ rest = {} /\ TypeOK /\ cycle \in BOOLEAN /\ CycleInv
      /\ layers \in Seq(SUBSET Packages) /\ Len(layers) \in Nat
  BY DEF IInv, TypeOK, FromTree, Ordered
<1>2. cycle = (\E p \in Packages : ~Grounded(p))
  <2>1. CASE cycle
    BY <1>1, <2>1 DEF CycleInv
  <2>2. CASE ~cycle
    BY <1>1, <2>2, LevelsAreGrounded
  <2> QED
    BY <2>1, <2>2
<1>3. ASSUME ~cycle, NEW p \in Packages
      PROVE  \E l \in 1..Len(layers) :
                 /\ CopiesOf(layers, p) = {l}
                 /\ \A q \in deps[p] : First(q) < l
                 /\ l > 1 => \E q \in deps[p] : First(q) = l - 1
  <2>1. \A q \in Packages : \E l \in 1..Len(layers) :
            /\ CopiesOf(layers, q) = {l}
            /\ \A r \in deps[q] : \A m \in CopiesOf(layers, r) : m < l
            /\ l > 1 => \E r \in deps[q] : r \in layers[l - 1]
    BY <1>1, <1>3 DEF IInv, LevelsInv, FromTree
  <2>2. \A q \in Packages : \A m \in CopiesOf(layers, q) : First(q) = m
    <3> SUFFICES ASSUME NEW q \in Packages, NEW m \in CopiesOf(layers, q) PROVE First(q) = m
      OBVIOUS
    <3>1. PICK l \in 1..Len(layers) : CopiesOf(layers, q) = {l}
      BY <2>1
    <3>2. First(q) \in CopiesOf(layers, q)
      BY <1>1, FirstIsLeast
    <3> QED
      BY <3>1, <3>2
  <2>3. deps[p] \subseteq Packages
    BY <1>1 DEF TypeOK
  <2>4. PICK l \in 1..Len(layers) :
            /\ CopiesOf(layers, p) = {l}
            /\ \A r \in deps[p] : \A m \in CopiesOf(layers, r) : m < l
            /\ l > 1 => \E r \in deps[p] : r \in layers[l - 1]
    BY <2>1
  <2>5. \A q \in deps[p] : First(q) < l
    <3> SUFFICES ASSUME NEW q \in deps[p] PROVE First(q) < l
      OBVIOUS
    <3>1. PICK m \in 1..Len(layers) : CopiesOf(layers, q) = {m}
      BY <2>1, <2>3
    <3> QED
      BY <2>2, <2>3, <2>4, <3>1
  <2>6. ASSUME l > 1 PROVE \E q \in deps[p] : First(q) = l - 1
    <3>1. PICK q \in deps[p] : q \in layers[l - 1]
      BY <2>4, <2>6
    <3>2. l - 1 \in CopiesOf(layers, q)
      BY <1>1, <2>6, <3>1 DEF CopiesOf
    <3> QED
      BY <2>2, <2>3, <3>2
  <2> QED
    BY <2>4, <2>5, <2>6
<1> QED
  BY <1>2, <1>3

LEMMA InvEndsReal == IInv => EndsReal
<1> SUFFICES ASSUME IInv, plan # NoPlan, plan.open = Len(layers),
                    NEW p \in plan.seeds \cup UNION {layers[l] : l \in plan.start + 1 .. Len(layers)}
             PROVE  last[p] = "full" \/ (last[p] = "bootstrap" /\ p \in others)
  BY DEF EndsReal
<1>1. /\ TypeOK /\ PlanInv /\ plan.start \in 1..plan.open /\ plan.start \in Nat
      /\ layers \in Seq(SUBSET Packages) /\ Len(layers) \in Nat
  BY DEF IInv, TypeOK, PlanInv
<1>2. PICK m \in CopiesOf(layers, p) :
          m >= plan.start /\ (m = plan.start => p \in plan.seeds)
  <2>1. CASE p \in plan.seeds
    BY <1>1, <2>1 DEF PlanInv
  <2>2. CASE p \notin plan.seeds
    <3>1. PICK l \in plan.start + 1 .. Len(layers) : p \in layers[l]
      BY <2>2
    <3>2. l \in CopiesOf(layers, p) /\ l > plan.start
      BY <1>1, <3>1 DEF CopiesOf
    <3> QED
      BY <1>1, <3>2
  <2> QED
    BY <2>1, <2>2
<1>3. /\ Last(p) \in CopiesOf(layers, p) /\ \A l \in CopiesOf(layers, p) : Last(p) >= l
  BY <1>1, <1>2, LastIsGreatest
<1>4. /\ Last(p) \in 1..Len(layers) /\ p \in layers[Last(p)] /\ m \in Int
      /\ Last(p) >= m
  BY <1>1, <1>2, <1>3 DEF CopiesOf
<1>5. p \notin Boots(layers, Last(p))
  <2>1. ASSUME NEW l \in CopiesOf(layers, p), l > Last(p) PROVE FALSE
    <3>1. l \in Int /\ Last(p) >= l /\ Last(p) \in Int
      BY <1>1, <1>3, <1>4, CopiesType
    <3> QED
      BY <2>1, <3>1
  <2> QED
    BY <2>1 DEF Boots
<1>6. Last(p) \in plan.start..plan.open /\ (Last(p) = plan.start => p \in plan.seeds)
  <2>1. Last(p) \in plan.start..plan.open
    BY <1>1, <1>2, <1>4
  <2>2. ASSUME Last(p) = plan.start PROVE p \in plan.seeds
    <3>1. m = plan.start
      BY <1>1, <1>2, <1>4, <2>2
    <3> QED
      BY <1>2, <3>1
  <2> QED
    BY <2>1, <2>2
<1>7. p \in Real(Last(p))
  BY <1>4, <1>5, <1>6 DEF Real
<1> QED
  BY <1>1, <1>6, <1>7 DEF PlanInv

-----------------------------------------------------------------------------
(* The loop has something to do, and ends *)

\* Of some packages left, min() finds the one to be cut out.
LEMMA PickExists ==
    ASSUME IInv, left # {}
    PROVE  \E p \in left : \A q \in left \ {p} : CutBefore(p, q)
<1> USE OrderAssumption
<1>1. TypeOK /\ left \subseteq Packages /\ left \subseteq Int /\ IsFiniteSet(left)
  <2>1. TypeOK /\ left \subseteq Packages
    BY DEF IInv, TypeOK
  <2> QED
    BY <2>1, FS_Subset
<1> DEFINE n == Cardinality(left)
<1>2. n \in Nat /\ \A p \in left : Indegree(p) \in Nat /\ FanOut(p) \in 0..n
  <2>1. n \in Nat
    BY <1>1, FS_CardinalityType
  <2>2. ASSUME NEW p \in left PROVE Indegree(p) \in Nat /\ FanOut(p) \in 0..n
    <3>1. IsFiniteSet(deps[p] \cap left)
      BY <1>1, FS_Intersection
    <3>2. {c \in left : p \in deps[c]} \in SUBSET left
      OBVIOUS
    <3>3. /\ Cardinality({c \in left : p \in deps[c]}) \in Nat
          /\ Cardinality({c \in left : p \in deps[c]}) <= n
      BY <1>1, <3>2, FS_Subset, FS_CardinalityType
    <3> QED
      BY <2>1, <3>1, <3>3, FS_CardinalityType DEF Indegree, FanOut
  <2> QED
    BY <2>1, <2>2
<1> HIDE DEF n
<1>3. PICK a \in left : \A q \in left : Indegree(a) <= Indegree(q)
  <2> DEFINE D == {Indegree(p) : p \in left}
  <2>1. D \in SUBSET Nat /\ D # {}
    BY <1>2
  <2>2. PICK d \in D : \A e \in D : d <= e
    <3> HIDE DEF D
    <3> QED
      BY <2>1, LeastNumber
  <2> QED
    BY <2>2
<1> DEFINE A == {p \in left : Indegree(p) = Indegree(a)}
<1>4. PICK b \in A : \A q \in A : FanOut(b) >= FanOut(q)
  <2> DEFINE F == {FanOut(p) : p \in A}
  <2>1. F \in SUBSET (0..n) /\ F # {}
    BY <1>2
  <2>2. PICK f \in F : \A g \in F : f >= g
    <3> HIDE DEF F
    <3> QED
      BY <1>2, <2>1, GreatestNumber
  <2> QED
    BY <2>2
<1> DEFINE B == {p \in A : FanOut(p) = FanOut(b)}
<1>5. PICK p \in B : \A q \in B : p <= q
  <2>1. B \in SUBSET Int /\ B # {} /\ B \in SUBSET left
    BY <1>1
  <2>2. IsFiniteSet(B)
    BY <1>1, <2>1, FS_Subset
  <2> HIDE DEF B
  <2> QED
    BY <2>1, <2>2, LeastOfFinite
<1>6. ASSUME NEW q \in left \ {p} PROVE CutBefore(p, q)
  <2>1. /\ p \in left /\ Indegree(p) = Indegree(a) /\ FanOut(p) = FanOut(b)
        /\ Indegree(p) <= Indegree(q)
    BY <1>3
  <2>2. /\ p \in Int /\ q \in Int /\ Indegree(p) \in Nat /\ Indegree(q) \in Nat
        /\ FanOut(p) \in Int /\ FanOut(q) \in Int
    BY <1>1, <1>2, <2>1
  <2>3. CASE Indegree(p) < Indegree(q)
    BY <2>3 DEF CutBefore
  <2>4. CASE Indegree(p) = Indegree(q) /\ FanOut(p) > FanOut(q)
    BY <2>4 DEF CutBefore
  <2>5. CASE Indegree(p) = Indegree(q) /\ ~(FanOut(p) > FanOut(q))
    <3>1. FanOut(p) >= FanOut(q)
      BY <1>4, <2>1, <2>5
    <3>2. FanOut(p) = FanOut(q)
      BY <2>2, <2>5, <3>1
    <3>3. p <= q
      BY <1>5, <2>1, <2>5, <3>2
    <3>4. p < q
      BY <1>6, <2>2, <3>3
    <3> QED
      BY <2>5, <3>2, <3>4 DEF CutBefore
  <2> QED
    BY <2>1, <2>2, <2>3, <2>4, <2>5
<1> QED
  BY <1>6

\* While packages are left, a generation can be yielded or a package cut out.
LoopGoesOn ==
    left # {} =>
        \/ Free(rest) # {}
        \/ rest # {} /\ \E p \in left : \A q \in left \ {p} : CutBefore(p, q)

\* A generation leaves less to yield, a cut less to lay out.
LoopShrinks ==
    Generation \/ Cut =>
        \/ left' \subseteq left /\ left' # left
        \/ left' = left /\ rest' \subseteq rest /\ rest' # rest

LEMMA InvLoopGoesOn == IInv => LoopGoesOn
  BY PickExists DEF IInv, LoopInv, LoopGoesOn

LEMMA StepLoopShrinks == IInv /\ [Next]_vars => [LoopShrinks]_vars
<1> SUFFICES ASSUME IInv, Generation \/ Cut
             PROVE  \/ left' \subseteq left /\ left' # left
                    \/ left' = left /\ rest' \subseteq rest /\ rest' # rest
  BY DEF LoopShrinks
<1>1. CASE Generation
  <2>1. rest' \subseteq rest /\ rest' # rest
    BY <1>1 DEF Generation, Free
  <2>2. left' = left \/ (left' = {} /\ rest # {} /\ rest \subseteq left)
    BY <1>1 DEF Generation, RemainingAfter, Free, IInv, TypeOK
  <2> QED
    BY <2>1, <2>2
<1>2. CASE Cut
  <2>1. PICK p \in left : left' = left \ {p}
    BY <1>2 DEF Cut, CutOut
  <2> QED
    BY <2>1
<1> QED
  BY <1>1, <1>2

-----------------------------------------------------------------------------
(* Theorems *)

LEMMA Inductive == Spec => []IInv
<1>1. Init => IInv
  BY InitInv
<1>2. IInv /\ [Next]_vars => IInv'
  BY TypeStep, LoopStep, OrderStep, LevelsStep, CycleStep, PlanStep DEF IInv
<1> QED
  BY <1>1, <1>2, PTL DEF Spec

\* The layers hold packages, a plan's layers are layers there are, and what was
\* last built of a package is one of the kinds of builds.
THEOREM LayerOrderTypes == Spec => []TypeOK
<1>1. IInv => TypeOK
  BY DEF IInv
<1> QED
  BY <1>1, Inductive, PTL

\* What a package needs is laid out, and really built, before it, unless there
\* is a cycle in what it needs, whatever order _kahn_layers cuts other cycles in.
THEOREM ProvidersBeforeConsumers == Spec => []ProvidersFirst
  BY InvProvidersFirst, Inductive, PTL

\* cycle_warning is exact, and layers are generations when there is no cycle.
THEOREM LayersAreGenerations == Spec => []TreeIsLayered
  BY InvTreeIsLayered, Inductive, PTL

\* bootstrap_names_by_layer leaves a full build of each package at the end.
THEOREM PlansEndReal == Spec => []EndsReal
  BY InvEndsReal, Inductive, PTL

\* The while loop of _kahn_layers never stands still: there is a package for
\* min() to pick when no generation is left, whatever the indegrees.
THEOREM LayeringGoesOn == Spec => []LoopGoesOn
  BY InvLoopGoesOn, Inductive, PTL

\* And it cannot run for ever: each of its steps makes the set of packages left
\* smaller or, that set kept, the set of those not yielded.
THEOREM LayeringShrinks == Spec => [][LoopShrinks]_vars
<1>1. IInv /\ [Next]_vars => [LoopShrinks]_vars
  BY StepLoopShrinks
<1> QED
  BY <1>1, Inductive, PTL DEF Spec

=============================================================================
