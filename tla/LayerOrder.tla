----------------------------- MODULE LayerOrder -----------------------------
(***************************************************************************)
(* From a tree of spec files to the builds of an rpmbuild plan: the layers *)
(* that _kahn_layers puts the packages in, cutting cycles as it meets      *)
(* them, and the copies of a package in several layers, all but the last   *)
(* of which the plan takes for bootstrap builds.                           *)
(***************************************************************************)
EXTENDS FiniteSets, Integers, Sequences

CONSTANTS
    Packages,   \* source names, as numbers in the order of sorted()
    SeedSets,   \* bound: the seeds a user asks for
    Chains,     \* bound: the groups of packages a user asks for
    MaxOthers   \* bound: packages that are also built beside the plan

ASSUME OrderAssumption ==
    /\ IsFiniteSet(Packages) /\ Packages \subseteq Int
    /\ SeedSets \subseteq (SUBSET Packages) \ {{}}
    /\ Chains \subseteq Seq((SUBSET Packages) \ {{}}) \ {<<>>}
    /\ MaxOthers \in Nat

VARIABLES
    deps,    \* [Packages -> the packages that provide what they need]
    left,    \* packages not cut out yet: remaining
    rest,    \* of those, the ones topological_generations has not yielded
    layers,  \* the sequence of layers
    cycle,   \* cycle_warning
    plan,    \* the plan: its seeds, its first layer and the one it has opened
    last,    \* [Packages -> the kind of its last build since the plan began]
    pinned,  \* packages with a full success of their version since then
    others   \* packages that were built beside the plan

vars == <<deps, left, rest, layers, cycle, plan, last, pinned, others>>

NoTree == [p \in Packages |-> {}]
NoPlan == [seeds |-> {}, start |-> 0, open |-> 0]

Init ==
    /\ deps = NoTree /\ left = {} /\ rest = {}
    /\ layers = <<>> /\ cycle = FALSE
    /\ plan = NoPlan
    /\ last = [p \in Packages |-> "none"]
    /\ pinned = {} /\ others = {}

-----------------------------------------------------------------------------
(* _distgit_order_from_parsed, _kahn_layers *)

\* A package that provides what it needs itself is no provider of its own.
ReadTree ==
    /\ layers = <<>> /\ left = {}
    /\ deps' \in {d \in [Packages -> SUBSET Packages] : \A p \in Packages : p \notin d[p]}
    /\ left' = Packages /\ rest' = Packages
    /\ UNCHANGED <<layers, cycle, plan, last, pinned, others>>

\* Mutant: a package is free once something it needs is laid out.
FreeSoon(s) == {p \in s : deps[p] = {} \/ deps[p] \ s # {}}
\* The packages of s that nothing in s comes before.
Free(s) == {p \in s : deps[p] \cap s = {}}

Indegree(p) == Cardinality(deps[p] \cap left)
FanOut(p) == Cardinality({c \in left : p \in deps[c]})

\* Mutant: high fan-out first.
CutBeforeByFanOut(p, q) ==
    \/ FanOut(p) > FanOut(q)
    \/ FanOut(p) = FanOut(q) /\ Indegree(p) < Indegree(q)
    \/ FanOut(p) = FanOut(q) /\ Indegree(p) = Indegree(q) /\ p < q
\* "lowest remaining indegree, prefer high fan-out providers over consumers"
CutBefore(p, q) ==
    \/ Indegree(p) < Indegree(q)
    \/ Indegree(p) = Indegree(q) /\ FanOut(p) > FanOut(q)
    \/ Indegree(p) = Indegree(q) /\ FanOut(p) = FanOut(q) /\ p < q

\* Mutant: the loop goes on after the last generation.
RemainingAfterAll(gen) == left
\* Packages are laid out once there are generations of all of them.
RemainingAfter(gen) == IF gen = rest THEN {} ELSE left

\* topological_generations yields the next generation of the subgraph, and it
\* is appended at once.
Generation ==
    /\ Free(rest) # {}
    /\ layers' = Append(layers, Free(rest))
    /\ rest' = rest \ Free(rest)
    /\ left' = RemainingAfter(Free(rest))
    /\ UNCHANGED <<deps, cycle, plan, last, pinned, others>>

\* It raises, a cycle being left: one package gets a layer of its own and
\* leaves the graph.  The generations appended before stay, and their packages
\* are among those still to be laid out.
CutOut(p) ==
    /\ \A q \in left \ {p} : CutBefore(p, q)
    /\ layers' = Append(layers, {p})
    /\ left' = left \ {p}
    /\ cycle' = TRUE

\* Mutant: the generator goes on after the cut.
CutGoesOn ==
    /\ rest # {} /\ Free(rest) = {}
    /\ \E p \in left : CutOut(p)
    /\ UNCHANGED <<deps, rest, plan, last, pinned, others>>
Cut ==
    /\ rest # {} /\ Free(rest) = {}
    /\ \E p \in left : CutOut(p)
    /\ rest' = left'
    /\ UNCHANGED <<deps, plan, last, pinned, others>>

Ordered == layers # <<>> /\ left = {}

-----------------------------------------------------------------------------
(* create_rpmbuild_plan, enqueue_plan_layer_jobs *)

CopiesOf(gs, p) == {l \in 1..Len(gs) : p \in gs[l]}
First(p) == CHOOSE l \in CopiesOf(layers, p) : \A m \in CopiesOf(layers, p) : l <= m
Last(p)  == CHOOSE l \in CopiesOf(layers, p) : \A m \in CopiesOf(layers, p) : l >= m

\* Mutant: the first copy is the real build.
BootsLater(gs, l) == {p \in gs[l] : \E m \in CopiesOf(gs, p) : m < l}
\* bootstrap_names_by_layer: of several copies the last is the real build.
Boots(gs, l) == {p \in gs[l] : \E m \in CopiesOf(gs, p) : m > l}

\* The jobs of a layer: all its packages, seeds or not, but real copies of those
\* in "found" are not built again.
Enqueue(gs, l, found) ==
    LET real == gs[l] \ (Boots(gs, l) \cup found)
    IN  /\ last' = [p \in Packages |->
                     IF p \in Boots(gs, l) THEN "bootstrap"
                     ELSE IF p \in real THEN "full" ELSE last[p]]
        /\ pinned' = pinned \cup real

\* An rpmbuild plan starts at the lowest first layer of its seeds, with the
\* seeds of that layer: full builds, whose jobs carry no version.
CreatePlan(seeds) ==
    /\ Ordered /\ plan = NoPlan
    /\ \E s \in {First(p) : p \in seeds} :
          /\ \A p \in seeds : s <= First(p)
          /\ plan' = [seeds |-> seeds, start |-> s, open |-> s]
          /\ last' = [p \in Packages |->
                        IF p \in seeds /\ First(p) = s THEN "full" ELSE last[p]]
    /\ UNCHANGED <<deps, left, rest, layers, cycle, pinned, others>>

\* A manual chain has the layers the user wrote, and builds all of the first.
CreateChain(groups) ==
    /\ layers = <<>> /\ left = {} /\ plan = NoPlan
    /\ layers' = groups
    /\ plan' = [seeds |-> groups[1], start |-> 1, open |-> 1]
    /\ Enqueue(groups, 1, {})
    /\ UNCHANGED <<deps, left, rest, cycle, others>>

\* The next layer is opened once the one before it is built (LayerPlan).
OpenLayer ==
    /\ plan # NoPlan /\ plan.open < Len(layers)
    /\ plan' = [plan EXCEPT !.open = @ + 1]
    /\ Enqueue(layers, plan.open + 1, pinned)
    /\ UNCHANGED <<deps, left, rest, layers, cycle, others>>

\* A build of the same version beside the plan: a trigger, another plan.
OtherBuild(p) ==
    /\ plan # NoPlan /\ Cardinality(others) < MaxOthers
    /\ others' = others \cup {p}
    /\ last' = [last EXCEPT ![p] = "full"]
    /\ pinned' = pinned \cup {p}
    /\ UNCHANGED <<deps, left, rest, layers, cycle, plan>>

Next ==
    \/ ReadTree
    \/ Generation
    \/ Cut
    \/ \E seeds \in SeedSets : CreatePlan(seeds)
    \/ \E groups \in Chains : CreateChain(groups)
    \/ OpenLayer
    \/ \E p \in Packages : OtherBuild(p)

Spec == Init /\ [][Next]_vars

\* The loop is one call.
FairSpec == Spec /\ WF_vars(Generation \/ Cut)

-----------------------------------------------------------------------------
Kinds == {"none", "bootstrap", "full"}

TypeOK ==
    /\ deps \in [Packages -> SUBSET Packages]
    /\ left \subseteq Packages /\ rest \subseteq left
    /\ layers \in Seq(SUBSET Packages) /\ cycle \in BOOLEAN
    /\ plan \in [seeds : SUBSET Packages, start : Nat, open : 0..Len(layers)]
    /\ last \in [Packages -> Kinds]
    /\ pinned \subseteq Packages /\ others \subseteq Packages

\* What a package needs, directly or not, is free of cycles.
Grounded(p) ==
    \E s \in SUBSET Packages :
        /\ p \in s /\ \A q \in s : deps[q] \subseteq s
        /\ \A t \in (SUBSET s) \ {{}} : Free(t) # {}

FromTree == Ordered /\ deps # NoTree

\* "provider before consumer", for the first and for the real copies: a cycle
\* spoils the order of its own packages and of what comes after it only.
ProvidersFirst ==
    FromTree => \A c \in Packages : Grounded(c) =>
        \A p \in deps[c] : First(p) < First(c) /\ Last(p) < Last(c)

\* A cycle is told if and only if there is one.  Without one, every package has
\* one layer, the first that is after its providers.
TreeIsLayered ==
    FromTree =>
        /\ cycle = (\E p \in Packages : ~Grounded(p))
        /\ cycle \/ \A p \in Packages : \E l \in 1..Len(layers) :
              /\ CopiesOf(layers, p) = {l}
              /\ \A q \in deps[p] : First(q) < l
              /\ l > 1 => \E q \in deps[p] : First(q) = l - 1

\* Once a plan is through, what it was asked for was built, and last of all with
\* everything on, unless a build beside the plan was taken for the real one.
EndsReal ==
    plan # NoPlan /\ plan.open = Len(layers) =>
        \A p \in plan.seeds \cup UNION {layers[l] : l \in plan.start + 1 .. Len(layers)} :
            last[p] = "full" \/ (last[p] = "bootstrap" /\ p \in others)

\* The loop ends, whatever cycles there are.
OrderEnds == left # {} ~> left = {}
=============================================================================
