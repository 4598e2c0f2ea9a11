--------------------------- MODULE BuildQueueMC -----------------------------
(* BuildQueue on two jobs and two workers. *)
EXTENDS BuildQueue

CONSTANTS w1, w2, j1, j2

TwoAndOne == [w \in Workers |-> IF w = w1 THEN 2 ELSE 1]
FirstWakesSecond == [j \in Jobs |-> IF j = j1 THEN {j2} ELSE {}]
\* The second job has two passes, and may be blocked by what it needs.
MCVerdicts == [j \in Jobs |-> IF j = j1 THEN {"success", "failed"} ELSE {"success", "blocked"}]

Only(J, W) ==
    /\ {j \in Jobs : job[j].status = "pending"} = J
    /\ {w \in Workers : worker[w].state = "offline"} = W

\* One job on a worker with two slots, an admin may act on it and something may
\* fail; or both jobs on a worker with one slot, and nobody does and nothing
\* fails.
MCInit ==
    /\ Init
    /\ \/ Only({j1}, {w1}) /\ ops = 0 /\ faults = 0
       \/ Only({j1, j2}, {w2}) /\ ops = MaxOps /\ faults = MaxFaults
MCSpec == MCInit /\ [][Next]_vars /\ Fairness
=============================================================================
