------------------------- MODULE BuildQueueClaimsMC -------------------------
(* BuildQueueClaims on one job. *)
EXTENDS BuildQueueClaims

CONSTANTS w1, j1

Capacity == [w \in Workers |-> 1]
NoWakes  == [j \in Jobs |-> {}]
Builds   == [j \in Jobs |-> {"success", "failed"}]
=============================================================================
