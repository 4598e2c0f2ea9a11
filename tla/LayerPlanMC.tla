---------------------------- MODULE LayerPlanMC -----------------------------
(* LayerPlan on small instances: a library, what is built on it, and an     *)
(* application and a tool on top; an old package is built outside the plan. *)
EXTENDS LayerPlan

CONSTANTS lib, mid, app, tool, old

TwoLayers   == [p \in Packages |-> IF p = lib THEN 0 ELSE 1]
ThreeLayers == [p \in Packages |-> IF p = lib THEN 0 ELSE IF p \in {app, tool} THEN 2 ELSE 1]

NoProviders == [p \in Packages |-> {}]
\* Only app needs lib, through old.
AppNeedsLib == [p \in Packages |-> IF p = app THEN {old} ELSE IF p = old THEN {lib} ELSE {}]
=============================================================================
