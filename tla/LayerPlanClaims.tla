-------------------------- MODULE LayerPlanClaims ---------------------------
(* What the web page says of chains, against LayerPlan. *)
EXTENDS LayerPlanMC

\* The page asks before a cancel: "Stops all open jobs in this chain."  Jobs
\* that a concurrent advance enqueues are not among those the cancel finds.
CancelStopsAllJobs ==
    plan.status = "cancelled" => \A p \in Packages : job[p] \notin Open
=============================================================================
