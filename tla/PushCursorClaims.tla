-------------------------- MODULE PushCursorClaims --------------------------
(***************************************************************************)
(* What a log message of the webhook says of catch-up, against the cursor  *)
(* that both of them move.                                                 *)
(***************************************************************************)
EXTENDS PushCursorMC

VARIABLE left   \* history: changes a cut-off compare of a delivery left out

LeftOut == {x \in Changes : x \in delivery[x[1]][x[2]].cut}

ClaimsInit == Init /\ left = {}
ClaimsNext == Next /\ left' = left \cup LeftOut'
ClaimsSpec == ClaimsInit /\ [][ClaimsNext]_<<vars, left>> /\ Fairness

\* resolve_github_webhook_changed_paths: "triggering only matched packages
\* (catch-up handles the rest)".  But the delivery moves the cursor to its own
\* push, and catch-up compares only what comes after the cursor.
CatchupHandlesTheRest == \A x \in Changes : x \in left ~> built[x[3]] >= x[2]
=============================================================================
