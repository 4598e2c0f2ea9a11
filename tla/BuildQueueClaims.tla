-------------------------- MODULE BuildQueueClaims --------------------------
(***************************************************************************)
(* What a log message of report_result says of the attempts it repairs,    *)
(* against the workers and requests of BuildQueue.                         *)
(***************************************************************************)
EXTENDS BuildQueue

VARIABLE builtBadly   \* attempts whose worker thread ended in a failure

ClaimsInit == Init /\ builtBadly = {}
ClaimsNext ==
    /\ Next
    /\ builtBadly' = builtBadly \cup
           {a \in AttemptIds : agent[a] = "building" /\ agent'[a] = "failed"}
ClaimsSpec == ClaimsInit /\ [][ClaimsNext]_<<vars, builtBadly>>

\* report_result: "failed report but %d artifacts (timeout race); restoring
\* success".  Only a success can be restored.
RepairRestoresSuccess ==
    \A a \in builtBadly : att[a].status # "success"
=============================================================================
