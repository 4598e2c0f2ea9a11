------------------------- MODULE RpmFinalizeClaims --------------------------
(* What the worker's docstring says of outages, against RpmFinalize. *)
EXTENDS RpmFinalize

\* _upload_rpm_to_controller_resilient: "Keep a completed RPM staged while the
\* controller is temporarily unavailable."  So a controller that comes back does
\* not cost the upload: only a cancel, another attempt's upload or the end of
\* the worker does.  But the lock of a killed controller outlasts the window.
OutageIsSurvived ==
    \A a \in Attempts :
        agent[a] = "completing" /\ a \notin late ~>
            \/ agent[a] = "done"
            \/ (agent[a] = "gone" /\ a \notin late)
            \/ cancelled \/ Overtaken(a)
=============================================================================
