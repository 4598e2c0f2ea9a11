------------------------- MODULE PublishPipelineMC --------------------------
(* PublishPipeline on a small instance. *)
EXTENDS PublishPipeline

\* The job of both attempts: built, retried and built again.
Rebuilt == [a \in Attempts |-> 1]
\* All files are of one package.
OnePackage == [f \in Files |-> 1]

\* The second build has a version of its own, and something may fail; or both
\* builds have one file name, and nothing fails.
MCInit ==
    /\ Init
    /\ \/ file = [a \in Attempts |-> a] /\ faults = 0
       \/ file = [a \in Attempts |-> 1] /\ faults = MaxFaults
MCSpec == MCInit /\ [][Next]_vars /\ PublishFairness /\ ScanFairness
=============================================================================
