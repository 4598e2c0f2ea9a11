----------------------------- MODULE RepoTreeMC -----------------------------
(* RepoTree with one side tag and two new builds of one package. *)
EXTENDS RepoTree

CONSTANTS lib, tag1, dev, testing, stable

AllLib   == [f \in Builds |-> lib]
OneTag   == [f \in Builds |-> tag1]
ByPrefix == [b \in Branches |-> CASE b = dev     -> 1 [] b = stable -> 2
                                  [] b = testing -> 3 [] OTHER      -> 4]
AllReleased == [b \in Primary |-> Names]
SomeRoutes == {<<tag1, dev>>, <<dev, testing>>, <<testing, dev>>}
=============================================================================
