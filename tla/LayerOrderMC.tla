---------------------------- MODULE LayerOrderMC ----------------------------
(* LayerOrder on four packages: every tree of them. *)
EXTENDS LayerOrder

SomeSeeds  == {{1}, {4}, {2, 3}}
SomeChains == {<<{1}, {2}, {1}>>, <<{3}, {1, 2}, {1}, {4}, {1}>>}
=============================================================================
