--------------------------- MODULE MCVoyagerClient ---------------------------
(* Two strategies and an enrichment, or one of each.                       *)
EXTENDS VoyagerClient, TLC

CONSTANTS s1, s2, e1

MCMixed == {s1, s2, e1}
MCStrategies == {s1, s2}
MCPair == {s1, e1}
MCOneStrategy == {s1}
MCSymmetry == Permutations(MCStrategies)
=============================================================================
