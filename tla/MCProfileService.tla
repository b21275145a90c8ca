-------------------------- MODULE MCProfileService --------------------------
(* Lookups of one key: two, or three, so that flights and their saves      *)
(* overlap.                                                                *)
EXTENDS ProfileService, TLC

CONSTANTS k1, r1, r2, r3

MCOneKey == {k1}
MCTwo == {r1, r2}
MCThree == {r1, r2, r3}
MCTwoOfOne == [r \in MCTwo |-> k1]
MCThreeOfOne == [r \in MCThree |-> k1]
MCSymmetry == Permutations(MCThree)
=============================================================================
