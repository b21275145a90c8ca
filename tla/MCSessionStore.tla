---------------------------- MODULE MCSessionStore ----------------------------
(* Three saves of two sessions; each may have a file open beside the one   *)
(* under the final name.                                                   *)
EXTENDS SessionStore, TLC

CONSTANTS w1, w2, w3, s1, s2, f1, f2, f3, f4

MCSavers   == {w1, w2, w3}
MCContents == {s1, s2}
MCFiles    == {f1, f2, f3, f4}
MCSymmetry == Permutations(MCSavers) \cup Permutations(MCContents) \cup Permutations(MCFiles)
=============================================================================
