------------------------------- MODULE MCSession -------------------------------
(* Two calls that share the session, or one by itself.                     *)
EXTENDS Session, TLC

CONSTANTS c1, c2

MCCalls == {c1, c2}
MCOneCall == {c1}
MCSymmetry == Permutations(MCCalls)
=============================================================================
