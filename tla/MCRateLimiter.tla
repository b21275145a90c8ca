---------------------------- MODULE MCRateLimiter ----------------------------
(* Two callers a trusted proxy forwards for one address, and one that has a *)
(* key.                                                                     *)
EXTENDS RateLimiter, TLC

CONSTANTS c1, c2, c3, key, ip

MCCallers == {c1, c2, c3}
MCKeyOf == [c \in MCCallers |-> IF c = c3 THEN key ELSE NoKey]
MCAddressOf == [c \in MCCallers |-> ip]
MCForwarded == [c \in MCCallers |-> IF c = c3 THEN NoAddress ELSE ip]
MCSymmetry == Permutations({c1, c2})
=============================================================================
