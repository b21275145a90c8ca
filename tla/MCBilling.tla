------------------------------ MODULE MCBilling ------------------------------
(* Two accounts: a1 is shared by two requests and has credit for one miss, *)
(* a2 holds less than one miss costs.                                      *)
EXTENDS Billing

CONSTANTS a1, a2, r1, r2, r3

MCAccounts == {a1, a2}
MCRequests == {r1, r2, r3}
MCTwoRequests == {r1, r2}
MCOneOwner == [r \in MCTwoRequests |-> a1]
MCOwner == [r \in MCRequests |-> IF r = r3 THEN a2 ELSE a1]
MCSeed == [a \in MCAccounts |-> IF a = a1 THEN 2 ELSE 1]
=============================================================================
