------------------------------- MODULE Ledger -------------------------------
(***************************************************************************)
(* What prepaid credit promises: an account is opened once with its seed,  *)
(* and each billable request moves that account's balance at most twice: a *)
(* hold of the cache-hit price, then either a charge of the hit or the     *)
(* miss price or a refund.  How requests, Redis scripts, lost replies and  *)
(* restarts bring the moves about is Billing's business, which implements  *)
(* this specification.                                                     *)
(***************************************************************************)
EXTENDS Integers

CONSTANTS
  Accounts,   \* the accounts of config/api_keys.json
  Requests,   \* billable requests, each with an identity of its own
  Owner,      \* the account whose key a request presents
  Seed,       \* initial_credit_cents of an account
  HitCost,    \* CACHE_HIT_COST_CENTS
  MissCost    \* CACHE_MISS_COST_CENTS

\* Billing, which instantiates this module, states what it assumes of them.

VARIABLES
  opened,     \* accounts that exist
  balance,    \* their balance, in cents
  stage       \* how far each request has come

ledgerVars == <<opened, balance, stage>>

Stages == {"new", "held", "refunded", "hit", "miss"}

Init ==
  /\ opened = {}
  /\ balance = [a \in Accounts |-> 0]
  /\ stage = [r \in Requests |-> "new"]

Open(a) ==
  /\ a \notin opened
  /\ opened' = opened \cup {a}
  /\ balance' = [balance EXCEPT ![a] = Seed[a]]
  /\ UNCHANGED stage

\* A move takes `cents` from the owner's account, never below zero, and only
\* from an account that exists.
Move(r, from, to, cents) ==
  /\ stage[r] = from
  /\ Owner[r] \in opened
  /\ balance[Owner[r]] - cents >= 0
  /\ balance' = [balance EXCEPT ![Owner[r]] = @ - cents]
  /\ stage' = [stage EXCEPT ![r] = to]
  /\ UNCHANGED opened

Hold(r)       == Move(r, "new", "held", HitCost)
ChargeHit(r)  == Move(r, "held", "hit", 0)
ChargeMiss(r) == Move(r, "held", "miss", MissCost - HitCost)
Refund(r)     == Move(r, "held", "refunded", -HitCost)

Next ==
  \/ \E a \in Accounts : Open(a)
  \/ \E r \in Requests : Hold(r) \/ ChargeHit(r) \/ ChargeMiss(r) \/ Refund(r)

Spec == Init /\ [][Next]_ledgerVars

=============================================================================
