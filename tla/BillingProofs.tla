---------------------------- MODULE BillingProofs ----------------------------
(***************************************************************************)
(* Theorems about Billing, for every set of accounts, requests and prices: *)
(* type correctness, solvency, the agreement of answers and ledger, the    *)
(* conservation of credit, and that Billing implements Ledger.             *)
(***************************************************************************)
EXTENDS Billing, FiniteSetTheorems, TLAPS

\* Nothing is asked of Redis before every account of the seed file exists, and
\* accounts never go away.
Ready ==
  /\ opened \cup toSeed = Accounts
  /\ \/ wire = {} /\ \A r \in Requests : pc[r] = "new" /\ applied[r] = "new"
     \/ opened = Accounts

\* Where a request, its scripts on the wire, the answer it waits for and the
\* ledger stand together.  A script is on the wire at most once and before it
\* has been applied; an answer that is there tells what Redis did.
Coherent(q) ==
  /\ <<q, "reserve">> \in wire => applied[q] = "new" /\ pc[q] \in {"reserving", "failed", "gone"}
  /\ <<q, "settle">> \in wire => applied[q] = "held" /\ pc[q] \in {"settling", "failed", "gone"}
  /\ pc[q] \in {"new", "authed"} => applied[q] = "new"
  /\ pc[q] = "running" => applied[q] = "held"
  /\ pc[q] = "settled" => applied[q] = Charge(outcome[q])
  /\ pc[q] \in {"unpaid", "refused"} => applied[q] \in {"new", "refunded"}
  /\ reply[q] # "none" => /\ pc[q] \in {"reserving", "settling"}
                          /\ <<q, "reserve">> \notin wire
                          /\ <<q, "settle">> \notin wire
                          /\ reply[q] \in {"ok", "short"}
  /\ pc[q] = "reserving" =>
       CASE reply[q] = "none"  -> <<q, "reserve">> \in wire
         [] reply[q] = "ok"    -> applied[q] = "held"
         [] reply[q] = "short" -> applied[q] = "new"
  /\ pc[q] = "settling" =>
       CASE reply[q] = "none"  -> <<q, "settle">> \in wire
         [] reply[q] = "ok"    -> applied[q] = Charge(outcome[q])
         [] reply[q] = "short" -> applied[q] = "refunded"

IInv == TypeOK /\ Solvent /\ Ready /\ \A q \in Requests : Coherent(q)

-----------------------------------------------------------------------------

\* The inductive invariant holds before anything is seeded.
LEMMA InitIInv == Init => IInv
BY BillingAssumption
DEF Init, IInv, TypeOK, Solvent, Ready, Coherent, Live, Answered, Outcomes,
    Replies, Stages, Scripts

\* A request that a step does not touch stays coherent.
LEMMA Frame ==
  ASSUME NEW q \in Requests, Coherent(q),
         UNCHANGED <<pc[q], outcome[q], reply[q], applied[q]>>,
         \A s \in Scripts : (<<q, s>> \in wire') <=> (<<q, s>> \in wire)
  PROVE  Coherent(q)'
BY DEF Coherent, Charge, Scripts

\* Every action keeps it: one step per action, by the requests it leaves alone
\* (Frame) and the one it moves.
LEMMA NextIInv == IInv /\ [Next]_vars => IInv'
<1> SUFFICES ASSUME IInv, [Next]_vars PROVE IInv'
  OBVIOUS
<1> USE BillingAssumption
<1> USE DEF IInv, TypeOK, Live, Answered, Outcomes, Replies, Stages, Scripts
<1>1. ASSUME NEW a \in Accounts, SeedAccount(a) PROVE IInv'
  <2>1. ASSUME NEW q \in Requests PROVE Coherent(q)'
    BY <1>1, Frame DEF SeedAccount, requestVars
  <2>2. QED
    BY <1>1, <2>1 DEF SeedAccount, Solvent, Ready, requestVars
<1>2. ASSUME NEW r \in Requests, Authenticate(r) PROVE IInv'
  <2>1. TypeOK'
    BY <1>2 DEF Authenticate, Coherent, redisVars, Serving
  <2>2. Solvent' /\ Ready'
    BY <1>2 DEF Authenticate, Solvent, Ready, Coherent, redisVars, Serving
  <2>3. ASSUME NEW q \in Requests, q # r PROVE Coherent(q)'
    BY <1>2, <2>3, Frame DEF Authenticate, redisVars, Serving
  <2>4. Coherent(r)'
    BY <1>2 DEF Authenticate, Coherent, redisVars, Serving
  <2>5. QED
    BY <2>1, <2>2, <2>3, <2>4
<1>3. ASSUME NEW r \in Requests, SendReserve(r) PROVE IInv'
  <2>1. TypeOK'
    BY <1>3 DEF SendReserve, Ready, Coherent, redisVars
  <2>2. Solvent' /\ Ready'
    BY <1>3 DEF SendReserve, Solvent, Ready, Coherent, redisVars
  <2>3. ASSUME NEW q \in Requests, q # r PROVE Coherent(q)'
    BY <1>3, <2>3, Frame DEF SendReserve, redisVars
  <2>4. Coherent(r)'
    BY <1>3 DEF SendReserve, Coherent, redisVars
  <2>5. QED
    BY <2>1, <2>2, <2>3, <2>4
<1>4. ASSUME NEW r \in Requests, RunReserve(r) PROVE IInv'
  <2>1. TypeOK'
    BY <1>4 DEF RunReserve, Coherent, redisVars, Hear, Reading
  <2>2. Solvent' /\ Ready'
    BY <1>4 DEF RunReserve, Solvent, Ready, Coherent, redisVars, Hear, Reading
  <2>3. ASSUME NEW q \in Requests, q # r PROVE Coherent(q)'
    BY <1>4, <2>3, Frame DEF RunReserve, redisVars, Hear, Reading
  <2>4. Coherent(r)'
    <3> DEFINE left == balance[Owner[r]] - HitCost
    <3>1. applied[r] = "new" /\ pc[r] \in {"reserving", "failed", "gone"}
      BY <1>4 DEF RunReserve, Coherent
    <3>2. <<r, "reserve">> \notin wire' /\ <<r, "settle">> \notin wire'
      BY <1>4, <3>1 DEF RunReserve, Coherent
    <3>3. left \in Int /\ (left >= 0 => Reading(left) = "ok") /\ Reading(-2) = "short"
      BY DEF Reading
    <3>4. pc'[r] = pc[r] /\ outcome'[r] = outcome[r]
      BY <1>4 DEF RunReserve
    <3>5. CASE left < 0
      <4>1. applied'[r] = "new"
        BY <1>4, <3>1, <3>5 DEF RunReserve, redisVars
      <4>2. reply'[r] = IF pc[r] = "reserving" THEN "short" ELSE reply[r]
        BY <1>4, <3>1, <3>3, <3>5 DEF RunReserve, Hear
      <4>3. QED
        BY <3>1, <3>2, <3>4, <4>1, <4>2 DEF Coherent
    <3>6. CASE left >= 0
      <4>1. applied'[r] = "held"
        BY <1>4, <3>6 DEF RunReserve
      <4>2. reply'[r] = IF pc[r] = "reserving" THEN "ok" ELSE reply[r]
        BY <1>4, <3>1, <3>3, <3>6 DEF RunReserve, Hear
      <4>3. QED
        BY <3>1, <3>2, <3>4, <4>1, <4>2 DEF Coherent
    <3>7. QED
      BY <3>3, <3>5, <3>6
  <2>5. QED
    BY <2>1, <2>2, <2>3, <2>4
<1>5. ASSUME NEW r \in Requests, ReserveReply(r) PROVE IInv'
  <2>1. TypeOK'
    BY <1>5 DEF ReserveReply, Coherent, redisVars, Verdict
  <2>2. Solvent' /\ Ready'
    BY <1>5 DEF ReserveReply, Solvent, Ready, Coherent, redisVars, Verdict
  <2>3. ASSUME NEW q \in Requests, q # r PROVE Coherent(q)'
    BY <1>5, <2>3, Frame DEF ReserveReply, redisVars, Verdict
  <2>4. Coherent(r)'
    BY <1>5 DEF ReserveReply, Coherent, redisVars, Verdict
  <2>5. QED
    BY <2>1, <2>2, <2>3, <2>4
<1>6. ASSUME NEW r \in Requests, NEW o \in Outcomes, HandlerDone(r, o) PROVE IInv'
  <2>1. TypeOK'
    BY <1>6 DEF HandlerDone, Ready, Coherent, redisVars
  <2>2. Solvent' /\ Ready'
    BY <1>6 DEF HandlerDone, Solvent, Ready, Coherent, redisVars
  <2>3. ASSUME NEW q \in Requests, q # r PROVE Coherent(q)'
    BY <1>6, <2>3, Frame DEF HandlerDone, redisVars
  <2>4. Coherent(r)'
    BY <1>6 DEF HandlerDone, Coherent, redisVars
  <2>5. QED
    BY <2>1, <2>2, <2>3, <2>4
<1>7. ASSUME NEW r \in Requests, RunSettle(r) PROVE IInv'
  <2>1. TypeOK'
    BY <1>7 DEF RunSettle, Coherent, Hear, Reading, Cost, Charge
  <2>2. Solvent' /\ Ready'
    BY <1>7 DEF RunSettle, Solvent, Ready, Coherent, Hear, Reading, Cost, Charge
  <2>3. ASSUME NEW q \in Requests, q # r PROVE Coherent(q)'
    BY <1>7, <2>3, Frame DEF RunSettle, Hear, Reading, Cost, Charge
  <2>4. Coherent(r)'
    <3> DEFINE a == Owner[r]
               delta == HitCost - Cost(outcome[r])
               short == delta < 0 /\ balance[a] < -delta
    <3>1. applied[r] = "held" /\ pc[r] \in {"settling", "failed", "gone"}
      BY <1>7 DEF RunSettle, Coherent
    <3>2. <<r, "reserve">> \notin wire' /\ <<r, "settle">> \notin wire'
      BY <1>7, <3>1 DEF RunSettle, Coherent
    <3>3. delta \in Int /\ Reading(-2) = "short"
      BY DEF Reading, Cost
    <3>4. pc'[r] = pc[r] /\ outcome'[r] = outcome[r]
      BY <1>7 DEF RunSettle
    <3>5. CASE short
      <4>1. applied'[r] = "refunded"
        BY <1>7, <3>5 DEF RunSettle
      <4>2. reply'[r] = IF pc[r] = "settling" THEN "short" ELSE reply[r]
        BY <1>7, <3>1, <3>3, <3>5 DEF RunSettle, Hear
      <4>3. QED
        BY <3>1, <3>2, <3>4, <4>1, <4>2 DEF Coherent
    <3>6. CASE ~short
      <4>1. Reading(balance[a] + delta) = "ok"
        BY <3>3, <3>6 DEF Reading, Solvent
      <4>2. applied'[r] = Charge(outcome[r])
        BY <1>7, <3>6 DEF RunSettle
      <4>3. reply'[r] = IF pc[r] = "settling" THEN "ok" ELSE reply[r]
        BY <1>7, <3>1, <3>6, <4>1 DEF RunSettle, Hear
      <4>4. QED
        BY <3>1, <3>2, <3>4, <4>2, <4>3 DEF Coherent
    <3>7. QED
      BY <3>5, <3>6
  <2>5. QED
    BY <2>1, <2>2, <2>3, <2>4
<1>8. ASSUME NEW r \in Requests, SettleReply(r) PROVE IInv'
  <2>1. TypeOK'
    BY <1>8 DEF SettleReply, Coherent, redisVars, Verdict, Charge
  <2>2. Solvent' /\ Ready'
    BY <1>8 DEF SettleReply, Solvent, Ready, Coherent, redisVars, Verdict, Charge
  <2>3. ASSUME NEW q \in Requests, q # r PROVE Coherent(q)'
    BY <1>8, <2>3, Frame DEF SettleReply, redisVars, Verdict, Charge
  <2>4. Coherent(r)'
    BY <1>8 DEF SettleReply, Coherent, redisVars, Verdict, Charge
  <2>5. QED
    BY <2>1, <2>2, <2>3, <2>4
<1>9. ASSUME NEW r \in Requests, RedisFails(r) PROVE IInv'
  <2>1. TypeOK'
    BY <1>9 DEF RedisFails, Coherent, redisVars
  <2>2. Solvent' /\ Ready'
    BY <1>9 DEF RedisFails, Solvent, Ready, Coherent, redisVars
  <2>3. ASSUME NEW q \in Requests, q # r PROVE Coherent(q)'
    BY <1>9, <2>3, Frame DEF RedisFails, redisVars
  <2>4. Coherent(r)'
    BY <1>9 DEF RedisFails, Coherent, redisVars
  <2>5. QED
    BY <2>1, <2>2, <2>3, <2>4
<1>10. ASSUME NEW r \in Requests, Drop(r) PROVE IInv'
  <2>1. TypeOK'
    BY <1>10 DEF Drop, Coherent, redisVars
  <2>2. Solvent' /\ Ready'
    BY <1>10 DEF Drop, Solvent, Ready, Coherent, redisVars
  <2>3. ASSUME NEW q \in Requests, q # r PROVE Coherent(q)'
    BY <1>10, <2>3, Frame DEF Drop, redisVars
  <2>4. Coherent(r)'
    BY <1>10 DEF Drop, Coherent, redisVars
  <2>5. QED
    BY <2>1, <2>2, <2>3, <2>4
<1>11. ASSUME Restart PROVE IInv'
  <2>1. TypeOK' /\ Solvent' /\ Ready'
    BY <1>11 DEF Restart, Solvent, Ready, redisVars
  <2>2. ASSUME NEW q \in Requests PROVE Coherent(q)'
    BY <1>11 DEF Restart, Coherent, redisVars
  <2>3. QED
    BY <2>1, <2>2
<1>12. CASE UNCHANGED vars
  BY <1>12, Frame DEF vars, Solvent, Ready
<1>13. QED
  BY <1>1, <1>2, <1>3, <1>4, <1>5, <1>6, <1>7, <1>8, <1>9, <1>10, <1>11, <1>12 DEF Next

\* Hence it holds in every state that can be reached.
LEMMA Invariance == Spec => []IInv
BY InitIInv, NextIInv, PTL DEF Spec

\* Every variable of the middleware, the wire and Redis keeps its type.
THEOREM TypeCorrect == Spec => []TypeOK
BY Invariance, PTL DEF IInv

\* No interleaving of reservations, settlements, failures and restarts
\* overdraws an account, whatever the prices and seeds.
THEOREM AccountsSolvent == Spec => []Solvent
BY Invariance, PTL DEF IInv

\* What a client is told of its charge is what Redis did.
THEOREM AnswersHonest == Spec => []AnswersMatchLedger
<1>1. IInv => AnswersMatchLedger
  BY DEF IInv, Coherent, AnswersMatchLedger
<1>2. QED
  BY <1>1, Invariance, PTL

\* No handler runs for a request whose hold is not on its account.
THEOREM HandlersPaid == Spec => []NeverOnCredit
<1>1. IInv => NeverOnCredit
  BY DEF IInv, Coherent, NeverOnCredit
<1>2. QED
  BY <1>1, Invariance, PTL

-----------------------------------------------------------------------------
(* Conservation: a script moves one request from one stage to another, and  *)
(* the balance by the difference of what the stages are worth.               *)

Price(s) == IF s \in {"held", "hit"} THEN HitCost ELSE IF s = "miss" THEN MissCost ELSE 0

Moved(f, r, to) == [f EXCEPT ![r] = to]

\* Requests at a stage can be counted.
LEMMA BookedCounts ==
  ASSUME NEW f, NEW s, NEW a
  PROVE  IsFiniteSet(Booked(f, s, a)) /\ Cardinality(Booked(f, s, a)) \in Nat
<1>1. Booked(f, s, a) \subseteq Requests
  BY DEF Booked
<1>2. QED
  BY <1>1, BillingAssumption, FS_Subset, FS_CardinalityType

\* A request that moves from one stage to another leaves one count and joins one,
\* of its own account only.
LEMMA CountMoves ==
  ASSUME NEW f \in [Requests -> Stages], NEW r \in Requests, NEW to \in Stages, to # f[r],
         NEW s \in Stages, NEW a \in Accounts
  PROVE  /\ a # Owner[r] \/ (s # to /\ s # f[r]) =>
              Cardinality(Booked(Moved(f, r, to), s, a)) = Cardinality(Booked(f, s, a))
         /\ a = Owner[r] /\ s = to =>
              Cardinality(Booked(Moved(f, r, to), s, a)) = Cardinality(Booked(f, s, a)) + 1
         /\ a = Owner[r] /\ s = f[r] =>
              Cardinality(Booked(Moved(f, r, to), s, a)) = Cardinality(Booked(f, s, a)) - 1
<1>1. ASSUME a # Owner[r] \/ (s # to /\ s # f[r])
      PROVE  Booked(Moved(f, r, to), s, a) = Booked(f, s, a)
  BY <1>1 DEF Booked, Moved
<1>2. ASSUME a = Owner[r], s = to
      PROVE  Cardinality(Booked(Moved(f, r, to), s, a)) = Cardinality(Booked(f, s, a)) + 1
  <2>1. Booked(Moved(f, r, to), s, a) = Booked(f, s, a) \cup {r} /\ r \notin Booked(f, s, a)
    BY <1>2 DEF Booked, Moved
  <2>2. QED
    BY <2>1, BookedCounts, FS_AddElement
<1>3. ASSUME a = Owner[r], s = f[r]
      PROVE  Cardinality(Booked(Moved(f, r, to), s, a)) = Cardinality(Booked(f, s, a)) - 1
  <2>1. Booked(Moved(f, r, to), s, a) = Booked(f, s, a) \ {r} /\ r \in Booked(f, s, a)
    BY <1>3 DEF Booked, Moved
  <2>2. QED
    BY <2>1, BookedCounts, FS_RemoveElement
<1>4. QED
  BY <1>1, <1>2, <1>3

\* Prices times counts, in the form the steps below use.
LEMMA Multiples ==
  ASSUME NEW c \in Nat, NEW n \in Nat
  PROVE  c * n \in Int /\ c * (n + 1) = c * n + c /\ c * (n - 1) = c * n - c
OBVIOUS

\* What a move does to the worth of an account's requests: the price of the new
\* stage in place of the price of the old.
LEMMA WorthMoves ==
  ASSUME NEW f \in [Requests -> Stages], NEW r \in Requests, NEW to \in Stages, to # f[r],
         NEW a \in Accounts
  PROVE  /\ Worth(f, a) \in Int
         /\ a # Owner[r] => Worth(Moved(f, r, to), a) = Worth(f, a)
         /\ a = Owner[r] => Worth(Moved(f, r, to), a) = Worth(f, a) - Price(f[r]) + Price(to)
<1> USE BillingAssumption
<1> DEFINE F(s) == Cardinality(Booked(f, s, a))
           G(s) == Cardinality(Booked(Moved(f, r, to), s, a))
<1>1. \A s \in Stages : F(s) \in Nat
  BY BookedCounts
<1>2. \A s \in Stages :
        /\ a # Owner[r] \/ (s # to /\ s # f[r]) => G(s) = F(s)
        /\ a = Owner[r] /\ s = to => G(s) = F(s) + 1
        /\ a = Owner[r] /\ s = f[r] => G(s) = F(s) - 1
  BY CountMoves
<1>3. \A c \in Nat, s \in Stages :
        /\ c * F(s) \in Int
        /\ c * (F(s) + 1) = c * F(s) + c
        /\ c * (F(s) - 1) = c * F(s) - c
  BY <1>1, Multiples
<1>4. /\ Worth(f, a) = HitCost * F("held") + HitCost * F("hit") + MissCost * F("miss")
      /\ Worth(Moved(f, r, to), a) = HitCost * G("held") + HitCost * G("hit") + MissCost * G("miss")
  BY DEF Worth
<1> HIDE DEF F, G
<1>5. Worth(f, a) \in Int
  BY <1>3, <1>4 DEF Stages
<1>6. ASSUME a # Owner[r] PROVE Worth(Moved(f, r, to), a) = Worth(f, a)
  BY <1>2, <1>4, <1>6 DEF Stages
<1>7. ASSUME a = Owner[r] PROVE Worth(Moved(f, r, to), a) = Worth(f, a) - Price(f[r]) + Price(to)
  <2>1. ASSUME NEW c \in Nat, NEW s \in Stages
        PROVE  c * G(s) = c * F(s) + (IF s = to THEN c ELSE IF s = f[r] THEN -c ELSE 0)
    <3>1. CASE s = to
      BY <1>2, <1>3, <1>7, <3>1
    <3>2. CASE s = f[r]
      BY <1>2, <1>3, <1>7, <3>2
    <3>3. CASE s # to /\ s # f[r]
      BY <1>2, <1>3, <3>3
    <3>4. QED
      BY <3>1, <3>2, <3>3
  <2> DEFINE D(c, s) == IF s = to THEN c ELSE IF s = f[r] THEN -c ELSE 0
  <2>2. D(HitCost, "held") + D(HitCost, "hit") + D(MissCost, "miss") = Price(to) - Price(f[r])
    <3>1. to \in Stages /\ f[r] \in Stages /\ to # f[r] /\ HitCost \in Nat /\ MissCost \in Nat
      OBVIOUS
    <3>2. QED
      BY <3>1 DEF Price, Stages
  <2>3. /\ HitCost * G("held") = HitCost * F("held") + D(HitCost, "held")
        /\ HitCost * G("hit") = HitCost * F("hit") + D(HitCost, "hit")
        /\ MissCost * G("miss") = MissCost * F("miss") + D(MissCost, "miss")
    BY <2>1 DEF Stages
  <2>4. \A c \in Nat, s \in Stages : D(c, s) \in Int
    OBVIOUS
  <2>5. /\ HitCost * F("held") \in Int /\ D(HitCost, "held") \in Int
        /\ HitCost * F("hit") \in Int /\ D(HitCost, "hit") \in Int
        /\ MissCost * F("miss") \in Int /\ D(MissCost, "miss") \in Int
    BY <1>3, <2>4 DEF Stages
  <2>6. Price(to) \in Int /\ Price(f[r]) \in Int
    BY DEF Price, Stages
  <2> HIDE DEF D
  <2>7. QED
    BY <1>4, <2>2, <2>3, <2>5, <2>6
<1>8. QED
  BY <1>5, <1>6, <1>7

\* Before any request has been applied they are worth nothing.
LEMMA WorthOfNothing ==
  ASSUME NEW f, \A r \in Requests : f[r] = "new", NEW a
  PROVE  Worth(f, a) = 0
<1>1. Booked(f, "held", a) = {} /\ Booked(f, "hit", a) = {} /\ Booked(f, "miss", a) = {}
  BY DEF Booked
<1>2. Cardinality({}) = 0
  BY FS_EmptySet
<1>3. HitCost * 0 = 0 /\ MissCost * 0 = 0
  BY BillingAssumption
<1>4. QED
  BY <1>1, <1>2, <1>3 DEF Worth

\* Credit is neither created nor destroyed: the balance and the holds and
\* charges of an account always add up to its seed.
THEOREM CreditConserved == Spec => []Conserved
<1>1. Init => Conserved
  BY DEF Init, Conserved
<1>2. IInv /\ Conserved /\ [Next]_vars => Conserved'
  <2> SUFFICES ASSUME IInv, Conserved, [Next]_vars, NEW a \in opened'
               PROVE  balance'[a] + Worth(applied', a) = Seed[a]
    BY DEF Conserved, Worth, Booked
  <2> USE BillingAssumption
  <2>1. /\ a \in Accounts
        /\ balance \in [Accounts -> Int]
        /\ applied \in [Requests -> Stages]
        /\ Owner \in [Requests -> Accounts]
        /\ a \in opened => balance[a] + Worth(applied, a) = Seed[a]
    BY NextIInv DEF IInv, TypeOK, Conserved
  <2>2. ASSUME UNCHANGED <<opened, balance, applied>>
        PROVE  balance'[a] + Worth(applied', a) = Seed[a]
    BY <2>1, <2>2
  <2>3. ASSUME NEW r \in Requests, NEW to \in Stages, to # applied[r], opened' = opened,
               applied' = [applied EXCEPT ![r] = to],
               balance' = [balance EXCEPT ![Owner[r]] = @ + Price(applied[r]) - Price(to)]
        PROVE  balance'[a] + Worth(applied', a) = Seed[a]
    <3>1. Price(to) \in Int /\ Price(applied[r]) \in Int
      BY <2>1, <2>3 DEF Price, Stages
    <3>2. applied' = Moved(applied, r, to)
      BY <2>3 DEF Moved
    <3>3. /\ Worth(applied, a) \in Int
          /\ a # Owner[r] => Worth(Moved(applied, r, to), a) = Worth(applied, a)
          /\ a = Owner[r] => Worth(Moved(applied, r, to), a)
                              = Worth(applied, a) - Price(applied[r]) + Price(to)
      BY <2>1, <2>3, WorthMoves
    <3>4. a \in opened /\ balance[a] \in Int
      BY <2>1, <2>3
    <3>5. CASE a = Owner[r]
      <4>1. balance'[a] = balance[a] + Price(applied[r]) - Price(to)
        BY <2>1, <2>3, <3>5
      <4>2. Worth(applied', a) = Worth(applied, a) - Price(applied[r]) + Price(to)
        BY <3>2, <3>3, <3>5
      <4>3. QED
        BY <2>1, <3>1, <3>3, <3>4, <4>1, <4>2
    <3>6. CASE a # Owner[r]
      <4>1. balance'[a] = balance[a]
        BY <2>1, <2>3, <3>6
      <4>2. Worth(applied', a) = Worth(applied, a)
        BY <3>2, <3>3, <3>6
      <4>3. QED
        BY <2>1, <3>4, <4>1, <4>2
    <3>7. QED
      BY <3>5, <3>6
  <2>4. ASSUME NEW b \in Accounts, SeedAccount(b)
        PROVE  balance'[a] + Worth(applied', a) = Seed[a]
    <3>1. applied' = applied /\ (a \in opened => balance'[a] = balance[a])
      BY <2>1, <2>4 DEF SeedAccount
    <3>2. CASE a \in opened
      BY <2>1, <3>1, <3>2
    <3>3. CASE a \notin opened
      <4>1. a = b /\ \A r \in Requests : applied[r] = "new"
        BY <2>1, <2>4, <3>3 DEF SeedAccount, IInv, Ready
      <4>2. balance'[a] = Seed[a]
        BY <2>1, <2>4, <3>3, <4>1 DEF SeedAccount
      <4>3. QED
        BY <2>1, <3>1, <4>1, <4>2, WorthOfNothing
    <3>4. QED
      BY <3>2, <3>3
  <2>5. ASSUME NEW r \in Requests, RunReserve(r)
        PROVE  balance'[a] + Worth(applied', a) = Seed[a]
    <3>1. applied[r] = "new"
      BY <2>5 DEF RunReserve, IInv, Coherent
    <3>2. CASE balance[Owner[r]] - HitCost < 0
      BY <2>2, <2>5, <3>2 DEF RunReserve, redisVars
    <3>3. CASE ~(balance[Owner[r]] - HitCost < 0)
      BY <2>1, <2>3, <2>5, <3>1, <3>3 DEF RunReserve, Price, Stages
    <3>4. QED
      BY <3>2, <3>3
  <2>6. ASSUME NEW r \in Requests, RunSettle(r)
        PROVE  balance'[a] + Worth(applied', a) = Seed[a]
    <3>1. applied[r] = "held" /\ outcome[r] \in Outcomes /\ opened' = opened
      BY <2>6 DEF RunSettle, IInv, TypeOK, Coherent
    <3>2. PICK to \in {"hit", "miss", "refunded"} :
            /\ applied' = [applied EXCEPT ![r] = to]
            /\ balance' = [balance EXCEPT ![Owner[r]] = @ + HitCost - Price(to)]
      <4>1. CASE outcome[r] = "hit"
        BY <2>1, <2>6, <4>1 DEF RunSettle, Cost, Charge, Price
      <4>2. CASE outcome[r] = "miss"
        BY <2>1, <2>6, <4>2 DEF RunSettle, Cost, Charge, Price
      <4>3. CASE outcome[r] = "error"
        BY <2>1, <2>6, <4>3 DEF RunSettle, Cost, Charge, Price
      <4>4. QED
        BY <3>1, <4>1, <4>2, <4>3 DEF Outcomes
    <3>3. Price(applied[r]) = HitCost
      BY <3>1 DEF Price
    <3>4. QED
      BY <2>3, <3>1, <3>2, <3>3 DEF Stages
  <2>7. ASSUME NEW r \in Requests,
               \/ Authenticate(r) \/ SendReserve(r) \/ ReserveReply(r) \/ SettleReply(r)
               \/ RedisFails(r) \/ Drop(r) \/ \E o \in Outcomes : HandlerDone(r, o)
        PROVE  UNCHANGED <<opened, balance, applied>>
    BY <2>7 DEF Authenticate, SendReserve, ReserveReply, SettleReply, RedisFails, Drop,
                HandlerDone, redisVars
  <2>8. CASE Restart
    BY <2>2, <2>8 DEF Restart, redisVars
  <2>9. CASE UNCHANGED vars
    BY <2>2, <2>9 DEF vars
  <2>10. QED
    BY <2>2, <2>4, <2>5, <2>6, <2>7, <2>8, <2>9 DEF Next
<1>3. QED
  BY <1>1, <1>2, Invariance, PTL DEF Spec

-----------------------------------------------------------------------------

\* Billing implements Ledger: a script that Redis runs is the one step of a
\* request the ledger sees, every other step of the system is a stutter.
THEOREM Refinement == Spec => ImplementsLedger
<1>1. Init => Promise!Init
  BY DEF Init, Promise!Init
<1>2. IInv /\ [Next]_vars => [Promise!Next]_(Promise!ledgerVars)
  <2> SUFFICES ASSUME IInv, [Next]_vars PROVE [Promise!Next]_(Promise!ledgerVars)
    OBVIOUS
  <2> USE BillingAssumption
  <2>1. ASSUME NEW a \in Accounts, SeedAccount(a)
        PROVE  Promise!Open(a) \/ UNCHANGED Promise!ledgerVars
    BY <2>1 DEF SeedAccount, IInv, TypeOK, Promise!Open, Promise!ledgerVars
  <2>2. ASSUME NEW r \in Requests, RunReserve(r)
        PROVE  Promise!Hold(r) \/ UNCHANGED Promise!ledgerVars
    <3>1. applied[r] = "new" /\ opened = Accounts
      BY <2>2 DEF RunReserve, IInv, Ready, Coherent
    <3>2. balance \in [Accounts -> Int] /\ Owner[r] \in Accounts
      BY DEF IInv, TypeOK
    <3>3. CASE balance[Owner[r]] - HitCost < 0
      BY <2>2, <3>3 DEF RunReserve, redisVars, Promise!ledgerVars
    <3>4. CASE balance[Owner[r]] - HitCost >= 0
      BY <2>2, <3>1, <3>2, <3>4 DEF RunReserve, Promise!Hold, Promise!Move
    <3>5. QED
      BY <3>2, <3>3, <3>4
  <2>3. ASSUME NEW r \in Requests, RunSettle(r)
        PROVE  Promise!ChargeHit(r) \/ Promise!ChargeMiss(r) \/ Promise!Refund(r)
    <3>1. applied[r] = "held" /\ opened = Accounts /\ outcome[r] \in Outcomes
      BY <2>3 DEF RunSettle, IInv, TypeOK, Ready, Coherent
    <3>2. balance \in [Accounts -> Int] /\ balance[Owner[r]] >= 0 /\ Owner[r] \in Accounts
      BY DEF IInv, TypeOK, Solvent
    <3>3. CASE outcome[r] = "hit"
      BY <2>3, <3>1, <3>2, <3>3 DEF RunSettle, Cost, Charge, Promise!ChargeHit, Promise!Move
    <3>4. CASE outcome[r] = "miss"
      BY <2>3, <3>1, <3>2, <3>4 DEF RunSettle, Cost, Charge, Promise!ChargeMiss,
                                    Promise!Refund, Promise!Move
    <3>5. CASE outcome[r] = "error"
      BY <2>3, <3>1, <3>2, <3>5 DEF RunSettle, Cost, Charge, Promise!Refund, Promise!Move
    <3>6. QED
      BY <3>1, <3>3, <3>4, <3>5 DEF Outcomes
  <2>4. ASSUME NEW r \in Requests,
               \/ Authenticate(r) \/ SendReserve(r) \/ ReserveReply(r) \/ SettleReply(r)
               \/ RedisFails(r) \/ Drop(r) \/ \E o \in Outcomes : HandlerDone(r, o)
        PROVE  UNCHANGED Promise!ledgerVars
    BY <2>4 DEF Authenticate, SendReserve, ReserveReply, SettleReply, RedisFails, Drop,
                HandlerDone, redisVars, Promise!ledgerVars
  <2>5. CASE Restart
    BY <2>5 DEF Restart, redisVars, Promise!ledgerVars
  <2>6. CASE UNCHANGED vars
    BY <2>6 DEF vars, Promise!ledgerVars
  <2>7. QED
    BY <2>1, <2>2, <2>3, <2>4, <2>5, <2>6 DEF Next, Promise!Next
<1>3. QED
  BY <1>1, <1>2, Invariance, PTL DEF Spec, ImplementsLedger, Promise!Spec

=============================================================================
