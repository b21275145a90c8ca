------------------------------- MODULE Billing -------------------------------
(***************************************************************************)
(* Redis-backed credit accounting around a billable request: billing.rs    *)
(* (authenticate, reserve, settle, seed_from_file) as the middleware of    *)
(* api/middleware.rs drives it.  A request reserves the hit price before   *)
(* its handler runs and settles once the handler has answered.  Each of    *)
(* the two is a Lua script Redis runs atomically, but the caller and Redis *)
(* only share messages: a script may run although its caller saw an error, *)
(* was cancelled, or died with the process.                                *)
(***************************************************************************)
EXTENDS Integers, FiniteSets

CONSTANTS
  Accounts, Requests, Owner, Seed, HitCost, MissCost,
  MaxRestarts   \* bound: process restarts in one behaviour

ASSUME BillingAssumption ==
  /\ IsFiniteSet(Requests)
  /\ Owner \in [Requests -> Accounts]
  /\ Seed \in [Accounts -> Nat]
  /\ HitCost \in Nat
  /\ MissCost \in Nat
  /\ HitCost <= MissCost
  /\ MaxRestarts \in Nat

VARIABLES
  toSeed,    \* accounts of the seed file this start has not reached yet
  restarts,
  opened,    \* accounts whose hash exists in Redis
  balance,   \* the balance_cents field
  wire,      \* scripts sent to Redis and not run yet, <<request, script>>
  pc,        \* where the middleware is with a request
  outcome,   \* what the handler answered
  reply,     \* what Redis answered the script the request waits for
  applied    \* history: what Redis has done to the balance for a request

requestVars == <<pc, outcome, reply>>
redisVars   == <<opened, balance, applied>>
vars        == <<toSeed, restarts, opened, balance, wire, pc, outcome, reply, applied>>

-----------------------------------------------------------------------------

Outcomes == {"hit", "miss", "error"}
Answered == {"settled", "unpaid", "refused", "failed"}
Live     == {"authed", "reserving", "running", "settling"}
Scripts  == {"reserve", "settle"}
Replies  == {"none", "ok", "short", "missing"}
Stages   == {"new", "held", "refunded", "hit", "miss"}

\* actual_cents: a success whose X-Cache is HIT costs the hit price, any other
\* success the miss price (the raw endpoint sets no X-Cache), a failure nothing.
Cost(o) == CASE o = "hit"   -> HitCost
             [] o = "miss"  -> MissCost
             [] o = "error" -> 0

\* Mutant: only -1 is told apart from a balance.
ReadingWithoutShort(n) == IF n = -1 THEN "missing" ELSE "ok"

\* The i64 a script returns is a balance or one of two sentinels.
Reading(n) == CASE n = -1 -> "missing"
                [] n = -2 -> "short"
                [] OTHER  -> "ok"

\* Where an answered script leads the middleware: on to `go`, or out.  After -2
\* the balance is read for the message of the 402, and that read may fail.
Verdict(answer, go) == CASE answer = "ok"      -> {go}
                         [] answer = "missing" -> {"refused"}
                         [] answer = "short"   -> {"unpaid", "failed"}

Charge(o) == IF o = "error" THEN "refunded" ELSE o

\* An answer reaches its caller only while the caller still waits for it.
Hear(r, n) == IF pc[r] \in {"reserving", "settling"}
              THEN reply' = [reply EXCEPT ![r] = Reading(n)]
              ELSE UNCHANGED reply

Serving == toSeed = {}

-----------------------------------------------------------------------------

Init ==
  /\ toSeed = Accounts
  /\ restarts = 0
  /\ opened = {}
  /\ balance = [a \in Accounts |-> 0]
  /\ wire = {}
  /\ pc = [r \in Requests |-> "new"]
  /\ outcome = [r \in Requests |-> "error"]
  /\ reply = [r \in Requests |-> "none"]
  /\ applied = [r \in Requests |-> "new"]

\* Mutant: HSET in place of HSETNX.
SeedAccountOverwriting(a) ==
  /\ a \in toSeed
  /\ toSeed' = toSeed \ {a}
  /\ opened' = opened \cup {a}
  /\ balance' = [balance EXCEPT ![a] = Seed[a]]
  /\ UNCHANGED <<restarts, wire, requestVars, applied>>

\* One MULTI of HSETNXs per account, in the order of the file: fields that
\* exist keep their value.
SeedAccount(a) ==
  /\ a \in toSeed
  /\ toSeed' = toSeed \ {a}
  /\ opened' = opened \cup {a}
  /\ balance' = [balance EXCEPT ![a] = IF a \in opened THEN @ ELSE Seed[a]]
  /\ UNCHANGED <<restarts, wire, requestVars, applied>>

\* Mutant: the server listens while the accounts are being seeded.
AuthenticateUnseeded(r) ==
  /\ pc[r] = "new"
  /\ \/ pc' = [pc EXCEPT ![r] = "authed"]
     \/ pc' = [pc EXCEPT ![r] = "refused"]
  /\ UNCHANGED <<toSeed, restarts, redisVars, wire, outcome, reply>>

\* The key is looked up and the rate limiter consulted; either may refuse.
Authenticate(r) ==
  /\ Serving
  /\ pc[r] = "new"
  /\ \/ pc' = [pc EXCEPT ![r] = "authed"]
     \/ pc' = [pc EXCEPT ![r] = "refused"]
  /\ UNCHANGED <<toSeed, restarts, redisVars, wire, outcome, reply>>

SendReserve(r) ==
  /\ pc[r] = "authed"
  /\ pc' = [pc EXCEPT ![r] = "reserving"]
  /\ wire' = wire \cup {<<r, "reserve">>}
  /\ UNCHANGED <<toSeed, restarts, redisVars, outcome, reply>>

\* Redis runs the reserve script.
RunReserve(r) ==
  /\ <<r, "reserve">> \in wire
  /\ wire' = wire \ {<<r, "reserve">>}
  /\ LET a == Owner[r]
         left == balance[a] - HitCost
     IN  IF left < 0
         THEN /\ Hear(r, -2)
              /\ UNCHANGED redisVars
         ELSE /\ balance' = [balance EXCEPT ![a] = left]
              /\ applied' = [applied EXCEPT ![r] = "held"]
              /\ Hear(r, left)
              /\ UNCHANGED opened
  /\ UNCHANGED <<toSeed, restarts, pc, outcome>>

\* The answer to a reserve: go on to the handler, or give up.
ReserveReply(r) ==
  /\ pc[r] = "reserving"
  /\ reply[r] # "none"
  /\ \E next \in Verdict(reply[r], "running") : pc' = [pc EXCEPT ![r] = next]
  /\ reply' = [reply EXCEPT ![r] = "none"]
  /\ UNCHANGED <<toSeed, restarts, redisVars, wire, outcome>>

\* Mutant: only a success is settled.
HandlerDoneSettlingSuccess(r, o) ==
  /\ pc[r] = "running"
  /\ pc' = [pc EXCEPT ![r] = "settling"]
  /\ outcome' = [outcome EXCEPT ![r] = o]
  /\ wire' = IF o = "error" THEN wire ELSE wire \cup {<<r, "settle">>}
  /\ UNCHANGED <<toSeed, restarts, redisVars, reply>>

\* next.run returned; the cost is decided and the settle script sent.
HandlerDone(r, o) ==
  /\ pc[r] = "running"
  /\ pc' = [pc EXCEPT ![r] = "settling"]
  /\ outcome' = [outcome EXCEPT ![r] = o]
  /\ wire' = wire \cup {<<r, "settle">>}
  /\ UNCHANGED <<toSeed, restarts, redisVars, reply>>

\* Mutant: the difference is taken whether or not the balance has it.
RunSettleUnchecked(r) ==
  /\ <<r, "settle">> \in wire
  /\ wire' = wire \ {<<r, "settle">>}
  /\ LET a == Owner[r]
         delta == HitCost - Cost(outcome[r])
     IN  IF FALSE
         THEN /\ balance' = [balance EXCEPT ![a] = @ + HitCost]
              /\ applied' = [applied EXCEPT ![r] = "refunded"]
              /\ Hear(r, -2)
         ELSE /\ balance' = [balance EXCEPT ![a] = @ + delta]
              /\ applied' = [applied EXCEPT ![r] = Charge(outcome[r])]
              /\ Hear(r, balance[a] + delta)
  /\ UNCHANGED <<toSeed, restarts, opened, pc, outcome>>

\* Mutant: the short branch answers -2 without giving the hold back.
RunSettleKeepingHold(r) ==
  /\ <<r, "settle">> \in wire
  /\ wire' = wire \ {<<r, "settle">>}
  /\ LET a == Owner[r]
         delta == HitCost - Cost(outcome[r])
     IN  IF delta < 0 /\ balance[a] < -delta
         THEN /\ UNCHANGED <<balance, applied>>
              /\ Hear(r, -2)
         ELSE /\ balance' = [balance EXCEPT ![a] = @ + delta]
              /\ applied' = [applied EXCEPT ![r] = Charge(outcome[r])]
              /\ Hear(r, balance[a] + delta)
  /\ UNCHANGED <<toSeed, restarts, opened, pc, outcome>>

\* Mutant: the script is delivered at least once, and may run again.
RunSettleAgain(r) ==
  /\ <<r, "settle">> \in wire
  /\ wire' \in {wire, wire \ {<<r, "settle">>}}
  /\ LET a == Owner[r]
         delta == HitCost - Cost(outcome[r])
     IN  IF delta < 0 /\ balance[a] < -delta
         THEN /\ balance' = [balance EXCEPT ![a] = @ + HitCost]
              /\ applied' = [applied EXCEPT ![r] = "refunded"]
              /\ Hear(r, -2)
         ELSE /\ balance' = [balance EXCEPT ![a] = @ + delta]
              /\ applied' = [applied EXCEPT ![r] = Charge(outcome[r])]
              /\ Hear(r, balance[a] + delta)
  /\ UNCHANGED <<toSeed, restarts, opened, pc, outcome>>

\* Redis runs the settle script: delta is what the hold exceeds the cost by; a
\* balance that cannot pay the difference gets the hold back instead.
RunSettle(r) ==
  /\ <<r, "settle">> \in wire
  /\ wire' = wire \ {<<r, "settle">>}
  /\ LET a == Owner[r]
         delta == HitCost - Cost(outcome[r])
     IN  IF delta < 0 /\ balance[a] < -delta
         THEN /\ balance' = [balance EXCEPT ![a] = @ + HitCost]
              /\ applied' = [applied EXCEPT ![r] = "refunded"]
              /\ Hear(r, -2)
         ELSE /\ balance' = [balance EXCEPT ![a] = @ + delta]
              /\ applied' = [applied EXCEPT ![r] = Charge(outcome[r])]
              /\ Hear(r, balance[a] + delta)
  /\ UNCHANGED <<toSeed, restarts, opened, pc, outcome>>

SettleReply(r) ==
  /\ pc[r] = "settling"
  /\ reply[r] # "none"
  /\ \E next \in Verdict(reply[r], "settled") : pc' = [pc EXCEPT ![r] = next]
  /\ reply' = [reply EXCEPT ![r] = "none"]
  /\ UNCHANGED <<toSeed, restarts, redisVars, wire, outcome>>

\* The connection fails under a script: the caller answers 503 at once, and
\* the script was lost, has run unheard, or is still to run.
RedisFails(r) ==
  /\ pc[r] \in {"reserving", "settling"}
  /\ pc' = [pc EXCEPT ![r] = "failed"]
  /\ reply' = [reply EXCEPT ![r] = "none"]
  /\ wire' \in {wire, wire \ {<<r, s>> : s \in Scripts}}
  /\ UNCHANGED <<toSeed, restarts, redisVars, outcome>>

\* The client disconnects or the handler panics: the middleware's future is
\* dropped where it stands, and a script already sent runs all the same.
Drop(r) ==
  /\ pc[r] \in Live
  /\ pc' = [pc EXCEPT ![r] = "gone"]
  /\ reply' = [reply EXCEPT ![r] = "none"]
  /\ UNCHANGED <<toSeed, restarts, redisVars, wire, outcome>>

\* The process dies and starts again: requests are gone, any part of what was
\* on the wire is lost, and seeding begins from the top of the file.
Restart ==
  /\ restarts < MaxRestarts
  /\ restarts' = restarts + 1
  /\ toSeed' = Accounts
  /\ pc' = [r \in Requests |-> IF pc[r] \in Live THEN "gone" ELSE pc[r]]
  /\ reply' = [r \in Requests |-> "none"]
  /\ wire' \in SUBSET wire
  /\ UNCHANGED <<redisVars, outcome>>

Next ==
  \/ \E a \in Accounts : SeedAccount(a)
  \/ \E r \in Requests :
       \/ Authenticate(r) \/ SendReserve(r) \/ RunReserve(r) \/ ReserveReply(r)
       \/ \E o \in Outcomes : HandlerDone(r, o)
       \/ RunSettle(r) \/ SettleReply(r) \/ RedisFails(r) \/ Drop(r)
  \/ Restart

Spec == Init /\ [][Next]_vars

\* The process keeps running its tasks and Redis keeps serving what it was
\* sent; nobody owes a failure, a cancellation or a restart.
Progress(r) ==
  \/ SendReserve(r) \/ RunReserve(r) \/ ReserveReply(r)
  \/ (\E o \in Outcomes : HandlerDone(r, o)) \/ RunSettle(r) \/ SettleReply(r)

Fairness ==
  /\ \A a \in Accounts : WF_vars(SeedAccount(a))
  /\ \A r \in Requests : WF_vars(Progress(r))

FairSpec == Spec /\ Fairness

-----------------------------------------------------------------------------

\* The shapes of the state: among them, every applied move is one the ledger has,
\* and no script asks for an account before all are seeded (main.rs:49), so that
\* none answers -1.
TypeOK ==
  /\ toSeed \subseteq Accounts
  /\ restarts \in 0..MaxRestarts
  /\ opened \subseteq Accounts
  /\ balance \in [Accounts -> Int]
  /\ wire \subseteq Requests \X Scripts
  /\ wire # {} => opened = Accounts
  /\ pc \in [Requests -> Live \cup Answered \cup {"new", "gone"}]
  /\ outcome \in [Requests -> Outcomes]
  /\ reply \in [Requests -> Replies]
  /\ applied \in [Requests -> Stages]

\* No interleaving of reservations, settlements and restarts overdraws an
\* account.  The scripts rely on it: a balance of -1 or -2 returned by HINCRBY
\* would be read as one of the sentinels in billing.rs.
Solvent == \A a \in Accounts : balance[a] >= 0

\* The requests of an account a book has at a stage, and what they are worth.
Booked(book, s, a) == {r \in Requests : Owner[r] = a /\ book[r] = s}
Worth(book, a) == HitCost * Cardinality(Booked(book, "held", a))
                + HitCost * Cardinality(Booked(book, "hit", a))
                + MissCost * Cardinality(Booked(book, "miss", a))

\* Every cent of an account's seed is on the account, held for a request, or
\* was charged for one: nothing is created by a second start's seeding, by a
\* refund or by a script run twice, and nothing disappears.
Conserved == \A a \in opened : balance[a] + Worth(applied, a) = Seed[a]

\* What the client is told agrees with what Redis did: an answer that carries
\* X-Request-Cost-Cents was charged that cost exactly once, and a 402 cost
\* nothing, also when it comes from a settlement that could not be paid.
AnswersMatchLedger ==
  \A r \in Requests :
    /\ pc[r] = "settled" => applied[r] = Charge(outcome[r])
    /\ pc[r] \in {"unpaid", "refused"} => applied[r] \in {"new", "refunded"}

\* While a handler works for a request, and only once it has been paid for,
\* its hold is on the account: a handler never runs on credit.
NeverOnCredit ==
  \A r \in Requests : pc[r] = "running" => applied[r] = "held"

\* A hold ends: Redis settles every request whose hold it applied, unless the
\* request was dropped or its connection failed before its settlement was sent.
HoldsEnd ==
  \A r \in Requests :
    applied[r] = "held" ~> \/ applied[r] # "held"
                           \/ pc[r] \in {"failed", "gone"} /\ <<r, "settle">> \notin wire

\* The promise this module implements.
Promise == INSTANCE Ledger WITH stage <- applied
ImplementsLedger == Promise!Spec

=============================================================================
