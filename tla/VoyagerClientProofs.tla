-------------------------- MODULE VoyagerClientProofs --------------------------
(***************************************************************************)
(* Theorems about VoyagerClient, for any calls, permits, attempts and      *)
(* threshold.  Permits and bad answers are counted by the places of calls, *)
(* and a step moves one call from one place to another.                    *)
(***************************************************************************)
EXTENDS VoyagerClient, FiniteSetTheorems, TLAPS

-----------------------------------------------------------------------------
(* The invariant                                                           *)

\* The auth mutex is held by the call that authenticates.
MutexHeld ==
  /\ \A c \in Calls : pc[c] \in Locked => auth = c
  /\ auth # NoCall => pc[auth] \in Locked

\* A call backs off only before another attempt.
AttemptsLeft == \A c \in Calls : pc[c] = "backoff" => attempt[c] < MaxAttempts

\* A closed circuit has counted no more than two failures for a bad answer, with
\* those that calls are still to report: a throttled last attempt reports two.
Accounted ==
  circuit = "closed" => bad = Threshold \/ failures + Cardinality(Untold) <= 2 * bad

\* No call counts as let through while the circuit is closed or its cooldown just
\* over, and one at most while it is open or half-open.
OneAtATime ==
  /\ passed <= 1
  /\ circuit \in {"closed", "cooled"} => passed = 0

IInv ==
  /\ ClientTypeOK
  /\ PermitsConserved
  /\ MutexHeld
  /\ AttemptsLeft
  /\ HalfOpenHasProbe
  /\ OneAtATime
  /\ Accounted

-----------------------------------------------------------------------------
(* Counting calls by their places                                          *)

Places == InFlight \cup {"idle"}

\* Whether a place is among P, as a number.
In(w, P) == IF w \in P THEN 1 ELSE 0

\* A call that moves leaves the count of the place it was at, and joins that of the
\* one it goes to.
LEMMA CountMoves ==
  ASSUME NEW P, NEW c \in Calls, NEW w, DOMAIN pc = Calls, pc' = [pc EXCEPT ![c] = w]
  PROVE  LET before == {d \in Calls : pc[d] \in P}
             after  == {d \in Calls : pc'[d] \in P}
         IN  /\ Cardinality(before) \in Nat /\ Cardinality(after) \in Nat
             /\ Cardinality(after) = Cardinality(before) + In(w, P) - In(pc[c], P)
             /\ pc[c] \in P => Cardinality(before) > 0
<1> DEFINE before == {d \in Calls : pc[d] \in P}
           after  == {d \in Calls : pc'[d] \in P}
<1>1. IsFiniteSet(before) /\ IsFiniteSet(after)
  BY ClientAssumption, FS_Subset
<1>2. Cardinality(before) \in Nat /\ Cardinality(after) \in Nat
  BY <1>1, FS_CardinalityType
<1>3. after = IF w \in P THEN before \cup {c} ELSE before \ {c}
  OBVIOUS
<1>4. c \in before <=> pc[c] \in P
  OBVIOUS
<1>5. pc[c] \in P => Cardinality(before) > 0
  BY <1>1, <1>2, <1>4, FS_EmptySet
<1>6. Cardinality(after) = Cardinality(before) + In(w, P) - In(pc[c], P)
  <2> HIDE DEF before, after
  <2>1. CASE w \in P
    BY <1>1, <1>2, <1>3, <1>4, <2>1, FS_AddElement DEF In
  <2>2. CASE w \notin P
    BY <1>1, <1>2, <1>3, <1>4, <2>2, FS_RemoveElement DEF In
  <2> QED
    BY <2>1, <2>2
<1> QED
  BY <1>2, <1>5, <1>6

-----------------------------------------------------------------------------
(* The initial states                                                      *)

LEMMA InitIInv == Init => IInv
<1> SUFFICES ASSUME Init PROVE IInv
  OBVIOUS
<1> USE ClientAssumption, ThresholdAssumption DEF Init, BreakerInit
<1>1. ClientTypeOK
  BY DEF ClientTypeOK, BreakerTypeOK, InFlight, Endings
<1>2. PermitsConserved
  <2>1. {c \in Calls : pc[c] \in Holding} = {}
    BY DEF Holding
  <2> QED
    BY <2>1, FS_EmptySet DEF PermitsConserved
<1>3. Accounted
  <2>1. Untold = {}
    BY DEF Untold
  <2> QED
    BY <2>1, FS_EmptySet DEF Accounted
<1>4. MutexHeld /\ AttemptsLeft /\ HalfOpenHasProbe /\ OneAtATime
  BY DEF MutexHeld, AttemptsLeft, HalfOpenHasProbe, OneAtATime, Locked
<1> QED
  BY <1>1, <1>2, <1>3, <1>4 DEF IInv

-----------------------------------------------------------------------------
(* Permits                                                                 *)

\* A step of a call takes a permit with it to a place that holds one, and gives it
\* back where it leaves one.
Carries(c) ==
  \E w \in Places :
    /\ pc' = [pc EXCEPT ![c] = w]
    /\ free' = free + In(pc[c], Holding) - In(w, Holding)
    /\ In(w, Holding) > In(pc[c], Holding) => free > 0

LEMMA StepsCarry ==
  ASSUME ClientTypeOK, NEW c \in Calls,
         Enter(c) \/ Locking(c) \/ Acquire(c) \/ Sent(c) \/ Unlocked(c) \/ Drop(c)
  PROVE  Carries(c)
<1> USE ClientAssumption DEF ClientTypeOK, Carries, Places, In, Holding, InFlight, Locked
<1>1. CASE Enter(c) \/ Locking(c) \/ Acquire(c)
  BY <1>1 DEF Enter, Locking, FindSession, Authenticate, Renew, Acquire, GoOn
<1>2. CASE Drop(c)
  BY <1>2 DEF Drop, End
<1>3. CASE Unlocked(c)
  BY <1>3 DEF Unlocked, Authenticated, AuthenticationFails, Renewed, RenewalFails, Retry, GiveUp,
              End, Exhaust, Release
<1>4. CASE Sent(c)
  <2>1. pc[c] = "sending"
    BY <1>4 DEF Sent, Succeed, Throttled, SignedOut, NotFound, Retired, Refused, Denied, Faulty,
                BreakOff, Answered
  <2> QED
    BY <1>4, <2>1 DEF Sent, Succeed, Throttled, SignedOut, NotFound, Retired, Refused, Denied,
                      Faulty, BreakOff, RetryOrGiveUp, GoOn, End, Exhaust, Release
<1> QED
  BY <1>1, <1>2, <1>3, <1>4

LEMMA NextPermits ==
  ASSUME ClientTypeOK, PermitsConserved, [Next]_vars
  PROVE  PermitsConserved' /\ (free \in 0..MaxConcurrency)'
<1> USE ClientAssumption
<1>1. ASSUME NEW c \in Calls, Carries(c)
      PROVE  PermitsConserved' /\ (free \in 0..MaxConcurrency)'
  <2>1. PICK w \in Places : /\ pc' = [pc EXCEPT ![c] = w]
                            /\ free' = free + In(pc[c], Holding) - In(w, Holding)
                            /\ In(w, Holding) > In(pc[c], Holding) => free > 0
    BY <1>1 DEF Carries
  <2>2. DOMAIN pc = Calls /\ free \in Nat
    BY DEF ClientTypeOK
  <2>3. LET before == {d \in Calls : pc[d] \in Holding}
            after  == {d \in Calls : pc'[d] \in Holding}
        IN  /\ Cardinality(before) \in Nat /\ Cardinality(after) \in Nat
            /\ Cardinality(after) = Cardinality(before) + In(w, Holding) - In(pc[c], Holding)
    BY <2>1, <2>2, CountMoves
  <2>4. In(w, Holding) \in {0, 1} /\ In(pc[c], Holding) \in {0, 1}
    BY DEF In
  <2> QED
    BY <2>1, <2>2, <2>3, <2>4 DEF PermitsConserved
<1>2. CASE UNCHANGED <<pc, free>>
  BY <1>2 DEF PermitsConserved, ClientTypeOK
<1> QED
  BY <1>1, <1>2, StepsCarry DEF Next, Cool, callVars, vars
-----------------------------------------------------------------------------
(* Types                                                                   *)

\* What an answer does to the shared session, and to the count of bad answers.
LEMMA AnswerCounts ==
  ASSUME NEW c \in Calls, NEW a, Answered(c, a)
  PROVE  /\ a = "ok" => bad' = AtMostThreshold(Cardinality(Untold))
         /\ a \in Bad => bad' = AtMostThreshold(bad + 1)
         /\ a \notin Bad \cup {"ok"} => bad' = bad
         /\ session' \in {session, "usable", "dead"}
         /\ pc[c] = "sending"
         /\ UNCHANGED <<auth, probe>>
         /\ passed' = IF a = "ok" THEN 0 ELSE passed
<1>1. "ok" \notin Bad
  BY DEF Bad
<1> QED
  BY <1>1 DEF Answered

LEMMA UntoldCount == Cardinality(Untold) \in Nat
<1>1. Untold \in SUBSET Calls
  BY DEF Untold
<1> QED
  BY <1>1, ClientAssumption, FS_Subset, FS_CardinalityType

LEMMA AtMostBounds ==
  ASSUME NEW n \in Nat
  PROVE  AtMostThreshold(n) \in 0..Threshold
BY ThresholdAssumption DEF AtMostThreshold

LEMMA BreakerSteps ==
  ASSUME BreakerTypeOK,
         Check \/ RecordSuccess \/ RecordFailure \/ CooldownPasses \/ UNCHANGED breakerVars
  PROVE  BreakerTypeOK'
BY ThresholdAssumption DEF BreakerTypeOK, Check, RecordSuccess, RecordFailure, CooldownPasses,
                           breakerVars

\* The part of the types that is of calls: a call that ends, goes on or gives up keeps it.
CallTypeOK ==
  /\ pc \in [Calls -> Places]
  /\ attempt \in [Calls -> 1..MaxAttempts]
  /\ renewed \in [Calls -> BOOLEAN]
  /\ ending \in [Calls -> Endings \cup {"none"}]
  /\ snapshot \in [Calls -> {"usable", "dead"}]
  /\ AttemptsLeft

LEMMA CallSteps ==
  ASSUME CallTypeOK, NEW c \in Calls
  PROVE  /\ \A a \in Endings \cup {"none"} : End(c, a) => CallTypeOK'
         /\ \A w \in Places : GoOn(c, w) /\ (w = "backoff" => attempt[c] < MaxAttempts)
                                => CallTypeOK'
         /\ \A a \in Endings : Exhaust(c, a) => CallTypeOK'
<1> USE ClientAssumption DEF CallTypeOK, AttemptsLeft, Places, InFlight, Holding, Locked
<1>1. ASSUME NEW a \in Endings \cup {"none"}, End(c, a) PROVE CallTypeOK'
  BY <1>1 DEF End
<1>2. ASSUME NEW w \in Places, GoOn(c, w), w = "backoff" => attempt[c] < MaxAttempts
      PROVE  CallTypeOK'
  BY <1>2 DEF GoOn
<1>3. ASSUME NEW a \in Endings, Exhaust(c, a) PROVE CallTypeOK'
  BY <1>3 DEF Exhaust
<1> QED
  BY <1>1, <1>2, <1>3

LEMMA NextCallTypes ==
  ASSUME CallTypeOK, session \in {"usable", "dead"}, [Next]_vars
  PROVE  CallTypeOK'
<1> USE ClientAssumption
<1>1. ASSUME NEW c \in Calls, Enter(c) \/ Locking(c) \/ Acquire(c) PROVE CallTypeOK'
  BY <1>1 DEF Enter, Locking, FindSession, Authenticate, Renew, Acquire, GoOn, CallTypeOK,
              AttemptsLeft, Places, InFlight, Holding, Locked
<1>2. ASSUME NEW c \in Calls, Sent(c) PROVE CallTypeOK'
  <2>1. ASSUME NEW a \in Endings, RetryOrGiveUp(c, a) PROVE CallTypeOK'
    <3>1. "backoff" \in Places
      BY DEF Places, InFlight, Holding
    <3> QED
      BY <2>1, <3>1, CallSteps DEF RetryOrGiveUp
  <2>2. CASE Throttled(c) \/ Faulty(c)
    BY <2>1, <2>2 DEF Throttled, Faulty, Endings, Answers
  <2>3. CASE Succeed(c) \/ SignedOut(c) \/ NotFound(c) \/ Retired(c) \/ Refused(c)
    BY <2>3, CallSteps DEF Succeed, SignedOut, NotFound, Retired, Refused, Endings, Answers
  <2>4. CASE BreakOff(c, "redirect") \/ BreakOff(c, "other")
    BY <2>4, CallSteps DEF BreakOff, Endings, Answers
  <2>5. CASE Denied(c)
    BY <2>5 DEF Denied, CallTypeOK, AttemptsLeft, Places, InFlight, Holding
  <2> QED
    BY <1>2, <2>2, <2>3, <2>4, <2>5 DEF Sent
<1>3. ASSUME NEW c \in Calls, Unlocked(c) PROVE CallTypeOK'
  <2>1. CASE Authenticated(c)
    BY <2>1 DEF Authenticated, Install, CallTypeOK, AttemptsLeft, Places, InFlight
  <2>2. CASE AuthenticationFails(c) \/ RenewalFails(c) \/ GiveUp(c)
    <3>1. ending[c] \in Endings \cup {"none"}
      BY DEF CallTypeOK
    <3> QED
      BY <2>2, <3>1, CallSteps DEF AuthenticationFails, RenewalFails, GiveUp, Endings, Answers
  <2>3. CASE Renewed(c)
    <3>1. CASE attempt[c] < MaxAttempts
      BY <2>3, <3>1 DEF Renewed, CallTypeOK, AttemptsLeft, Places, InFlight
    <3>2. CASE ~ (attempt[c] < MaxAttempts)
      BY <2>3, <3>2, CallSteps DEF Renewed, Endings, Answers
    <3> QED
      BY <3>1, <3>2
  <2>4. CASE Retry(c)
    BY <2>4 DEF Retry, CallTypeOK, AttemptsLeft, Places, InFlight
  <2> QED
    BY <1>3, <2>1, <2>2, <2>3, <2>4 DEF Unlocked
<1>4. ASSUME NEW c \in Calls, Drop(c) PROVE CallTypeOK'
  BY <1>4, CallSteps DEF Drop, Endings
<1>5. CASE UNCHANGED callVars
  BY <1>5 DEF callVars, CallTypeOK, AttemptsLeft
<1> QED
  BY <1>1, <1>2, <1>3, <1>4, <1>5 DEF Next, Cool, vars

\* The rest of the types but for free, which NextPermits has.
LEMMA NextSharedTypes ==
  ASSUME ClientTypeOK, [Next]_vars
  PROVE  /\ BreakerTypeOK'
         /\ (auth \in Calls \cup {NoCall})'
         /\ (session \in {"usable", "dead"})'
         /\ (probe \in Calls \cup {NoCall})'
         /\ (passed \in 0..2)'
         /\ (bad \in 0..Threshold)'
<1> USE ClientAssumption
<1>0. BreakerTypeOK /\ probe \in Calls \cup {NoCall} /\ auth \in Calls \cup {NoCall}
      /\ session \in {"usable", "dead"} /\ bad \in 0..Threshold /\ passed \in 0..2
  BY DEF ClientTypeOK
<1>1. ASSUME NEW c \in Calls, Enter(c) \/ Locking(c) \/ Acquire(c) \/ Unlocked(c) \/ Drop(c)
      PROVE  /\ Check \/ RecordFailure \/ UNCHANGED breakerVars
             /\ auth' \in {auth, c, NoCall} /\ session' \in {session, "usable", "dead"}
             /\ probe' \in {probe, c} /\ bad' = bad /\ passed' \in 0..2
  BY <1>0, <1>1 DEF Enter, Locking, FindSession, Authenticate, Renew, Acquire, Unlocked,
                    Authenticated, AuthenticationFails, Renewed, RenewalFails, Retry, GiveUp,
                    Install, Drop
<1>2. ASSUME NEW c \in Calls, Sent(c)
      PROVE  /\ RecordSuccess \/ RecordFailure \/ UNCHANGED breakerVars
             /\ \E a \in Answers : Answered(c, a)
  BY <1>2 DEF Sent, Succeed, Throttled, SignedOut, NotFound, Retired, Refused, Denied, Faulty,
              BreakOff, Answers
<1>3. ASSUME NEW c \in Calls, NEW a, Answered(c, a) PROVE bad' \in 0..Threshold /\ passed' \in 0..2
  <2>1. AtMostThreshold(bad + 1) \in 0..Threshold
    BY <1>0, AtMostBounds
  <2>2. AtMostThreshold(Cardinality(Untold)) \in 0..Threshold
    BY UntoldCount, AtMostBounds
  <2> QED
    BY <1>0, <1>3, <2>1, <2>2, AnswerCounts
<1>4. ASSUME NEW c \in Calls, Sent(c)
      PROVE  /\ RecordSuccess \/ RecordFailure \/ UNCHANGED breakerVars
             /\ auth' = auth /\ probe' = probe
             /\ session' \in {session, "usable", "dead"} /\ bad' \in 0..Threshold
             /\ passed' \in 0..2
  BY <1>2, <1>3, <1>4, AnswerCounts
<1>5. CASE Cool \/ UNCHANGED vars
  BY <1>0, <1>5, BreakerSteps DEF Cool, vars
<1>6. ASSUME NEW c \in Calls, Enter(c) \/ Locking(c) \/ Acquire(c) \/ Unlocked(c) \/ Drop(c)
      PROVE  /\ BreakerTypeOK' /\ auth' \in Calls \cup {NoCall} /\ session' \in {"usable", "dead"}
             /\ probe' \in Calls \cup {NoCall} /\ bad' \in 0..Threshold
             /\ passed' \in 0..2
  BY <1>0, <1>1, <1>6, BreakerSteps
<1>7. ASSUME NEW c \in Calls, Sent(c)
      PROVE  /\ BreakerTypeOK' /\ auth' \in Calls \cup {NoCall} /\ session' \in {"usable", "dead"}
             /\ probe' \in Calls \cup {NoCall} /\ bad' \in 0..Threshold
             /\ passed' \in 0..2
  BY <1>0, <1>4, <1>7, BreakerSteps
<1> QED
  BY <1>5, <1>6, <1>7 DEF Next

LEMMA NextTypes ==
  ASSUME ClientTypeOK, PermitsConserved, AttemptsLeft, [Next]_vars
  PROVE  ClientTypeOK' /\ PermitsConserved' /\ AttemptsLeft'
<1>1. CallTypeOK /\ session \in {"usable", "dead"}
  BY DEF ClientTypeOK, CallTypeOK, Places
<1>2. CallTypeOK'
  BY <1>1, NextCallTypes
<1> QED
  BY <1>2, NextPermits, NextSharedTypes DEF ClientTypeOK, CallTypeOK, Places

-----------------------------------------------------------------------------
(* The auth mutex                                                          *)

LEMMA NextMutex ==
  ASSUME ClientTypeOK, MutexHeld, [Next]_vars
  PROVE  MutexHeld'
<1> USE ClientAssumption DEF ClientTypeOK, MutexHeld, Locked
<1>1. ASSUME NEW c \in Calls, Enter(c) \/ Locking(c) \/ Acquire(c) PROVE MutexHeld'
  BY <1>1 DEF Enter, Locking, FindSession, Authenticate, Renew, Acquire, GoOn
<1>2. ASSUME NEW c \in Calls, Sent(c) PROVE MutexHeld'
  <2>1. pc[c] = "sending" /\ auth' = auth
    BY <1>2 DEF Sent, Succeed, Throttled, SignedOut, NotFound, Retired, Refused, Denied, Faulty,
                BreakOff, Answered
  <2>2. \E w \in {"idle", "backoff", "exhausted", "denied"} : pc' = [pc EXCEPT ![c] = w]
    BY <1>2 DEF Sent, Succeed, Throttled, SignedOut, NotFound, Retired, Refused, Denied, Faulty,
                BreakOff, RetryOrGiveUp, GoOn, Exhaust, End
  <2> QED
    BY <2>1, <2>2
<1>3. ASSUME NEW c \in Calls, Unlocked(c) PROVE MutexHeld'
  BY <1>3 DEF Unlocked, Authenticated, AuthenticationFails, Renewed, RenewalFails, Retry, GiveUp,
              Install, Exhaust, End
<1>4. ASSUME NEW c \in Calls, Drop(c) PROVE MutexHeld'
  BY <1>4 DEF Drop, End
<1>5. CASE UNCHANGED <<pc, auth>>
  BY <1>5
<1> QED
  BY <1>1, <1>2, <1>3, <1>4, <1>5 DEF Next, Cool, callVars, vars

-----------------------------------------------------------------------------
(* The probe                                                               *)

LEMMA NextProbe ==
  ASSUME ClientTypeOK, HalfOpenHasProbe, [Next]_vars
  PROVE  HalfOpenHasProbe'
<1> USE ClientAssumption DEF ClientTypeOK, HalfOpenHasProbe, Unheard
<1>1. ASSUME NEW c \in Calls, Enter(c) PROVE HalfOpenHasProbe'
  BY <1>1 DEF Enter, Passes, Check
<1>2. ASSUME NEW c \in Calls, Locking(c) \/ Acquire(c) PROVE HalfOpenHasProbe'
  BY <1>2 DEF Locking, FindSession, Authenticate, Renew, Acquire, GoOn, breakerVars
<1>3. ASSUME NEW c \in Calls, Succeed(c) \/ Throttled(c) \/ Refused(c) \/ RenewalFails(c) \/ GiveUp(c)
      PROVE  circuit' # "half"
  BY <1>3 DEF Succeed, Throttled, Refused, RenewalFails, GiveUp, RecordSuccess, RecordFailure,
              BreakerTypeOK, breakerVars
<1>4. ASSUME NEW c \in Calls, SignedOut(c) \/ NotFound(c) \/ Retired(c) \/ AuthenticationFails(c) \/ Drop(c)
      PROVE  HalfOpenHasProbe'
  BY <1>4 DEF SignedOut, NotFound, Retired, AuthenticationFails, Drop, Answered, End, breakerVars
<1>5. ASSUME NEW c \in Calls, Denied(c) \/ Faulty(c) \/ BreakOff(c, "redirect") \/ BreakOff(c, "other")
      PROVE  HalfOpenHasProbe'
  BY <1>5 DEF Denied, Faulty, BreakOff, Answered, RetryOrGiveUp, GoOn, Exhaust, breakerVars
<1>6. ASSUME NEW c \in Calls, Authenticated(c) \/ Renewed(c) \/ Retry(c) PROVE HalfOpenHasProbe'
  BY <1>6 DEF Authenticated, Renewed, Retry, Exhaust, breakerVars
<1>7. CASE Cool
  BY <1>7 DEF Cool, CooldownPasses
<1>8. CASE UNCHANGED vars
  BY <1>8 DEF vars, callVars, breakerVars
<1> QED
  BY <1>1, <1>2, <1>3, <1>4, <1>5, <1>6, <1>7, <1>8 DEF Next, Sent, Unlocked, HalfOpenHasProbe

LEMMA NextOneAtATime ==
  ASSUME ClientTypeOK, OneAtATime, [Next]_vars
  PROVE  OneAtATime'
<1> USE DEF ClientTypeOK, BreakerTypeOK, OneAtATime
<1>1. ASSUME NEW c \in Calls, Enter(c) PROVE OneAtATime'
  BY <1>1 DEF Enter, Passes, Check
<1>2. ASSUME NEW c \in Calls, Sent(c) PROVE OneAtATime'
  <2>1. CASE Succeed(c)
    BY <2>1, AnswerCounts DEF Succeed
  <2>2. CASE ~ Succeed(c)
    <3>1. PICK a \in Answers \ {"ok"} : Answered(c, a)
      BY <1>2, <2>2 DEF Sent, Throttled, SignedOut, NotFound, Retired, Refused, Denied, Faulty,
                        BreakOff, Answers
    <3>2. passed' = passed
      BY <3>1, AnswerCounts
    <3>3. RecordFailure \/ UNCHANGED breakerVars
      BY <1>2, <2>2 DEF Sent, Throttled, SignedOut, NotFound, Retired, Refused, Denied, Faulty,
                        BreakOff
    <3> QED
      BY <3>2, <3>3 DEF RecordFailure, breakerVars
  <2> QED
    BY <2>1, <2>2
<1>3. ASSUME NEW c \in Calls, Locking(c) \/ Acquire(c) \/ Unlocked(c) \/ Drop(c) PROVE OneAtATime'
  <2>1. passed' = passed /\ (RecordFailure \/ UNCHANGED breakerVars)
    BY <1>3 DEF Locking, FindSession, Authenticate, Renew, Acquire, Unlocked, Authenticated,
                AuthenticationFails, Renewed, RenewalFails, Retry, GiveUp, Drop
  <2> QED
    BY <2>1 DEF RecordFailure, breakerVars
<1>4. CASE Cool
  BY <1>4 DEF Cool, CooldownPasses
<1>5. CASE UNCHANGED vars
  BY <1>5 DEF vars, breakerVars
<1> QED
  BY <1>1, <1>2, <1>3, <1>4, <1>5 DEF Next

-----------------------------------------------------------------------------
(* Failures and bad answers                                                *)

\* Where a call is that has a failure to report.
Reporting == {"exhausted", "denied", "renewing"}

\* What a step of a call adds to the failures counted and to be reported: two at
\* most with a bad answer, and nothing otherwise; or a good answer starts anew.
Reckons(c) ==
  \E w \in Places :
    /\ pc' = [pc EXCEPT ![c] = w]
    /\ circuit' = "closed" =>
         \/ /\ failures' = 0 /\ bad' = AtMostThreshold(Cardinality(Untold))
            /\ In(w, Reporting) = In(pc[c], Reporting)
         \/ /\ circuit = "closed" /\ bad' = AtMostThreshold(bad + 1)
            /\ failures' + In(w, Reporting) <= failures + In(pc[c], Reporting) + 2
         \/ /\ circuit = "closed" /\ bad' = bad
            /\ failures' + In(w, Reporting) <= failures + In(pc[c], Reporting)

LEMMA StepsReckon ==
  ASSUME ClientTypeOK, NEW c \in Calls,
         Enter(c) \/ Locking(c) \/ Acquire(c) \/ Sent(c) \/ Unlocked(c) \/ Drop(c)
  PROVE  Reckons(c)
<1> USE ClientAssumption DEF Reckons, Places, In, Reporting, Holding, InFlight, Locked
<1>0. failures \in Nat /\ circuit \in {"closed", "open", "cooled", "half"}
      /\ pc \in [Calls -> InFlight \cup {"idle"}]
  BY ThresholdAssumption DEF ClientTypeOK, BreakerTypeOK
<1>1. CASE Enter(c) \/ Locking(c) \/ Acquire(c)
  BY <1>0, <1>1 DEF Enter, Check, Locking, FindSession, Authenticate, Renew, Acquire, GoOn, breakerVars
<1>2. CASE Drop(c)
  BY <1>0, <1>2 DEF Drop, End, breakerVars
<1>3. CASE Authenticated(c) \/ AuthenticationFails(c) \/ Renewed(c) \/ Retry(c)
  BY <1>0, <1>3 DEF Authenticated, AuthenticationFails, Renewed, Retry, End, Exhaust, breakerVars
<1>4. CASE RenewalFails(c) \/ GiveUp(c)
  BY <1>0, <1>4 DEF RenewalFails, GiveUp, RecordFailure, End, breakerVars
<1>5. CASE Succeed(c)
  BY <1>0, <1>5, AnswerCounts DEF Succeed, RecordSuccess, End
<1>6. CASE SignedOut(c) \/ NotFound(c) \/ Retired(c)
  <2>1. pc[c] = "sending" /\ UNCHANGED breakerVars /\ pc' = [pc EXCEPT ![c] = "idle"]
        /\ bad' \in {bad, AtMostThreshold(bad + 1)}
    BY <1>6, AnswerCounts DEF SignedOut, NotFound, Retired, End, Bad
  <2> QED
    BY <1>0, <2>1 DEF breakerVars
<1>7. CASE Throttled(c) \/ Refused(c) \/ Denied(c) \/ Faulty(c) \/ BreakOff(c, "redirect") \/ BreakOff(c, "other")
  <2>1. RecordFailure \/ UNCHANGED breakerVars
    BY <1>7, AnswerCounts DEF Throttled, Refused, Denied, Faulty, BreakOff
  <2>2. bad' = AtMostThreshold(bad + 1) /\ pc[c] = "sending"
    BY <1>7, AnswerCounts DEF Throttled, Refused, Denied, Faulty, BreakOff, Bad
  <2>3. PICK w \in Places : pc' = [pc EXCEPT ![c] = w]
    BY <1>7 DEF Throttled, Refused, Denied, Faulty, BreakOff, RetryOrGiveUp, GoOn, Exhaust, End
  <2>4. circuit' = "closed" => circuit = "closed" /\ failures' <= failures + 1 /\ failures' \in Nat
    BY <1>0, <2>1 DEF RecordFailure, breakerVars
  <2>5. In(w, Reporting) \in {0, 1} /\ In(pc[c], Reporting) = 0
    BY <2>2
  <2>6. circuit' = "closed" => failures' + In(w, Reporting) <= failures + In(pc[c], Reporting) + 2
    <3> HIDE DEF In
    <3> QED
      BY <1>0, <2>4, <2>5
  <2> QED
    BY <2>2, <2>3, <2>4, <2>6
<1> QED
  BY <1>1, <1>2, <1>3, <1>4, <1>5, <1>6, <1>7 DEF Sent, Unlocked

LEMMA NextAccounted ==
  ASSUME ClientTypeOK, Accounted, [Next]_vars
  PROVE  Accounted'
<1> USE ThresholdAssumption
<1>0. failures \in Nat /\ bad \in 0..Threshold /\ DOMAIN pc = Calls /\ Cardinality(Untold) \in Nat
  BY UntoldCount DEF ClientTypeOK, BreakerTypeOK
<1>1. ASSUME NEW c \in Calls, Reckons(c) PROVE Accounted'
  <2> SUFFICES ASSUME circuit' = "closed", bad' # Threshold
               PROVE  failures' + Cardinality(Untold') <= 2 * bad'
    BY DEF Accounted
  <2>1. PICK w \in Places :
          /\ pc' = [pc EXCEPT ![c] = w]
          /\ \/ /\ failures' = 0 /\ bad' = AtMostThreshold(Cardinality(Untold))
                /\ In(w, Reporting) = In(pc[c], Reporting)
             \/ /\ circuit = "closed" /\ bad' = AtMostThreshold(bad + 1)
                /\ failures' + In(w, Reporting) <= failures + In(pc[c], Reporting) + 2
             \/ /\ circuit = "closed" /\ bad' = bad
                /\ failures' + In(w, Reporting) <= failures + In(pc[c], Reporting)
    BY <1>1 DEF Reckons
  <2>2. /\ Cardinality(Untold') \in Nat
        /\ Cardinality(Untold') = Cardinality(Untold) + In(w, Reporting) - In(pc[c], Reporting)
    BY <1>0, <2>1, CountMoves DEF Untold, Reporting
  <2>3. In(w, Reporting) \in {0, 1} /\ In(pc[c], Reporting) \in {0, 1}
    BY DEF In
  <2>4. failures' \in Nat
    BY NextSharedTypes DEF BreakerTypeOK
  <2> QED
    BY <1>0, <2>1, <2>2, <2>3, <2>4 DEF Accounted, AtMostThreshold
<1>2. CASE Cool
  BY <1>2 DEF Cool, CooldownPasses, Accounted
<1>3. CASE UNCHANGED vars
  BY <1>3 DEF vars, callVars, breakerVars, Accounted, Untold
<1> QED
  BY <1>1, <1>2, <1>3, StepsReckon DEF Next

-----------------------------------------------------------------------------
(* The theorems                                                            *)

\* The invariant is inductive.
LEMMA NextIInv == IInv /\ [Next]_vars => IInv'
BY NextTypes, NextMutex, NextProbe, NextOneAtATime, NextAccounted DEF IInv

LEMMA Invariance == Spec => []IInv
BY InitIInv, NextIInv, PTL DEF Spec

\* The shapes of the state: throttle.rs and client.rs keep permits, attempts and
\* failures within their numbers.
THEOREM ClientTypes == Spec => []ClientTypeOK
<1>1. IInv => ClientTypeOK
  BY DEF IInv
<1> QED
  BY <1>1, Invariance, PTL

\* throttle.rs:74: a call that ends in any way gives back the permit it holds, and
\* no other.
THEOREM Permits == Spec => []PermitsConserved
<1>1. IInv => PermitsConserved
  BY DEF IInv
<1> QED
  BY <1>1, Invariance, PTL

\* client.rs:167: the auth mutex spans an authentication, whatever the others do.
THEOREM OneAuthenticates == Spec => []AuthenticatesAlone
<1>1. IInv => AuthenticatesAlone
  BY DEF IInv, MutexHeld, AuthenticatesAlone
<1> QED
  BY <1>1, Invariance, PTL

\* throttle.rs:107-111: half-open without a probe on its way is what an unreported end
\* of the probe leaves, and nothing else does.
THEOREM ProbeKnown == Spec => []HalfOpenHasProbe
<1>1. IInv => HalfOpenHasProbe
  BY DEF IInv
<1> QED
  BY <1>1, Invariance, PTL

\* throttle.rs:105-111: however late calls and earlier probes give their verdicts, a
\* circuit that is not closed lets one call through per cooldown that passes.
THEOREM OutageLoad == Spec => []OneCallPerCooldown
<1>1. IInv => OneCallPerCooldown
  BY DEF IInv, OneAtATime, OneCallPerCooldown
<1> QED
  BY <1>1, Invariance, PTL

\* throttle.rs:174-199: only bad answers open a closed circuit, half as many as the
\* threshold at least, for no answer adds more than two failures.
THEOREM BadAnswersOpen == Spec => OpensOnBadAnswers
<1> DEFINE Earned == circuit = "closed" /\ circuit' = "open" => 2 * bad' >= Threshold
<1>1. IInv /\ [Next]_vars => [Earned]_vars
  <2> SUFFICES ASSUME IInv, Next, circuit = "closed", circuit' = "open"
               PROVE  2 * bad' >= Threshold
    BY DEF Earned
  <2> USE ThresholdAssumption
  <2>0. /\ failures \in Nat /\ bad \in 0..Threshold /\ DOMAIN pc = Calls
        /\ Cardinality(Untold) \in Nat
        /\ bad = Threshold \/ failures + Cardinality(Untold) <= 2 * bad
    BY UntoldCount DEF IInv, ClientTypeOK, BreakerTypeOK, Accounted
  <2>1. RecordFailure => failures + 1 >= Threshold
    BY DEF RecordFailure
  <2>2. ASSUME NEW c \in Calls, Throttled(c) \/ Refused(c) PROVE 2 * bad' >= Threshold
    <3>1. RecordFailure /\ bad' = AtMostThreshold(bad + 1)
      BY <2>2, AnswerCounts DEF Throttled, Refused, Bad
    <3> QED
      BY <2>0, <2>1, <3>1 DEF AtMostThreshold
  <2>3. ASSUME NEW c \in Calls, RenewalFails(c) \/ GiveUp(c) PROVE 2 * bad' >= Threshold
    <3>1. RecordFailure /\ bad' = bad /\ pc[c] \in Reporting
      BY <2>3 DEF RenewalFails, GiveUp, Reporting
    <3>2. pc' = [pc EXCEPT ![c] = "idle"]
      BY <2>3 DEF RenewalFails, GiveUp, End
    <3>3. Cardinality(Untold) > 0
      BY <2>0, <3>1, <3>2, CountMoves DEF Untold, Reporting
    <3> QED
      BY <2>0, <2>1, <3>1, <3>3
  <2>4. ASSUME NEW c \in Calls,
               \/ Enter(c) \/ Locking(c) \/ Acquire(c) \/ Drop(c)
               \/ Succeed(c) \/ SignedOut(c) \/ NotFound(c) \/ Retired(c) \/ Denied(c) \/ Faulty(c)
               \/ BreakOff(c, "redirect") \/ BreakOff(c, "other")
               \/ Authenticated(c) \/ AuthenticationFails(c) \/ Renewed(c) \/ Retry(c)
        PROVE  FALSE
    BY <2>4 DEF Enter, Check, Locking, FindSession, Authenticate, Renew, Acquire, Drop,
                Succeed, RecordSuccess, SignedOut, NotFound, Retired, Denied, Faulty, BreakOff,
                Authenticated, AuthenticationFails, Renewed, Retry, breakerVars
  <2>5. ASSUME Cool PROVE FALSE
    BY <2>5 DEF Cool, CooldownPasses
  <2> QED
    BY <2>2, <2>3, <2>4, <2>5 DEF Next, Sent, Unlocked
<1> QED
  BY <1>1, Invariance, PTL DEF Spec, OpensOnBadAnswers, Earned

=============================================================================
