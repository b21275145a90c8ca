---------------------------- MODULE VoyagerClient ----------------------------
(***************************************************************************)
(* VoyagerClient::fetch (linkedin/client.rs) with what it shares between   *)
(* calls: the circuit breaker, the permits of RequestThrottle, the auth    *)
(* mutex of ensure_session and the session.  A call checks the breaker     *)
(* once, makes sure of a session, and then sends up to MaxAttempts         *)
(* requests, a permit at a time, held through the answer, the backoff and  *)
(* the forced re-authentication that may follow it.                        *)
(*                                                                         *)
(* LinkedIn is the environment: any answer may come to any request, any    *)
(* authentication may fail, and any answer may carry rotated cookies.      *)
(***************************************************************************)
EXTENDS CircuitBreaker, FiniteSets

CONSTANTS
  Calls,            \* places for calls in flight; each is used again
  Fallback,         \* calls with allow_fallback: strategies and the raw endpoint
  NoCall,
  MaxAttempts,      \* max_retries, at least 1
  MaxConcurrency    \* permits

ASSUME ClientAssumption ==
  /\ IsFiniteSet(Calls)
  /\ Fallback \subseteq Calls
  /\ NoCall \notin Calls
  /\ MaxAttempts \in Nat \ {0}
  /\ MaxConcurrency \in Nat \ {0}

VARIABLES
  pc,         \* where a call is
  attempt,    \* which of its attempts
  renewed,    \* whether it has re-authenticated
  ending,     \* the answer it ended on
  free,       \* permits nobody holds
  auth,       \* who holds the auth mutex
  session,    \* the shared session: "dead" as long as there is none, and signed out
  snapshot,   \* the session a call goes by
  probe,      \* history: the last call let through as the probe
  passed,     \* history: calls let through since a cooldown passed, until the
              \* circuit closes; up to 2
  bad         \* history: bad answers since the last good one, with those the
              \* breaker was still to be told of then; up to Threshold

callVars == <<pc, attempt, renewed, ending, snapshot>>
vars == <<breakerVars, callVars, free, auth, session, probe, passed, bad>>

-----------------------------------------------------------------------------

Answers  == {"ok", "redirect", "denied", "missing", "retired",
             "throttled", "faulty", "other"}
Endings  == Answers \cup {"unauthenticated", "dropped"}
Holding  == {"sending", "backoff", "denied", "renewing"}
Locked   == {"authenticating", "renewing"}
InFlight == Holding \cup Locked \cup {"entering", "queued", "exhausted"}
Bad      == {"redirect", "denied", "throttled", "faulty", "other"}

Init ==
  /\ BreakerInit
  /\ pc = [c \in Calls |-> "idle"]
  /\ attempt = [c \in Calls |-> 1]
  /\ renewed = [c \in Calls |-> FALSE]
  /\ ending = [c \in Calls |-> "none"]
  /\ free = MaxConcurrency
  /\ auth = NoCall
  /\ session = "dead"
  /\ snapshot = [c \in Calls |-> "dead"]
  /\ probe = NoCall
  /\ passed = 0
  /\ bad = 0

\* A call is over, and its place is idle again.
End(c, answer) ==
  /\ pc' = [pc EXCEPT ![c] = "idle"]
  /\ ending' = [ending EXCEPT ![c] = answer]
  /\ attempt' = [attempt EXCEPT ![c] = 1]
  /\ renewed' = [renewed EXCEPT ![c] = FALSE]
  /\ snapshot' = [snapshot EXCEPT ![c] = "dead"]

GoOn(c, where) ==
  /\ pc' = [pc EXCEPT ![c] = where]
  /\ UNCHANGED <<attempt, renewed, ending, snapshot>>

\* The call gives up its attempts: what is left is to tell the breaker.
Exhaust(c, answer) ==
  /\ pc' = [pc EXCEPT ![c] = "exhausted"]
  /\ ending' = [ending EXCEPT ![c] = answer]
  /\ UNCHANGED <<attempt, renewed, snapshot>>

-----------------------------------------------------------------------------
(* Admission and session                                                   *)

\* breaker.check(); a refused call has CircuitOpen at once and changes nothing.
Enter(c) ==
  /\ pc[c] = "idle"
  /\ Passes
  /\ Check
  /\ probe' = IF circuit' = "half" THEN c ELSE probe
  /\ passed' = IF circuit' = "half" /\ passed < 2 THEN passed + 1 ELSE passed
  /\ pc' = [pc EXCEPT ![c] = "entering"]
  /\ ending' = [ending EXCEPT ![c] = "none"]
  /\ UNCHANGED <<attempt, renewed, snapshot, free, auth, session, bad>>

\* ensure_session(false): under the mutex, a usable session is handed out.
FindSession(c) ==
  /\ pc[c] = "entering"
  /\ auth = NoCall
  /\ session = "usable"
  /\ snapshot' = [snapshot EXCEPT ![c] = session]
  /\ pc' = [pc EXCEPT ![c] = "queued"]
  /\ UNCHANGED <<breakerVars, attempt, renewed, ending, free, auth, session, probe, passed, bad>>

\* Mutant: the mutex is not held across the authentication.
AuthenticateUnlocked(c) ==
  /\ pc[c] = "entering"
  /\ session # "usable"
  /\ GoOn(c, "authenticating")
  /\ UNCHANGED <<breakerVars, free, auth, session, probe, passed, bad>>

\* Without one, the call authenticates and keeps the mutex until it has.
Authenticate(c) ==
  /\ pc[c] = "entering"
  /\ auth = NoCall
  /\ session # "usable"
  /\ auth' = c
  /\ GoOn(c, "authenticating")
  /\ UNCHANGED <<breakerVars, free, session, probe, passed, bad>>

\* The session that was validated becomes the shared one.  It is dead already
\* when the validating answer expired the auth cookie.
Install(c) ==
  /\ auth' = NoCall
  /\ session' \in {"usable", "dead"}

Authenticated(c) ==
  /\ pc[c] = "authenticating"
  /\ Install(c)
  /\ snapshot' = [snapshot EXCEPT ![c] = session']
  /\ pc' = [pc EXCEPT ![c] = "queued"]
  /\ UNCHANGED <<breakerVars, attempt, renewed, ending, free, probe, passed, bad>>

\* Mutant: the error returns past the unlocking.
AuthenticationFailsLocked(c) ==
  /\ pc[c] = "authenticating"
  /\ End(c, "unauthenticated")
  /\ UNCHANGED <<breakerVars, free, auth, session, probe, passed, bad>>

\* The error goes to the caller; the breaker is told nothing.
AuthenticationFails(c) ==
  /\ pc[c] = "authenticating"
  /\ auth' = NoCall
  /\ End(c, "unauthenticated")
  /\ UNCHANGED <<breakerVars, free, session, probe, passed, bad>>

\* throttle.acquire(): the permit, then the wait for the spacing it reserved.
Acquire(c) ==
  /\ pc[c] = "queued"
  /\ free > 0
  /\ free' = free - 1
  /\ GoOn(c, "sending")
  /\ UNCHANGED <<breakerVars, auth, session, probe, passed, bad>>

-----------------------------------------------------------------------------
(* Answers.  Whatever the answer, rotated cookies may have replaced the    *)
(* shared session by the call's own copy, alive or expired.                *)

\* Calls with a bad answer the breaker is still to be told of.
Untold == {c \in Calls : pc[c] \in {"exhausted", "denied", "renewing"}}
AtMostThreshold(n) == IF n < Threshold THEN n ELSE Threshold

Answered(c, a) ==
  /\ pc[c] = "sending"
  /\ session' \in {session, "usable", "dead"}
  /\ bad' = CASE a = "ok"   -> AtMostThreshold(Cardinality(Untold))
              [] a \in Bad  -> AtMostThreshold(bad + 1)
              [] OTHER      -> bad
  /\ passed' = IF a = "ok" THEN 0 ELSE passed
  /\ UNCHANGED <<auth, probe>>

Release == free' = free + 1

Succeed(c) ==
  /\ Answered(c, "ok")
  /\ RecordSuccess
  /\ End(c, "ok")
  /\ Release

\* Nothing can be made of the answer: there is another attempt after a backoff
\* with the permit in hand, or none.
RetryOrGiveUp(c, a) ==
  IF attempt[c] < MaxAttempts
  THEN GoOn(c, "backoff") /\ UNCHANGED free
  ELSE Exhaust(c, a) /\ Release

\* 500 to 504, or 200 with nothing in it that could be decoded.
Faulty(c) ==
  /\ Answered(c, "faulty")
  /\ RetryOrGiveUp(c, "faulty")
  /\ UNCHANGED breakerVars

\* 429 and 999 tell the breaker at every attempt, and once more at the end.
Throttled(c) ==
  /\ Answered(c, "throttled")
  /\ RecordFailure
  /\ RetryOrGiveUp(c, "throttled")

\* Redirected with a session that is signed out: SessionExpired.  The session
\* that is looked at is the one the call began with.
SignedOut(c) ==
  /\ Answered(c, "redirect")
  /\ snapshot[c] = "dead"
  /\ End(c, "redirect")
  /\ Release
  /\ UNCHANGED breakerVars

\* Redirected otherwise, failed in transport or answered with a status nobody
\* expects: no more attempts.
BreakOff(c, a) ==
  /\ a = "other" \/ (a = "redirect" /\ snapshot[c] # "dead")
  /\ Answered(c, a)
  /\ Exhaust(c, a)
  /\ Release
  /\ UNCHANGED breakerVars

\* Mutant: an answer without a profile counts as an upstream failure.
NotFoundCounted(c) ==
  /\ Answered(c, "missing")
  /\ RecordFailure
  /\ End(c, "missing")
  /\ Release

\* 404: the profile does not exist.  Neither a success nor a failure.
NotFound(c) ==
  /\ Answered(c, "missing")
  /\ End(c, "missing")
  /\ Release
  /\ UNCHANGED breakerVars

\* 410: the endpoint is gone, and no reason to try again.
Retired(c) ==
  /\ Answered(c, "retired")
  /\ End(c, "retired")
  /\ Release
  /\ UNCHANGED breakerVars

\* 401 or 403, with a re-authentication already made or none allowed.
Refused(c) ==
  /\ Answered(c, "denied")
  /\ renewed[c] \/ c \in Fallback
  /\ RecordFailure
  /\ End(c, "denied")
  /\ Release

\* 401 or 403 for the first time: re-authenticate, whoever else has meanwhile.
Denied(c) ==
  /\ Answered(c, "denied")
  /\ ~renewed[c]
  /\ c \notin Fallback
  /\ pc' = [pc EXCEPT ![c] = "denied"]
  /\ renewed' = [renewed EXCEPT ![c] = TRUE]
  /\ UNCHANGED <<breakerVars, attempt, ending, snapshot, free>>

\* ensure_session(true): the mutex, and no second look at the session.
Renew(c) ==
  /\ pc[c] = "denied"
  /\ auth = NoCall
  /\ auth' = c
  /\ GoOn(c, "renewing")
  /\ UNCHANGED <<breakerVars, free, session, probe, passed, bad>>

\* `continue`: the permit goes back and the next attempt follows at once, with
\* the headers of the old session; or there is none left.
Renewed(c) ==
  /\ pc[c] = "renewing"
  /\ Install(c)
  /\ Release
  /\ IF attempt[c] < MaxAttempts
     THEN /\ pc' = [pc EXCEPT ![c] = "queued"]
          /\ attempt' = [attempt EXCEPT ![c] = @ + 1]
          /\ UNCHANGED <<renewed, ending, snapshot>>
     ELSE Exhaust(c, "denied")
  /\ UNCHANGED <<breakerVars, probe, passed, bad>>

RenewalFails(c) ==
  /\ pc[c] = "renewing"
  /\ auth' = NoCall
  /\ RecordFailure
  /\ End(c, "denied")
  /\ Release
  /\ UNCHANGED <<session, probe, passed, bad>>

\* Mutant: one permit serves all attempts, and is acquired anew for each.
RetryWithPermit(c) ==
  /\ pc[c] = "backoff"
  /\ pc' = [pc EXCEPT ![c] = "queued"]
  /\ attempt' = [attempt EXCEPT ![c] = @ + 1]
  /\ UNCHANGED <<breakerVars, renewed, ending, snapshot, free, auth, session, probe, passed, bad>>

\* The backoff is over: the permit goes back, and the call queues again.
Retry(c) ==
  /\ pc[c] = "backoff"
  /\ pc' = [pc EXCEPT ![c] = "queued"]
  /\ attempt' = [attempt EXCEPT ![c] = @ + 1]
  /\ Release
  /\ UNCHANGED <<breakerVars, renewed, ending, snapshot, auth, session, probe, passed, bad>>

\* Mutant: only the attempts tell the breaker.
GiveUpQuietly(c) ==
  /\ pc[c] = "exhausted"
  /\ End(c, ending[c])
  /\ UNCHANGED <<breakerVars, free, auth, session, probe, passed, bad>>

\* After the loop.
GiveUp(c) ==
  /\ pc[c] = "exhausted"
  /\ RecordFailure
  /\ End(c, ending[c])
  /\ UNCHANGED <<free, auth, session, probe, passed, bad>>

\* Mutant: the permit is no guard of the future.
DropWithPermit(c) ==
  /\ \/ c \in Fallback /\ pc[c] \in InFlight \ {"exhausted"}
     \/ pc[c] = "sending"
  /\ End(c, "dropped")
  /\ auth' = IF auth = c THEN NoCall ELSE auth
  /\ UNCHANGED <<breakerVars, free, session, snapshot, probe, passed, bad>>

\* The client of the raw endpoint disconnects, or a body panics in the log of
\* an answer: the call's future goes, and its guards with it.
Drop(c) ==
  /\ \/ c \in Fallback /\ pc[c] \in InFlight \ {"exhausted"}
     \/ pc[c] = "sending"
  /\ End(c, "dropped")
  /\ free' = IF pc[c] \in Holding THEN free + 1 ELSE free
  /\ auth' = IF auth = c THEN NoCall ELSE auth
  /\ UNCHANGED <<breakerVars, session, probe, passed, bad>>

Cool ==
  /\ CooldownPasses
  /\ passed' = 0
  /\ UNCHANGED <<callVars, free, auth, session, probe, bad>>

Sent(c) ==
  \/ Succeed(c) \/ Throttled(c) \/ SignedOut(c) \/ NotFound(c) \/ Retired(c)
  \/ Refused(c) \/ Denied(c)
  \/ Faulty(c) \/ BreakOff(c, "redirect") \/ BreakOff(c, "other")

Unlocked(c) ==
  \/ Authenticated(c) \/ AuthenticationFails(c)
  \/ Renewed(c) \/ RenewalFails(c) \/ Retry(c) \/ GiveUp(c)

Locking(c) == FindSession(c) \/ Authenticate(c) \/ Renew(c)

Next ==
  \/ \E c \in Calls : Enter(c) \/ Locking(c) \/ Acquire(c) \/ Sent(c) \/ Unlocked(c) \/ Drop(c)
  \/ Cool

Spec == Init /\ [][Next]_vars

\* The runtime polls what can go on, answers and authentications time out, and
\* the semaphore and the mutex of tokio serve their waiters in turn.
FairSpec ==
  /\ Spec
  /\ \A c \in Calls : /\ WF_vars(Sent(c) \/ Unlocked(c))
                      /\ SF_vars(Locking(c))
                      /\ SF_vars(Acquire(c))
  /\ WF_vars(Cool)

-----------------------------------------------------------------------------

\* The shapes of the state: among them, permits within their number and
\* attempts within theirs.
ClientTypeOK ==
  /\ BreakerTypeOK
  /\ pc \in [Calls -> InFlight \cup {"idle"}]
  /\ attempt \in [Calls -> 1..MaxAttempts]
  /\ renewed \in [Calls -> BOOLEAN]
  /\ ending \in [Calls -> Endings \cup {"none"}]
  /\ free \in 0..MaxConcurrency
  /\ auth \in Calls \cup {NoCall}
  /\ session \in {"usable", "dead"}
  /\ snapshot \in [Calls -> {"usable", "dead"}]
  /\ probe \in Calls \cup {NoCall}
  /\ passed \in 0..2
  /\ bad \in 0..Threshold

\* However a call ends or is dropped, its permit comes back, once: permits are
\* never lost, and never more calls talk to LinkedIn than MaxConcurrency.
PermitsConserved == free + Cardinality({c \in Calls : pc[c] \in Holding}) = MaxConcurrency

\* client.rs:167, the auth mutex spans the whole refresh: one call at a time
\* authenticates, and the mutex is held by that call or by nobody.
AuthenticatesAlone ==
  /\ \A c, d \in Calls : pc[c] \in Locked /\ pc[d] \in Locked => c = d
  /\ auth # NoCall => pc[auth] \in Locked

\* While the circuit is half-open the probe is on its way, unless it ended in
\* one of the ways the breaker never hears of.
Unheard == {"missing", "retired", "redirect", "unauthenticated", "dropped"}
HalfOpenHasProbe ==
  circuit = "half" => probe # NoCall /\ (pc[probe] # "idle" \/ ending[probe] \in Unheard)

\* throttle.rs:105-111: an outage costs LinkedIn one call per cooldown that
\* passes.  Calls let through before the circuit opened, and earlier probes that
\* are still under way, may close it or reopen it in the probe's stead, and as
\* often as they have attempts; none of it lets a second call in.
OneCallPerCooldown == circuit # "closed" => passed <= 1

\* Only bad answers open a closed circuit, and at least half as many of them
\* as the threshold: a profile that does not exist, a retired endpoint or a
\* call somebody dropped count for nothing, whatever the other calls do.
OpensOnBadAnswers ==
  [][circuit = "closed" /\ circuit' = "open" => 2 * bad' >= Threshold]_vars

\* A call that got in ends, though each holds its permit while it waits for
\* the auth mutex and the mutex while LinkedIn answers.
CallsEnd == \A c \in Calls : pc[c] = "entering" ~> pc[c] = "idle"

\* linkedin/throttle.rs:107-111, "then exactly one caller gets a half-open
\* probe; success closes, failure reopens": half-open does not outlast a probe
\* that nobody drops.
BreakerRecovers == circuit = "half" ~> circuit # "half" \/ ending[probe] = "dropped"

=============================================================================
