-------------------------------- MODULE Session --------------------------------
(***************************************************************************)
(* The LinkedIn session: the cookie jar all requests share, the shared     *)
(* session, the copy each call goes by, and the chain of sources that      *)
(* Authenticator::authenticate tries.  One call authenticates at a time,   *)
(* under the auth mutex; the answers of the others know nothing of that    *)
(* mutex.  Which save the file is of is SessionStore's matter.             *)
(*                                                                         *)
(* A session is its two cookies that count: li_at, alive or the tombstone, *)
(* and JSESSIONID, the CSRF token.  LinkedIn may answer anything, may      *)
(* issue a new token with any answer and may delete both cookies, by value *)
(* ("delete me") or by date.                                               *)
(***************************************************************************)
EXTENDS Integers, FiniteSets

CONSTANTS
  Calls,          \* calls in flight
  NoCall,
  MaxTokens       \* CSRF tokens LinkedIn issues

ASSUME SessionAssumption ==
  /\ IsFiniteSet(Calls) /\ NoCall \notin Calls
  /\ MaxTokens \in Nat \ {0}

VARIABLES
  environment,  \* the session of the settings, or Empty without a li_at
  password,     \* whether there are an e-mail address and a password
  jar,          \* the cookies of the HTTP client
  shared,       \* VoyagerClient::session
  issued,       \* tokens issued so far
  place,        \* where a call is; there is always another one entering
  copy,         \* the session a call captured
  read,         \* that copy, with what the call last found in the jar
  auth,         \* who holds the auth mutex
  trial,        \* what that call is trying
  overtaken,    \* history: calls with a reading of the jar that has changed since
  astray        \* history: an authentication left its cookies in the jar, or such
                \* a call its session in the shared one

callVars == <<place, copy, read>>
settings == <<environment, password>>
history  == <<overtaken, astray>>
vars == <<settings, jar, shared, issued, callVars, auth, trial, history>>

-----------------------------------------------------------------------------
(* Sessions                                                                *)

Tokens   == 1..MaxTokens
None     == 0         \* no JSESSIONID
Deleted  == -1        \* "delete me"
Empty    == [at |-> "none", csrf |-> None]
Sessions == [at : {"none", "live", "dead"}, csrf : Tokens \cup {None, Deleted}]

Usable(s) == s.at = "live" /\ s.csrf # None

\* Mutant: a tombstone removes li_at like any other cookie.
MergeRemovingAuth(s, j) ==
  [at   |-> CASE j.at = "none" -> s.at [] j.at = "dead" -> "none" [] OTHER -> j.at,
   csrf |-> CASE j.csrf = None -> s.csrf [] j.csrf = Deleted -> None [] OTHER -> j.csrf]

\* merge_cookies: what the jar lacks is kept, a tombstone removes a cookie,
\* but li_at, of which it is the value from now on.
Merge(s, j) ==
  [at   |-> IF j.at = "none" THEN s.at ELSE j.at,
   csrf |-> CASE j.csrf = None -> s.csrf [] j.csrf = Deleted -> None [] OTHER -> j.csrf]

\* What send asks: does the merged copy have a cookie the copy has not.  A cookie that
\* is missing from it does not show; a device cookie may.
Changed(merged, s) ==
  merged.at # s.at \/ (merged.csrf # None /\ merged.csrf # s.csrf)

\* What the cookies of an answer may make of the jar.
Answers ==
  {[jar |-> j, issued |-> issued] : j \in {jar, Empty, [at |-> "dead", csrf |-> Deleted]}}
  \cup {[jar |-> [jar EXCEPT !.csrf = n], issued |-> n] : n \in Tokens \cap {issued + 1}}

\* The call in ensure_session that has put its session into the jar.
Installing(c) == auth = c /\ trial.stage \in {"applied", "installed"}

\* Calls that will store, or go by, a session they have already.
Pending == {c \in Calls : place[c] \in {"absorbed", "renewed"} \/ Installing(c)}

\* The jar is changed: by c, or by nobody who is a pending call.
SetJar(c, j) ==
  /\ jar' = j
  /\ overtaken' = IF j = jar THEN overtaken ELSE overtaken \cup (Pending \ {c})

-----------------------------------------------------------------------------
(* What the holder of the mutex tries: the request it waits for, the source *)
(* of the session, the session, and the token it had before reseeding.     *)

NoTrial == [stage |-> "none", source |-> "none", session |-> Empty, before |-> None]

Ask(from, s)  == [stage |-> "asked", source |-> from, session |-> s, before |-> None]
Seed(from, s) == [stage |-> "seeding", source |-> from,
                  session |-> [s EXCEPT !.csrf = None], before |-> s.csrf]
Login         == [NoTrial EXCEPT !.stage = "logging"]

PasswordNext == IF password THEN Login ELSE NoTrial
EnvironmentNext ==
  IF environment.at = "none"      THEN PasswordNext
  ELSE IF environment.csrf = None THEN Seed("environment", environment)
  ELSE Ask("environment", environment)

\* Mutant: unwrap_or(false) for every source.
AfterRefusalOrError(from, s, verdict) ==
  CASE from = "restored"    -> EnvironmentNext
    [] from = "environment" -> Seed("reseeded", s)
    [] from = "reseeded"    -> PasswordNext
    [] OTHER                -> NoTrial

\* What follows a validation that did not succeed.  An error, which a signed-out
\* session is, goes on from a restored session only.
After(from, s, verdict) ==
  CASE from = "restored"                               -> EnvironmentNext
    [] from = "environment" /\ verdict = "refused"     -> Seed("reseeded", s)
    [] from = "reseeded" /\ verdict = "refused"        -> PasswordNext
    [] OTHER                                           -> NoTrial

-----------------------------------------------------------------------------
(* A call: a session, requests, and what their answers do to it            *)

Init ==
  /\ environment \in {Empty, [at |-> "live", csrf |-> None], [at |-> "live", csrf |-> 1]}
  /\ password \in BOOLEAN
  /\ jar = Empty
  /\ shared = Empty
  /\ issued = 1
  /\ place = [c \in Calls |-> "entering"]
  /\ copy = [c \in Calls |-> Empty]
  /\ read = [c \in Calls |-> Empty]
  /\ auth = NoCall
  /\ trial = NoTrial
  /\ overtaken = {}
  /\ astray = FALSE

GoTo(c, where) ==
  /\ place' = [place EXCEPT ![c] = where]
  /\ read' = [read EXCEPT ![c] = Empty]
  /\ UNCHANGED copy

Finish(c) ==
  /\ place' = [place EXCEPT ![c] = "entering"]
  /\ copy' = [copy EXCEPT ![c] = Empty]
  /\ read' = [read EXCEPT ![c] = Empty]

\* ensure_session(false) hands out the shared session when it is usable.
FindSession(c) ==
  /\ place[c] = "entering"
  /\ auth = NoCall
  /\ Usable(shared)
  /\ place' = [place EXCEPT ![c] = "sending"]
  /\ copy' = [copy EXCEPT ![c] = shared]
  /\ UNCHANGED <<settings, jar, shared, issued, read, auth, trial, history>>

\* An answer: its cookies are in the jar, and the jar is merged into the copy.
Absorb(c) ==
  /\ place[c] = "sending"
  /\ \E a \in Answers :
       /\ SetJar(c, a.jar)
       /\ issued' = a.issued
       /\ read' = [read EXCEPT ![c] = Merge(copy[c], a.jar)]
  /\ place' = [place EXCEPT ![c] = "absorbed"]
  /\ UNCHANGED <<settings, shared, copy, auth, trial, astray>>

\* Mutant: rotated cookies stay in the jar.
StoreNothing(c) ==
  /\ place[c] = "absorbed"
  /\ GoTo(c, "stored")
  /\ overtaken' = overtaken \ {c}
  /\ UNCHANGED <<settings, jar, shared, issued, auth, trial, astray>>

\* The merged copy becomes the shared session, whatever that is by now, where either
\* cookie or any other has changed.
Store(c) ==
  /\ place[c] = "absorbed"
  /\ GoTo(c, "stored")
  /\ \E others \in BOOLEAN :
       IF others \/ Changed(read[c], copy[c])
       THEN shared' = read[c] /\ astray' = (c \in overtaken)
       ELSE UNCHANGED <<shared, astray>>
  /\ overtaken' = overtaken \ {c}
  /\ UNCHANGED <<settings, jar, issued, auth, trial>>

\* Past persist_if_due, which changes nothing here: by the status the call ends, sends
\* again with the copy it has, or was denied and re-authenticates.  VoyagerClient has
\* the statuses, and how often.
Answered(c) ==
  /\ place[c] = "stored"
  /\ Finish(c) \/ GoTo(c, "sending") \/ GoTo(c, "denied")
  /\ UNCHANGED <<settings, jar, shared, issued, auth, trial, history>>

\* fetch stores the fresh session once more, when the mutex is free already,
\* and sends with its old copy.
Resume(c) ==
  /\ place[c] = "renewed"
  /\ shared' = read[c]
  /\ astray' = (c \in overtaken)
  /\ overtaken' = overtaken \ {c}
  /\ GoTo(c, "sending")
  /\ UNCHANGED <<settings, jar, issued, auth, trial>>

\* Mutant: the mutex is no guard of the future.
DropWithMutex(c) ==
  /\ auth = c
  /\ trial.stage \notin {"load", "valid", "applied"}
  /\ Finish(c)
  /\ trial' = NoTrial
  /\ UNCHANGED <<settings, jar, shared, issued, auth, history>>

\* The future of a call is dropped where it waits, and its guards go with it, but not
\* a save it has begun; or its request fails in transport.
Drop(c) ==
  /\ place[c] \in {"sending", "stored", "denied"} \/ auth = c
  /\ ~(auth = c /\ trial.stage \in {"load", "valid", "applied"})
  /\ Finish(c)
  /\ auth' = IF auth = c THEN NoCall ELSE auth
  /\ trial' = IF auth = c THEN NoTrial ELSE trial
  /\ astray' = (astray \/ (auth = c /\ ~Installing(c)))
  /\ overtaken' = overtaken \ {c}
  /\ UNCHANGED <<settings, jar, shared, issued>>

-----------------------------------------------------------------------------
(* Authentication                                                          *)

\* ensure_session without a usable session, or forced, which does not look.
Authenticate(c) ==
  /\ \/ place[c] = "entering" /\ ~Usable(shared)
     \/ place[c] = "denied"
  /\ auth = NoCall
  /\ auth' = c
  /\ trial' = [NoTrial EXCEPT !.stage = "load"]
  /\ UNCHANGED <<settings, jar, shared, issued, callVars, history>>

\* On to the next request, with the cookies of what is tried in the jar; or the
\* error, which leaves them there.
Proceed(c, t, jarNow) ==
  IF t = NoTrial
  THEN /\ Finish(c)
       /\ auth' = NoCall
       /\ trial' = NoTrial
       /\ SetJar(c, jarNow)
       /\ astray' = (astray \/ trial.stage # "load")
  ELSE /\ trial' = t
       /\ SetJar(c, t.session)
       /\ UNCHANGED <<callVars, auth, astray>>

\* What store.load() can find: nothing of use, or a session of any save, for one may
\* land late, and be of an earlier process.
OnFile == {Empty} \cup {s \in Sessions : s.at # "none" /\ s.csrf <= issued}

Load(c) ==
  /\ auth = c
  /\ trial.stage = "load"
  /\ \E s \in OnFile :
       Proceed(c, IF Usable(s) THEN Ask("restored", s) ELSE EnvironmentNext, jar)
  /\ UNCHANGED <<settings, shared, issued>>

\* validate: 200 is valid whatever else the answer did; otherwise a session that is
\* signed out is an error, 401, 403 and 500 upwards refuse, and the rest is valid.
Validated(c) ==
  /\ auth = c
  /\ trial.stage = "asked"
  /\ \E a \in Answers, verdict \in {"valid", "refused", "error"} :
       LET s == Merge(trial.session, a.jar)
       IN  /\ verdict = "refused" => s.at # "dead"
           /\ issued' = a.issued
           /\ IF verdict = "valid"
              THEN /\ trial' = [NoTrial EXCEPT !.stage = "valid", !.session = s]
                   /\ SetJar(c, a.jar)
                   /\ UNCHANGED <<callVars, auth, astray>>
              ELSE Proceed(c, After(trial.source, s, verdict), a.jar)
  /\ UNCHANGED <<settings, shared>>

\* ensure_csrf_token: the JSESSIONID of the jar, be it the one that was refused.
\* None is an error; reseed_csrf_token takes it for a refusal, and the old token
\* for one too.
Seeded(c) ==
  /\ auth = c
  /\ trial.stage = "seeding"
  /\ \E a \in Answers \cup {[jar |-> [jar EXCEPT !.csrf = trial.before], issued |-> issued]} :
       LET s == Merge(trial.session, [Empty EXCEPT !.csrf = a.jar.csrf])
           t == IF trial.source = "environment"
                THEN IF a.jar.csrf = None THEN NoTrial ELSE Ask("environment", s)
                ELSE IF s.csrf \in {None, trial.before} THEN PasswordNext ELSE Ask("reseeded", s)
       IN  issued' = a.issued /\ Proceed(c, t, a.jar)
  /\ UNCHANGED <<settings, shared>>

\* login_with_credentials: a page for the token, then the form.
LoginSeeded(c) ==
  /\ auth = c
  /\ trial.stage = "logging"
  /\ \E a \in Answers :
       /\ issued' = a.issued
       /\ Proceed(c, IF a.jar.csrf = None THEN NoTrial
                     ELSE [Login EXCEPT !.stage = "posting", !.session = a.jar], a.jar)
  /\ UNCHANGED <<settings, shared>>

\* A challenge, a wrong password, no li_at; or a session.
LoggedIn(c) ==
  /\ auth = c
  /\ trial.stage = "posting"
  /\ \E a \in Answers, granted \in BOOLEAN :
       LET j == IF granted THEN [a.jar EXCEPT !.at = "live"] ELSE a.jar
           s == [at |-> j.at, csrf |-> IF j.csrf = None THEN trial.session.csrf ELSE j.csrf]
       IN  /\ issued' = a.issued
           /\ Proceed(c, IF granted THEN Ask("password", s) ELSE NoTrial, j)
  /\ UNCHANGED <<settings, shared>>

\* Back in ensure_session: the session goes into the jar,
Apply(c) ==
  /\ auth = c
  /\ trial.stage = "valid"
  /\ SetJar(c, trial.session)
  /\ trial' = [trial EXCEPT !.stage = "applied"]
  /\ UNCHANGED <<settings, shared, issued, callVars, auth, astray>>

\* then into the shared session, whatever others have made of the jar by now, and to
\* the job that saves it.
Share(c) ==
  /\ auth = c
  /\ trial.stage = "applied"
  /\ shared' = trial.session
  /\ astray' = (c \in overtaken)
  /\ trial' = [trial EXCEPT !.stage = "installed"]
  /\ UNCHANGED <<settings, jar, issued, callVars, auth, overtaken>>

\* The save has ended, and the mutex is given back.
Ensured(c) ==
  /\ auth = c
  /\ trial.stage = "installed"
  /\ auth' = NoCall
  /\ trial' = NoTrial
  /\ IF place[c] = "entering"
     THEN /\ place' = [place EXCEPT ![c] = "sending"]
          /\ copy' = [copy EXCEPT ![c] = trial.session]
          /\ overtaken' = overtaken \ {c}
          /\ UNCHANGED read
     ELSE /\ place' = [place EXCEPT ![c] = "renewed"]
          /\ read' = [read EXCEPT ![c] = trial.session]
          /\ UNCHANGED <<copy, overtaken>>
  /\ UNCHANGED <<settings, jar, shared, issued, astray>>

\* The process starts anew, with the directory as it is.
Restart ==
  /\ jar' = Empty
  /\ shared' = Empty
  /\ place' = [c \in Calls |-> "entering"]
  /\ copy' = [c \in Calls |-> Empty]
  /\ read' = [c \in Calls |-> Empty]
  /\ auth' = NoCall
  /\ trial' = NoTrial
  /\ overtaken' = {}
  /\ astray' = FALSE
  /\ UNCHANGED <<settings, issued>>

Authentication(c) ==
  \/ Load(c) \/ Validated(c) \/ Seeded(c) \/ LoginSeeded(c) \/ LoggedIn(c)
  \/ Apply(c) \/ Share(c) \/ Ensured(c)

Next ==
  \/ \E c \in Calls :
       \/ FindSession(c) \/ Authenticate(c) \/ Authentication(c)
       \/ Absorb(c) \/ Store(c) \/ Answered(c) \/ Resume(c) \/ Drop(c)
  \/ Restart

Spec == Init /\ [][Next]_vars

-----------------------------------------------------------------------------

\* The shapes of the state: among them, somebody holds the mutex just while
\* somebody authenticates.
SessionTypeOK ==
  /\ environment \in Sessions /\ password \in BOOLEAN
  /\ jar \in Sessions /\ shared \in Sessions
  /\ issued \in 1..MaxTokens
  /\ place \in [Calls -> {"entering", "sending", "absorbed", "stored", "denied", "renewed"}]
  /\ copy \in [Calls -> Sessions] /\ read \in [Calls -> Sessions]
  /\ auth \in Calls \cup {NoCall}
  /\ trial \in [stage : {"none", "load", "asked", "seeding", "logging", "posting",
                         "valid", "applied", "installed"},
                source : {"none", "restored", "environment", "reseeded", "password"},
                session : Sessions, before : Tokens \cup {None, Deleted}]
  /\ auth = NoCall <=> trial = NoTrial
  /\ overtaken \subseteq Calls /\ astray \in BOOLEAN

\* What is saved: by authenticate, by ensure_session and by persist_if_due.
Saves ==
  {s \in {trial.session} : trial.stage \in {"valid", "installed"}}
  \cup {s \in {shared} : Usable(s) /\ \E c \in Calls : place[c] = "stored"}

\* linkedin/session.rs:5-7: what is saved can be loaded: it has an li_at, if only
\* the tombstone, so that a restart does not find its own file malformed.
SavedHaveAuth == \A s \in Saves : s.at # "none"

\* client.rs:236, 376: the token in the header of a call's first request, that of the
\* session it captured, is the one LinkedIn compares it with, the jar's.  That is so
\* but when the jar has changed under the call's own authentication; and for a call
\* that finds a session, when another is about to store one, has stored what it read
\* before the jar changed, or failed or was dropped half-way through authenticating.
TokensAgree ==
  [][\A c \in Calls :
       /\ place[c] = "entering" /\ place'[c] = "sending" /\ jar.csrf \in Tokens
       /\ IF auth = c THEN c \notin overtaken ELSE Pending = {} /\ ~astray
       => copy'[c].csrf = jar.csrf]_vars

\* linkedin/session.rs:3-5, the CSRF token every Voyager call echoes back: so does a
\* request after the first, when a retry or a re-authentication leads to it.
RetriesEchoToken ==
  [][\A c \in Calls :
       place[c] \in {"stored", "renewed"} /\ place'[c] = "sending" /\ jar.csrf \in Tokens
       => copy'[c].csrf = jar.csrf]_vars

\* auth.rs:101-114: the password is posted only with no cookie configured, or with
\* one that LinkedIn refused twice, the second time or for want of a new token, and
\* that it did not sign out.
PasswordLast ==
  [][trial'.stage = "logging" /\ trial.stage # "logging"
       => environment.at = "none" \/ (trial.source = "reseeded" /\ trial.session.at = "live")]_vars

=============================================================================
