----------------------------- MODULE SessionProofs -----------------------------
(***************************************************************************)
(* Theorems about Session, for any calls and any number of tokens.  Only   *)
(* the call that holds the auth mutex changes the trial; what it does to   *)
(* the jar makes the readings of the others overtaken.                     *)
(***************************************************************************)
EXTENDS Session, TLAPS

-----------------------------------------------------------------------------
(* The invariant                                                           *)

\* The trial is of a call that entered or was denied.
Holder == auth # NoCall => place[auth] \in {"entering", "denied"}

\* What is tried has an li_at, and after reseeding one that LinkedIn has not expired;
\* only a session of the settings is seeded.
HasAuth(t) ==
  /\ t.stage \in {"asked", "seeding", "valid", "applied", "installed"} => t.session.at # "none"
  /\ t.stage \in {"asked", "seeding"} /\ t.source = "reseeded" => t.session.at = "live"
  /\ t.stage = "seeding" => t.source \in {"environment", "reseeded"}

TrialHasAuth == HasAuth(trial)

\* Every token there is has been issued, so that the next one is new to all.
AllIssued ==
  /\ environment.csrf <= issued /\ jar.csrf <= issued /\ shared.csrf <= issued
  /\ trial.session.csrf <= issued /\ trial.before <= issued
  /\ \A c \in Calls : copy[c].csrf <= issued /\ read[c].csrf <= issued

\* What a pending call is about to store, or to go by.
Reading(c) == IF Installing(c) THEN trial.session ELSE read[c]

\* A reading nobody has overtaken has the token of the jar.
ReadingsFresh ==
  /\ overtaken \subseteq Pending
  /\ \A c \in Pending \ overtaken : jar.csrf \in Tokens => jar.csrf = Reading(c).csrf

\* A call that will store a token of its own, which is the jar's.
Bringing(c) == place[c] = "absorbed" /\ c \notin overtaken /\ Changed(read[c], copy[c])

\* The jar has the cookies of a session that is not the shared one yet.
Trying == auth # NoCall /\ trial.stage \notin {"load", "installed"}

Agreement ==
  jar.csrf \in Tokens => jar.csrf = shared.csrf \/ astray \/ Trying \/ \E c \in Calls : Bringing(c)

IInv ==
  /\ SessionTypeOK
  /\ Holder
  /\ TrialHasAuth
  /\ AllIssued
  /\ ReadingsFresh
  /\ Agreement

-----------------------------------------------------------------------------
(* Sessions                                                                *)

\* Sessions are made of an li_at and a token.
LEMMA SessionsAre ==
  /\ \A s \in Sessions : /\ s.at \in {"none", "live", "dead"}
                         /\ s.csrf \in Tokens \cup {None, Deleted}
                         /\ s.csrf \in Int
  /\ Empty \in Sessions
BY SessionAssumption DEF Sessions, Empty, Tokens, None, Deleted

\* What merging keeps, and where its token comes from.
LEMMA Merging ==
  ASSUME NEW s \in Sessions, NEW j \in Sessions
  PROVE  /\ Merge(s, j) \in Sessions
         /\ Merge(s, j).at = IF j.at = "none" THEN s.at ELSE j.at
         /\ j.csrf \in Tokens => Merge(s, j).csrf = j.csrf
         /\ Merge(s, j).csrf \in {s.csrf, None, j.csrf}
<1> USE SessionsAre, SessionAssumption DEF Merge
<1>1. CASE j.csrf = None
  BY <1>1 DEF Sessions, Tokens, None
<1>2. CASE j.csrf = Deleted
  BY <1>2 DEF Sessions, Tokens, None, Deleted
<1>3. CASE j.csrf \in Tokens
  BY <1>3 DEF Sessions, Tokens, None, Deleted
<1> QED
  BY <1>1, <1>2, <1>3

\* What an answer makes of the jar: the token stays, goes, or is the next one.
LEMMA AnswersAre ==
  ASSUME SessionTypeOK, NEW a \in Answers
  PROVE  /\ a.jar \in Sessions /\ a.issued \in 1..MaxTokens
         /\ \/ a.issued = issued /\ (a.jar = jar \/ a.jar.csrf \in {None, Deleted})
            \/ a.issued = issued + 1 /\ a.jar.csrf = a.issued
BY SessionAssumption, SessionsAre
   DEF SessionTypeOK, Answers, Sessions, Empty, Tokens, None, Deleted

-----------------------------------------------------------------------------
(* What is tried next                                                      *)

Trials == [stage : {"none", "load", "asked", "seeding", "logging", "posting", "valid", "applied", "installed"},
           source : {"none", "restored", "environment", "reseeded", "password"},
           session : Sessions, before : Tokens \cup {None, Deleted}]

\* A trial the authentication may go on with, once n tokens are issued.
Sound(t, n) ==
  /\ t \in Trials
  /\ t.stage \in {"none", "asked", "seeding", "logging", "posting"}
  /\ t.stage = "none" <=> t = NoTrial
  /\ HasAuth(t)
  /\ t.session.csrf <= n /\ t.before <= n

LEMMA TrialsAre ==
  /\ NoTrial \in Trials /\ NoTrial.stage = "none"
  /\ Login \in Trials /\ Login.stage = "logging" /\ Login.session = Empty /\ Login.before = None
  /\ \A s \in Sessions, from \in {"restored", "environment", "reseeded", "password"} :
       /\ Ask(from, s) \in Trials /\ Ask(from, s).stage = "asked"
       /\ Ask(from, s).source = from /\ Ask(from, s).session = s /\ Ask(from, s).before = None
       /\ Seed(from, s) \in Trials /\ Seed(from, s).stage = "seeding"
       /\ Seed(from, s).source = from /\ Seed(from, s).session = [at |-> s.at, csrf |-> None]
       /\ Seed(from, s).before = s.csrf
<1>1. /\ NoTrial \in Trials /\ NoTrial.stage = "none"
      /\ Login \in Trials /\ Login.stage = "logging" /\ Login.session = Empty /\ Login.before = None
  BY SessionsAre DEF NoTrial, Login, Trials
<1>2. ASSUME NEW s \in Sessions, NEW from \in {"restored", "environment", "reseeded", "password"}
      PROVE  /\ Ask(from, s) \in Trials /\ Ask(from, s).stage = "asked"
             /\ Ask(from, s).source = from /\ Ask(from, s).session = s /\ Ask(from, s).before = None
  BY DEF Ask, Trials
<1>3. ASSUME NEW s \in Sessions, NEW from \in {"restored", "environment", "reseeded", "password"}
      PROVE  /\ Seed(from, s) \in Trials /\ Seed(from, s).stage = "seeding"
             /\ Seed(from, s).source = from /\ Seed(from, s).session = [at |-> s.at, csrf |-> None]
             /\ Seed(from, s).before = s.csrf
  <2>1. [s EXCEPT !.csrf = None] = [at |-> s.at, csrf |-> None]
    BY DEF Sessions
  <2>2. [at |-> s.at, csrf |-> None] \in Sessions /\ s.csrf \in Tokens \cup {None, Deleted}
    BY DEF Sessions
  <2> QED
    BY <2>1, <2>2 DEF Seed, Trials
<1> QED
  BY <1>1, <1>2, <1>3

\* What is asked or seeded is sound where its cookies are.
LEMMA SourcesSound ==
  ASSUME NEW n \in Nat, NEW s \in Sessions, s.csrf <= n, s.at # "none",
         NEW from \in {"restored", "environment", "reseeded", "password"},
         from = "reseeded" => s.at = "live"
  PROVE  /\ Sound(Ask(from, s), n)
         /\ from \in {"environment", "reseeded"} => Sound(Seed(from, s), n)
<1>0. None = 0 /\ None <= n
  BY DEF None
<1>1. Sound(Ask(from, s), n)
  <2>1. /\ Ask(from, s) \in Trials /\ Ask(from, s).stage = "asked"
        /\ Ask(from, s).source = from /\ Ask(from, s).session = s /\ Ask(from, s).before = None
    BY TrialsAre
  <2>2. Ask(from, s) # NoTrial
    BY <2>1, TrialsAre
  <2> QED
    BY <1>0, <2>1, <2>2 DEF Sound, HasAuth
<1>2. ASSUME from \in {"environment", "reseeded"} PROVE Sound(Seed(from, s), n)
  <2>1. /\ Seed(from, s) \in Trials /\ Seed(from, s).stage = "seeding"
        /\ Seed(from, s).source = from /\ Seed(from, s).session = [at |-> s.at, csrf |-> None]
        /\ Seed(from, s).before = s.csrf
    BY TrialsAre
  <2>2. Seed(from, s) # NoTrial
    BY <2>1, TrialsAre
  <2>3. Seed(from, s).session.at = s.at /\ Seed(from, s).session.csrf = None
    BY <2>1
  <2> QED
    BY <1>0, <1>2, <2>1, <2>2, <2>3 DEF Sound, HasAuth
<1> QED
  BY <1>1, <1>2

\* The password follows the environment only where that has no cookie.
LEMMA NextSources ==
  ASSUME environment \in Sessions, NEW n \in Nat, environment.csrf <= n
  PROVE  /\ Sound(NoTrial, n) /\ Sound(PasswordNext, n) /\ Sound(EnvironmentNext, n)
         /\ EnvironmentNext.stage = "logging" => environment.at = "none"
<1>0. Empty.csrf = 0 /\ 0 <= n
  BY DEF Empty, None
<1>1. Sound(NoTrial, n)
  BY <1>0, TrialsAre DEF NoTrial, Sound, HasAuth, None
<1>2. Sound(Login, n)
  <2>1. Login # NoTrial
    BY TrialsAre
  <2> QED
    BY <1>0, <2>1, TrialsAre DEF Sound, HasAuth, None
<1>3. PasswordNext \in {Login, NoTrial}
  BY DEF PasswordNext
<1>4. CASE environment.at = "none"
  <2>1. EnvironmentNext = PasswordNext
    BY <1>4 DEF EnvironmentNext
  <2> QED
    BY <1>1, <1>2, <1>3, <1>4, <2>1
<1>5. CASE environment.at # "none" /\ environment.csrf = None
  <2>1. EnvironmentNext = Seed("environment", environment)
    BY <1>5 DEF EnvironmentNext
  <2>2. Sound(EnvironmentNext, n)
    BY <1>5, <2>1, SourcesSound
  <2>3. EnvironmentNext.stage = "seeding"
    BY <2>1, TrialsAre
  <2> QED
    BY <1>1, <1>2, <1>3, <2>2, <2>3
<1>6. CASE environment.at # "none" /\ environment.csrf # None
  <2>1. EnvironmentNext = Ask("environment", environment)
    BY <1>6 DEF EnvironmentNext
  <2>2. Sound(EnvironmentNext, n)
    BY <1>6, <2>1, SourcesSound
  <2>3. EnvironmentNext.stage = "asked"
    BY <2>1, TrialsAre
  <2> QED
    BY <1>1, <1>2, <1>3, <2>2, <2>3
<1> QED
  BY <1>4, <1>5, <1>6

\* And a refusal only where the cookie was refused anew after reseeding.
LEMMA AfterSources ==
  ASSUME environment \in Sessions, NEW n \in Nat, environment.csrf <= n,
         NEW s \in Sessions, s.csrf <= n, s.at # "none",
         NEW verdict, verdict = "refused" => s.at # "dead", NEW from
  PROVE  /\ Sound(After(from, s, verdict), n)
         /\ After(from, s, verdict).stage = "logging" => environment.at = "none" \/ from = "reseeded"
<1>1. CASE from = "restored"
  <2>1. After(from, s, verdict) = EnvironmentNext
    BY <1>1 DEF After
  <2> QED
    BY <2>1, NextSources
<1>2. CASE from = "environment" /\ verdict = "refused"
  <2>1. After(from, s, verdict) = Seed("reseeded", s)
    BY <1>2 DEF After
  <2>2. s.at = "live"
    BY <1>2, SessionsAre
  <2>3. Sound(After(from, s, verdict), n)
    BY <2>1, <2>2, SourcesSound
  <2>4. Seed("reseeded", s).stage = "seeding"
    BY TrialsAre
  <2> QED
    BY <2>1, <2>3, <2>4
<1>3. CASE from = "reseeded" /\ verdict = "refused"
  <2>1. After(from, s, verdict) = PasswordNext
    BY <1>3 DEF After
  <2> QED
    BY <1>3, <2>1, NextSources
<1>4. CASE from # "restored" /\ ~ (from \in {"environment", "reseeded"} /\ verdict = "refused")
  <2>1. After(from, s, verdict) = NoTrial
    BY <1>4 DEF After
  <2> QED
    BY <2>1, TrialsAre, NextSources
<1> QED
  BY <1>1, <1>2, <1>3, <1>4

-----------------------------------------------------------------------------
(* The initial states                                                      *)

LEMMA InitIInv == Init => IInv
<1> SUFFICES ASSUME Init PROVE IInv
  OBVIOUS
<1> USE DEF Init
<1>0. /\ 1 \in 1..MaxTokens /\ None = 0 /\ Empty.csrf = 0
      /\ [at |-> "live", csrf |-> None] \in Sessions /\ [at |-> "live", csrf |-> 1] \in Sessions
  BY SessionAssumption DEF None, Empty, Sessions, Tokens
<1>1. SessionTypeOK
  <2>1. environment \in Sessions /\ Empty \in Sessions /\ NoTrial \in Trials
    BY <1>0, SessionsAre, TrialsAre
  <2> QED
    BY <1>0, <2>1 DEF SessionTypeOK, Trials
<1>2. AllIssued
  BY <1>0 DEF AllIssued, NoTrial
<1>3. Holder /\ TrialHasAuth
  BY TrialsAre DEF Holder, TrialHasAuth, HasAuth
<1>4. Pending = {} /\ jar.csrf \notin Tokens
  BY <1>0, TrialsAre DEF Pending, Installing, Tokens
<1>5. ReadingsFresh /\ Agreement
  BY <1>4 DEF ReadingsFresh, Agreement
<1> QED
  BY <1>1, <1>2, <1>3, <1>5 DEF IInv

-----------------------------------------------------------------------------
(* Calls                                                                   *)

LEMMA FindSessionKeeps ==
  ASSUME IInv, NEW c \in Calls, FindSession(c) PROVE IInv'
<1> USE SessionAssumption, SessionsAre DEF IInv, FindSession, settings, history
<1>1. SessionTypeOK'
  BY DEF SessionTypeOK
<1>2. Holder' /\ TrialHasAuth'
  BY DEF Holder, TrialHasAuth
<1>3. AllIssued'
  BY DEF AllIssued, SessionTypeOK
<1>4. Pending' = Pending /\ \A d \in Pending : d # c
  BY DEF Pending, Installing, SessionTypeOK
<1>5. ReadingsFresh'
  BY <1>4 DEF ReadingsFresh, Reading, Installing, Pending, SessionTypeOK
<1>6. Agreement'
  BY DEF Agreement, Trying, Bringing, SessionTypeOK
<1> QED
  BY <1>1, <1>2, <1>3, <1>5, <1>6

LEMMA AbsorbKeeps ==
  ASSUME IInv, NEW c \in Calls, Absorb(c) PROVE IInv'
<1> USE SessionAssumption, SessionsAre DEF IInv, settings, history
<1>1. PICK a \in Answers : /\ SetJar(c, a.jar)
                           /\ issued' = a.issued
                           /\ read' = [read EXCEPT ![c] = Merge(copy[c], a.jar)]
  BY DEF Absorb
<1>2. /\ place[c] = "sending" /\ place' = [place EXCEPT ![c] = "absorbed"] /\ jar' = a.jar
      /\ UNCHANGED <<environment, password, shared, copy, auth, trial, astray>>
  BY <1>1 DEF Absorb, SetJar
<1>3. /\ a.jar \in Sessions /\ a.issued \in 1..MaxTokens
      /\ \/ a.issued = issued /\ (a.jar = jar \/ a.jar.csrf \in {None, Deleted})
         \/ a.issued = issued + 1 /\ a.jar.csrf = a.issued
  BY AnswersAre
<1>4. /\ Merge(copy[c], a.jar) \in Sessions
      /\ a.jar.csrf \in Tokens => Merge(copy[c], a.jar).csrf = a.jar.csrf
      /\ Merge(copy[c], a.jar).csrf \in {copy[c].csrf, None, a.jar.csrf}
  <2>1. copy[c] \in Sessions
    BY DEF SessionTypeOK
  <2> HIDE DEF IInv
  <2> QED
    BY ONLY <1>3, <2>1, Merging
<1>5. overtaken' = IF a.jar = jar THEN overtaken ELSE overtaken \cup (Pending \ {c})
  BY <1>1 DEF SetJar
<1>6. c \notin Pending /\ Pending' = Pending \cup {c}
  BY <1>2 DEF Pending, Installing, SessionTypeOK, Holder
<1>7. SessionTypeOK'
  <2>1. Pending \subseteq Calls
    BY DEF Pending, Installing
  <2> QED
    BY <1>1, <1>2, <1>3, <1>4, <1>5, <2>1 DEF SessionTypeOK
<1>8. Holder' /\ TrialHasAuth'
  BY <1>2 DEF Holder, TrialHasAuth, SessionTypeOK
<1>9. AllIssued'
  <2>1. issued' \in Nat /\ issued <= issued' /\ issued \in Nat /\ a.jar.csrf <= issued' /\ None <= issued'
    BY <1>1, <1>3 DEF SessionTypeOK, AllIssued, None, Deleted
  <2>2. Merge(copy[c], a.jar).csrf <= issued'
    BY <1>3, <1>4, <2>1 DEF AllIssued, SessionTypeOK
  <2>3. /\ environment.csrf \in Int /\ shared.csrf \in Int
        /\ trial.session.csrf \in Int /\ trial.before \in Int
        /\ \A d \in Calls : copy[d].csrf \in Int /\ read[d].csrf \in Int
    BY DEF SessionTypeOK, Tokens, None, Deleted
  <2>4. \A d \in Calls : read'[d] = IF d = c THEN Merge(copy[c], a.jar) ELSE read[d]
    BY <1>1 DEF SessionTypeOK
  <2> QED
    BY <1>2, <2>1, <2>2, <2>3, <2>4 DEF AllIssued
<1>10. ReadingsFresh'
  <2>1. overtaken' \subseteq Pending'
    BY <1>5, <1>6 DEF ReadingsFresh
  <2>2. ASSUME NEW d \in Pending' \ overtaken', jar'.csrf \in Tokens
        PROVE  jar'.csrf = Reading(d)'.csrf
    <3>1. CASE d = c
      BY <1>1, <1>2, <1>4, <2>2, <3>1 DEF Reading, Installing, Holder, SessionTypeOK
    <3>2. CASE d # c
      BY <1>1, <1>2, <1>5, <1>6, <2>2, <3>2 DEF Reading, Installing, ReadingsFresh, SessionTypeOK
    <3> QED
      BY <3>1, <3>2
  <2> QED
    BY <2>1, <2>2 DEF ReadingsFresh
<1>11. Agreement'
  <2> SUFFICES ASSUME jar'.csrf \in Tokens, jar'.csrf # shared.csrf, ~ astray, ~ Trying
               PROVE  \E d \in Calls : Bringing(d)'
    BY <1>2 DEF Agreement, Trying
  <2>1. CASE a.jar = jar
    <3>1. PICK d \in Calls : Bringing(d)
      BY <1>2, <2>1 DEF Agreement
    <3>2. Bringing(d)'
      BY <1>1, <1>2, <1>5, <2>1, <3>1 DEF Bringing, SessionTypeOK
    <3> QED
      BY <3>2
  <2>2. CASE a.jar # jar
    <3>1. a.jar.csrf = issued + 1 /\ issued \in Nat
      BY <1>2, <1>3, <2>2 DEF Tokens, None, Deleted, SessionTypeOK
    <3>2. read'[c].csrf = issued + 1 /\ copy[c].csrf <= issued /\ copy[c].csrf \in Int
      BY <1>1, <1>2, <1>4, <3>1 DEF AllIssued, SessionTypeOK
    <3>3. Changed(read'[c], copy'[c])
      BY <1>2, <3>1, <3>2 DEF Changed, None
    <3>4. c \notin overtaken'
      BY <1>5, <1>6 DEF ReadingsFresh
    <3> QED
      BY <1>2, <3>3, <3>4 DEF Bringing, SessionTypeOK
  <2> QED
    BY <2>1, <2>2
<1> QED
  BY <1>7, <1>8, <1>9, <1>10, <1>11

LEMMA StoreKeeps ==
  ASSUME IInv, NEW c \in Calls, Store(c) PROVE IInv'
<1> USE SessionAssumption DEF IInv
<1>1. /\ place[c] = "absorbed" /\ place' = [place EXCEPT ![c] = "stored"]
      /\ read' = [read EXCEPT ![c] = Empty]
      /\ overtaken' = overtaken \ {c}
      /\ UNCHANGED <<environment, password, jar, copy, issued, auth, trial>>
  BY DEF Store, GoTo, settings
<1>0. \/ shared' = read[c] /\ astray' = (c \in overtaken)
      \/ shared' = shared /\ astray' = astray /\ ~ Changed(read[c], copy[c])
  BY DEF Store
<1>2. Pending' = Pending \ {c}
  BY <1>1 DEF Pending, Installing, SessionTypeOK, Holder
<1>3. SessionTypeOK'
  <2>1. shared' \in Sessions
    BY <1>0 DEF SessionTypeOK
  <2>2. astray' \in BOOLEAN
    <3>1. CASE astray' = (c \in overtaken)
      BY ONLY <3>1
    <3>2. CASE astray' = astray
      BY <3>2 DEF SessionTypeOK
    <3> QED
      BY <1>0, <3>1, <3>2
  <2> QED
    BY <1>1, <2>1, <2>2, SessionsAre DEF SessionTypeOK
<1>4. Holder' /\ TrialHasAuth'
  BY <1>1 DEF Holder, TrialHasAuth, SessionTypeOK
<1>5. AllIssued'
  <2>1. Empty.csrf <= issued
    BY DEF Empty, None, SessionTypeOK
  <2> QED
    BY <1>0, <1>1, <2>1 DEF AllIssued, SessionTypeOK
<1>6. ReadingsFresh'
  BY <1>1, <1>2 DEF ReadingsFresh, Reading, Installing, SessionTypeOK, Pending
<1>7. Agreement'
  <2>1. CASE shared' = read[c] /\ astray' = (c \in overtaken)
    <3>1. c \in Pending /\ Reading(c) = read[c]
      BY <1>1 DEF Pending, Reading, Installing, Holder
    <3>2. c \notin overtaken /\ jar.csrf \in Tokens => jar.csrf = read[c].csrf
      BY <3>1 DEF ReadingsFresh
    <3> QED
      BY <1>1, <2>1, <3>2 DEF Agreement
  <2>2. CASE shared' = shared /\ astray' = astray /\ ~ Changed(read[c], copy[c])
    <3>1. \A d \in Calls : Bringing(d) => Bringing(d)'
      BY <1>1, <2>2 DEF Bringing, SessionTypeOK
    <3> QED
      BY <1>1, <2>2, <3>1 DEF Agreement, Trying
  <2> QED
    BY <1>0, <2>1, <2>2
<1> QED
  BY <1>3, <1>4, <1>5, <1>6, <1>7

LEMMA AnsweredKeeps ==
  ASSUME IInv, NEW c \in Calls, Answered(c) PROVE IInv'
<1> USE SessionAssumption DEF IInv
<1>1. /\ place[c] = "stored"
      /\ \E w \in {"entering", "sending", "denied"} : place' = [place EXCEPT ![c] = w]
      /\ \/ copy' = [copy EXCEPT ![c] = Empty] \/ copy' = copy
      /\ read' = [read EXCEPT ![c] = Empty]
      /\ UNCHANGED <<environment, password, jar, shared, issued, auth, trial,
                     overtaken, astray>>
  BY DEF Answered, Finish, GoTo, settings, history
<1>2. auth # c
  BY <1>1 DEF Holder, SessionTypeOK
<1>3. Pending' = Pending /\ c \notin Pending
  BY <1>1, <1>2 DEF Pending, Installing, SessionTypeOK
<1>4. SessionTypeOK'
  BY <1>1, SessionsAre DEF SessionTypeOK
<1>5. Holder' /\ TrialHasAuth'
  BY <1>1, <1>2 DEF Holder, TrialHasAuth, SessionTypeOK
<1>6. AllIssued'
  <2>1. Empty.csrf <= issued
    BY DEF Empty, None, SessionTypeOK
  <2>2. \A d \in Calls : copy'[d] \in {copy[d], Empty} /\ read'[d] \in {read[d], Empty}
    BY <1>1 DEF SessionTypeOK
  <2> QED
    BY <1>1, <2>1, <2>2 DEF AllIssued
<1>7. ReadingsFresh'
  BY <1>1, <1>3 DEF ReadingsFresh, Reading, Installing, SessionTypeOK, Pending
<1>8. Agreement'
  <2>1. \A d \in Calls : Bringing(d) => Bringing(d)'
    BY <1>1 DEF Bringing, SessionTypeOK
  <2> QED
    BY <1>1, <2>1 DEF Agreement, Trying
<1> QED
  BY <1>4, <1>5, <1>6, <1>7, <1>8

LEMMA ResumeKeeps ==
  ASSUME IInv, NEW c \in Calls, Resume(c) PROVE IInv'
<1> USE SessionAssumption DEF IInv
<1>1. /\ place[c] = "renewed" /\ place' = [place EXCEPT ![c] = "sending"]
      /\ read' = [read EXCEPT ![c] = Empty]
      /\ shared' = read[c] /\ astray' = (c \in overtaken) /\ overtaken' = overtaken \ {c}
      /\ UNCHANGED <<environment, password, jar, copy, issued, auth, trial>>
  BY DEF Resume, GoTo, settings
<1>2. Pending' = Pending \ {c}
  BY <1>1 DEF Pending, Installing, SessionTypeOK, Holder
<1>3. SessionTypeOK'
  BY <1>1, SessionsAre DEF SessionTypeOK
<1>4. Holder' /\ TrialHasAuth'
  BY <1>1 DEF Holder, TrialHasAuth, SessionTypeOK
<1>5. AllIssued'
  <2>1. Empty.csrf <= issued
    BY DEF Empty, None, SessionTypeOK
  <2> QED
    BY <1>1, <2>1 DEF AllIssued, SessionTypeOK
<1>6. ReadingsFresh'
  BY <1>1, <1>2 DEF ReadingsFresh, Reading, Installing, SessionTypeOK, Pending
<1>7. Agreement'
  <2>1. c \in Pending /\ Reading(c) = read[c]
    BY <1>1 DEF Pending, Reading, Installing, Holder
  <2>2. c \notin overtaken /\ jar.csrf \in Tokens => jar.csrf = read[c].csrf
    BY <2>1 DEF ReadingsFresh
  <2> QED
    BY <1>1, <2>2 DEF Agreement
<1> QED
  BY <1>3, <1>4, <1>5, <1>6, <1>7

LEMMA DropKeeps ==
  ASSUME IInv, NEW c \in Calls, Drop(c) PROVE IInv'
<1> USE SessionAssumption DEF IInv
<1>1. /\ place[c] \in {"sending", "stored", "denied"} \/ auth = c
      /\ ~ (auth = c /\ trial.stage \in {"load", "valid", "applied"})
      /\ place' = [place EXCEPT ![c] = "entering"]
      /\ copy' = [copy EXCEPT ![c] = Empty] /\ read' = [read EXCEPT ![c] = Empty]
      /\ auth' = (IF auth = c THEN NoCall ELSE auth)
      /\ trial' = (IF auth = c THEN NoTrial ELSE trial)
      /\ astray' = (astray \/ (auth = c /\ ~ Installing(c)))
      /\ overtaken' = overtaken \ {c}
      /\ UNCHANGED <<environment, password, jar, shared, issued>>
  BY DEF Drop, Finish, settings
<1>2. place[c] \in {"entering", "sending", "stored", "denied"}
  BY <1>1 DEF Holder
<1>3. Pending' = Pending \ {c}
  BY <1>1, <1>2 DEF Pending, Installing, SessionTypeOK
<1>4. SessionTypeOK'
  BY <1>1, SessionsAre, TrialsAre DEF SessionTypeOK, Trials
<1>5. Holder' /\ TrialHasAuth'
  BY <1>1, NextSources DEF Holder, TrialHasAuth, SessionTypeOK, HasAuth, NoTrial
<1>6. AllIssued'
  <2>1. Empty.csrf <= issued /\ NoTrial.session.csrf <= issued /\ NoTrial.before <= issued
    BY DEF Empty, None, SessionTypeOK, NoTrial
  <2>2. \A d \in Calls : copy'[d] \in {copy[d], Empty} /\ read'[d] \in {read[d], Empty}
    BY <1>1 DEF SessionTypeOK
  <2> QED
    BY <1>1, <2>1, <2>2 DEF AllIssued
<1>7. ReadingsFresh'
  BY <1>1, <1>3 DEF ReadingsFresh, Reading, Installing, SessionTypeOK, Pending
<1>8. Agreement'
  <2>1. \A d \in Calls : Bringing(d) => Bringing(d)'
    BY <1>1, <1>2 DEF Bringing, SessionTypeOK
  <2> QED
    BY <1>1, <2>1 DEF Agreement, Trying, Installing
<1> QED
  BY <1>4, <1>5, <1>6, <1>7, <1>8

-----------------------------------------------------------------------------
(* Authentication                                                          *)

LEMMA AuthenticateKeeps ==
  ASSUME IInv, NEW c \in Calls, Authenticate(c) PROVE IInv'
<1> USE SessionAssumption DEF IInv
<1> DEFINE start == [NoTrial EXCEPT !.stage = "load"]
<1>1. /\ place[c] \in {"entering", "denied"} /\ auth = NoCall /\ auth' = c /\ trial' = start
      /\ UNCHANGED <<environment, password, jar, shared, issued, place, copy, read,
                     overtaken, astray>>
  BY DEF Authenticate, settings, callVars, history
<1>2. start \in Trials /\ start.stage = "load" /\ start.session = Empty /\ start.before = None
  BY TrialsAre DEF NoTrial, Trials
<1>3. start # NoTrial
  BY <1>2, TrialsAre
<1> HIDE DEF start
<1>4. Pending' = Pending /\ c \notin Pending
  BY <1>1, <1>2 DEF Pending, Installing, SessionTypeOK
<1>5. SessionTypeOK'
  BY <1>1, <1>2, <1>3 DEF SessionTypeOK, Trials
<1>6. Holder' /\ TrialHasAuth'
  BY <1>1, <1>2 DEF Holder, TrialHasAuth, HasAuth
<1>7. AllIssued'
  BY <1>1, <1>2 DEF AllIssued, Empty, None, SessionTypeOK
<1>8. ReadingsFresh'
  BY <1>1, <1>4 DEF ReadingsFresh, Reading, Installing, Pending
<1>9. Agreement'
  BY <1>1, <1>2 DEF Agreement, Trying, Bringing
<1> QED
  BY <1>5, <1>6, <1>7, <1>8, <1>9

LEMMA ApplyKeeps ==
  ASSUME IInv, NEW c \in Calls, Apply(c) PROVE IInv'
<1> USE SessionAssumption DEF IInv
<1>1. /\ auth = c /\ trial.stage = "valid" /\ SetJar(c, trial.session) /\ jar' = trial.session
      /\ trial' = [trial EXCEPT !.stage = "applied"]
      /\ UNCHANGED <<environment, password, shared, issued, place, copy, read, auth, astray>>
  BY DEF Apply, SetJar, settings, callVars
<1>2. /\ trial' \in Trials /\ trial'.stage = "applied" /\ trial'.session = trial.session
      /\ trial'.before = trial.before /\ trial.session \in Sessions
  BY <1>1 DEF SessionTypeOK, Trials
<1>3. trial' # NoTrial
  BY <1>2, TrialsAre
<1>4. c \notin Pending /\ Pending' \subseteq Pending \cup {c} /\ Pending \subseteq Pending'
  BY <1>1, <1>2 DEF Pending, Installing, Holder
<1>5. overtaken' = IF trial.session = jar THEN overtaken ELSE overtaken \cup Pending
  BY <1>1, <1>4 DEF SetJar
<1>6. SessionTypeOK'
  <2>1. Pending \subseteq Calls
    BY DEF Pending, Installing
  <2> QED
    BY <1>1, <1>2, <1>3, <1>5, <2>1 DEF SessionTypeOK, Trials
<1>7. Holder' /\ TrialHasAuth'
  BY <1>1, <1>2 DEF Holder, TrialHasAuth, HasAuth
<1>8. AllIssued'
  BY <1>1, <1>2 DEF AllIssued
<1>9. ReadingsFresh'
  <2>1. overtaken' \subseteq Pending'
    BY <1>4, <1>5 DEF ReadingsFresh
  <2>2. ASSUME NEW d \in Pending' \ overtaken', jar'.csrf \in Tokens
        PROVE  jar'.csrf = Reading(d)'.csrf
    <3>1. CASE d = c
      BY <1>1, <1>2, <2>2, <3>1 DEF Reading, Installing, Pending, Holder
    <3>2. CASE d # c
      BY <1>1, <1>2, <1>4, <1>5, <2>2, <3>2 DEF Reading, Installing, ReadingsFresh, Pending
    <3> QED
      BY <3>1, <3>2
  <2> QED
    BY <2>1, <2>2 DEF ReadingsFresh
<1>10. Agreement'
  BY <1>1, <1>2 DEF Agreement, Trying, SessionTypeOK
<1> QED
  BY <1>6, <1>7, <1>8, <1>9, <1>10

LEMMA ShareKeeps ==
  ASSUME IInv, NEW c \in Calls, Share(c) PROVE IInv'
<1> USE SessionAssumption DEF IInv
<1>1. /\ auth = c /\ trial.stage = "applied"
      /\ shared' = trial.session /\ astray' = (c \in overtaken)
      /\ trial' = [trial EXCEPT !.stage = "installed"]
      /\ UNCHANGED <<environment, password, jar, issued, place, copy, read, auth, overtaken>>
  BY DEF Share, settings, callVars
<1>2. /\ trial' \in Trials /\ trial'.stage = "installed" /\ trial'.session = trial.session
      /\ trial'.before = trial.before /\ trial.session \in Sessions
  BY <1>1 DEF SessionTypeOK, Trials
<1>3. trial' # NoTrial
  BY <1>2, TrialsAre
<1>4. Pending' = Pending /\ c \in Pending /\ Reading(c) = trial.session
  BY <1>1, <1>2 DEF Pending, Installing, Reading
<1>5. SessionTypeOK'
  <2>1. astray' \in BOOLEAN
    <3>1. astray' = (c \in overtaken)
      BY <1>1
    <3> QED
      BY ONLY <3>1
  <2> QED
    BY <1>1, <1>2, <1>3, <2>1 DEF SessionTypeOK, Trials
<1>6. Holder' /\ TrialHasAuth'
  BY <1>1, <1>2 DEF Holder, TrialHasAuth, HasAuth
<1>7. AllIssued'
  BY <1>1, <1>2 DEF AllIssued
<1>8. ReadingsFresh'
  <2>1. ASSUME NEW d \in Pending PROVE Reading(d)' = Reading(d)
    BY <1>1, <1>2, <2>1 DEF Reading, Installing, Pending
  <2> QED
    BY <1>1, <1>4, <2>1 DEF ReadingsFresh
<1>9. Agreement'
  <2>1. c \notin overtaken /\ jar.csrf \in Tokens => jar.csrf = trial.session.csrf
    BY <1>4 DEF ReadingsFresh
  <2> QED
    BY <1>1, <2>1 DEF Agreement
<1> QED
  BY <1>5, <1>6, <1>7, <1>8, <1>9

LEMMA EnsuredKeeps ==
  ASSUME IInv, NEW c \in Calls, Ensured(c) PROVE IInv'
<1> USE SessionAssumption DEF IInv
<1>1. /\ auth = c /\ trial.stage = "installed" /\ auth' = NoCall /\ trial' = NoTrial
      /\ IF place[c] = "entering"
         THEN /\ place' = [place EXCEPT ![c] = "sending"]
              /\ copy' = [copy EXCEPT ![c] = trial.session] /\ read' = read
              /\ overtaken' = overtaken \ {c}
         ELSE /\ place' = [place EXCEPT ![c] = "renewed"]
              /\ read' = [read EXCEPT ![c] = trial.session] /\ copy' = copy
              /\ overtaken' = overtaken
      /\ UNCHANGED <<environment, password, jar, shared, issued, astray>>
  BY DEF Ensured, settings
<1>2. place[c] \in {"entering", "denied"} /\ trial.session \in Sessions
  BY <1>1 DEF Holder, SessionTypeOK
<1>3. Pending' = IF place[c] = "entering" THEN Pending \ {c} ELSE Pending
  BY <1>1, <1>2, TrialsAre DEF Pending, Installing, SessionTypeOK
<1>4. SessionTypeOK'
  BY <1>1, <1>2, TrialsAre DEF SessionTypeOK, Trials
<1>5. Holder' /\ TrialHasAuth'
  BY <1>1, TrialsAre DEF Holder, TrialHasAuth, HasAuth
<1>6. AllIssued'
  <2>1. NoTrial.session.csrf <= issued /\ NoTrial.before <= issued
    BY DEF Empty, None, SessionTypeOK, NoTrial
  <2>2. \A d \in Calls : /\ copy'[d] \in {copy[d], trial.session}
                         /\ read'[d] \in {read[d], trial.session}
    BY <1>1 DEF SessionTypeOK
  <2> QED
    BY <1>1, <2>1, <2>2 DEF AllIssued
<1>7. ReadingsFresh'
  <2>1. ASSUME NEW d \in Pending' PROVE d \in Pending /\ Reading(d)' = Reading(d)
    BY <1>1, <1>2, <1>3, <2>1 DEF Reading, Installing, Pending, SessionTypeOK
  <2>2. overtaken' \subseteq Pending' /\ (Pending' \ overtaken') \subseteq (Pending \ overtaken)
    BY <1>1, <1>3 DEF ReadingsFresh
  <2> QED
    BY <1>1, <2>1, <2>2 DEF ReadingsFresh
<1>8. Agreement'
  <2>1. \A d \in Calls : Bringing(d) => Bringing(d)'
    BY <1>1, <1>2 DEF Bringing, SessionTypeOK
  <2> QED
    BY <1>1, <2>1 DEF Agreement, Trying
<1> QED
  BY <1>4, <1>5, <1>6, <1>7, <1>8

\* While a call tries something its cookies may be in the jar, whoever reads them.
LEMMA Onward ==
  ASSUME IInv, NEW c \in Calls, auth = c, trial.stage \notin {"applied", "installed"},
         issued' \in 1..MaxTokens, issued <= issued',
         trial' \in Trials, trial' # NoTrial, HasAuth(trial'),
         trial'.stage \notin {"none", "load", "applied", "installed"},
         trial'.session.csrf <= issued', trial'.before <= issued',
         NEW j \in Sessions, j.csrf <= issued', SetJar(c, j),
         UNCHANGED <<settings, shared, callVars, auth, astray>>
  PROVE  IInv'
<1> USE SessionAssumption DEF IInv
<1>1. /\ jar' = j /\ UNCHANGED <<environment, password, shared, place, copy, read, auth, astray>>
      /\ overtaken' = IF j = jar THEN overtaken ELSE overtaken \cup (Pending \ {c})
  BY DEF SetJar, settings, callVars
<1>2. c \notin Pending /\ Pending' = Pending /\ Pending \subseteq Calls
  BY <1>1 DEF Pending, Installing, Holder
<1>3. SessionTypeOK'
  BY <1>1, <1>2 DEF SessionTypeOK, Trials
<1>4. Holder' /\ TrialHasAuth'
  BY <1>1 DEF Holder, TrialHasAuth, HasAuth
<1>5. AllIssued'
  <2>1. issued \in Nat /\ issued' \in Nat
    BY DEF SessionTypeOK
  <2>2. /\ environment.csrf \in Int /\ shared.csrf \in Int
        /\ \A d \in Calls : copy[d].csrf \in Int /\ read[d].csrf \in Int
    BY DEF SessionTypeOK, Sessions, Tokens, None, Deleted
  <2> QED
    BY <1>1, <2>1, <2>2 DEF AllIssued
<1>6. ReadingsFresh'
  <2>1. \A d \in Pending : Reading(d)' = Reading(d)
    BY <1>1, <1>2 DEF Reading, Installing, Pending
  <2> QED
    BY <1>1, <1>2, <2>1 DEF ReadingsFresh
<1>7. Agreement'
  BY <1>1 DEF Agreement, Trying
<1> QED
  BY <1>3, <1>4, <1>5, <1>6, <1>7

\* And when it has nothing left to try, it leaves them there, but a call that tried
\* nothing.
LEMMA Proceeding ==
  ASSUME IInv, NEW c \in Calls, auth = c, trial.stage \notin {"applied", "installed"},
         issued' \in 1..MaxTokens, issued <= issued',
         NEW t, Sound(t, issued'),
         NEW j \in Sessions, j.csrf <= issued', trial.stage = "load" => j = jar,
         Proceed(c, t, j),
         UNCHANGED <<settings, shared>>
  PROVE  IInv'
<1>1. CASE t # NoTrial
  <2>1. /\ trial' = t /\ SetJar(c, t.session) /\ UNCHANGED <<settings, shared, callVars, auth, astray>>
    BY <1>1 DEF Proceed
  <2>2. t.session \in Sessions
    BY DEF Sound, Trials
  <2> QED
    BY <1>1, <2>1, <2>2, Onward DEF Sound
<1>2. CASE t = NoTrial
  <2> USE SessionAssumption DEF IInv
  <2>1. /\ place' = [place EXCEPT ![c] = "entering"]
        /\ copy' = [copy EXCEPT ![c] = Empty] /\ read' = [read EXCEPT ![c] = Empty]
        /\ auth' = NoCall /\ trial' = NoTrial /\ jar' = j
        /\ overtaken' = IF j = jar THEN overtaken ELSE overtaken \cup (Pending \ {c})
        /\ astray' = (astray \/ trial.stage # "load")
        /\ UNCHANGED <<environment, password, shared>>
    BY <1>2 DEF Proceed, Finish, SetJar, settings
  <2>2. c \notin Pending /\ Pending' = Pending /\ Pending \subseteq Calls
    BY <2>1, TrialsAre DEF Pending, Installing, Holder, SessionTypeOK
  <2>3. SessionTypeOK'
    <3>1. overtaken' \subseteq Calls
      BY <2>1, <2>2 DEF SessionTypeOK
    <3> QED
      BY <2>1, <3>1, SessionsAre, TrialsAre DEF SessionTypeOK, Trials
  <2>4. Holder' /\ TrialHasAuth'
    BY <2>1, TrialsAre DEF Holder, TrialHasAuth, HasAuth
  <2>5. AllIssued'
    <3>1. issued \in Nat /\ issued' \in Nat
      BY DEF SessionTypeOK
    <3>2. /\ environment.csrf \in Int /\ shared.csrf \in Int
          /\ \A d \in Calls : copy[d].csrf \in Int /\ read[d].csrf \in Int
      BY DEF SessionTypeOK, Sessions, Tokens, None, Deleted
    <3>3. Empty.csrf = 0 /\ NoTrial.session.csrf = 0 /\ NoTrial.before = 0
      BY DEF Empty, None, NoTrial
    <3>4. \A d \in Calls : copy'[d] \in {copy[d], Empty} /\ read'[d] \in {read[d], Empty}
      BY <2>1 DEF SessionTypeOK
    <3> QED
      BY <2>1, <3>1, <3>2, <3>3, <3>4 DEF AllIssued
  <2>6. ReadingsFresh'
    <3>1. \A d \in Pending : Reading(d)' = Reading(d)
      BY <2>1, <2>2 DEF Reading, Installing, Pending, SessionTypeOK
    <3> QED
      BY <2>1, <2>2, <3>1 DEF ReadingsFresh
  <2>7. Agreement'
    <3>1. CASE trial.stage # "load"
      BY <2>1, <3>1 DEF Agreement
    <3>2. CASE trial.stage = "load"
      <4>1. \A d \in Calls : Bringing(d) => Bringing(d)'
        BY <2>1, <3>2 DEF Bringing, Holder, SessionTypeOK
      <4> QED
        BY <2>1, <3>2, <4>1 DEF Agreement, Trying
    <3> QED
      BY <3>1, <3>2
  <2> QED
    BY <2>3, <2>4, <2>5, <2>6, <2>7
<1> QED
  BY <1>1, <1>2

\* No token is newer than the answer of LinkedIn.
LEMMA AnswerBounds ==
  ASSUME IInv, NEW a \in Answers
  PROVE  /\ a.jar \in Sessions /\ a.issued \in 1..MaxTokens
         /\ issued <= a.issued /\ a.jar.csrf <= a.issued /\ a.issued \in Nat
         /\ environment.csrf <= a.issued
         /\ trial.session.csrf <= a.issued /\ trial.before <= a.issued
<1>1. SessionTypeOK /\ AllIssued
  BY DEF IInv
<1>2. /\ a.jar \in Sessions /\ a.issued \in 1..MaxTokens
      /\ \/ a.issued = issued /\ (a.jar = jar \/ a.jar.csrf \in {None, Deleted})
         \/ a.issued = issued + 1 /\ a.jar.csrf = a.issued
  BY <1>1, AnswersAre
<1>3. /\ issued \in Nat /\ a.issued \in Nat /\ a.jar.csrf \in Int /\ environment.csrf \in Int
      /\ trial.session.csrf \in Int /\ trial.before \in Int
  BY <1>1, <1>2, SessionAssumption DEF SessionTypeOK, Sessions, Tokens, None, Deleted
<1> QED
  BY <1>1, <1>2, <1>3 DEF AllIssued, None, Deleted

LEMMA LoadKeeps ==
  ASSUME IInv, NEW c \in Calls, Load(c) PROVE IInv'
<1>1. SessionTypeOK /\ AllIssued
  BY DEF IInv
<1>2. PICK s \in OnFile : Proceed(c, IF Usable(s) THEN Ask("restored", s) ELSE EnvironmentNext, jar)
  BY DEF Load
<1>3. auth = c /\ trial.stage = "load" /\ issued' = issued /\ UNCHANGED <<settings, shared>>
  BY DEF Load
<1>4. /\ issued \in Nat /\ environment \in Sessions /\ jar \in Sessions
      /\ environment.csrf <= issued /\ jar.csrf <= issued
  BY <1>1, SessionAssumption DEF SessionTypeOK, AllIssued
<1>5. s \in Sessions /\ s.csrf <= issued
  BY <1>4, SessionsAre DEF OnFile, Empty, None
<1>6. Usable(s) => Sound(Ask("restored", s), issued)
  BY <1>4, <1>5, SourcesSound DEF Usable
<1>7. Sound(EnvironmentNext, issued)
  BY <1>4, NextSources
<1>9. issued' \in 1..MaxTokens /\ issued <= issued' /\ issued' = issued
  BY <1>1, <1>3, <1>4 DEF SessionTypeOK
<1>10. PICK t : t = (IF Usable(s) THEN Ask("restored", s) ELSE EnvironmentNext)
  OBVIOUS
<1>11. Sound(t, issued') /\ Proceed(c, t, jar)
  BY <1>2, <1>6, <1>7, <1>9, <1>10
<1> QED
  BY <1>3, <1>4, <1>9, <1>11, Proceeding

LEMMA ValidatedKeeps ==
  ASSUME IInv, NEW c \in Calls, Validated(c) PROVE IInv'
<1>1. SessionTypeOK /\ HasAuth(trial)
  BY DEF IInv, TrialHasAuth
<1>2. PICK a \in Answers, verdict \in {"valid", "refused", "error"} :
        LET s == Merge(trial.session, a.jar)
        IN  /\ verdict = "refused" => s.at # "dead"
            /\ issued' = a.issued
            /\ IF verdict = "valid"
               THEN /\ trial' = [NoTrial EXCEPT !.stage = "valid", !.session = s]
                    /\ SetJar(c, a.jar)
                    /\ UNCHANGED <<callVars, auth, astray>>
               ELSE Proceed(c, After(trial.source, s, verdict), a.jar)
  BY DEF Validated
<1>3. auth = c /\ trial.stage = "asked" /\ UNCHANGED <<settings, shared>>
  BY DEF Validated
<1> DEFINE s == Merge(trial.session, a.jar)
<1>4. /\ a.jar \in Sessions /\ a.issued \in 1..MaxTokens
      /\ issued <= a.issued /\ a.jar.csrf <= a.issued /\ a.issued \in Nat
      /\ environment.csrf <= a.issued
      /\ trial.session.csrf <= a.issued /\ trial.before <= a.issued
  BY AnswerBounds
<1>5. trial.session \in Sessions /\ environment \in Sessions
  BY <1>1 DEF SessionTypeOK
<1>6. s \in Sessions /\ s.at # "none" /\ s.csrf \in {trial.session.csrf, None, a.jar.csrf}
  <2>1. trial.session.at # "none"
    BY <1>1, <1>3 DEF HasAuth
  <2> QED
    BY <1>4, <1>5, <2>1, Merging
<1>7. s.csrf <= a.issued
  BY <1>4, <1>6 DEF None
<1> HIDE DEF s
<1>8. CASE verdict = "valid"
  <2>1. /\ trial' = [NoTrial EXCEPT !.stage = "valid", !.session = s]
        /\ SetJar(c, a.jar) /\ UNCHANGED <<callVars, auth, astray>> /\ issued' = a.issued
    BY <1>2, <1>8 DEF s
  <2>2. /\ trial' \in Trials /\ trial'.stage = "valid" /\ trial'.session = s
        /\ trial'.before = None
    BY <1>6, <2>1 DEF NoTrial, Trials
  <2>3. trial' # NoTrial /\ trial'.before <= issued'
    <3>1. issued' \in Nat /\ None <= issued'
      BY <1>4, <2>1 DEF None
    <3> QED
      BY ONLY <2>2, <3>1, TrialsAre
  <2>4. HasAuth(trial')
    BY <1>6, <2>2 DEF HasAuth
  <2> QED
    BY <1>3, <1>4, <1>6, <1>7, <2>1, <2>2, <2>3, <2>4, Onward
<1>9. CASE verdict # "valid"
  <2>1. /\ Proceed(c, After(trial.source, s, verdict), a.jar)
        /\ issued' = a.issued /\ (verdict = "refused" => s.at # "dead")
    BY <1>2, <1>9 DEF s
  <2>2. Sound(After(trial.source, s, verdict), a.issued)
    BY <1>4, <1>5, <1>6, <1>7, <2>1, AfterSources
  <2> QED
    BY <1>3, <1>4, <1>5, <2>1, <2>2, Proceeding
<1> QED
  BY <1>8, <1>9

\* Reseeding keeps the li_at, and looks into the jar for the token.
LEMMA SeededKeeps ==
  ASSUME IInv, NEW c \in Calls, Seeded(c) PROVE IInv'
<1>1. SessionTypeOK /\ HasAuth(trial) /\ AllIssued
  BY DEF IInv, TrialHasAuth
<1>2. PICK a \in Answers \cup {[jar |-> [jar EXCEPT !.csrf = trial.before], issued |-> issued]} :
        LET s == Merge(trial.session, [Empty EXCEPT !.csrf = a.jar.csrf])
            t == IF trial.source = "environment"
                 THEN IF a.jar.csrf = None THEN NoTrial ELSE Ask("environment", s)
                 ELSE IF s.csrf \in {None, trial.before} THEN PasswordNext ELSE Ask("reseeded", s)
        IN  issued' = a.issued /\ Proceed(c, t, a.jar)
  BY DEF Seeded
<1>3. auth = c /\ trial.stage = "seeding" /\ UNCHANGED <<settings, shared>>
  BY DEF Seeded
<1>4. /\ a.jar \in Sessions /\ a.issued \in 1..MaxTokens
      /\ issued <= a.issued /\ a.jar.csrf <= a.issued /\ a.issued \in Nat
      /\ environment.csrf <= a.issued
      /\ trial.session.csrf <= a.issued /\ trial.before <= a.issued
  <2>1. CASE a \in Answers
    BY <2>1, AnswerBounds
  <2>2. CASE a = [jar |-> [jar EXCEPT !.csrf = trial.before], issued |-> issued]
    BY <1>1, <2>2, SessionAssumption DEF SessionTypeOK, AllIssued, Sessions
  <2> QED
    BY <1>2, <2>1, <2>2
<1> DEFINE found == [Empty EXCEPT !.csrf = a.jar.csrf]
           s == Merge(trial.session, found)
           t == IF trial.source = "environment"
                THEN IF a.jar.csrf = None THEN NoTrial ELSE Ask("environment", s)
                ELSE IF s.csrf \in {None, trial.before} THEN PasswordNext ELSE Ask("reseeded", s)
<1>5. trial.session \in Sessions /\ environment \in Sessions
  BY <1>1 DEF SessionTypeOK
<1>6. found \in Sessions /\ found.at = "none" /\ found.csrf = a.jar.csrf
  BY <1>4 DEF Sessions, Empty
<1>7. /\ s \in Sessions /\ s.at = trial.session.at
      /\ s.csrf \in {trial.session.csrf, None, a.jar.csrf}
  BY <1>5, <1>6, Merging
<1>8. s.csrf <= a.issued /\ s.at # "none" /\ (trial.source = "reseeded" => s.at = "live")
  BY <1>1, <1>3, <1>4, <1>7 DEF None, HasAuth
<1>9. trial.source \in {"environment", "reseeded"}
  BY <1>1, <1>3 DEF HasAuth
<1>10. Proceed(c, t, a.jar) /\ issued' = a.issued
  BY <1>2
<1> HIDE DEF s
<1>11. Sound(t, a.issued)
  <2>1. Sound(NoTrial, a.issued) /\ Sound(PasswordNext, a.issued)
    BY <1>4, <1>5, NextSources
  <2>2. Sound(Ask("environment", s), a.issued)
    BY <1>4, <1>7, <1>8, SourcesSound
  <2>3. trial.source = "reseeded" => Sound(Ask("reseeded", s), a.issued)
    BY <1>4, <1>7, <1>8, SourcesSound
  <2> QED
    BY <1>9, <2>1, <2>2, <2>3
<1> HIDE DEF t
<1> QED
  BY <1>3, <1>4, <1>5, <1>10, <1>11, Proceeding

LEMMA LoginSeededKeeps ==
  ASSUME IInv, NEW c \in Calls, LoginSeeded(c) PROVE IInv'
<1>1. SessionTypeOK
  BY DEF IInv
<1>2. PICK a \in Answers :
        /\ issued' = a.issued
        /\ Proceed(c, IF a.jar.csrf = None THEN NoTrial
                      ELSE [Login EXCEPT !.stage = "posting", !.session = a.jar], a.jar)
  BY DEF LoginSeeded
<1>3. auth = c /\ trial.stage = "logging" /\ UNCHANGED <<settings, shared>>
  BY DEF LoginSeeded
<1>4. /\ a.jar \in Sessions /\ a.issued \in 1..MaxTokens
      /\ issued <= a.issued /\ a.jar.csrf <= a.issued /\ a.issued \in Nat
      /\ environment.csrf <= a.issued
  BY AnswerBounds
<1>5. environment \in Sessions
  BY <1>1 DEF SessionTypeOK
<1> DEFINE form == [Login EXCEPT !.stage = "posting", !.session = a.jar]
           t == IF a.jar.csrf = None THEN NoTrial ELSE form
<1>6. Sound(form, a.issued)
  <2>1. form \in Trials /\ form.stage = "posting" /\ form.session = a.jar /\ form.before = None
    BY <1>4, SessionsAre DEF Login, NoTrial, Trials
  <2> HIDE DEF form
  <2>2. form # NoTrial
    BY <2>1, TrialsAre
  <2>3. None <= a.issued
    BY <1>4 DEF None
  <2> QED
    BY <1>4, <2>1, <2>2, <2>3 DEF Sound, HasAuth
<1>7. Sound(t, a.issued) /\ Proceed(c, t, a.jar) /\ issued' = a.issued
  BY <1>2, <1>4, <1>5, <1>6, NextSources
<1> HIDE DEF t
<1> QED
  BY <1>3, <1>4, <1>5, <1>7, Proceeding

LEMMA LoggedInKeeps ==
  ASSUME IInv, NEW c \in Calls, LoggedIn(c) PROVE IInv'
<1>1. SessionTypeOK
  BY DEF IInv
<1>2. PICK a \in Answers, granted \in BOOLEAN :
        LET j == IF granted THEN [a.jar EXCEPT !.at = "live"] ELSE a.jar
            s == [at |-> j.at, csrf |-> IF j.csrf = None THEN trial.session.csrf ELSE j.csrf]
        IN  /\ issued' = a.issued
            /\ Proceed(c, IF granted THEN Ask("password", s) ELSE NoTrial, j)
  BY DEF LoggedIn
<1>3. auth = c /\ trial.stage = "posting" /\ UNCHANGED <<settings, shared>>
  BY DEF LoggedIn
<1>4. /\ a.jar \in Sessions /\ a.issued \in 1..MaxTokens
      /\ issued <= a.issued /\ a.jar.csrf <= a.issued /\ a.issued \in Nat
      /\ environment.csrf <= a.issued
      /\ trial.session.csrf <= a.issued
  BY AnswerBounds
<1>5. /\ environment \in Sessions
      /\ trial.session \in Sessions
  BY <1>1 DEF SessionTypeOK
<1> DEFINE j == IF granted THEN [a.jar EXCEPT !.at = "live"] ELSE a.jar
           s == [at |-> j.at, csrf |-> IF j.csrf = None THEN trial.session.csrf ELSE j.csrf]
           t == IF granted THEN Ask("password", s) ELSE NoTrial
<1>6. j \in Sessions /\ j.csrf = a.jar.csrf /\ (granted => j.at = "live")
  BY <1>4 DEF Sessions
<1> HIDE DEF j
<1>7. s \in Sessions /\ s.csrf <= a.issued /\ (granted => s.at = "live")
  BY <1>4, <1>5, <1>6 DEF Sessions
<1>8. Proceed(c, t, j) /\ issued' = a.issued
  BY <1>2 DEF j
<1> HIDE DEF s
<1>9. Sound(t, a.issued)
  <2>1. CASE granted
    BY <1>4, <1>7, <2>1, SourcesSound
  <2>2. CASE ~ granted
    BY <1>4, <1>5, <2>2, NextSources
  <2> QED
    BY <2>1, <2>2
<1> HIDE DEF t
<1> QED
  BY <1>3, <1>4, <1>5, <1>6, <1>8, <1>9, Proceeding

-----------------------------------------------------------------------------
(* Restarts, and all steps                                                 *)

LEMMA RestartKeeps == ASSUME IInv, Restart PROVE IInv'
<1> USE SessionAssumption DEF IInv
<1>1. /\ jar' = Empty /\ shared' = Empty /\ place' = [c \in Calls |-> "entering"]
      /\ copy' = [c \in Calls |-> Empty] /\ read' = [c \in Calls |-> Empty]
      /\ auth' = NoCall /\ trial' = NoTrial /\ overtaken' = {} /\ astray' = FALSE
      /\ UNCHANGED <<environment, password, issued>>
  BY DEF Restart, settings
<1>2. /\ issued \in Nat /\ Empty.csrf = 0 /\ NoTrial.session.csrf = 0 /\ NoTrial.before = 0
  BY DEF SessionTypeOK, Empty, NoTrial, None
<1>3. SessionTypeOK'
  BY <1>1, SessionsAre, TrialsAre DEF SessionTypeOK, Trials
<1>4. Holder' /\ TrialHasAuth'
  BY <1>1, TrialsAre DEF Holder, TrialHasAuth, HasAuth
<1>5. AllIssued'
  BY <1>1, <1>2 DEF AllIssued
<1>6. Pending' = {} /\ jar'.csrf \notin Tokens
  BY <1>1, <1>2 DEF Pending, Installing, Tokens
<1>7. ReadingsFresh' /\ Agreement'
  BY <1>1, <1>6 DEF ReadingsFresh, Agreement
<1> QED
  BY <1>3, <1>4, <1>5, <1>7

LEMMA NextIInv == IInv /\ [Next]_vars => IInv'
<1> SUFFICES ASSUME IInv, [Next]_vars PROVE IInv'
  OBVIOUS
<1>1. ASSUME NEW c \in Calls,
             \/ FindSession(c) \/ Authenticate(c) \/ Authentication(c)
             \/ Absorb(c) \/ Store(c) \/ Answered(c) \/ Resume(c) \/ Drop(c)
      PROVE  IInv'
  <2>1. CASE Authentication(c)
    BY <2>1, LoadKeeps, ValidatedKeeps, SeededKeeps, LoginSeededKeeps, LoggedInKeeps,
       ApplyKeeps, ShareKeeps, EnsuredKeeps DEF Authentication
  <2> QED
    BY <1>1, <2>1, FindSessionKeeps, AuthenticateKeeps, AbsorbKeeps, StoreKeeps,
       AnsweredKeeps, ResumeKeeps, DropKeeps
<1>2. CASE Restart
  BY <1>2, RestartKeeps
<1>3. CASE UNCHANGED vars
  BY <1>3 DEF vars, settings, callVars, history, IInv, SessionTypeOK, Holder, TrialHasAuth,
              AllIssued, ReadingsFresh, Reading, Installing, Pending, Agreement, Bringing, Trying
<1> QED
  BY <1>1, <1>2, <1>3 DEF Next

\* Only a load, a refusal and a reseeding lead to the password.
LEMMA LastResort ==
  ASSUME IInv, [Next]_vars, trial'.stage = "logging", trial.stage # "logging"
  PROVE  environment.at = "none" \/ (trial.source = "reseeded" /\ trial.session.at = "live")
<1>1. SessionTypeOK /\ HasAuth(trial) /\ AllIssued
  BY DEF IInv, TrialHasAuth
<1>2. issued \in Nat /\ environment \in Sessions /\ environment.csrf <= issued
  BY <1>1, SessionAssumption DEF SessionTypeOK, AllIssued
<1>3. trial' # trial
  OBVIOUS
<1>4. PICK c \in Calls : Authenticate(c) \/ Authentication(c) \/ Drop(c)
  <2>1. ~ UNCHANGED trial
    BY <1>3
  <2>2. trial' # NoTrial
    BY TrialsAre
  <2> QED
    BY <2>1, <2>2 DEF Next, vars, FindSession, Absorb, Store, Answered, Resume, Restart
<1>5. CASE Load(c)
  <2>1. PICK s \in OnFile :
          Proceed(c, IF Usable(s) THEN Ask("restored", s) ELSE EnvironmentNext, jar)
    BY <1>5 DEF Load
  <2>2. trial' \in {Ask("restored", s), EnvironmentNext}
    BY <2>1 DEF Proceed
  <2>3. s \in Sessions
    BY SessionsAre DEF OnFile
  <2>4. Ask("restored", s).stage = "asked"
    BY <2>3, TrialsAre
  <2> QED
    BY <1>2, <2>2, <2>4, NextSources
<1>6. CASE Validated(c)
  <2>1. PICK a \in Answers, verdict \in {"valid", "refused", "error"} :
          LET s == Merge(trial.session, a.jar)
          IN  /\ verdict = "refused" => s.at # "dead"
              /\ IF verdict = "valid"
                 THEN trial' = [NoTrial EXCEPT !.stage = "valid", !.session = s]
                 ELSE Proceed(c, After(trial.source, s, verdict), a.jar)
    BY <1>6 DEF Validated
  <2> DEFINE s == Merge(trial.session, a.jar)
             t == After(trial.source, s, verdict)
  <2>2. a.jar \in Sessions /\ environment.csrf <= a.issued /\ a.issued \in Nat
        /\ trial.session.csrf <= a.issued /\ a.jar.csrf <= a.issued
    BY AnswerBounds
  <2>3. trial.session \in Sessions /\ trial.session.at # "none"
    BY <1>1, <1>6 DEF SessionTypeOK, HasAuth, Validated
  <2>4. s \in Sessions /\ s.at # "none" /\ s.csrf \in {trial.session.csrf, None, a.jar.csrf}
    BY <2>2, <2>3, Merging
  <2>5. s.csrf <= a.issued
    BY <2>2, <2>4 DEF None
  <2>6. verdict = "valid" => trial'.stage = "valid"
    BY <2>1 DEF NoTrial
  <2> HIDE DEF s
  <2>7. trial' = t /\ (verdict = "refused" => s.at # "dead")
    BY <2>1, <2>6 DEF s, Proceed
  <2>8. environment.at = "none" \/ trial.source = "reseeded"
    BY <1>2, <2>2, <2>4, <2>5, <2>7, AfterSources
  <2> QED
    BY <1>1, <1>6, <2>8 DEF HasAuth, Validated
<1>7. CASE Seeded(c)
  <2>1. PICK a, s :
          /\ a.jar.csrf \in Int /\ s \in Sessions
          /\ trial' = IF trial.source = "environment"
                      THEN IF a.jar.csrf = None THEN NoTrial ELSE Ask("environment", s)
                      ELSE IF s.csrf \in {None, trial.before} THEN PasswordNext ELSE Ask("reseeded", s)
    <3>1. PICK a \in Answers \cup {[jar |-> [jar EXCEPT !.csrf = trial.before], issued |-> issued]} :
            LET s == Merge(trial.session, [Empty EXCEPT !.csrf = a.jar.csrf])
                t == IF trial.source = "environment"
                     THEN IF a.jar.csrf = None THEN NoTrial ELSE Ask("environment", s)
                     ELSE IF s.csrf \in {None, trial.before} THEN PasswordNext ELSE Ask("reseeded", s)
            IN  Proceed(c, t, a.jar)
      BY <1>7 DEF Seeded
    <3>2. a.jar \in Sessions
      <4>1. CASE a \in Answers
        BY <4>1, AnswerBounds
      <4>2. CASE a = [jar |-> [jar EXCEPT !.csrf = trial.before], issued |-> issued]
        BY <1>1, <4>2 DEF SessionTypeOK, Sessions
      <4> QED
        BY <3>1, <4>1, <4>2
    <3>3. [Empty EXCEPT !.csrf = a.jar.csrf] \in Sessions /\ trial.session \in Sessions
      BY <1>1, <3>2 DEF Sessions, Empty, SessionTypeOK
    <3>4. Merge(trial.session, [Empty EXCEPT !.csrf = a.jar.csrf]) \in Sessions
      BY <3>3, Merging
    <3> QED
      BY <3>1, <3>2, <3>4, SessionsAre DEF Proceed
  <2>2. Ask("environment", s).stage = "asked" /\ NoTrial.stage = "none"
    BY <2>1, TrialsAre
  <2>3. trial.source # "environment"
    BY <2>1, <2>2
  <2> QED
    BY <1>1, <1>7, <2>3 DEF HasAuth, Seeded
<1>8. ~ LoginSeeded(c)
  BY DEF LoginSeeded
<1>9. ~ LoggedIn(c)
  <2> SUFFICES ASSUME LoggedIn(c) PROVE FALSE
    OBVIOUS
  <2>1. PICK s : trial' \in {Ask("password", s), NoTrial}
    BY DEF LoggedIn, Proceed
  <2> QED
    BY <2>1, TrialsAre DEF Ask
<1>10. ~ Authenticate(c) /\ ~ Drop(c) /\ ~ Apply(c) /\ ~ Share(c) /\ ~ Ensured(c)
  <2>1. [NoTrial EXCEPT !.stage = "load"].stage = "load"
    BY DEF NoTrial
  <2>2. /\ [trial EXCEPT !.stage = "installed"].stage = "installed"
        /\ [trial EXCEPT !.stage = "applied"].stage = "applied"
    BY <1>1 DEF SessionTypeOK
  <2> QED
    BY <1>3, <2>1, <2>2, TrialsAre DEF Authenticate, Drop, Apply, Share, Ensured
<1> QED
  BY <1>4, <1>5, <1>6, <1>7, <1>8, <1>9, <1>10 DEF Authentication

-----------------------------------------------------------------------------
(* Theorems                                                                *)

LEMMA Invariance == Spec => []IInv
<1> QED
  BY InitIInv, NextIInv, PTL DEF Spec

\* Sessions are sessions, and the auth mutex is held while somebody authenticates
\* (auth.rs, client.rs:ensure_session).
THEOREM SessionTypes == Spec => []SessionTypeOK
<1>1. IInv => SessionTypeOK
  BY DEF IInv
<1> QED
  BY <1>1, Invariance, PTL

\* What is saved has an li_at, so that a restart can load it.
THEOREM Loadable == Spec => []SavedHaveAuth
<1>1. IInv => SavedHaveAuth
  BY DEF IInv, TrialHasAuth, HasAuth, SavedHaveAuth, Saves, Usable
<1> QED
  BY <1>1, Invariance, PTL

\* A call sets out with the jar's token in its header: it finds the shared session when
\* nobody is about to store one and no late one was stored, or comes with the one it put
\* into the jar itself.
LEMMA SetsOut ==
  ASSUME IInv, [Next]_vars, NEW c \in Calls,
         place[c] = "entering", place'[c] = "sending", jar.csrf \in Tokens,
         IF auth = c THEN c \notin overtaken ELSE Pending = {} /\ ~ astray
  PROVE  copy'[c].csrf = jar.csrf
<1>1. SessionTypeOK /\ ReadingsFresh /\ Agreement
  BY DEF IInv
<1>2. PICK d \in Calls : FindSession(d) \/ Ensured(d)
  <2>1. ~ UNCHANGED place
    OBVIOUS
  <2>2. ~ \E d \in Calls : \/ Absorb(d) \/ Store(d) \/ Answered(d) \/ Resume(d) \/ Drop(d)
                         \/ Authenticate(d) \/ Apply(d) \/ Share(d)
    BY <1>1 DEF SessionTypeOK, Absorb, Store, Answered, Resume, Drop, Authenticate, Apply, Share,
                GoTo, Finish, callVars
  <2>3. ~ \E d \in Calls : \E t, j : Proceed(d, t, j)
    BY <1>1 DEF SessionTypeOK, Proceed, Finish, callVars
  <2>4. ~ \E d \in Calls : Load(d) \/ Validated(d) \/ Seeded(d) \/ LoginSeeded(d) \/ LoggedIn(d)
    BY <2>1, <2>3 DEF Load, Validated, Seeded, LoginSeeded, LoggedIn, callVars
  <2>5. ~ Restart
    BY DEF Restart
  <2> QED
    BY <2>1, <2>2, <2>4, <2>5 DEF Next, Authentication, vars, callVars
<1>3. d = c
  BY <1>1, <1>2 DEF FindSession, Ensured, SessionTypeOK
<1>4. CASE FindSession(c)
  <2>1. auth = NoCall /\ copy'[c] = shared
    BY <1>1, <1>4 DEF FindSession, SessionTypeOK
  <2>2. Pending = {} /\ ~ astray
    BY <2>1, SessionAssumption
  <2>3. \A e \in Calls : ~ Bringing(e)
    BY <2>2 DEF Bringing, Pending
  <2> QED
    BY <1>1, <2>1, <2>2, <2>3 DEF Agreement, Trying
<1>5. CASE Ensured(c)
  <2>1. auth = c /\ Installing(c) /\ copy'[c] = trial.session
    BY <1>1, <1>5 DEF Ensured, Installing, SessionTypeOK
  <2>2. c \in Pending \ overtaken /\ Reading(c) = trial.session
    BY <2>1 DEF Pending, Reading
  <2> QED
    BY <1>1, <2>1, <2>2 DEF ReadingsFresh
<1> QED
  BY <1>2, <1>3, <1>4, <1>5

\* The header of a call's first request has the jar's token, whatever other calls, their
\* answers and failed authentications do, but where the formula says (client.rs:236, 376).
THEOREM OneToken == Spec => TokensAgree
<1> DEFINE Agree ==
      \A c \in Calls :
        /\ place[c] = "entering" /\ place'[c] = "sending" /\ jar.csrf \in Tokens
        /\ IF auth = c THEN c \notin overtaken ELSE Pending = {} /\ ~ astray
        => copy'[c].csrf = jar.csrf
<1>1. IInv /\ [Next]_vars => [Agree]_vars
  BY SetsOut
<1> QED
  BY <1>1, Invariance, PTL DEF Spec, TokensAgree

\* The password is the last resort of the chain of sources, whatever LinkedIn answers
\* and whoever else is answered meanwhile.
THEOREM PasswordIsLast == Spec => PasswordLast
<1>1. IInv /\ [Next]_vars =>
        [trial'.stage = "logging" /\ trial.stage # "logging"
           => environment.at = "none"
              \/ (trial.source = "reseeded" /\ trial.session.at = "live")]_vars
  BY LastResort
<1> QED
  BY <1>1, Invariance, PTL DEF Spec, PasswordLast

=============================================================================
