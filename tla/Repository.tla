------------------------------- MODULE Repository -------------------------------
(***************************************************************************)
(* One request for a profile that no cache answered, from its routes       *)
(* (api/profile.rs) through the strategies and the enrichment of           *)
(* linkedin/repository.rs to the error it may end on (error.rs); and the   *)
(* raw endpoint, which asks five retired endpoints one after the other.    *)
(*                                                                         *)
(* What VoyagerClient::fetch makes of LinkedIn's answers is FetchEnd: an   *)
(* error that is raised, or a response, with a payload or without.         *)
(***************************************************************************)
EXTENDS Integers, Sequences, FiniteSets

VARIABLES
  exposed,    \* EXPOSE_RAW_ENDPOINT
  pc,         \* where the request is
  draft,      \* what was parsed: "none", or a draft with or without a profile_id
  sources,    \* SourceCalls: the calls that were recorded
  warned,     \* the calls there are warnings about
  lastError,  \* the error a strategy raised that is not definitive
  outcome,    \* "none", "PROFILE", "RAW" or the code of an error
  asked       \* history: every call, with what LinkedIn answered to it

vars == <<exposed, pc, draft, sources, warned, lastError, outcome, asked>>

-----------------------------------------------------------------------------
(* Codes and statuses: error.rs                                            *)

Status == [VALIDATION_ERROR |-> 422, INVALID_PROFILE_URL |-> 422, ENDPOINT_DISABLED |-> 404,
           LINKEDIN_AUTH_FAILED |-> 503, LINKEDIN_SESSION_EXPIRED |-> 503,
           LINKEDIN_CHALLENGE_REQUIRED |-> 503, UPSTREAM_CIRCUIT_OPEN |-> 503,
           PROFILE_NOT_FOUND |-> 404, PROFILE_NOT_VISIBLE |-> 403,
           LINKEDIN_RATE_LIMITED |-> 429, LINKEDIN_UNAVAILABLE |-> 502,
           API_KEY_MISSING |-> 401, API_KEY_INVALID |-> 403, INSUFFICIENT_CREDIT |-> 402,
           BILLING_UNAVAILABLE |-> 503, RATE_LIMITED |-> 429, INTERNAL_ERROR |-> 500]
Codes == DOMAIN Status

\* What another strategy cannot improve on.
Definitive(code) == Status[code] \in 400..499 \cup {503}

-----------------------------------------------------------------------------
(* Calls: endpoints.rs, and what fetch returns                             *)

Strategies == <<"dashProfile", "dashProfileMinimal">>
Contact    == "dashContactInfo"
RawCalls   == <<"profileView", "profile", "contactInfo", "skills", "networkInfo">>
Calls      == {Strategies[i] : i \in DOMAIN Strategies} \cup {Contact}
                \cup {RawCalls[i] : i \in DOMAIN RawCalls}
Required   == {"dashProfile"}

Raised  == {"circuit", "unauthenticated", "challenged", "signedOut"}
Answers == Raised \cup {"ok", "denied", "missing", "retired", "throttled", "faulty", "redirect"}

RaisedCode == [circuit |-> "UPSTREAM_CIRCUIT_OPEN", unauthenticated |-> "LINKEDIN_AUTH_FAILED",
               challenged |-> "LINKEDIN_CHALLENGE_REQUIRED",
               signedOut |-> "LINKEDIN_SESSION_EXPIRED", denied |-> "LINKEDIN_SESSION_EXPIRED",
               missing |-> "PROFILE_NOT_FOUND", throttled |-> "LINKEDIN_RATE_LIMITED",
               faulty |-> "LINKEDIN_UNAVAILABLE", redirect |-> "LINKEDIN_UNAVAILABLE"]

Raise(code)   == [raised |-> TRUE, code |-> code, payload |-> FALSE]
Soft(payload) == [raised |-> FALSE, code |-> "none", payload |-> payload]

\* A dead session, a throttled or a failed call are raised by a required call
\* that no other may replace; a profile that is missing, by either.
FetchEnd(call, fallback, answer) ==
  LET raises == \/ answer \in Raised
                \/ answer = "missing" /\ (call \in Required \/ fallback)
                \/ /\ answer \in {"denied", "throttled", "faulty", "redirect"}
                   /\ call \in Required /\ ~fallback
  IN  IF raises THEN Raise(RaisedCode[answer]) ELSE Soft(answer = "ok")

Source(call, ok) == [endpoint |-> call, ok |-> ok]

-----------------------------------------------------------------------------

Init ==
  /\ exposed \in BOOLEAN
  /\ pc = "start"
  /\ draft = "none"
  /\ sources = <<>>
  /\ warned = {}
  /\ lastError = "none"
  /\ outcome = "none"
  /\ asked = <<>>

Done(result) == pc' = "done" /\ outcome' = result /\ UNCHANGED exposed

\* The body is no JSON of the right shape, the URL is none of a profile, or the
\* raw endpoint is not exposed.
Reject ==
  /\ pc = "start"
  /\ Done("VALIDATION_ERROR") \/ Done("INVALID_PROFILE_URL")
       \/ (~exposed /\ Done("ENDPOINT_DISABLED"))
  /\ UNCHANGED <<draft, sources, warned, lastError, asked>>

Begin ==
  /\ pc = "start"
  /\ pc' \in {"strategies"} \cup (IF exposed THEN {"raw"} ELSE {})
  /\ UNCHANGED <<exposed, draft, sources, warned, lastError, outcome, asked>>

Ask(call, answer) == asked' = Append(asked, [call |-> call, answer |-> answer])

Strategy == Strategies[Len(asked) + 1]

\* A strategy raises: the error ends the request, or is kept for the end.
StrategyRaises ==
  /\ pc = "strategies"
  /\ Len(asked) < Len(Strategies)
  /\ \E answer \in Answers :
       LET end == FetchEnd(Strategy, TRUE, answer)
       IN  /\ end.raised
           /\ Ask(Strategy, answer)
           /\ IF Definitive(end.code)
              THEN Done(end.code) /\ UNCHANGED <<sources, lastError>>
              ELSE /\ lastError' = end.code
                   /\ sources' = Append(sources, Source(Strategy, FALSE))
                   /\ UNCHANGED <<exposed, pc, outcome>>
  /\ UNCHANGED <<draft, warned>>

\* Mutant: any answer that is not ok is taken for a 404.
StrategyEmptyNotFound ==
  /\ pc = "strategies"
  /\ Len(asked) < Len(Strategies)
  /\ \E answer \in Answers :
       /\ ~FetchEnd(Strategy, TRUE, answer).raised
       /\ Ask(Strategy, answer)
       /\ Done("PROFILE_NOT_FOUND")
  /\ UNCHANGED <<draft, sources, warned, lastError>>

\* A strategy answers without a payload, or with one that has no profile in it.
StrategyEmpty ==
  /\ pc = "strategies"
  /\ Len(asked) < Len(Strategies)
  /\ \E answer \in Answers :
       LET end == FetchEnd(Strategy, TRUE, answer)
       IN  /\ ~end.raised
           /\ Ask(Strategy, answer)
           /\ sources' = Append(sources, Source(Strategy, end.payload))
  /\ warned' = warned \cup {Strategy}
  /\ UNCHANGED <<exposed, pc, draft, lastError, outcome>>

\* The first draft ends the chain.
StrategyDrafts ==
  /\ pc = "strategies"
  /\ Len(asked) < Len(Strategies)
  /\ FetchEnd(Strategy, TRUE, "ok").payload
  /\ Ask(Strategy, "ok")
  /\ sources' = Append(sources, Source(Strategy, TRUE))
  /\ draft' \in {"withId", "withoutId"}
  /\ pc' = "enrichment"
  /\ UNCHANGED <<exposed, warned, lastError, outcome>>

\* No strategy has produced a draft.
NoDraft ==
  /\ pc = "strategies"
  /\ Len(asked) = Len(Strategies)
  /\ Done(IF lastError # "none" THEN lastError ELSE "PROFILE_NOT_VISIBLE")
  /\ UNCHANGED <<draft, sources, warned, lastError, asked>>

\* Mutant: an enrichment that is not ok goes without a warning when it is soft.
EnrichSilently ==
  /\ pc = "enrichment"
  /\ draft = "withId"
  /\ \E answer \in Answers :
       LET end == FetchEnd(Contact, FALSE, answer)
       IN  /\ Ask(Contact, answer)
           /\ sources' = Append(sources, Source(Contact, end.payload))
           /\ warned' = IF end.raised THEN warned \cup {Contact} ELSE warned
  /\ Done("PROFILE")
  /\ UNCHANGED <<draft, lastError>>

\* The contact card, when there is a profile_id to ask for it by: whatever becomes
\* of it is a source, and a warning.
Enrich ==
  /\ pc = "enrichment"
  /\ draft = "withId"
  /\ \E answer \in Answers :
       LET end == FetchEnd(Contact, FALSE, answer)
       IN  /\ Ask(Contact, answer)
           /\ sources' = Append(sources, Source(Contact, end.payload))
           /\ warned' = IF end.payload THEN warned ELSE warned \cup {Contact}
  /\ Done("PROFILE")
  /\ UNCHANGED <<draft, lastError>>

NothingToEnrich ==
  /\ pc = "enrichment"
  /\ draft = "withoutId"
  /\ Done("PROFILE")
  /\ UNCHANGED <<draft, sources, warned, lastError, asked>>

\* The raw endpoint: an entry for every call, errors among them.
RawCall ==
  /\ pc = "raw"
  /\ Len(sources) < Len(RawCalls)
  /\ \E answer \in Answers :
       LET call == RawCalls[Len(sources) + 1]
       IN  sources' = Append(sources, Source(call, FetchEnd(call, TRUE, answer).payload))
  /\ UNCHANGED <<exposed, pc, draft, warned, lastError, outcome, asked>>

RawDone ==
  /\ pc = "raw"
  /\ Len(sources) = Len(RawCalls)
  /\ Done("RAW")
  /\ UNCHANGED <<draft, sources, warned, lastError, asked>>

Next ==
  \/ Reject \/ Begin
  \/ StrategyRaises \/ StrategyEmpty \/ StrategyDrafts \/ NoDraft
  \/ Enrich \/ NothingToEnrich
  \/ RawCall \/ RawDone

Spec == Init /\ [][Next]_vars

-----------------------------------------------------------------------------

Callees(seq) == [i \in DOMAIN seq |-> seq[i].call]

\* A profile accounts for every call that was made for it: each is a source, in
\* order, and each but the one with the draft and a contact card is warned of.
NothingSilent ==
  outcome = "PROFILE" =>
    /\ [i \in DOMAIN sources |-> sources[i].endpoint] = Callees(asked)
    /\ \A i \in DOMAIN asked :
         \/ asked[i].call \in warned
         \/ sources[i].ok /\ (\A j \in i+1..Len(asked) : asked[j].call = Contact)

\* A lookup ends on a code only if there is no draft, whatever the enrichment meets; and
\* on one that says there is no such profile, that nobody is signed in or that the
\* circuit is open only if the last call met that: nothing is asked after it.  A profile
\* is not visible if every strategy was answered, be it that LinkedIn was busy, and none
\* with a profile.
CodesJustified ==
  /\ outcome \in Codes => draft = "none"
  /\ \A i \in DOMAIN asked :
       asked[i].call # Contact /\ asked[i].answer \in Raised \cup {"missing"} =>
         i = Len(asked) /\ (outcome = RaisedCode[asked[i].answer])
  /\ outcome \in {RaisedCode[a] : a \in Raised \cup {"missing"}} =>
       \E a \in Raised \cup {"missing"} :
         /\ RaisedCode[a] = outcome
         /\ asked # <<>> /\ asked[Len(asked)].answer = a
  /\ outcome = "PROFILE_NOT_VISIBLE" =>
       Callees(asked) = Strategies /\ \A i \in DOMAIN asked : asked[i].answer \notin Raised

=============================================================================
