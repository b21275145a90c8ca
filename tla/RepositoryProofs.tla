---------------------------- MODULE RepositoryProofs ----------------------------
(***************************************************************************)
(* Theorems about Repository: what a request that fetches a profile may    *)
(* end on, and what it says of the calls it made.                          *)
(***************************************************************************)
EXTENDS Repository, TLAPS

-----------------------------------------------------------------------------
(* Errors                                                                  *)

\* What any call raises, whichever it is and whatever else there is to ask.
Fatal == Raised \cup {"missing"}

\* The error of a call like that is one no other strategy can improve on.
LEMMA FatalIsDefinitive ==
  \A answer \in Fatal : RaisedCode[answer] \in Codes /\ Definitive(RaisedCode[answer])
BY DEF Fatal, Raised, RaisedCode, Codes, Status, Definitive

\* What the codes are not: the other ends of a request, and each other.
LEMMA CodesApart ==
  /\ Codes \cap {"none", "PROFILE", "RAW"} = {}
  /\ "PROFILE_NOT_VISIBLE" \in Codes
  /\ \A answer \in Fatal : RaisedCode[answer] # "PROFILE_NOT_VISIBLE"
  /\ \A answer \in Fatal :
       RaisedCode[answer] \notin {"VALIDATION_ERROR", "INVALID_PROFILE_URL", "ENDPOINT_DISABLED"}
BY DEF Fatal, Raised, RaisedCode, Codes, Status

LEMMA StrategiesAre ==
  /\ Strategies \in Seq(Calls) /\ Len(Strategies) = 2 /\ Contact \in Calls
  /\ \A i \in 1..2 : Strategies[i] \in Calls /\ Strategies[i] # Contact
BY DEF Strategies, Contact, Calls

\* A call that may be replaced raises just those, and has a payload only if it was answered.
LEMMA FallbackEnds ==
  ASSUME NEW call, NEW answer \in Answers
  PROVE  /\ answer \in Fatal => /\ FetchEnd(call, TRUE, answer).raised
                               /\ FetchEnd(call, TRUE, answer).code = RaisedCode[answer]
         /\ answer \notin Fatal => ~FetchEnd(call, TRUE, answer).raised
         /\ FetchEnd(call, TRUE, answer).payload \in BOOLEAN
<1>1. answer \in Fatal => FetchEnd(call, TRUE, answer) = Raise(RaisedCode[answer])
  BY DEF FetchEnd, Fatal, Raised
<1>2. answer \notin Fatal => FetchEnd(call, TRUE, answer) = Soft(answer = "ok")
  BY DEF FetchEnd, Fatal, Raised
<1>3. \A c : Raise(c).raised /\ Raise(c).code = c /\ Raise(c).payload \in BOOLEAN
  BY DEF Raise
<1>4. \A p \in BOOLEAN : ~Soft(p).raised /\ Soft(p).payload \in BOOLEAN
  BY DEF Soft
<1>5. CASE answer \in Fatal
  BY <1>1, <1>3, <1>5
<1>6. CASE answer \notin Fatal
  <2>1. (answer = "ok") \in BOOLEAN
    OBVIOUS
  <2> QED
    BY <1>2, <1>4, <1>6, <2>1
<1> QED
  BY <1>5, <1>6

\* The contact card is answered with a payload only if LinkedIn gave one.
LEMMA ContactEnds ==
  ASSUME NEW answer \in Answers
  PROVE  FetchEnd(Contact, FALSE, answer).payload = (answer = "ok")
BY DEF FetchEnd, Contact, Answers, Raised, Raise, Soft, Required

-----------------------------------------------------------------------------
(* The invariant                                                           *)

Asked == [call : Calls, answer : Answers]

Types ==
  /\ pc \in {"start", "strategies", "enrichment", "raw", "done"}
  /\ draft \in {"none", "withId", "withoutId"}
  /\ sources \in Seq([endpoint : Calls, ok : BOOLEAN])
  /\ warned \subseteq Calls
  /\ asked \in Seq(Asked)

\* The strategies are asked in their order and each is a source; one that ends the
\* request is not among them, so that no error is ever kept for the end.
InOrder ==
  /\ Len(asked) <= Len(Strategies)
  /\ Len(sources) = Len(asked)
  /\ lastError = "none"
  /\ \A i \in 1..Len(asked) :
       /\ asked[i].call = Strategies[i]
       /\ asked[i].answer \notin Fatal
       /\ sources[i].endpoint = asked[i].call

\* While there is no draft, every call was warned of; with one, all but the last.
Accounted ==
  /\ pc \in {"start", "raw"} => asked = <<>> /\ lastError = "none"
  /\ pc = "start" => sources = <<>>
  /\ pc \in {"start", "raw", "strategies"} => draft = "none"
  /\ pc # "done" => outcome = "none"
  /\ pc = "strategies" => InOrder /\ \A i \in 1..Len(asked) : asked[i].call \in warned
  /\ pc = "enrichment" =>
       /\ draft # "none"
       /\ InOrder
       /\ asked # <<>>
       /\ sources[Len(asked)].ok
       /\ \A i \in 1..Len(asked) - 1 : asked[i].call \in warned

RequestInv == Types /\ Accounted /\ NothingSilent /\ CodesJustified

-----------------------------------------------------------------------------
(* It is inductive                                                         *)

LEMMA RequestInit == Init => RequestInv
BY DEF Init, RequestInv, Types, Accounted, NothingSilent, CodesJustified, InOrder, Codes, Status,
       Raised, RaisedCode, Callees, Strategies

\* An appended call is the last, and the ones before it are where they were.
LEMMA Appended ==
  ASSUME NEW S, NEW seq \in Seq(S), NEW e \in S
  PROVE  /\ Append(seq, e) \in Seq(S) /\ Len(Append(seq, e)) = Len(seq) + 1
         /\ \A i \in 1..Len(seq) : Append(seq, e)[i] = seq[i]
         /\ Append(seq, e)[Len(seq) + 1] = e
         /\ DOMAIN Append(seq, e) = 1..Len(seq) + 1
OBVIOUS

\* A request that ends leaves nothing to keep but what its end says.
LEMMA EndKeeps ==
  ASSUME pc' = "done", Types', NothingSilent', CodesJustified' PROVE RequestInv'
BY DEF RequestInv, Accounted

LEMMA RejectKeeps == ASSUME RequestInv, Reject PROVE RequestInv'
<1>1. pc' = "done" /\ asked' = <<>> /\ draft' = "none"
  BY DEF Reject, Done, RequestInv, Accounted
<1>2. outcome' \in {"VALIDATION_ERROR", "INVALID_PROFILE_URL", "ENDPOINT_DISABLED"}
  BY DEF Reject, Done
<1>3. Types'
  BY <1>1 DEF Reject, RequestInv, Types
<1>4. NothingSilent'
  BY <1>2 DEF NothingSilent
<1>5. CodesJustified'
  BY <1>1, <1>2, CodesApart DEF CodesJustified, Fatal
<1> QED
  BY <1>1, <1>3, <1>4, <1>5, EndKeeps

LEMMA BeginKeeps == ASSUME RequestInv, Begin PROVE RequestInv'
BY CodesApart, StrategiesAre
   DEF Begin, RequestInv, Types, Accounted, InOrder, NothingSilent, CodesJustified, Fatal

LEMMA RaisesKeep == ASSUME RequestInv, StrategyRaises PROVE RequestInv'
<1>1. PICK answer \in Answers :
        LET end == FetchEnd(Strategy, TRUE, answer)
        IN  /\ end.raised
            /\ Ask(Strategy, answer)
            /\ Definitive(end.code) => Done(end.code) /\ UNCHANGED <<sources, lastError>>
  BY DEF StrategyRaises
<1>2. answer \in Fatal
  BY <1>1, FallbackEnds
<1>3. FetchEnd(Strategy, TRUE, answer).code = RaisedCode[answer]
  BY <1>2, FallbackEnds
<1>4. /\ pc' = "done" /\ outcome' = RaisedCode[answer] /\ RaisedCode[answer] \in Codes
      /\ asked' = Append(asked, [call |-> Strategy, answer |-> answer])
      /\ UNCHANGED <<sources, draft, warned>>
  BY <1>1, <1>2, <1>3, FatalIsDefinitive DEF Done, Ask, StrategyRaises
<1>5. /\ pc = "strategies" /\ draft = "none" /\ InOrder /\ Len(asked) < 2 /\ Len(asked) \in Nat
      /\ asked \in Seq(Asked)
  BY StrategiesAre DEF StrategyRaises, RequestInv, Types, Accounted
<1>6. [call |-> Strategy, answer |-> answer] \in Asked
  BY <1>5, StrategiesAre DEF Strategy, Asked
<1>7. Types'
  BY <1>4, <1>5, <1>6 DEF RequestInv, Types
<1>8. NothingSilent'
  BY <1>4, CodesApart DEF NothingSilent
<1>9. CodesJustified'
  <2>1. \A i \in DOMAIN asked' :
          \/ i \in 1..Len(asked) /\ asked'[i].answer \notin Fatal
          \/ i = Len(asked') /\ asked'[i].answer = answer
    BY <1>4, <1>5, <1>6, Appended DEF InOrder
  <2>2. asked' # <<>> /\ asked'[Len(asked')].answer = answer
    BY <1>4, <1>5, <1>6, Appended
  <2> QED
    BY <1>2, <1>4, <1>5, <2>1, <2>2, CodesApart DEF CodesJustified, Fatal
<1> QED
  BY <1>4, <1>7, <1>8, <1>9, EndKeeps

\* A call with its answer, as Ask records it.
Call(call, answer) == [call |-> call, answer |-> answer]

LEMMA CallIs ==
  ASSUME NEW call \in Calls, NEW answer \in Answers, NEW ok \in BOOLEAN
  PROVE  /\ Call(call, answer) \in Asked /\ Call(call, answer).call = call
         /\ Call(call, answer).answer = answer
         /\ Source(call, ok) \in [endpoint : Calls, ok : BOOLEAN]
         /\ Source(call, ok).endpoint = call /\ (ok => Source(call, ok).ok)
BY DEF Call, Source, Asked

\* A call that is recorded is the last call, and its source the last source.
LEMMA Recorded ==
  ASSUME Types, NEW a \in Asked, NEW t \in [endpoint : Calls, ok : BOOLEAN],
         asked' = Append(asked, a), sources' = Append(sources, t)
  PROVE  /\ asked' \in Seq(Asked) /\ sources' \in Seq([endpoint : Calls, ok : BOOLEAN])
         /\ Len(asked) \in Nat /\ Len(asked') = Len(asked) + 1
         /\ Len(sources) \in Nat /\ Len(sources') = Len(sources) + 1
         /\ \A i \in 1..Len(asked) : asked'[i] = asked[i]
         /\ \A i \in 1..Len(sources) : sources'[i] = sources[i]
         /\ asked'[Len(asked')] = a /\ sources'[Len(sources')] = t
<1>1. asked \in Seq(Asked) /\ sources \in Seq([endpoint : Calls, ok : BOOLEAN])
  BY DEF Types
<1> QED
  BY <1>1, Appended

LEMMA StrategyRecorded ==
  ASSUME Types, InOrder, Len(asked) < Len(Strategies), lastError' = lastError,
         NEW a \in Asked, NEW t \in [endpoint : Calls, ok : BOOLEAN],
         asked' = Append(asked, a), sources' = Append(sources, t),
         a.call = Strategy, a.answer \notin Fatal, t.endpoint = Strategy
  PROVE  InOrder'
BY Recorded, StrategiesAre DEF InOrder, Strategy

LEMMA EmptyKeeps == ASSUME RequestInv, StrategyEmpty PROVE RequestInv'
<1>1. /\ Types /\ pc = "strategies" /\ draft = "none" /\ outcome = "none" /\ InOrder
      /\ Len(asked) < Len(Strategies) /\ \A i \in 1..Len(asked) : asked[i].call \in warned
      /\ warned' = warned \cup {Strategy} /\ UNCHANGED <<pc, draft, lastError, outcome>>
  BY DEF StrategyEmpty, RequestInv, Accounted
<1>2. Strategy \in Calls
  BY <1>1, StrategiesAre DEF Strategy, Types
<1>3. PICK a \in Asked, t \in [endpoint : Calls, ok : BOOLEAN] :
        /\ asked' = Append(asked, a) /\ sources' = Append(sources, t)
        /\ a.call = Strategy /\ a.answer \notin Fatal /\ t.endpoint = Strategy
  <2>1. PICK answer \in Answers :
          /\ ~FetchEnd(Strategy, TRUE, answer).raised
          /\ asked' = Append(asked, Call(Strategy, answer))
          /\ sources' = Append(sources, Source(Strategy, FetchEnd(Strategy, TRUE, answer).payload))
    BY DEF StrategyEmpty, Ask, Call
  <2>2. answer \notin Fatal /\ FetchEnd(Strategy, TRUE, answer).payload \in BOOLEAN
    BY <2>1, FallbackEnds
  <2> DEFINE a == Call(Strategy, answer)
             t == Source(Strategy, FetchEnd(Strategy, TRUE, answer).payload)
  <2>3. a \in Asked /\ a.call = Strategy /\ a.answer = answer
    BY <1>2, CallIs
  <2>4. t \in [endpoint : Calls, ok : BOOLEAN] /\ t.endpoint = Strategy
    BY <1>2, <2>2, CallIs, "ok" \in Answers DEF Answers
  <2> HIDE DEF a, t
  <2> QED
    BY <2>1, <2>2, <2>3, <2>4 DEF a, t
<1>4. InOrder'
  BY <1>1, <1>3, StrategyRecorded
<1>5. Types'
  BY <1>1, <1>2, <1>3, Recorded DEF Types
<1>6. \A i \in 1..Len(asked') : asked'[i].call \in warned'
  BY <1>1, <1>3, Recorded
<1> QED
  BY <1>1, <1>4, <1>5, <1>6, CodesApart
     DEF RequestInv, Accounted, InOrder, NothingSilent, CodesJustified, Fatal

LEMMA DraftsKeep == ASSUME RequestInv, StrategyDrafts PROVE RequestInv'
<1>1. /\ Types /\ pc = "strategies" /\ InOrder /\ outcome = "none"
      /\ Len(asked) < Len(Strategies) /\ \A i \in 1..Len(asked) : asked[i].call \in warned
      /\ draft' \in {"withId", "withoutId"} /\ pc' = "enrichment"
      /\ UNCHANGED <<warned, lastError, outcome>>
  BY DEF StrategyDrafts, RequestInv, Accounted
<1>2. Strategy \in Calls
  BY <1>1, StrategiesAre DEF Strategy, Types
<1>3. PICK a \in Asked, t \in [endpoint : Calls, ok : BOOLEAN] :
        /\ asked' = Append(asked, a) /\ sources' = Append(sources, t)
        /\ a.call = Strategy /\ a.answer \notin Fatal /\ t.endpoint = Strategy /\ t.ok
  <2>1. /\ asked' = Append(asked, Call(Strategy, "ok"))
        /\ sources' = Append(sources, Source(Strategy, TRUE))
    BY DEF StrategyDrafts, Ask, Call
  <2>2. "ok" \in Answers /\ "ok" \notin Fatal /\ TRUE \in BOOLEAN
    BY DEF Answers, Fatal, Raised
  <2> DEFINE a == Call(Strategy, "ok")
             t == Source(Strategy, TRUE)
  <2>3. a \in Asked /\ a.call = Strategy /\ a.answer = "ok"
    BY <1>2, <2>2, CallIs
  <2>4. t \in [endpoint : Calls, ok : BOOLEAN] /\ t.endpoint = Strategy /\ t.ok
    BY <1>2, <2>2, CallIs
  <2> HIDE DEF a, t
  <2> QED
    BY <2>1, <2>2, <2>3, <2>4 DEF a, t
<1>4. InOrder'
  BY <1>1, <1>3, StrategyRecorded
<1>5. Types'
  BY <1>1, <1>2, <1>3, Recorded DEF Types
<1>6. /\ asked' # <<>> /\ sources'[Len(asked')].ok
      /\ \A i \in 1..Len(asked') - 1 : asked'[i].call \in warned'
  BY <1>1, <1>3, Recorded DEF InOrder
<1> QED
  BY <1>1, <1>4, <1>5, <1>6, CodesApart
     DEF RequestInv, Accounted, InOrder, NothingSilent, CodesJustified, Fatal

LEMMA NoDraftKeeps == ASSUME RequestInv, NoDraft PROVE RequestInv'
<1>1. /\ Types /\ InOrder /\ Len(asked) = 2 /\ draft = "none" /\ outcome' = "PROFILE_NOT_VISIBLE"
      /\ pc' = "done" /\ UNCHANGED <<draft, sources, warned, asked>>
  BY StrategiesAre DEF NoDraft, Done, RequestInv, Accounted, InOrder
<1>2. Types'
  BY <1>1 DEF Types
<1>3. Callees(asked) = Strategies
  <2>1. DOMAIN Strategies = 1..2 /\ DOMAIN asked = 1..2
    BY <1>1, StrategiesAre DEF Types
  <2>2. \A i \in 1..2 : asked[i].call = Strategies[i]
    BY <1>1 DEF InOrder
  <2>3. Strategies = [i \in 1..2 |-> Strategies[i]]
    BY <2>1 DEF Strategies
  <2> QED
    BY <2>1, <2>2, <2>3 DEF Callees
<1>4. \A i \in DOMAIN asked : asked[i].answer \notin Fatal
  BY <1>1 DEF InOrder, Types
<1>5. CodesJustified'
  BY <1>1, <1>3, <1>4, CodesApart DEF CodesJustified, Callees, Fatal
<1> QED
  BY <1>1, <1>2, <1>5, EndKeeps DEF NothingSilent

\* Whatever becomes of the contact card, the profile ends the request.
LEMMA EnrichKeeps == ASSUME RequestInv, Enrich PROVE RequestInv'
<1>1. /\ Types /\ pc = "enrichment" /\ InOrder /\ asked # <<>> /\ sources[Len(asked)].ok
      /\ \A i \in 1..Len(asked) - 1 : asked[i].call \in warned
      /\ pc' = "done" /\ outcome' = "PROFILE" /\ draft' = draft
  BY DEF Enrich, Done, RequestInv, Accounted
<1>2. PICK a \in Asked, t \in [endpoint : Calls, ok : BOOLEAN] :
        /\ asked' = Append(asked, a) /\ sources' = Append(sources, t)
        /\ a.call = Contact /\ t.endpoint = Contact
        /\ warned' = (IF t.ok THEN warned ELSE warned \cup {Contact})
  <2>1. PICK answer \in Answers :
          /\ asked' = Append(asked, Call(Contact, answer))
          /\ sources' = Append(sources, Source(Contact, FetchEnd(Contact, FALSE, answer).payload))
          /\ warned' = (IF FetchEnd(Contact, FALSE, answer).payload
                       THEN warned ELSE warned \cup {Contact})
    BY DEF Enrich, Ask, Call
  <2>2. FetchEnd(Contact, FALSE, answer).payload \in BOOLEAN
    BY ContactEnds
  <2>3. \A ok \in BOOLEAN : Source(Contact, ok).ok = ok
    BY DEF Source
  <2> QED
    BY <2>1, <2>2, <2>3, CallIs, StrategiesAre
<1>3. Types'
  BY <1>1, <1>2, Recorded, StrategiesAre DEF Types
<1>4. /\ Len(asked') = Len(asked) + 1 /\ Len(sources') = Len(asked') /\ Len(asked) \in Nat \ {0}
      /\ DOMAIN asked' = 1..Len(asked') /\ DOMAIN sources' = 1..Len(asked')
  BY <1>1, <1>2, <1>3, Recorded DEF InOrder, Types
<1>5. NothingSilent'
  <2>1. \A i \in 1..Len(asked') : sources'[i].endpoint = asked'[i].call
    BY <1>1, <1>2, <1>4, Recorded DEF InOrder
  <2>2. ASSUME NEW i \in 1..Len(asked')
        PROVE  \/ asked'[i].call \in warned'
               \/ sources'[i].ok /\ (\A j \in i+1..Len(asked') : asked'[j].call = Contact)
    <3>1. CASE i < Len(asked)
      BY <1>1, <1>2, <1>4, <3>1, Recorded
    <3>2. CASE i = Len(asked)
      BY <1>1, <1>2, <1>4, <3>2, Recorded DEF InOrder
    <3>3. CASE i = Len(asked')
      BY <1>1, <1>2, <1>4, <3>3, Recorded
    <3> QED
      BY <1>4, <3>1, <3>2, <3>3
  <2> QED
    BY <1>4, <2>1, <2>2 DEF NothingSilent, Callees
<1>6. CodesJustified'
  <2>1. \A i \in DOMAIN asked' : asked'[i].call = Contact \/ asked'[i].answer \notin Fatal
    BY <1>1, <1>2, <1>4, Recorded DEF InOrder
  <2> QED
    BY <1>1, <2>1, CodesApart, FatalIsDefinitive DEF CodesJustified, Fatal
<1> QED
  BY <1>1, <1>3, <1>5, <1>6, EndKeeps

LEMMA PlainKeeps == ASSUME RequestInv, NothingToEnrich PROVE RequestInv'
<1>1. /\ Types /\ InOrder /\ asked # <<>> /\ sources[Len(asked)].ok
      /\ \A i \in 1..Len(asked) - 1 : asked[i].call \in warned
      /\ pc' = "done" /\ outcome' = "PROFILE" /\ UNCHANGED <<draft, asked, sources, warned>>
  BY DEF NothingToEnrich, Done, RequestInv, Accounted
<1>2. Types'
  BY <1>1 DEF Types
<1>3. /\ Len(asked) \in Nat /\ Len(sources) = Len(asked)
      /\ DOMAIN asked = 1..Len(asked) /\ DOMAIN sources = 1..Len(asked)
      /\ \A i \in 1..Len(asked) : sources[i].endpoint = asked[i].call /\ asked[i].answer \notin Fatal
  BY <1>1 DEF InOrder, Types
<1>4. NothingSilent'
  BY <1>1, <1>3 DEF NothingSilent, Callees
<1>5. CodesJustified'
  BY <1>1, <1>3, CodesApart, FatalIsDefinitive DEF CodesJustified, Fatal
<1> QED
  BY <1>1, <1>2, <1>4, <1>5, EndKeeps

LEMMA RawKeeps == ASSUME RequestInv, RawCall \/ RawDone PROVE RequestInv'
<1>1. CASE RawCall
  <2>1. /\ Types /\ pc = "raw" /\ asked = <<>> /\ draft = "none" /\ lastError = "none" /\ outcome = "none"
        /\ UNCHANGED <<pc, draft, warned, lastError, outcome, asked>>
    BY <1>1 DEF RawCall, RequestInv, Accounted
  <2>2. PICK answer \in Answers :
          sources' = Append(sources, Source(RawCalls[Len(sources) + 1],
                              FetchEnd(RawCalls[Len(sources) + 1], TRUE, answer).payload))
    BY <1>1 DEF RawCall
  <2>3. RawCalls[Len(sources) + 1] \in Calls
    BY <1>1, <2>1 DEF RawCall, Types, Calls
  <2>4. sources' \in Seq([endpoint : Calls, ok : BOOLEAN])
    <3>1. FetchEnd(RawCalls[Len(sources) + 1], TRUE, answer).payload \in BOOLEAN
      BY FallbackEnds
    <3>2. Source(RawCalls[Len(sources) + 1], FetchEnd(RawCalls[Len(sources) + 1], TRUE, answer).payload)
            \in [endpoint : Calls, ok : BOOLEAN]
      BY <2>3, <3>1, CallIs
    <3> QED
      BY <2>1, <2>2, <3>2, Appended DEF Types
  <2>5. Types'
    BY <2>1, <2>4 DEF Types
  <2> QED
    BY <2>1, <2>5, CodesApart DEF RequestInv, Accounted, NothingSilent, CodesJustified, Fatal
<1>2. CASE RawDone
  <2>1. /\ Types /\ asked = <<>> /\ draft = "none"
        /\ pc' = "done" /\ outcome' = "RAW" /\ UNCHANGED <<draft, sources, warned, asked>>
    BY <1>2 DEF RawDone, Done, RequestInv, Accounted
  <2>2. Types'
    BY <2>1 DEF Types
  <2>3. CodesJustified'
    BY <2>1, CodesApart, FatalIsDefinitive DEF CodesJustified, Fatal
  <2> QED
    BY <2>1, <2>2, <2>3, EndKeeps DEF NothingSilent
<1> QED
  BY <1>1, <1>2

LEMMA Invariance == Spec => []RequestInv
<1>1. ASSUME RequestInv, [Next]_vars PROVE RequestInv'
  <2>1. CASE UNCHANGED vars
    BY <1>1, <2>1
       DEF vars, RequestInv, Types, Accounted, InOrder, NothingSilent, CodesJustified, Callees
  <2> QED
    BY <1>1, <2>1, RejectKeeps, BeginKeeps, RaisesKeep, EmptyKeeps, DraftsKeep, NoDraftKeeps,
       EnrichKeeps, PlainKeeps, RawKeeps DEF Next
<1> QED
  BY <1>1, RequestInit, PTL DEF Spec

-----------------------------------------------------------------------------
(* What it gives                                                           *)

\* A profile names every call made for it as a source, and warns of each that came to
\* nothing (ProfileRepository::fetch).
THEOREM AllAccounted == Spec => []NothingSilent
<1>1. RequestInv => NothingSilent
  BY DEF RequestInv
<1> QED
  BY <1>1, Invariance, PTL

\* A lookup ends on an error only for what LinkedIn answered last, and on one that says
\* the profile is not visible only after every strategy.
THEOREM Justified == Spec => []CodesJustified
<1>1. RequestInv => CodesJustified
  BY DEF RequestInv
<1> QED
  BY <1>1, Invariance, PTL

\* No error is ever kept for the end of the chain: last_error stays None, since every
\* error that a strategy raises is definitive.
THEOREM NeverKept == Spec => [](pc = "strategies" => lastError = "none")
<1>1. RequestInv => (pc = "strategies" => lastError = "none")
  BY DEF RequestInv, Accounted, InOrder
<1> QED
  BY <1>1, Invariance, PTL

=============================================================================
