------------------------------ MODULE ProfileUrl ------------------------------
(***************************************************************************)
(* What a client may paste for a profile, and the identifier and the cache *)
(* key it is reduced to (linkedin/url.rs).  A segment is a word and how it *)
(* is written; a link is a text: a scheme or none, a host or none, a path, *)
(* and what the query and the fragment after it mention.                   *)
(***************************************************************************)
EXTENDS Naturals, Sequences

\* Words that are no identifier, and a vanity name and an obfuscated id that are;
\* "a" is too short to be one.
Locales == {"de"}
Names   == {"ada", "ACoA", "a"}
Words   == {"in", "details"} \cup Locales \cup Names

\* Escapes that spell the word, a query or a fragment after it that is escaped, an
\* escaped slash and more, characters no name has.
Writings == {"plain", "escaped", "escapedTail", "escapedSlash", "junk"}

Segments == [word : Words, upper : BOOLEAN, written : Writings]
Segment(word, upper, written) == [word |-> word, upper |-> upper, written |-> written]

\* What a query can mention, "else" for what nobody looks for.
Mentions == {"linkedin.com", "//", "else"}

Link(scheme, host, login, path, query) ==
  [scheme |-> scheme, host |-> host, login |-> login, path |-> path, query |-> query]

\* A name alone, with a query or without.
NoHost == "none"
Bare(segment, query) == Link(FALSE, NoHost, FALSE, <<segment>>, query)

-----------------------------------------------------------------------------

Refused == [ok |-> FALSE]

\* The segment as it came (with the query, of a name alone) or the segment as it is
\* decoded has two characters at least, and none but those of a name.
IsValidVanity(segment, query) ==
  LET long == segment.word # "a"
  IN  \/ query = {} /\ segment.written # "junk" /\ (segment.written = "plain" => long)
      \/ segment.written \in {"plain", "escaped", "escapedTail"} /\ long

\* Mutant: the query and the fragment are cut off before the escapes are decoded.
CutThenDecode(segment) ==
  [word |-> segment.word, upper |-> segment.upper,
   more |-> segment.written \in {"escapedTail", "escapedSlash"}]

\* The escapes are decoded, then what follows ? or # goes; a slash stays.
Decoded(segment) ==
  [word |-> segment.word, upper |-> segment.upper, more |-> segment.written = "escapedSlash"]

CleanSegment(segment, query) ==
  LET identifier == Decoded(segment)
  IN  IF \/ ~identifier.more /\ identifier.word \in Locales
         \/ ~IsValidVanity(segment, query)
      THEN Refused
      ELSE [ok |-> TRUE, identifier |-> identifier,
            kind |-> IF identifier.word = "ACoA" /\ ~identifier.upper /\ ~identifier.more
                     THEN "obfuscated" ELSE "vanity"]

IsAllowedHost(host) == host \in {"linkedin.com", "de.linkedin.com"}

\* The path after the host, whose segments are not decoded yet: the identifier
\* follows the first /in/, in whatever case.
IdentifierFromUrl(link) ==
  LET isIn(i) == link.path[i].word = "in" /\ link.path[i].written = "plain"
      after   == {i + 1 : i \in {j \in DOMAIN link.path : isIn(j) /\ \A h \in 1..j-1 : ~isIn(h)}}
  IN  IF link.login \/ ~IsAllowedHost(link.host) \/ after \cap DOMAIN link.path = {}
      THEN Refused
      ELSE CleanSegment(link.path[CHOOSE i \in after : TRUE], {})

\* contains("linkedin.com") and contains("//") search all of the text.
SaysLinkedIn(link) == IsAllowedHost(link.host) \/ "linkedin.com" \in link.query
SaysSlashes(link)  == link.scheme \/ "//" \in link.query

\* A text that says linkedin.com and no // gets a scheme.  One with // is read as a URL,
\* and is none without a scheme; of the others a name alone is taken.
ParseProfileUrl(link) ==
  IF link.scheme \/ (SaysLinkedIn(link) /\ ~SaysSlashes(link)) THEN IdentifierFromUrl(link)
  ELSE IF SaysSlashes(link) \/ link.host # NoHost \/ Len(link.path) # 1 THEN Refused
  ELSE CleanSegment(link.path[1], link.query)

\* Keys do not tell upper case from lower.
CacheKey(identifier) == [word |-> identifier.word, more |-> identifier.more]

=============================================================================
