------------------------------ MODULE MCLookup ------------------------------
(* Every request; and inputs with all the features the parsing modules     *)
(* tell apart: two or three positions, one group, two members, a skill in  *)
(* two writings, links of two profiles, one or two variables out of range. *)
EXTENDS Lookup

CONSTANTS u1, u2, u3, u4

MCUrns == {u1, u2, u3, u4}

-----------------------------------------------------------------------------

Name(word, upper, written) == Segment(word, upper, written)
In(upper) == Segment("in", upper, "plain")

MCLinks ==
  LET spelt  == {"plain", "escaped", "escapedTail"}
      cases(word) == IF word = "ACoA" THEN {FALSE} ELSE BOOLEAN
      before == {<<>>, <<Name("details", FALSE, "plain")>>}
      after  == {<<>>, <<Name("de", FALSE, "plain")>>, <<In(FALSE), Name("details", FALSE, "plain")>>}
      pages(word) ==
        {Link(scheme, h, FALSE, b \o <<In(up), Name(word, upper, w)>> \o a, q) :
           scheme \in BOOLEAN, h \in {"linkedin.com", "de.linkedin.com"}, up \in BOOLEAN,
           upper \in cases(word), b \in before, a \in after, w \in spelt, q \in SUBSET Mentions}
      alone(word) == {Bare(Name(word, upper, w), q) :
                        upper \in cases(word), w \in spelt, q \in SUBSET Mentions}
  IN  UNION {[what : {"link"}, profile : {p}, link : pages(p) \cup alone(p)] : p \in Profiles}

MCEnvironments ==
  LET values(n) == IF n \in DOMAIN Numbers
                   THEN {Junk, Numbers[n].least - 1, Numbers[n].least, 2, 40, Numbers[n].most}
                   ELSE IF n \in DOMAIN Options THEN {Junk} \cup Options[n].from ELSE {"text"}
      of(n) == {[x \in {n} |-> v] : v \in values(n)}
      two(a, b) == {[x \in {a, b} |-> IF x = a THEN v ELSE w] : v \in values(a), w \in values(b)}
  IN  [what : {"environment"},
       env : UNION {of(n) : n \in Variables}
               \cup two("CACHE_HIT_COST_CENTS", "CACHE_MISS_COST_CENTS")
               \cup two("MAX_RETRIES", "RETRY_BACKOFF_SECONDS")]

MCCallers == [what : {"callers"}, interval : {0, 2},
              callers : UNION {[1..n -> [now : {0, 1, 3, 6}, jitter : {0, 1}]] : n \in 1..3}]

MCPeriods ==
  LET dates == [year : 2020..2021, month : {1, 2, 11, 12}]
  IN  [what : {"period"}, start : dates, end : dates \cup {None}, now : dates]

-----------------------------------------------------------------------------

Position(urn, title, companyName, company, start) ==
  [urn |-> urn, title |-> title, companyName |-> companyName, company |-> company, start |-> start]

MCPositions(urn) ==
  {Position(urn, t[1], t[2], None, s) :
     t \in {<<"title", None>>, <<None, "own">>, <<"title", "own">>, <<None, None>>},
     s \in {None, Date(2020, None), Date(2020, 5), Date(2021, 1)}}

Member(urn, name, size, followers) ==
  [urn |-> urn, named |-> TRUE, name |-> name, identifier |-> name, size |-> size,
   followers |-> followers, connections |-> None, following |-> u1, birthday |-> None]

Nobody == [members |-> <<>>, positions |-> <<>>, following |-> <<>>, entities |-> <<>>]

Owner == [Member(u1, "owner", 2, 5) EXCEPT !.birthday = "june"]
Plain == [what |-> "member",
  member |-> [record |-> Owner, guests |-> Nobody, alone |-> <<>>, groups |-> <<>>,
              following |-> <<>>, skills |-> <<>>, entities |-> <<>>]]

\* Members with two positions in a group of which one may stand alone too, and one more.
MCExperienced ==
  LET other == Position(u4, None, "own", None, Date(2020, 5))
      with(p, q, name, alone) ==
        [Plain EXCEPT !.member.alone = alone,
                      !.member.groups = <<[companyName |-> name, company |-> None,
                                           items |-> <<p, q>>]>>]
  IN  UNION {{with(p, q, name, <<>>), with(p, q, name, <<p>>), with(p, q, name, <<other>>)} :
               p \in MCPositions(u2), q \in MCPositions(u3), name \in {None, "group"}}

Skill(name, count, num) == [urn |-> u2, name |-> name, endorsementCount |-> count, numEndorsements |-> num]

MCSkillItems ==
  {<<>>} \cup
  {<<[a EXCEPT !.urn = u2], [b EXCEPT !.urn = u3]>> :
     a \in {Skill(n, 0, 7) : n \in {None, Text("tla", FALSE)}},
     b \in {Skill(n, c, None) : n \in {Text("tla", FALSE), Text("tla", TRUE), Text("rust", FALSE)},
                                c \in {None, 0, 3}}}

Entity(urn, section, fields) == [urn |-> urn, section |-> section, fields |-> fields, start |-> None]

\* Members with skills and an entry in some section, and another in it who has more to
\* say, a position or an entry of some section.
MCSections ==
  {[Plain EXCEPT !.member.guests.members = g, !.member.guests.positions = gp,
                 !.member.guests.entities = ge,
                 !.member.record.name = name, !.member.record.identifier = name,
                 !.member.skills = sk, !.member.entities = <<Entity(u4, s, fs)>>] :
     g \in {<<>>, <<Member(u2, "guest", 9, 1)>>},
     gp \in {<<>>, <<Position(u3, None, "own", None, None)>>},
     ge \in {<<>>, <<Entity(u3, "honors", {"title"})>>},
     name \in {None, "owner"},
     sk \in MCSkillItems,
     s \in {"education", "honors", "patents", "courses"},
     fs \in {{}, {"name"}, {"title"}, {"school"}}}

\* Members with or without followers, connections and a following state of their own,
\* and what others follow.
MCNetworks ==
  LET State(urn, followers, following) == [urn |-> urn, followers |-> followers, following |-> following]
      counts == {None, 8}
  IN  {[Plain EXCEPT !.member.record.followers = n, !.member.record.connections = c,
                     !.member.following = own, !.member.guests.following = others] :
         n \in counts, c \in counts,
         own \in {<<>>} \cup {<<State(u1, f, yes)>> : f \in {None, 6}, yes \in {None, TRUE}},
         others \in {<<>>} \cup {<<State(u3, f, FALSE)>> : f \in counts}
                    \cup {<<State(u3, None, FALSE), State(u4, 3, FALSE)>>}}

MCCards ==
  LET mails == {<<>>, <<Text("m", FALSE)>>,
                <<Text("m", FALSE), Text("m", TRUE), None, Text("n", FALSE)>>}
      cards == {ContactInfo([NoLists EXCEPT !.emails = e, !.websites = w], b) :
                  e \in mails, w \in {<<>>, <<Text("w", TRUE)>>}, b \in {None, "may"}}
      drafts == {[member |-> DashIdentity(Owner),
                  sections |-> [s \in SectionFields |-> <<>>],
                  network |-> n, contact |-> c] :
                   n \in {None, [NoNetwork EXCEPT !.followers = 5]},
                   c \in {None, ContactInfo(NoLists, "june"),
                          ContactInfo([NoLists EXCEPT !.emails = <<Text("m", TRUE)>>], None)}}
  IN  [what : {"card"}, draft : drafts, card : cards,
       skills : {None} \cup MCSkillItems,
       network : {None, [NoNetwork EXCEPT !.followers = 1, !.connections = 2, !.following = TRUE]}]

MCInputs == MCLinks \cup MCEnvironments \cup MCCallers \cup MCPeriods
              \cup MCExperienced \cup MCSections \cup MCNetworks \cup MCCards
=============================================================================
