-------------------------------- MODULE Lookup --------------------------------
(***************************************************************************)
(* What the process reads from outside, and what it makes of it: requests  *)
(* that go through Repository; and, one at a time, an environment, a link, *)
(* the profile of a member, a contact card, a period of time, the callers  *)
(* of the throttle.  The operators on the latter are those of the parsing  *)
(* modules; here is what they promise for any input.                       *)
(***************************************************************************)
EXTENDS Repository, ProfileDraft, ProfileUrl, Throttle, Configuration

CONSTANT Inputs

\* The profiles links are of: one that is asked for by a name, one by an obfuscated id.
Profiles == {"ada", "ACoA"}

\* A link to a profile has its name, plain or escaped, and maybe a query: alone, or on
\* a page of LinkedIn's, behind the first segment that says `in`.  Another case makes
\* another obfuscated id, and the same name.
IsLinkTo(link, profile) ==
  LET isName(segment) == /\ segment.word = profile /\ (profile = "ACoA" => ~segment.upper)
                         /\ segment.written \in {"plain", "escaped", "escapedTail"}
      isIn(segment) == segment.word = "in" /\ segment.written = "plain"
  IN  \/ \E name \in Segments : isName(name) /\ link = Bare(name, link.query)
      \/ /\ IsAllowedHost(link.host) /\ ~link.login
         /\ \E i \in 1..Len(link.path) - 1 :
              /\ isIn(link.path[i]) /\ \A h \in 1..i-1 : ~isIn(link.path[h])
              /\ isName(link.path[i + 1])

\* Links whose query is taken for a part of the address: one without a scheme whose
\* query mentions //, and a name alone whose query mentions linkedin.com.
Misread(link) ==
  /\ ~link.scheme
  /\ \/ "//" \in link.query
     \/ link.host = NoHost /\ "linkedin.com" \in link.query

Months == [year : Int, month : 1..12]

AtMost(a, b)  == a.year < b.year \/ (a.year = b.year /\ a.month <= b.month)
Between(a, b) == {m \in [year : a.year..b.year, month : 1..12] : AtMost(a, m) /\ AtMost(m, b)}

SkillItems == [urn : Urns \cup {None}, name : Written \cup {None},
               endorsementCount : Nat \cup {None}, numEndorsements : Nat \cup {None}]
Positions  == [urn : Urns \cup {None}, title : STRING \cup {None},
               companyName : STRING \cup {None}, company : STRING \cup {None},
               start : [year : Nat \cup {None}, month : 1..12 \cup {None}] \cup {None}]
Groups     == [companyName : STRING \cup {None}, company : STRING \cup {None}, items : Seq(Positions)]
Networks   == [followers : Nat \cup {None}, connections : Nat \cup {None},
               distance : STRING \cup {None}, following : BOOLEAN \cup {None}]
Contacts(entries) == [lists : [ContactLists -> Seq(entries)], birthday : STRING \cup {None}]

ListsOf(contact)   == IF contact = None THEN NoLists ELSE contact.lists
WordsOf(entries)   == {Lower(entries[i]) : i \in {j \in DOMAIN entries : entries[j] # None}}
SkillNames(skills) == [i \in DOMAIN skills |-> skills[i].name]

\* A member whose positions, alone or in groups, have a URN each (or one of them none).
IsMember(m) ==
  /\ m.alone \in Seq(Positions)
  /\ \A i, j \in DOMAIN m.alone : m.alone[i].urn = m.alone[j].urn => i = j
  /\ m.groups \in Seq(Groups)
  /\ \A g, h \in DOMAIN m.groups : \A i \in DOMAIN m.groups[g].items, j \in DOMAIN m.groups[h].items :
       m.groups[g].items[i].urn = m.groups[h].items[j].urn => g = h /\ i = j

\* A draft as a parser leaves it: none of its skills is there twice.
IsDraft(d) ==
  /\ DOMAIN d = {"member", "sections", "network", "contact"}
  /\ DOMAIN d.sections = SectionFields /\ OnePerWord(SkillNames(d.sections["skills"]))
  /\ d.network \in Networks \cup {None}
  /\ d.contact \in Contacts(Written) \cup {None}

\* What the inputs are: the rest of their shapes is what the parsers leave open.
ASSUME InputsAssumption ==
  /\ None \notin Int \cup STRING \cup Months \cup Written
  /\ None \notin Positions \cup Networks \cup Contacts(Written \cup {None})
  /\ Urns \cap Positions = {}
  /\ \A x \in Inputs :
       /\ x.what = "link" => /\ x.profile \in Profiles /\ IsLinkTo(x.link, x.profile)
                             /\ x.link.path \in Seq(Segments) /\ x.link.scheme \in BOOLEAN
       /\ x.what = "callers" => x.callers \in Seq([now : Nat, jitter : Nat]) /\ x.interval \in Nat
       /\ x.what = "period" => /\ x.start \in Months /\ x.end \in Months \cup {None}
                               /\ x.now \in Months
       /\ x.what = "member" => IsMember(x.member)
       /\ x.what = "card" => /\ IsDraft(x.draft) /\ x.card \in Contacts(Written \cup {None})
                             /\ x.network \in Networks \cup {None}
                             /\ x.skills \in Seq(SkillItems) \cup {None}

VARIABLE input

NoInput == [what |-> "none"]

LookupInit == Init /\ input = NoInput

Request == input = NoInput /\ Next /\ UNCHANGED input

Read ==
  /\ pc = "start"
  /\ ~exposed
  /\ input = NoInput
  /\ input' \in Inputs
  /\ UNCHANGED vars

LookupNext == Request \/ Read

LookupSpec == LookupInit /\ [][LookupNext]_<<vars, input>>

-----------------------------------------------------------------------------

\* url.rs:3-6, "accepts anything a human might paste": a profile's link (a name alone or
\* a page, on a country's host, with a locale or another page after the name, escapes, a
\* query) comes to the one cache key of the profile, and to the kind of its identifier.
\* But not every link is accepted: Misread ones, and none else, are refused.
OneKeyPerProfile ==
  input.what = "link" =>
    LET ref == ParseProfileUrl(input.link)
    IN  /\ ref.ok <=> ~Misread(input.link)
        /\ ref.ok => /\ CacheKey(ref.identifier) = [word |-> input.profile, more |-> FALSE]
                     /\ ref.kind = IF input.profile = "ACoA" THEN "obfuscated" ELSE "vanity"


\* throttle.rs:41-43: in whatever order callers reach the mutex, no slot is before its
\* caller or closer than the interval to any other; so a caller that is dropped while
\* it waits leaves a gap, and no burst.  (Of slots: a caller may be late to send.)
SlotsSpaced ==
  input.what = "callers" =>
    LET slots == Slots(input.callers, input.interval)
    IN  \A i \in DOMAIN slots :
          /\ slots[i] >= input.callers[i].now
          /\ \A j \in 1..i-1 : slots[i] - slots[j] >= input.interval

\* common.rs:177-216: a duration is the number of months the period touches, those it
\* begins and ends in among them, and its label adds up to it.
PeriodCountsMonths ==
  input.what = "period" =>
    LET period  == ParseTimePeriod(input.start, input.end, TRUE, input.now)
        touched == Between(input.start, Or(input.end, input.now))
        label   == HumaniseDuration(period.duration)
    IN  IF touched = {} THEN period.duration = None
        ELSE /\ period.duration = Cardinality(touched)
             /\ label.months \in 0..11
             /\ 12 * label.years + label.months = period.duration

-----------------------------------------------------------------------------
(* A member, and how LinkedIn may send it                                  *)

\* In the embedded envelope the member's record nests all there is.
Embedded(m) ==
  [normalised |-> FALSE, members |-> <<m.record>>, pointer |-> None, positions |-> m.alone,
   groups |-> m.groups, following |-> m.following, skills |-> m.skills, entities |-> m.entities]

Grouped(m) == FlattenSeq([g \in DOMAIN m.groups |-> m.groups[g].items])

\* In the normalised one other members, what is followed there and what they have done
\* may be among the entities, and a group refers to its positions.
Normalised(m) ==
  [normalised |-> TRUE, members |-> m.guests.members \o <<m.record>>, pointer |-> m.record.urn,
   positions |-> m.guests.positions \o m.alone \o Grouped(m),
   groups |-> [g \in DOMAIN m.groups |->
                 [m.groups[g] EXCEPT !.items = [i \in DOMAIN @ |-> @[i].urn]]],
   following |-> m.guests.following \o m.following,
   skills |-> m.skills, entities |-> m.guests.entities \o m.entities]

Projected(m) ==
  [profile |-> [urn |-> m.record.urn, name |-> m.record.name, identifier |-> m.record.identifier,
                mini |-> None],
   positions |-> m.alone \o Grouped(m), skills |-> m.skills, entities |-> m.entities]

\* A group that has something to say which one of its positions leaves out, and that
\* position is published and stands nowhere but in the group.
Inherits(m) ==
  \E g \in DOMAIN m.groups : \E i \in DOMAIN m.groups[g].items :
    LET p == m.groups[g].items[i]
    IN  /\ \A n \in DOMAIN m.alone : m.alone[n].urn # p.urn
        /\ Merged(m.groups[g], p) # p
        /\ Published("experience", TextFields(Merged(m.groups[g], p)))

\* Nobody says how many follow the member, but the first that is followed has followers.
BorrowsFollowers(m) ==
  /\ None = Or(m.record.followers,
               IF m.following = <<>> THEN None ELSE m.following[1].followers)
  /\ m.guests.following # <<>> /\ m.guests.following[1].followers # None

\* What the envelopes differ in: the normalised one hands nothing down in a group, takes
\* the followers of whoever is followed first, and what other members have done.  (Their
\* skills too, which are left out.)
Drifts(m) ==
  {s \in SectionFields :
     \/ s = "experience" /\ Inherits(m)
     \/ s = "experience" /\ \E i \in DOMAIN m.guests.positions :
                              Published(s, TextFields(m.guests.positions[i]))
     \/ \E i \in DOMAIN m.guests.entities : LET e == m.guests.entities[i]
                                           IN  e.section = s /\ Published(s, e.fields)}
  \cup {f \in {"network"} : BorrowsFollowers(m)}

\* Two drafts of one member differ in just the parts in drifts; and the normalised one
\* is there where the embedded one is, or where a section in drifts is all there is.
DifferIn(drifts, embedded, normalised) ==
  /\ embedded # None => normalised # None
  /\ embedded = None /\ normalised # None => drifts \cap SectionFields # {}
  /\ embedded # None =>
       /\ normalised.member = embedded.member /\ normalised.contact = embedded.contact
       /\ {s \in SectionFields : normalised.sections[s] # embedded.sections[s]} =
            drifts \cap SectionFields
       /\ normalised.network # embedded.network <=> "network" \in drifts

\* The legacy draft has the member and every entry of the embedded one, if there is that.
HasAllOf(legacy, embedded) ==
  embedded # None =>
    /\ legacy.member = embedded.member
    /\ \A s \in SectionFields : ToSet(embedded.sections[s]) \subseteq ToSet(legacy.sections[s])

\* dash.rs:5-8, "so the two envelopes cannot drift apart", and golden_profile.rs:1-2:
\* both envelopes of a member make the same draft, whoever else is in one, but for the
\* parts in Drifts; and those do drift.  The retired projection, where it has the
\* member, has every entry that positions do not inherit a part of.
EnvelopesAgree ==
  input.what = "member" =>
    /\ DifferIn(Drifts(input.member), DraftFromDash(Embedded(input.member)),
                DraftFromDash(Normalised(input.member)))
    /\ ~Inherits(input.member) =>
         HasAllOf(DraftFromLegacy(Projected(input.member), None),
                  DraftFromDash(Embedded(input.member)))

\* dash.rs:792-795: in the embedded envelope every position with a title or a company is
\* in the experience just once, be it alone, in a group or in both; the newest come
\* first, those without a date last.  One that stands in a group only has the company it
\* names itself or else that of its group.  But "inherited when a role omits them" is not
\* so of one that stands alone too: the group says nothing to it.  (Nor is it of any in
\* the normalised envelope, of which all stand alone: see Inherits in EnvelopesAgree.)
ExperienceComplete ==
  input.what = "member" =>
    LET m       == input.member
        listed  == Experience(Embedded(m))
        alone   == {[position |-> m.alone[i], companyName |-> m.alone[i].companyName] :
                      i \in DOMAIN m.alone}
        grouped == UNION {{[position |-> m.groups[g].items[i],
                            companyName |-> Or(m.groups[g].items[i].companyName,
                                               m.groups[g].companyName)] :
                             i \in DOMAIN m.groups[g].items} : g \in DOMAIN m.groups}
        there   == {r.position.urn : r \in alone}
        start(p) == IF p.start = None \/ p.start.year = None THEN -1
                    ELSE 12 * p.start.year + Or(p.start.month, 0)
    IN  /\ \A r \in alone \cup {x \in grouped : x.position.urn \notin there} :
             r.position.title # None \/ r.companyName # None =>
               \E n \in DOMAIN listed :
                 /\ listed[n].companyName = r.companyName
                 /\ {i \in DOMAIN listed : listed[i].urn = r.position.urn} = {n}
        /\ \A i \in DOMAIN listed, j \in DOMAIN listed :
             i < j => start(listed[i]) >= start(listed[j])

-----------------------------------------------------------------------------

BirthdayOf(contact) == IF contact = None THEN None ELSE contact.birthday
FieldOf(network, f) == IF network = None THEN None ELSE network[f]
Named(skills)       == WordsOf(SkillNames(skills))

\* draft.rs:125-170, contact.rs:83-90: enriching a draft takes nothing from it but the
\* skills it replaces, and those only where the call found any; it takes all the card
\* says, and of the network and the birthday what is not known yet; twice is as good as
\* once; and a draft that had no lists gets none with an entry twice, in whatever case.
EnrichmentKeeps ==
  input.what = "card" =>
    LET before == input.draft
        after  == EnrichDraft(before, input.skills, input.network, input.card)
    IN  /\ EnrichDraft(after, input.skills, input.network, input.card) = after
        /\ \A f \in NetworkFields :
             /\ FieldOf(before.network, f) \in {None, FieldOf(after.network, f)}
             /\ FieldOf(before.network, f) = None =>
                  FieldOf(input.network, f) = FieldOf(after.network, f)
        /\ BirthdayOf(before.contact) \in {None, BirthdayOf(after.contact)}
        /\ BirthdayOf(before.contact) = None =>
             input.card.birthday = BirthdayOf(after.contact)
        /\ \A l \in ContactLists :
             /\ IsPrefix(ListsOf(before.contact)[l], ListsOf(after.contact)[l])
             /\ WordsOf(input.card.lists[l]) \subseteq WordsOf(ListsOf(after.contact)[l])
             /\ ListsOf(before.contact)[l] = <<>> => OnePerWord(ListsOf(after.contact)[l])
        /\ OnePerWord(SkillNames(after.sections["skills"]))
        /\ IF input.skills = None \/ Named(input.skills) = {} THEN after.sections = before.sections
           ELSE Named(after.sections["skills"]) = Named(input.skills)

=============================================================================
