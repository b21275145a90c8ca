------------------------------ MODULE DashProfile ------------------------------
(***************************************************************************)
(* Profiles in LinkedIn's current model (parser/dash.rs), in two envelopes *)
(* (parser/normalized.rs).  The embedded one nests positions and the other *)
(* sections in the member's record; the normalised one is a flat list of   *)
(* entities, found by type and by URN.                                     *)
(*                                                                         *)
(* A payload's entities are kept apart by type, as of_type finds them; an  *)
(* entity of one of the plain sections is the set of its fields that have  *)
(* text, for that is what decides whether it is published.                 *)
(***************************************************************************)
EXTENDS Fields, SequencesExt

CONSTANT Urns

SectionFields == {"experience", "education", "skills", "certifications", "languages", "projects",
                  "publications", "honors", "volunteering", "courses", "patents", "test_scores",
                  "organizations"}

\* An entity of a section is published if it has text in one of these (education: if it
\* has one of the keys, whatever is there).
Needs == [experience |-> {"title", "companyName"},
          education |-> {"schoolName", "school", "degreeName", "schoolUrn"},
          skills |-> {"name"}, certifications |-> {"name"}, languages |-> {"name"},
          projects |-> {"title", "name"}, publications |-> {"name", "title"},
          honors |-> {"title", "name"}, volunteering |-> {}, courses |-> {"name"},
          patents |-> {}, test_scores |-> {"name"}, organizations |-> {"name"}]
Published(section, fields) == Needs[section] = {} \/ Needs[section] \cap fields # {}

-----------------------------------------------------------------------------
(* The index of a normalised envelope                                      *)

ByUrn(entities, urn) ==
  LET at == {i \in DOMAIN entities : entities[i].urn = urn}
  IN  IF at = {} THEN None ELSE entities[CHOOSE i \in at : \A j \in at : j <= i]

\* Entities with a URN, in the order in which the URNs first occur; of two entities
\* with one URN the last is kept.
Index(entities) ==
  LET first(i) == entities[i].urn # None /\ \A j \in 1..i-1 : entities[j].urn # entities[i].urn
      heads    == SelectSeq([i \in DOMAIN entities |-> i], first)
  IN  [n \in DOMAIN heads |-> ByUrn(entities, entities[heads[n]].urn)]

\* entities_of: the collection in the root, or what the index has of the type.
EntitiesOf(payload, entities) == IF payload.normalised THEN Index(entities) ELSE entities

-----------------------------------------------------------------------------
(* The member                                                              *)

\* Mutant: the record with the most fields, whoever the payload says it is about.
LargestRoot(payload) ==
  LET candidates == SelectSeq(Index(payload.members), LAMBDA m : m.named)
      largest    == {i \in DOMAIN candidates :
                       \A j \in DOMAIN candidates : candidates[j].size <= candidates[i].size}
  IN  IF candidates = <<>> THEN None
      ELSE candidates[CHOOSE i \in largest : \A j \in largest : j <= i]

\* The record the data points to, if it looks like a member's; or else the last of
\* those with the most fields.
NormalisedRoot(payload) ==
  LET candidates == SelectSeq(Index(payload.members), LAMBDA m : m.named)
      pointed    == {i \in DOMAIN candidates : candidates[i].urn = payload.pointer}
      largest    == {i \in DOMAIN candidates :
                       \A j \in DOMAIN candidates : candidates[j].size <= candidates[i].size}
  IN  IF candidates = <<>> THEN None
      ELSE IF payload.pointer # None /\ pointed # {} THEN candidates[CHOOSE i \in pointed : TRUE]
      ELSE candidates[CHOOSE i \in largest : \A j \in largest : j <= i]

\* The first that looks like a member's: of the elements, and then the payload itself.
EmbeddedRoot(payload) ==
  LET named == SelectSeq(payload.members, LAMBDA m : m.named)
  IN  IF named = <<>> THEN None ELSE Head(named)

Root(payload) == IF payload.normalised THEN NormalisedRoot(payload) ELSE EmbeddedRoot(payload)

NetworkFields == {"followers", "connections", "distance", "following"}
NoNetwork     == [f \in NetworkFields |-> None]

\* Followers are the root's own, or those of its following state, or else those of
\* the first following state in the index, whoever is followed there.  A network that
\* says nothing is none.
Network(payload, root) ==
  LET Field(state, f) == IF state = None THEN None ELSE state[f]
      own     == ByUrn(payload.following, root.following)
      indexed == IF payload.normalised THEN Index(payload.following) ELSE <<>>
      first   == IF indexed = <<>> THEN None ELSE Head(indexed)
      network == [NoNetwork EXCEPT
                    !.followers   = Or(root.followers, Or(Field(own, "followers"), Field(first, "followers"))),
                    !.connections = root.connections,
                    !.following   = Field(own, "following")]
  IN  IF network = NoNetwork THEN None ELSE network

DashIdentity(root) == [urn |-> root.urn, name |-> root.name, identifier |-> root.identifier]

-----------------------------------------------------------------------------
(* Positions                                                               *)

\* An item of a group is a record, or the URN of one in the index (or of none).
GroupPositions(payload, group) ==
  LET resolve(item) == IF item \notin Urns THEN item
                       ELSE IF payload.normalised THEN ByUrn(payload.positions, item) ELSE None
  IN  [i \in DOMAIN group.items |-> resolve(group.items[i])]

\* Mutant: the group's details replace those of the position.
MergedOver(group, position) ==
  [position EXCEPT !.companyName = Or(group.companyName, @), !.company = Or(group.company, @)]

\* A position takes the company's details from its group where it lacks the key; a null
\* in it would keep the group's out, and is no None here.
Merged(group, position) ==
  [position EXCEPT !.companyName = Or(@, group.companyName), !.company = Or(@, group.company)]

\* Every position but those whose URN (or lack of one) has been seen.
Add(sofar, group, position) ==
  IF position = None \/ position.urn \in sofar.seen THEN sofar
  ELSE [seen |-> sofar.seen \cup {position.urn},
        positions |-> Append(sofar.positions, Merged(group, position))]

Unwrap(sofar, payload, group) ==
  LET positions == GroupPositions(payload, group)
      added[n \in 0..Len(positions)] ==
        IF n = 0 THEN sofar ELSE Add(added[n - 1], group, positions[n])
  IN  added[Len(positions)]

\* Positions that stand alone, or that the index has, and then those of the groups.
FlattenPositions(payload) ==
  LET alone == EntitiesOf(payload, payload.positions)
      flat[n \in 0..Len(payload.groups)] ==
        IF n = 0 THEN [seen |-> {alone[i].urn : i \in DOMAIN alone}, positions |-> alone]
        ELSE Unwrap(flat[n - 1], payload, payload.groups[n])
  IN  flat[Len(payload.groups)].positions

\* experience_sort_key: undated last, the latest start first, no month as month zero.
NewestFirst(a, b) ==
  LET dated(p) == p.start # None /\ p.start.year # None
      month(p) == IF p.start.month = None THEN 0 ELSE p.start.month
  IN  \/ dated(a) /\ ~dated(b)
      \/ dated(a) /\ dated(b) /\ a.start.year > b.start.year
      \/ dated(a) /\ dated(b) /\ a.start.year = b.start.year /\ month(a) > month(b)

TextFields(position) == {f \in {"title", "companyName"} : position[f] # None}

Experience(payload) ==
  LET flat == FlattenPositions(payload)
      kept == {i \in DOMAIN flat : Published("experience", TextFields(flat[i]))}
  IN  SortSome(flat, kept, NewestFirst)

-----------------------------------------------------------------------------
(* Skills and the other sections                                           *)

Endorsements(skill) ==
  IF skill.endorsementCount \in {None, 0} THEN skill.numEndorsements ELSE skill.endorsementCount

\* The first of the skills that differ in upper case only.
AddSkill(skills, skill) ==
  IF skill.name = None \/ \E i \in DOMAIN skills : Lower(skills[i].name) = Lower(skill.name)
  THEN skills
  ELSE Append(skills, [name |-> skill.name, endorsements |-> Endorsements(skill)])

Skills(items) ==
  LET skills[n \in 0..Len(items)] ==
        IF n = 0 THEN <<>> ELSE AddSkill(skills[n - 1], items[n])
  IN  skills[Len(items)]

Section(payload, section) ==
  SelectSeq(EntitiesOf(payload, payload.entities),
            LAMBDA e : e.section = section /\ Published(section, e.fields))

\* The sections as the draft holds them; education is sorted as experience is.
ParseDashProfile(payload) ==
  LET root == Root(payload)
  IN  IF root = None THEN None
      ELSE [member |-> root,
            sections |-> [s \in SectionFields |->
              CASE s = "experience" -> Experience(payload)
                [] s = "skills" -> Skills(EntitiesOf(payload, payload.skills))
                [] s = "education" -> SortByKey(Section(payload, s), NewestFirst)
                [] OTHER -> Section(payload, s)],
            network |-> Network(payload, root),
            birthday |-> root.birthday]

=============================================================================
