------------------------------ MODULE ProfileDraft ------------------------------
(***************************************************************************)
(* The draft both profile models are reduced to (parser/draft.rs), the     *)
(* contact card (parser/contact.rs), and what the assembler makes of them  *)
(* (parser/assembler.rs).                                                  *)
(***************************************************************************)
EXTENDS LegacyProfile

\* The lists of a contact, of which each is treated as the others are.
ContactLists == {"emails", "websites"}
NoLists == [l \in ContactLists |-> <<>>]

ContactInfo(lists, birthday) == [lists |-> lists, birthday |-> birthday]

-----------------------------------------------------------------------------
(* From a payload to a draft                                               *)

PopulatedSections(sections) == {s \in SectionFields : sections[s] # <<>>}

\* The headline, which counts too, goes with the name.
IsPopulated(draft) ==
  \/ draft.member.name # None \/ draft.member.identifier # None
  \/ PopulatedSections(draft.sections) # {}

Populated(draft) == IF IsPopulated(draft) THEN draft ELSE None

\* contact_from_profile: the birthday, if there is one.
DraftFromDash(payload) ==
  LET parsed == ParseDashProfile(payload)
  IN  IF parsed = None THEN None
      ELSE Populated(
        [member |-> DashIdentity(parsed.member),
         sections |-> parsed.sections,
         network |-> parsed.network,
         contact |-> IF parsed.birthday = None THEN None ELSE ContactInfo(NoLists, parsed.birthday)])

DraftFromLegacy(view, core) ==
  IF ~LegacyHasContent(view, core) THEN None
  ELSE Populated([member |-> LegacyIdentity(view, core),
                  sections |-> IF view = None THEN [s \in SectionFields |-> <<>>]
                               ELSE LegacySections(view),
                  network |-> None, contact |-> None])

-----------------------------------------------------------------------------
(* The contact card                                                        *)

PushUnique(list, entry) ==
  IF entry = None \/ \E i \in DOMAIN list : Lower(list[i]) = Lower(entry) THEN list
  ELSE Append(list, entry)

Pushed(entries) ==
  LET list[n \in 0..Len(entries)] ==
        IF n = 0 THEN <<>> ELSE PushUnique(list[n - 1], entries[n])
  IN  list[Len(entries)]

\* A card that says nothing is none.
ParseContactInfo(card) ==
  LET lists == [l \in ContactLists |-> Pushed(card.lists[l])]
  IN  IF lists = NoLists /\ card.birthday = None THEN None ELSE ContactInfo(lists, card.birthday)

-----------------------------------------------------------------------------
(* Enrichment                                                              *)

MergeLists(existing, incoming) ==
  LET merged[n \in 0..Len(incoming)] ==
        IF n = 0 THEN existing
        ELSE IF Contains(merged[n - 1], incoming[n]) THEN merged[n - 1]
        ELSE Append(merged[n - 1], incoming[n])
  IN  merged[Len(incoming)]

\* Mutant: the card's birthday replaces the profile's.
MergeContactOver(existing, card) ==
  IF existing = None \/ card = None THEN Or(existing, card)
  ELSE ContactInfo([l \in ContactLists |-> MergeLists(existing.lists[l], card.lists[l])],
               Or(card.birthday, existing.birthday))

\* The lists are joined; a single value is taken where there is none.
MergeContact(existing, card) ==
  IF existing = None \/ card = None THEN Or(existing, card)
  ELSE ContactInfo([l \in ContactLists |-> MergeLists(existing.lists[l], card.lists[l])],
               Or(existing.birthday, card.birthday))

FillNetwork(existing, network) ==
  IF existing = None \/ network = None THEN Or(existing, network)
  ELSE [f \in NetworkFields |-> Or(existing[f], network[f])]

AdoptSkills(sections, skills) ==
  IF skills = <<>> THEN sections ELSE [sections EXCEPT !["skills"] = skills]

\* A payload of another call is None when the call was not made, or failed.
EnrichDraft(draft, skills, network, card) ==
  [draft EXCEPT !.sections = AdoptSkills(@, IF skills = None THEN <<>> ELSE Skills(skills)),
                !.network = FillNetwork(@, network),
                !.contact = MergeContact(@, IF card = None THEN None ELSE ParseContactInfo(card))]

-----------------------------------------------------------------------------

\* The profile that is published, for the link it was asked by; completeness is
\* the share of the sections that are populated, in thousandths.
BuildProfile(ref, draft) ==
  LET populated == PopulatedSections(draft.sections)
  IN  [draft |-> draft,
       identifier |-> Or(draft.member.identifier,
                         IF ref.kind = "vanity" THEN ref.identifier ELSE None),
       populated |-> populated,
       completeness |-> (2000 * Cardinality(populated) + 13) \div 26]

=============================================================================
