----------------------------- MODULE LegacyProfile -----------------------------
(***************************************************************************)
(* Profiles in the retired profileView projection, with the core record    *)
(* that may come beside it (parser/legacy.rs).  Each section is mapped     *)
(* element by element, in LinkedIn's order, and nothing but a skill        *)
(* without a name is left out.                                             *)
(***************************************************************************)
EXTENDS DashProfile

\* The first thing that is said of the member in a field.
FirstSaid(sources, field) ==
  LET said == SelectSeq([i \in DOMAIN sources |-> sources[i][field]], LAMBDA v : v # None)
  IN  IF said = <<>> THEN None ELSE Head(said)

\* A view with a profile, or a core record, is content.
LegacyHasContent(view, core) == (view # None /\ view.profile # None) \/ core # None

LegacySources(view, core) ==
  SelectSeq(<<IF view = None THEN None ELSE view.profile, core>>, LAMBDA s : s # None)

\* A source goes before the miniProfile in any; a miniProfile has no identifier's say.
LegacyIdentity(view, core) ==
  LET sources == LegacySources(view, core)
      minis   == SelectSeq([i \in DOMAIN sources |-> sources[i].mini], LAMBDA m : m # None)
  IN  [urn        |-> Or(FirstSaid(sources, "urn"), FirstSaid(minis, "urn")),
       name       |-> Or(FirstSaid(sources, "name"), FirstSaid(minis, "name")),
       identifier |-> FirstSaid(sources, "identifier")]

LegacyExperience(view) == view.positions

LegacySections(view) ==
  [s \in SectionFields |->
     CASE s = "experience" -> LegacyExperience(view)
       [] s = "skills" -> Skills(view.skills)
       [] OTHER -> SelectSeq(view.entities, LAMBDA e : e.section = s)]

=============================================================================
