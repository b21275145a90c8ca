-------------------------------- MODULE Fields --------------------------------
(***************************************************************************)
(* What the parsers of both profile models share (parser/common.rs): a     *)
(* field that is absent, null, blank or of the wrong type is None; order,  *)
(* dates and the months between them.                                      *)
(***************************************************************************)
EXTENDS Integers, Sequences, FiniteSets

CONSTANT None

\* Option::or.
Or(a, b) == IF a # None THEN a ELSE b

\* What HashMap and HashSet key texts by, when the code lowercases them.
Text(word, upper) == [word |-> word, upper |-> upper]
Lower(text)       == text.word

Written     == [word : STRING, upper : BOOLEAN]
OnePerWord(texts) == \A i, j \in DOMAIN texts : Lower(texts[i]) = Lower(texts[j]) => i = j

\* sort_by_key, of the elements at some of the indices: stable.
SortSome(seq, at, Before(_, _)) ==
  LET ahead(i, j) == Before(seq[i], seq[j]) \/ (i < j /\ ~Before(seq[j], seq[i]))
  IN  [n \in 1..Cardinality(at) |->
         seq[CHOOSE i \in at : Cardinality({j \in at : ahead(j, i)}) = n - 1]]

SortByKey(seq, Before(_, _)) == SortSome(seq, DOMAIN seq, Before)

-----------------------------------------------------------------------------
(* Dates: a year and a month, of which one may be None                     *)

Date(year, month) == IF year = None /\ month = None THEN None
                     ELSE [year |-> year, month |-> month]

\* Mutant: the month it ends in is not counted.
MonthsUncounted(start, end, now) ==
  LET to == Or(end, now)
  IN  IF start = None \/ None \in {start.year, start.month, to.year, to.month} THEN None
      ELSE LET months == (to.year - start.year) * 12 + (to.month - start.month)
           IN  IF months <= 0 THEN None ELSE months

\* Both ends count; what is not known, or ends before it starts, has no duration.
DurationMonths(start, end, now) ==
  LET to == Or(end, now)
  IN  IF start = None \/ None \in {start.year, start.month, to.year, to.month} THEN None
      ELSE LET months == (to.year - start.year) * 12 + (to.month - start.month) + 1
           IN  IF months <= 0 THEN None ELSE months

\* A period without an end is current, in the sections where that is so.
ParseTimePeriod(start, end, openEnded, now) ==
  LET current == openEnded /\ end = None /\ start # None
  IN  IF start = None /\ end = None THEN None
      ELSE [start |-> start, end |-> end, current |-> current,
            duration |-> IF end # None \/ current THEN DurationMonths(start, end, now) ELSE None]

\* The label spells a duration in years and months.
HumaniseDuration(months) ==
  IF months = None THEN None ELSE [years |-> months \div 12, months |-> months % 12]

=============================================================================
