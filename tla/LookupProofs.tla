------------------------------ MODULE LookupProofs ------------------------------
(***************************************************************************)
(* What Lookup promises of inputs, for any set of them: links of any       *)
(* length, any number of callers, any two dates.                           *)
(*                                                                         *)
(* Nothing happens to an input once it is read, so each theorem is a fact  *)
(* about the operators that read it; those that go along a sequence are by *)
(* induction, of which the library's least elements are the ground.        *)
(***************************************************************************)
EXTENDS Lookup, FiniteSetTheorems, WellFoundedInduction, TLAPS

-----------------------------------------------------------------------------
(* Induction over the length of data                                       *)

\* A set of numbers has a least one: what an induction over the length of data rests on.
LEMMA Least == ASSUME NEW S \in SUBSET Nat, S # {} PROVE \E m \in S : \A k \in S : m <= k
<1> DEFINE R == OpToRel(<, Nat)
<1>1. R = {ss \in Nat \X Nat : ss[1] < ss[2]}
  BY DEF OpToRel
<1> HIDE DEF R
<1>2. IsWellFoundedOn(R, Nat)
  BY NatLessThanWellFounded DEF R
<1>3. PICK m \in S : \A k \in S : <<k, m>> \notin R
  BY <1>2, WFMin
<1>4. ASSUME NEW k \in S PROVE m <= k
  <2>1. ~(k < m)
    BY <1>1, <1>3
  <2> QED
    BY <2>1
<1> QED
  BY <1>3, <1>4

\* Induction over the numbers up to N, of a set.
LEMMA Induction ==
  ASSUME NEW N \in Nat, NEW S, 0 \in S, \A n \in 1..N : n - 1 \in S => n \in S
  PROVE  0..N \subseteq S
<1> DEFINE T == (0..N) \ S
<1> SUFFICES ASSUME T # {} PROVE FALSE
  OBVIOUS
<1>0. T \in SUBSET Nat
  OBVIOUS
<1>1. PICK m \in T : \A k \in T : m <= k
  <2> HIDE DEF T
  <2> QED
    BY <1>0, Least
<1>2. m \in 1..N /\ m - 1 \in 0..N /\ m - 1 \notin T
  BY <1>1
<1> QED
  BY <1>1, <1>2

\* g is what a recursive function is: `first` at 0, and then one Step after the other.
GoesOn(g, first, N, Step) == g[0] = first /\ \A n \in 1..N : g[n] = Step[<<g[n - 1], n>>]

\* Such a function exists, for any step that stays in A.
LEMMA Recursion ==
  ASSUME NEW A, NEW first \in A, NEW N \in Nat, NEW Step \in [A \X (1..N) -> A]
  PROVE  \E g \in [0..N -> A] : GoesOn(g, first, N, Step)
<1> DEFINE Upto(n, g) == g[0] = first /\ \A m \in 1..n : g[m] = Step[<<g[m - 1], m>>]
           S == {n \in 0..N : \E g \in [0..n -> A] : Upto(n, g)}
<1>1. 0 \in S
  <2>1. [m \in 0..0 |-> first] \in [0..0 -> A] /\ Upto(0, [m \in 0..0 |-> first])
    OBVIOUS
  <2>2. 0 \in 0..N
    OBVIOUS
  <2> HIDE DEF Upto
  <2> QED
    BY <2>1, <2>2
<1>2. ASSUME NEW n \in 1..N, n - 1 \in S PROVE n \in S
  <2>1. PICK g \in [0..n - 1 -> A] : Upto(n - 1, g)
    BY <1>2
  <2> DEFINE h == [m \in 0..n |-> IF m = n THEN Step[<<g[n - 1], n>>] ELSE g[m]]
  <2>2. g[n - 1] \in A
    BY <2>1
  <2>3. Step[<<g[n - 1], n>>] \in A
    BY <2>2
  <2>4. h \in [0..n -> A] /\ h[n] = Step[<<g[n - 1], n>>] /\ \A m \in 0..n - 1 : h[m] = g[m]
    BY <2>3
  <2> HIDE DEF h
  <2>5. h[0] = first
    BY <2>1, <2>4
  <2>6. ASSUME NEW m \in 1..n PROVE h[m] = Step[<<h[m - 1], m>>]
    <3>1. m - 1 \in 0..n - 1 /\ (m = n \/ m \in 1..n - 1)
      OBVIOUS
    <3> QED
      BY <2>1, <2>4, <3>1
  <2>7. n \in 0..N
    OBVIOUS
  <2> QED
    BY <2>4, <2>5, <2>6, <2>7
<1>3. N \in S
  <2> HIDE DEF S
  <2> QED
    BY <1>1, <1>2, Induction
<1> QED
  BY <1>3 DEF GoesOn

\* What holds at the start of a function and is passed on holds throughout.
LEMMA Throughout ==
  ASSUME NEW N \in Nat, NEW A, NEW g, g = [n \in 0..N |-> g[n]],
         g[0] \in A, \A n \in 1..N : g[n - 1] \in A => g[n] \in A
  PROVE  g \in [0..N -> A]
<1> DEFINE S == {n \in 0..N : g[n] \in A}
<1>1. 0 \in S /\ \A n \in 1..N : n - 1 \in S => n \in S
  OBVIOUS
<1>2. 0..N \subseteq S
  <2> HIDE DEF S
  <2> QED
    BY <1>1, Induction
<1> QED
  BY <1>2

\* What a sequence is, for all that is proved about them here.
LEMMA Elements ==
  ASSUME NEW A, NEW s \in Seq(A)
  PROVE  Len(s) \in Nat /\ DOMAIN s = 1..Len(s) /\ \A n \in 1..Len(s) : s[n] \in A
OBVIOUS

-----------------------------------------------------------------------------
(* The input                                                               *)

InputRead == input \in Inputs \cup {NoInput}

\* What is read is one of the inputs, and it stays what it is.
LEMMA InputKept == LookupSpec => []InputRead
<1>1. LookupInit => InputRead
  BY DEF LookupInit, InputRead
<1>2. InputRead /\ [LookupNext]_<<vars, input>> => InputRead'
  BY DEF InputRead, LookupNext, Request, Read, vars
<1> QED
  BY <1>1, <1>2, PTL DEF LookupSpec

-----------------------------------------------------------------------------
(* The callers of the throttle                                             *)

Callers == Seq([now : Nat, jitter : Nat])

\* The schedule is what its definition says, for any number of callers.
LEMMA ScheduleGoesOn ==
  ASSUME NEW callers \in Callers, NEW interval \in Nat
  PROVE  LET next == Schedule(callers, interval)
         IN  /\ next \in [0..Len(callers) -> Nat]
             /\ next[0] = 0
             /\ \A n \in 1..Len(callers) : next[n] = Reserve(next[n - 1], callers[n], interval)
<1> DEFINE N == Len(callers)
           next == Schedule(callers, interval)
           Step == [q \in Nat \X (1..N) |-> Reserve(q[1], callers[q[2]], interval)]
<1>1. N \in Nat /\ \A n \in 1..N : callers[n] \in [now : Nat, jitter : Nat]
  BY Elements DEF Callers
<1>2. \A a \in Nat, n \in 1..N : Reserve(a, callers[n], interval) \in Nat
  BY <1>1 DEF Reserve, Slot
<1>3. Step \in [Nat \X (1..N) -> Nat]
  BY <1>2
<1>4. \A a \in Nat, n \in 1..N : Step[<<a, n>>] = Reserve(a, callers[n], interval)
  OBVIOUS
<1>5. PICK g \in [0..N -> Nat] : g[0] = 0 /\ \A n \in 1..N : g[n] = Step[<<g[n - 1], n>>]
  <2>1. N \in Nat /\ 0 \in Nat
    BY <1>1
  <2> HIDE DEF N, Step
  <2>2. \E g \in [0..N -> Nat] : GoesOn(g, 0, N, Step)
    BY <1>3, <2>1, Recursion
  <2> QED
    BY <2>2 DEF GoesOn
<1>6. \A n \in 1..N : g[n] = Reserve(g[n - 1], callers[n], interval)
  <2> TAKE n \in 1..N
  <2> HIDE DEF N, Step
  <2>1. n - 1 \in 0..N
    BY <1>1
  <2>2. g[n - 1] \in Nat
    BY <2>1
  <2> QED
    BY <1>5, <1>4, <2>2
<1> DEFINE Body(h) == [n \in 0..N |-> IF n = 0 THEN 0 ELSE Reserve(h[n - 1], callers[n], interval)]
<1>7. g = Body(g)
  <2> HIDE DEF N
  <2>1. \A n \in 0..N : n = 0 \/ n \in 1..N
    BY <1>1
  <2> QED
    BY <1>5, <1>6, <2>1
<1>8. next = CHOOSE h : h = Body(h)
  BY DEF Schedule
<1>9. next = Body(next)
  <2> HIDE DEF next, Body
  <2> QED
    BY <1>7, <1>8
<1>10. next[0] = 0 /\ \A n \in 1..N : next[n] = Reserve(next[n - 1], callers[n], interval)
  <2> HIDE DEF next, N
  <2> QED
    BY <1>1, <1>9
<1>11. next \in [0..N -> Nat]
  <2> HIDE DEF next, N
  <2>1. next = [n \in 0..N |-> next[n]]
    BY <1>9
  <2>2. next[0] \in Nat /\ \A n \in 1..N : next[n - 1] \in Nat => next[n] \in Nat
    BY <1>2, <1>10
  <2> QED
    BY <1>1, <2>1, <2>2, Throughout
<1> QED
  BY <1>10, <1>11

\* RequestThrottle::acquire: a reservation never moves the schedule back, so every
\* slot is the interval away from those before it, however many callers there are.
THEOREM SlotsApart == LookupSpec => []SlotsSpaced
<1>1. ASSUME NEW callers \in Callers, NEW interval \in Nat
      PROVE  LET slots == Slots(callers, interval)
             IN  \A i \in DOMAIN slots :
                   /\ slots[i] >= callers[i].now
                   /\ \A j \in 1..i-1 : slots[i] - slots[j] >= interval
  <2> DEFINE N == Len(callers)
             next == Schedule(callers, interval)
             slots == Slots(callers, interval)
  <2>1. N \in Nat /\ \A n \in 1..N : callers[n] \in [now : Nat, jitter : Nat]
    BY Elements DEF Callers
  <2>2. next \in [0..N -> Nat] /\ \A n \in 1..N : next[n] = Reserve(next[n - 1], callers[n], interval)
    BY ScheduleGoesOn
  <2>3. slots = [n \in 1..N |-> Slot(next[n - 1], callers[n])]
    BY DEF Slots
  <2> HIDE DEF next, slots, N
  <2>4. ASSUME NEW n \in 1..N
        PROVE  /\ next[n - 1] \in Nat /\ next[n] \in Nat /\ slots[n] \in Nat
               /\ slots[n] >= callers[n].now /\ slots[n] >= next[n - 1]
               /\ next[n] >= slots[n] + interval
    <3>1. n - 1 \in 0..N /\ n \in 0..N
      BY <2>1
    <3>2. next[n - 1] \in Nat /\ next[n] \in Nat /\ callers[n].now \in Nat /\ callers[n].jitter \in Nat
      BY <2>1, <2>2, <3>1
    <3>3. slots[n] = Slot(next[n - 1], callers[n]) /\ next[n] = slots[n] + interval + callers[n].jitter
      BY <2>2, <2>3 DEF Reserve
    <3> QED
      BY <3>2, <3>3 DEF Slot
  <2>5. ASSUME NEW j \in 1..N PROVE \A m \in 0..N : m >= j => next[m] >= next[j]
    <3> DEFINE S == {m \in 0..N : m >= j => next[m] >= next[j]}
    <3>1. 0 \in S
      BY <2>1
    <3>2. ASSUME NEW m \in 1..N, m - 1 \in S PROVE m \in S
      <4>1. m = j \/ (m > j /\ m - 1 >= j) \/ m < j
        BY <2>1
      <4>2. next[m] >= next[m - 1] /\ next[m] \in Nat /\ next[m - 1] \in Nat /\ next[j] \in Nat
        BY <2>4
      <4> QED
        BY <2>1, <3>2, <4>1, <4>2
    <3>3. 0..N \subseteq S
      <4> HIDE DEF S
      <4> QED
        BY <2>1, <3>1, <3>2, Induction
    <3> QED
      BY <3>3
  <2>6. ASSUME NEW i \in 1..N, NEW j \in 1..i-1 PROVE slots[i] - slots[j] >= interval
    <3>1. j \in 1..N /\ i - 1 \in 0..N /\ i - 1 >= j
      BY <2>1
    <3>2. next[i - 1] >= next[j]
      BY <2>5, <3>1
    <3>3. next[i - 1] \in Nat /\ slots[i] \in Nat /\ slots[i] >= next[i - 1]
      BY <2>4
    <3>4. next[j] \in Nat /\ slots[j] \in Nat /\ next[j] >= slots[j] + interval
      BY <2>4, <3>1
    <3> QED
      BY <3>2, <3>3, <3>4
  <2>7. DOMAIN slots = 1..N
    BY <2>3
  <2> QED
    BY <2>4, <2>6, <2>7 DEF slots
<1>2. InputRead => SlotsSpaced
  BY <1>1, InputsAssumption DEF InputRead, NoInput, SlotsSpaced, Callers
<1> QED
  BY <1>2, InputKept, PTL

-----------------------------------------------------------------------------
(* The months of a period                                                  *)

\* Months in the order of the calendar are numbers in a row.
Number(m) == 12 * m.year + m.month

LEMMA NumberedMonths ==
  /\ \A m \in Months : Number(m) \in Int
  /\ \A m \in Months, n \in Months : Number(m) = Number(n) => m = n
  /\ \A k \in Int : \E m \in Months : Number(m) = k
<1>1. ASSUME NEW m \in Months PROVE m = [year |-> m.year, month |-> m.month] /\ m.year \in Int /\ m.month \in 1..12
  BY DEF Months
<1>2. ASSUME NEW m \in Months PROVE Number(m) \in Int
  BY <1>1 DEF Number
<1>3. ASSUME NEW m \in Months, NEW n \in Months, Number(m) = Number(n) PROVE m = n
  <2>1. \A a \in Int, b \in Int, i \in 1..12, j \in 1..12 : 12 * a + i = 12 * b + j => a = b /\ i = j
    OBVIOUS
  <2>2. m.year = n.year /\ m.month = n.month
    BY <1>1, <1>3, <2>1 DEF Number
  <2> QED
    BY <1>1, <2>2
<1>4. ASSUME NEW k \in Int PROVE \E m \in Months : Number(m) = k
  <2> DEFINE m == [year |-> (k - 1) \div 12, month |-> ((k - 1) % 12) + 1]
  <2>1. m.year \in Int /\ m.month \in 1..12 /\ 12 * m.year + m.month = k
    OBVIOUS
  <2>2. m \in Months
    BY <2>1 DEF Months
  <2> QED
    BY <2>1, <2>2 DEF Number
<1> QED
  BY <1>2, <1>3, <1>4

\* The months from one to another are as many as their numbers are apart, and one.
LEMMA MonthsBetween ==
  ASSUME NEW a \in Months, NEW b \in Months
  PROVE  IF Number(b) < Number(a) THEN Between(a, b) = {}
         ELSE Between(a, b) # {} /\ Cardinality(Between(a, b)) = Number(b) - Number(a) + 1
<1>0. \A m \in Months : m.year \in Int /\ m.month \in 1..12
  BY DEF Months
<1>1. \A m \in Months, n \in Months : AtMost(m, n) <=> Number(m) <= Number(n)
  BY <1>0 DEF AtMost, Number
<1>2. Between(a, b) = {m \in Months : Number(m) \in Number(a)..Number(b)}
  <2>1. ASSUME NEW m \in Between(a, b) PROVE m \in Months /\ Number(m) \in Number(a)..Number(b)
    <3>1. m \in Months /\ AtMost(a, m) /\ AtMost(m, b)
      BY <1>0 DEF Between, Months
    <3> QED
      BY <1>1, <3>1, NumberedMonths
  <2>2. ASSUME NEW m \in Months, Number(m) \in Number(a)..Number(b) PROVE m \in Between(a, b)
    <3>1. AtMost(a, m) /\ AtMost(m, b)
      BY <1>1, <2>2, NumberedMonths
    <3>2. m = [year |-> m.year, month |-> m.month] /\ m.year \in a.year..b.year /\ m.month \in 1..12
      BY <1>0, <3>1 DEF AtMost, Months
    <3>3. m \in [year : a.year..b.year, month : 1..12]
      BY <3>2
    <3> QED
      BY <3>1, <3>3 DEF Between
  <2> QED
    BY <2>1, <2>2
<1> DEFINE S == Between(a, b)
           T == Number(a)..Number(b)
           f == [m \in S |-> Number(m)]
<1>3. f \in Injection(S, T)
  <2>1. f \in [S -> T]
    BY <1>2
  <2>2. \A m \in S, n \in S : f[m] = f[n] => m = n
    BY <1>2, NumberedMonths
  <2> QED
    BY <2>1, <2>2 DEF Injection, IsInjective
<1>4. f \in Surjection(S, T)
  <2>1. ASSUME NEW k \in T PROVE \E m \in S : f[m] = k
    <3>1. k \in Int
      BY NumberedMonths
    <3>2. PICK m \in Months : Number(m) = k
      BY <3>1, NumberedMonths
    <3>3. m \in S
      BY <1>2, <3>2
    <3> QED
      BY <3>2, <3>3
  <2> QED
    BY <1>3, <2>1 DEF Surjection, Injection
<1>5. Number(a) \in Int /\ Number(b) \in Int
  BY NumberedMonths
<1>6. IsFiniteSet(T) /\ Cardinality(T) = IF Number(a) > Number(b) THEN 0 ELSE Number(b) - Number(a) + 1
  BY <1>5, FS_Interval
<1>7. Cardinality(S) = Cardinality(T)
  <2> HIDE DEF S, T, f
  <2> QED
    BY <1>3, <1>4, <1>6, FS_Injection
<1>8. CASE Number(b) < Number(a)
  BY <1>2, <1>5, <1>8, NumberedMonths
<1>9. CASE ~(Number(b) < Number(a))
  <2>1. a \in S
    BY <1>2, <1>5, <1>9
  <2> QED
    BY <1>5, <1>6, <1>7, <1>9, <2>1
<1> QED
  BY <1>8, <1>9

\* parse_time_period: the duration of a period is how many months it touches, for any
\* two dates and any day it is read on; and its label adds up.
THEOREM PeriodsCount == LookupSpec => []PeriodCountsMonths
<1>1. ASSUME NEW start \in Months, NEW end \in Months \cup {None}, NEW now \in Months
      PROVE  LET period == ParseTimePeriod(start, end, TRUE, now)
                 touched == Between(start, Or(end, now))
                 label == HumaniseDuration(period.duration)
             IN  IF touched = {} THEN period.duration = None
                 ELSE /\ period.duration = Cardinality(touched)
                      /\ label.months \in 0..11
                      /\ 12 * label.years + label.months = period.duration
  <2> DEFINE last     == Or(end, now)
             months   == Number(last) - Number(start) + 1
             duration == DurationMonths(start, end, now)
  <2>1. last \in Months /\ start # None /\ None \notin Int
    BY InputsAssumption DEF Or
  <2>2. \A m \in Months : m.year \in Int /\ m.month \in Int
    BY DEF Months
  <2>3. Number(last) \in Int /\ Number(start) \in Int
    BY <2>1, NumberedMonths
  <2>4. ParseTimePeriod(start, end, TRUE, now).duration = duration
    BY <2>1 DEF ParseTimePeriod
  <2>5. duration = IF months <= 0 THEN None ELSE months
    <3>1. None \notin {start.year, start.month, last.year, last.month}
      BY <2>1, <2>2
    <3>2. (last.year - start.year) * 12 + (last.month - start.month) + 1 = months
      BY <2>1, <2>2 DEF Number
    <3> QED
      BY <2>1, <3>1, <3>2 DEF DurationMonths
  <2> HIDE DEF last, duration
  <2>6. CASE Number(last) < Number(start)
    <3>1. Between(start, last) = {}
      BY <2>1, <2>6, MonthsBetween
    <3>2. duration = None
      BY <2>3, <2>5, <2>6
    <3> QED
      BY <2>4, <3>1, <3>2 DEF last
  <2>7. CASE ~(Number(last) < Number(start))
    <3>1. Between(start, last) # {} /\ Cardinality(Between(start, last)) = months
      BY <2>1, <2>7, MonthsBetween
    <3>2. duration = months /\ months \in Nat /\ duration # None
      BY <2>1, <2>3, <2>5, <2>7
    <3>3. \A d \in Nat : d % 12 \in 0..11 /\ 12 * (d \div 12) + (d % 12) = d
      OBVIOUS
    <3>4. HumaniseDuration(duration) = [years |-> duration \div 12, months |-> duration % 12]
      BY <3>2 DEF HumaniseDuration
    <3>5. HumaniseDuration(duration).months \in 0..11
          /\ 12 * HumaniseDuration(duration).years + HumaniseDuration(duration).months = duration
      BY <3>2, <3>3, <3>4
    <3> QED
      BY <2>4, <3>1, <3>2, <3>5 DEF last
  <2> QED
    BY <2>6, <2>7
<1>2. InputRead => PeriodCountsMonths
  <2> SUFFICES ASSUME InputRead, input.what = "period" PROVE PeriodCountsMonths
    BY DEF PeriodCountsMonths
  <2>1. input.start \in Months /\ input.end \in Months \cup {None} /\ input.now \in Months
    BY InputsAssumption DEF InputRead, NoInput
  <2> QED
    BY <1>1, <2>1 DEF PeriodCountsMonths
<1> QED
  BY <1>2, InputKept, PTL

-----------------------------------------------------------------------------
(* Links                                                                   *)

\* A segment with the name of a profile is read as the key and the kind of the profile.
IsKeyOf(ref, profile) ==
  /\ ref.ok
  /\ CacheKey(ref.identifier) = [word |-> profile, more |-> FALSE]
  /\ ref.kind = IF profile = "ACoA" THEN "obfuscated" ELSE "vanity"

LEMMA NamesKept ==
  ASSUME NEW profile \in Profiles, NEW segment, segment.word = profile,
         profile = "ACoA" => ~segment.upper,
         segment.written \in {"plain", "escaped", "escapedTail"}, NEW query
  PROVE  IsKeyOf(CleanSegment(segment, query), profile)
<1>1. /\ Decoded(segment).word = profile /\ Decoded(segment).more = FALSE
      /\ Decoded(segment).upper = segment.upper
  BY DEF Decoded
<1>2. IsValidVanity(segment, query) /\ profile \notin Locales
  BY DEF IsValidVanity, Profiles, Locales
<1>3. /\ CleanSegment(segment, query).ok
      /\ CleanSegment(segment, query).identifier = Decoded(segment)
      /\ CleanSegment(segment, query).kind = IF profile = "ACoA" THEN "obfuscated" ELSE "vanity"
  BY <1>1, <1>2 DEF CleanSegment
<1> QED
  BY <1>1, <1>3 DEF CacheKey, IsKeyOf

\* What the text says decides whether it is read as an address: a page's link, but for
\* a misread one, is; and a name alone is read as it is.
LEMMA PagesRead ==
  ASSUME NEW link, IsAllowedHost(link.host), link.scheme \in BOOLEAN
  PROVE  ParseProfileUrl(link) = IF Misread(link) THEN Refused ELSE IdentifierFromUrl(link)
BY DEF ParseProfileUrl, Misread, SaysLinkedIn, SaysSlashes, IsAllowedHost, NoHost

LEMMA NamesRead ==
  ASSUME NEW name, NEW query, NEW link, link = Bare(name, query)
  PROVE  IF Misread(link) THEN ~ParseProfileUrl(link).ok
         ELSE ParseProfileUrl(link) = CleanSegment(name, query)
<1>1. /\ link.scheme = FALSE /\ link.host = NoHost /\ link.query = query
      /\ Len(link.path) = 1 /\ link.path[1] = name /\ ~IsAllowedHost(link.host)
  BY DEF Bare, Link, IsAllowedHost, NoHost
<1>2. IdentifierFromUrl(link) = Refused
  BY <1>1 DEF IdentifierFromUrl
<1> QED
  BY <1>1, <1>2 DEF ParseProfileUrl, Misread, SaysLinkedIn, SaysSlashes, Refused

\* parse_profile_url: the links of a profile, on a page of any depth, come to one key,
\* whatever their queries mention; or they are refused, and only for their queries.
THEOREM OneKey == LookupSpec => []OneKeyPerProfile
<1>1. ASSUME NEW link, NEW profile \in Profiles, IsLinkTo(link, profile),
             link.path \in Seq(Segments), link.scheme \in BOOLEAN
      PROVE  IF Misread(link) THEN ~ParseProfileUrl(link).ok
             ELSE IsKeyOf(ParseProfileUrl(link), profile)
  <2>1. CASE \E name \in Segments :
               /\ name.word = profile /\ (profile = "ACoA" => ~name.upper)
               /\ name.written \in {"plain", "escaped", "escapedTail"}
               /\ link = Bare(name, link.query)
    <3>1. PICK name \in Segments :
            /\ name.word = profile /\ (profile = "ACoA" => ~name.upper)
            /\ name.written \in {"plain", "escaped", "escapedTail"}
            /\ link = Bare(name, link.query)
      BY <2>1
    <3> QED
      BY <3>1, NamesKept, NamesRead
  <2>2. CASE /\ IsAllowedHost(link.host) /\ ~link.login
             /\ \E i \in 1..Len(link.path) - 1 :
                  /\ link.path[i].word = "in" /\ link.path[i].written = "plain"
                  /\ \A h \in 1..i-1 : ~(link.path[h].word = "in" /\ link.path[h].written = "plain")
                  /\ link.path[i + 1].word = profile /\ (profile = "ACoA" => ~link.path[i + 1].upper)
                  /\ link.path[i + 1].written \in {"plain", "escaped", "escapedTail"}
    <3> DEFINE path    == link.path
               isIn(i) == path[i].word = "in" /\ path[i].written = "plain"
               after   == {i + 1 : i \in {j \in DOMAIN path : isIn(j) /\ \A h \in 1..j-1 : ~isIn(h)}}
    <3>1. Len(path) \in Nat /\ DOMAIN path = 1..Len(path)
      BY <1>1, Elements
    <3>2. PICK i \in 1..Len(path) - 1 :
            /\ isIn(i) /\ \A h \in 1..i-1 : ~isIn(h)
            /\ path[i + 1].word = profile /\ (profile = "ACoA" => ~path[i + 1].upper)
            /\ path[i + 1].written \in {"plain", "escaped", "escapedTail"}
      BY <2>2
    <3>3. ~link.login /\ IsAllowedHost(link.host)
      BY <2>2
    <3>4. after = {i + 1}
      <4>1. \A j \in 1..Len(path) : isIn(j) /\ (\A h \in 1..j-1 : ~isIn(h)) => j = i
        <5> TAKE j \in 1..Len(path)
        <5>1. j = i \/ i \in 1..j-1 \/ j \in 1..i-1
          BY <3>1
        <5> QED
          BY <3>2, <5>1
      <4>2. i \in 1..Len(path)
        BY <3>1
      <4> QED
        BY <3>1, <3>2, <4>1, <4>2
    <3>5. (CHOOSE k \in after : TRUE) = i + 1 /\ after \cap DOMAIN path # {}
      <4> HIDE DEF after
      <4>1. i + 1 \in DOMAIN path
        BY <3>1
      <4> QED
        BY <3>4, <4>1
    <3>6. IdentifierFromUrl(link) = CleanSegment(path[i + 1], {})
      BY <3>3, <3>5 DEF IdentifierFromUrl
    <3>7. IsKeyOf(IdentifierFromUrl(link), profile)
      BY <3>2, <3>6, NamesKept
    <3> QED
      BY <1>1, <3>3, <3>7, PagesRead DEF Refused
  <2> QED
    BY <1>1, <2>1, <2>2 DEF IsLinkTo
<1>2. InputRead => OneKeyPerProfile
  <2> SUFFICES ASSUME InputRead, input.what = "link" PROVE OneKeyPerProfile
    BY DEF OneKeyPerProfile
  <2>1. /\ input.profile \in Profiles /\ IsLinkTo(input.link, input.profile)
        /\ input.link.path \in Seq(Segments) /\ input.link.scheme \in BOOLEAN
    BY InputsAssumption DEF InputRead, NoInput
  <2> QED
    BY <1>1, <2>1 DEF OneKeyPerProfile, IsKeyOf
<1> QED
  BY <1>2, InputKept, PTL

-----------------------------------------------------------------------------
(* Skills, contact and network                                             *)

\* Whatever is appended comes after what is there.
LEMMA Appended ==
  ASSUME NEW A, NEW s \in Seq(A), NEW e \in A
  PROVE  /\ Append(s, e) \in Seq(A) /\ Len(Append(s, e)) = Len(s) + 1
         /\ DOMAIN Append(s, e) = 1..Len(s) + 1
         /\ Append(s, e)[Len(s) + 1] = e
         /\ \A i \in 1..Len(s) : Append(s, e)[i] = s[i]
OBVIOUS

LEMMA PrefixElements ==
  ASSUME NEW A, NEW s \in Seq(A), NEW t \in Seq(A), Len(s) <= Len(t),
         \A i \in 1..Len(s) : t[i] = s[i]
  PROVE  IsPrefix(s, t)
<1>1. Len(s) \in Nat /\ Len(t) \in Nat
  OBVIOUS
<1>2. SubSeq(s, 1, Len(s)) = SubSeq(t, 1, Len(s))
  BY <1>1
<1> QED
  BY <1>2 DEF IsPrefix

-----------------------------------------------------------------------------

\* The loop of parse_contact_info, for a card of any length.
LEMMA PushedGoesOn ==
  ASSUME NEW entries \in Seq(Written \cup {None})
  PROVE  \E list \in [0..Len(entries) -> Seq(Written)] :
           /\ list[0] = <<>> /\ list[Len(entries)] = Pushed(entries)
           /\ \A n \in 1..Len(entries) : list[n] = PushUnique(list[n - 1], entries[n])
<1> DEFINE N == Len(entries)
           A == Seq(Written)
           Step == [q \in A \X (1..N) |-> PushUnique(q[1], entries[q[2]])]
           Body(h) == [n \in 0..N |-> IF n = 0 THEN <<>> ELSE PushUnique(h[n - 1], entries[n])]
           list == CHOOSE h : h = Body(h)
<1>1. N \in Nat /\ \A n \in 1..N : entries[n] \in Written \cup {None}
  BY Elements
<1>2. \A a \in A, n \in 1..N : PushUnique(a, entries[n]) \in A
  BY <1>1 DEF PushUnique
<1>3. Step \in [A \X (1..N) -> A] /\ <<>> \in A
  BY <1>2
<1>4. \A a \in A, n \in 1..N : Step[<<a, n>>] = PushUnique(a, entries[n])
  OBVIOUS
<1>5. PICK g \in [0..N -> A] : GoesOn(g, <<>>, N, Step)
  <2> HIDE DEF N, A, Step
  <2> QED
    BY <1>1, <1>3, Recursion
<1>6. g[0] = <<>> /\ \A n \in 1..N : g[n] = Step[<<g[n - 1], n>>]
  BY <1>5 DEF GoesOn
<1>7. \A n \in 1..N : g[n] = PushUnique(g[n - 1], entries[n])
  <2> HIDE DEF N, A, Step
  <2> TAKE n \in 1..N
  <2>1. n - 1 \in 0..N
    BY <1>1
  <2> QED
    BY <1>4, <1>6, <2>1
<1>8. g = Body(g)
  <2> HIDE DEF N, A
  <2>1. \A n \in 0..N : n = 0 \/ n \in 1..N
    BY <1>1
  <2> QED
    BY <1>6, <1>7, <2>1
<1>9. list = Body(list)
  <2> HIDE DEF Body
  <2> QED
    BY <1>8
<1>10. list[N] = Pushed(entries)
  BY DEF Pushed
<1>11. list[0] = <<>> /\ \A n \in 1..N : list[n] = PushUnique(list[n - 1], entries[n])
  <2> HIDE DEF list, N
  <2> QED
    BY <1>1, <1>9
<1>12. list \in [0..N -> A]
  <2> HIDE DEF list, N, A
  <2>1. list = [n \in 0..N |-> list[n]]
    BY <1>9
  <2>2. list[0] \in A /\ \A n \in 1..N : list[n - 1] \in A => list[n] \in A
    BY <1>2, <1>3, <1>11
  <2> QED
    BY <1>1, <2>1, <2>2, Throughout
<1> QED
  <2> HIDE DEF list
  <2> QED
    BY <1>10, <1>11, <1>12

LEMMA PushOne ==
  ASSUME NEW s \in Seq(Written), OnePerWord(s), NEW e \in Written \cup {None}
  PROVE  LET t == PushUnique(s, e)
         IN  /\ t \in Seq(Written) /\ OnePerWord(t)
             /\ e # None => \E k \in 1..Len(t) : Lower(t[k]) = Lower(e)
             /\ \A k \in 1..Len(s) : k \in 1..Len(t) /\ t[k] = s[k]
<1>1. Len(s) \in Nat /\ DOMAIN s = 1..Len(s)
  BY Elements
<1> DEFINE There == e = None \/ \E i \in 1..Len(s) : Lower(s[i]) = Lower(e)
<1>2. CASE There
  <2>1. PushUnique(s, e) = s
    BY <1>1, <1>2 DEF PushUnique
  <2> QED
    BY <1>1, <1>2, <2>1
<1>3. CASE ~There
  <2> DEFINE t == Append(s, e)
  <2>1. e \in Written /\ (\A i \in 1..Len(s) : Lower(s[i]) # Lower(e)) /\ PushUnique(s, e) = t
    BY <1>1, <1>3 DEF PushUnique
  <2>2. /\ t \in Seq(Written) /\ Len(t) = Len(s) + 1 /\ DOMAIN t = 1..Len(s) + 1
        /\ t[Len(s) + 1] = e /\ \A i \in 1..Len(s) : t[i] = s[i]
    BY <2>1, Appended
  <2> HIDE DEF t
  <2>3. OnePerWord(t)
    <3>1. ASSUME NEW i \in DOMAIN t, NEW j \in DOMAIN t, Lower(t[i]) = Lower(t[j]) PROVE i = j
      <4>1. (i \in 1..Len(s) \/ i = Len(s) + 1) /\ (j \in 1..Len(s) \/ j = Len(s) + 1)
        BY <1>1, <2>2
      <4>2. CASE i \in 1..Len(s) /\ j \in 1..Len(s)
        BY <1>1, <2>2, <3>1, <4>2 DEF OnePerWord
      <4>3. CASE i = Len(s) + 1 \/ j = Len(s) + 1
        BY <2>1, <2>2, <3>1, <4>1, <4>3
      <4> QED
        BY <4>1, <4>2, <4>3
    <3> QED
      BY <3>1 DEF OnePerWord
  <2>4. Len(s) + 1 \in 1..Len(t) /\ \A k \in 1..Len(s) : k \in 1..Len(t)
    BY <1>1, <2>2
  <2> QED
    BY <2>1, <2>2, <2>3, <2>4
<1> QED
  BY <1>2, <1>3

\* push_unique: what is left of a list of entries has every word of it once.
LEMMA PushedEach ==
  ASSUME NEW entries \in Seq(Written \cup {None})
  PROVE  /\ Pushed(entries) \in Seq(Written) /\ OnePerWord(Pushed(entries))
         /\ \A i \in 1..Len(entries) : entries[i] # None =>
              \E k \in 1..Len(Pushed(entries)) : Lower(Pushed(entries)[k]) = Lower(entries[i])
<1> DEFINE N == Len(entries)
<1>1. N \in Nat /\ \A n \in 1..N : entries[n] \in Written \cup {None}
  BY Elements
<1>2. PICK list \in [0..N -> Seq(Written)] :
        /\ list[0] = <<>> /\ list[N] = Pushed(entries)
        /\ \A n \in 1..N : list[n] = PushUnique(list[n - 1], entries[n])
  BY PushedGoesOn
<1> DEFINE Has(n) == \A i \in 1..n : entries[i] # None =>
                       \E k \in 1..Len(list[n]) : Lower(list[n][k]) = Lower(entries[i])
           S == {n \in 0..N : OnePerWord(list[n]) /\ Has(n)}
<1> HIDE DEF N
<1>3. 0 \in S
  BY <1>1, <1>2 DEF OnePerWord
<1>4. ASSUME NEW n \in 1..N, n - 1 \in S PROVE n \in S
  <2> DEFINE s == list[n - 1]
             t == list[n]
  <2>1. s \in Seq(Written) /\ OnePerWord(s) /\ t = PushUnique(s, entries[n])
        /\ entries[n] \in Written \cup {None} /\ Has(n - 1)
    BY <1>1, <1>2, <1>4
  <2> HIDE DEF s, t
  <2>2. /\ OnePerWord(t)
        /\ entries[n] # None => \E k \in 1..Len(t) : Lower(t[k]) = Lower(entries[n])
        /\ \A k \in 1..Len(s) : k \in 1..Len(t) /\ t[k] = s[k]
    BY <2>1, PushOne
  <2>3. Has(n)
    <3>1. \A i \in 1..n : i = n \/ i \in 1..n - 1
      BY <1>1
    <3> QED
      BY <2>1, <2>2, <3>1 DEF s, t
  <2> QED
    BY <1>1, <2>2, <2>3 DEF t
<1>5. N \in S
  <2> HIDE DEF S
  <2>1. 0..N \subseteq S
    BY <1>1, <1>3, <1>4, Induction
  <2> QED
    BY <1>1, <2>1
<1> QED
  BY <1>1, <1>2, <1>5 DEF N

-----------------------------------------------------------------------------

\* The loop of merge_lists, for lists of any length.
LEMMA MergeGoesOn ==
  ASSUME NEW existing \in Seq(Written), NEW incoming \in Seq(Written)
  PROVE  \E merged \in [0..Len(incoming) -> Seq(Written)] :
           /\ merged[0] = existing /\ merged[Len(incoming)] = MergeLists(existing, incoming)
           /\ \A n \in 1..Len(incoming) :
                merged[n] = IF Contains(merged[n - 1], incoming[n]) THEN merged[n - 1]
                            ELSE Append(merged[n - 1], incoming[n])
<1> DEFINE N == Len(incoming)
           A == Seq(Written)
           Merge(a, n) == IF Contains(a, incoming[n]) THEN a ELSE Append(a, incoming[n])
           Step == [q \in A \X (1..N) |-> Merge(q[1], q[2])]
           Body(h) == [n \in 0..N |-> IF n = 0 THEN existing ELSE Merge(h[n - 1], n)]
           merged == CHOOSE h : h = Body(h)
<1>1. N \in Nat /\ \A n \in 1..N : incoming[n] \in Written
  BY Elements
<1>2. \A a \in A, n \in 1..N : Merge(a, n) \in A
  BY <1>1
<1>3. Step \in [A \X (1..N) -> A] /\ existing \in A
  <2> HIDE DEF Merge
  <2> QED
    BY <1>2
<1>4. \A a \in A, n \in 1..N : Step[<<a, n>>] = Merge(a, n)
  <2> HIDE DEF Merge
  <2> QED
    OBVIOUS
<1>5. PICK g \in [0..N -> A] : GoesOn(g, existing, N, Step)
  <2> HIDE DEF N, A, Step
  <2> QED
    BY <1>1, <1>3, Recursion
<1>6. g[0] = existing /\ \A n \in 1..N : g[n] = Step[<<g[n - 1], n>>]
  BY <1>5 DEF GoesOn
<1>7. \A n \in 1..N : g[n] = Merge(g[n - 1], n)
  <2> HIDE DEF N, A, Step, Merge
  <2> TAKE n \in 1..N
  <2>1. n - 1 \in 0..N
    BY <1>1
  <2> QED
    BY <1>4, <1>6, <2>1
<1>8. g = Body(g)
  <2> HIDE DEF N, A, Merge
  <2>1. \A n \in 0..N : n = 0 \/ n \in 1..N
    BY <1>1
  <2> QED
    BY <1>6, <1>7, <2>1
<1>9. merged = Body(merged)
  <2> HIDE DEF Body
  <2> QED
    BY <1>8
<1>10. merged[N] = MergeLists(existing, incoming)
  BY DEF MergeLists
<1>11. merged[0] = existing /\ \A n \in 1..N : merged[n] = Merge(merged[n - 1], n)
  <2> HIDE DEF merged, N, Merge
  <2> QED
    BY <1>1, <1>9
<1>12. merged \in [0..N -> A]
  <2> HIDE DEF merged, N, A, Merge
  <2>1. merged = [n \in 0..N |-> merged[n]]
    BY <1>9
  <2>2. merged[0] \in A /\ \A n \in 1..N : merged[n - 1] \in A => merged[n] \in A
    BY <1>2, <1>3, <1>11
  <2> QED
    BY <1>1, <2>1, <2>2, Throughout
<1> QED
  <2> HIDE DEF merged
  <2> QED
    BY <1>10, <1>11, <1>12

\* merge_lists: what was there stays in front, what comes in is there afterwards, and
\* nothing is added that there was already or that came in twice.
LEMMA MergedLists ==
  ASSUME NEW existing \in Seq(Written), NEW incoming \in Seq(Written)
  PROVE  LET merged == MergeLists(existing, incoming)
         IN  /\ merged \in Seq(Written)
             /\ IsPrefix(existing, merged)
             /\ \A i \in 1..Len(incoming) : Contains(merged, incoming[i])
             /\ (\A i \in 1..Len(incoming) : Contains(existing, incoming[i])) => merged = existing
             /\ existing = <<>> /\ OnePerWord(incoming) => OnePerWord(merged)
<1> DEFINE N == Len(incoming)
           a == existing
<1>1. N \in Nat /\ \A n \in 1..N : incoming[n] \in Written
  BY Elements
<1>2. PICK r \in [0..N -> Seq(Written)] :
        /\ r[0] = a /\ r[N] = MergeLists(existing, incoming)
        /\ \A n \in 1..N : r[n] = IF Contains(r[n - 1], incoming[n]) THEN r[n - 1]
                                  ELSE Append(r[n - 1], incoming[n])
  BY MergeGoesOn
<1> DEFINE Begins(n) == Len(a) <= Len(r[n]) /\ \A i \in 1..Len(a) : r[n][i] = a[i]
           Has(n)   == \A i \in 1..n : Contains(r[n], incoming[i])
           Same(n)  == (\A i \in 1..N : Contains(a, incoming[i])) => r[n] = a
           From(n)  == a = <<>> => \A k \in 1..Len(r[n]) : \E i \in 1..n : r[n][k] = incoming[i]
           Apart(n) == a = <<>> => \A k, m \in 1..Len(r[n]) : r[n][k] = r[n][m] => k = m
           S == {n \in 0..N : Begins(n) /\ Has(n) /\ Same(n) /\ From(n) /\ Apart(n)}
<1> HIDE DEF N
<1>3. 0 \in S
  <2>1. Begins(0) /\ Has(0) /\ Same(0)
    BY <1>2, Elements
  <2>2. a = <<>> => Len(r[0]) = 0
    BY <1>2
  <2> QED
    BY <1>1, <2>1, <2>2
<1>4. ASSUME NEW n \in 1..N, n - 1 \in S PROVE n \in S
  <2> DEFINE s == r[n - 1]
             t == r[n]
             e == incoming[n]
  <2>0. n - 1 \in 0..N /\ n \in 0..N /\ \A i \in 1..n : i = n \/ i \in 1..n - 1
    BY <1>1
  <2>1. /\ s \in Seq(Written) /\ t \in Seq(Written) /\ e \in Written /\ Len(s) \in Nat /\ Len(a) \in Nat
        /\ t = IF Contains(s, e) THEN s ELSE Append(s, e)
    BY <1>1, <1>2, <2>0, Elements
  <2>2. CASE Contains(s, e)
    <3>1. r[n] = r[n - 1]
      BY <2>1, <2>2
    <3>2. Has(n)
      BY <1>4, <2>0, <2>2, <3>1
    <3>3. From(n)
      BY <1>4, <2>0, <3>1
    <3> QED
      BY <1>4, <2>0, <3>1, <3>2, <3>3
  <2>3. CASE ~Contains(s, e)
    <3>1. t = Append(s, e)
      BY <2>1, <2>3
    <3>2. /\ Len(t) = Len(s) + 1 /\ t[Len(s) + 1] = e /\ \A i \in 1..Len(s) : t[i] = s[i]
          /\ \A k \in 1..Len(t) : k = Len(s) + 1 \/ k \in 1..Len(s)
          /\ Len(s) + 1 \in 1..Len(t) /\ \A k \in 1..Len(s) : k \in 1..Len(t)
      BY <2>1, <3>1, Appended
    <3> HIDE DEF s, t, e
    <3>3. Begins(n)
      <4>1. Len(a) <= Len(s) /\ \A i \in 1..Len(a) : s[i] = a[i]
        BY <1>4 DEF s
      <4> QED
        BY <2>1, <3>2, <4>1 DEF t
    <3>4. Has(n)
      <4>1. \A i \in 1..n - 1 : Contains(s, incoming[i])
        BY <1>4 DEF s
      <4>2. \A i \in 1..n : Contains(t, incoming[i])
        BY <2>0, <3>2, <4>1 DEF Contains, e
      <4> QED
        BY <4>2 DEF t
    <3>5. Same(n)
      <4>1. (\A i \in 1..N : Contains(a, incoming[i])) => s = a /\ Contains(a, e)
        BY <1>4 DEF s, e
      <4> QED
        BY <2>3, <4>1
    <3>6. From(n)
      <4> SUFFICES ASSUME a = <<>>, NEW k \in 1..Len(t) PROVE \E i \in 1..n : t[k] = incoming[i]
        BY DEF t
      <4>1. \A m \in 1..Len(s) : \E i \in 1..n - 1 : s[m] = incoming[i]
        BY <1>4 DEF s
      <4>2. n \in 1..n /\ \A i \in 1..n - 1 : i \in 1..n
        BY <1>1
      <4> QED
        BY <3>2, <4>1, <4>2 DEF e
    <3>7. Apart(n)
      <4> SUFFICES ASSUME a = <<>>, NEW k \in 1..Len(t), NEW m \in 1..Len(t), t[k] = t[m] PROVE k = m
        BY DEF t
      <4>1. \A i, j \in 1..Len(s) : s[i] = s[j] => i = j
        BY <1>4 DEF s
      <4>2. \A i \in 1..Len(s) : s[i] # e
        BY <2>3 DEF Contains
      <4> QED
        BY <3>2, <4>1, <4>2
    <3> QED
      BY <2>0, <3>3, <3>4, <3>5, <3>6, <3>7
  <2> QED
    BY <2>2, <2>3
<1>5. N \in S
  <2> HIDE DEF S
  <2>1. 0..N \subseteq S
    BY <1>1, <1>3, <1>4, Induction
  <2> QED
    BY <1>1, <2>1
<1> DEFINE merged == r[N]
<1>6. merged \in Seq(Written)
  BY <1>1, <1>2
<1>7. IsPrefix(existing, merged)
  <2>1. Begins(N)
    BY <1>5
  <2> HIDE DEF merged
  <2> QED
    BY <1>6, <2>1, PrefixElements DEF merged
<1>8. \A i \in 1..N : Contains(merged, incoming[i])
  BY <1>5
<1>9. (\A i \in 1..N : Contains(existing, incoming[i])) => merged = existing
  BY <1>5
<1>10. ASSUME existing = <<>>, OnePerWord(incoming) PROVE OnePerWord(merged)
  <2>1. DOMAIN merged = 1..Len(merged) /\ DOMAIN incoming = 1..N
    BY <1>6, Elements DEF N
  <2>2. ASSUME NEW k \in DOMAIN merged, NEW m \in DOMAIN merged, Lower(merged[k]) = Lower(merged[m])
        PROVE  k = m
    <3>1. PICK i \in 1..N : merged[k] = incoming[i]
      BY <1>5, <1>10, <2>1
    <3>2. PICK j \in 1..N : merged[m] = incoming[j]
      BY <1>5, <1>10, <2>1
    <3>3. i = j
      BY <1>10, <2>1, <2>2, <3>1, <3>2 DEF OnePerWord
    <3> QED
      BY <1>5, <1>10, <2>1, <3>1, <3>2, <3>3
  <2> QED
    BY <2>2 DEF OnePerWord
<1> QED
  BY <1>2, <1>6, <1>7, <1>8, <1>9, <1>10 DEF N

-----------------------------------------------------------------------------

Entries == [name : Written, endorsements : Nat \cup {None}]

\* The loop of skills, for a section of any length.
LEMMA SkillsGoOn ==
  ASSUME NEW items \in Seq(SkillItems)
  PROVE  \E skills \in [0..Len(items) -> Seq(Entries)] :
           /\ skills[0] = <<>> /\ skills[Len(items)] = Skills(items)
           /\ \A n \in 1..Len(items) : skills[n] = AddSkill(skills[n - 1], items[n])
<1> DEFINE N == Len(items)
           A == Seq(Entries)
           Step == [q \in A \X (1..N) |-> AddSkill(q[1], items[q[2]])]
           Body(h) == [n \in 0..N |-> IF n = 0 THEN <<>> ELSE AddSkill(h[n - 1], items[n])]
           skills == CHOOSE h : h = Body(h)
<1>1. N \in Nat /\ \A n \in 1..N : items[n] \in SkillItems
  BY Elements
<1>2. \A a \in A, n \in 1..N : AddSkill(a, items[n]) \in A
  <2> TAKE a \in A, n \in 1..N
  <2> DEFINE entry == [name |-> items[n].name, endorsements |-> Endorsements(items[n])]
  <2>1. items[n].name # None => entry \in Entries
    BY <1>1 DEF SkillItems, Entries, Endorsements
  <2>2. AddSkill(a, items[n]) = a \/ (items[n].name # None /\ AddSkill(a, items[n]) = Append(a, entry))
    BY DEF AddSkill
  <2> QED
    BY <2>1, <2>2
<1>3. Step \in [A \X (1..N) -> A] /\ <<>> \in A
  BY <1>2
<1>4. \A a \in A, n \in 1..N : Step[<<a, n>>] = AddSkill(a, items[n])
  OBVIOUS
<1>5. PICK g \in [0..N -> A] : GoesOn(g, <<>>, N, Step)
  <2> HIDE DEF N, A, Step
  <2> QED
    BY <1>1, <1>3, Recursion
<1>6. g[0] = <<>> /\ \A n \in 1..N : g[n] = Step[<<g[n - 1], n>>]
  BY <1>5 DEF GoesOn
<1>7. \A n \in 1..N : g[n] = AddSkill(g[n - 1], items[n])
  <2> HIDE DEF N, A, Step
  <2> TAKE n \in 1..N
  <2>1. n - 1 \in 0..N
    BY <1>1
  <2> QED
    BY <1>4, <1>6, <2>1
<1>8. g = Body(g)
  <2> HIDE DEF N, A
  <2>1. \A n \in 0..N : n = 0 \/ n \in 1..N
    BY <1>1
  <2> QED
    BY <1>6, <1>7, <2>1
<1>9. skills = Body(skills)
  <2> HIDE DEF Body
  <2> QED
    BY <1>8
<1>10. skills[N] = Skills(items)
  BY DEF Skills
<1>11. skills[0] = <<>> /\ \A n \in 1..N : skills[n] = AddSkill(skills[n - 1], items[n])
  <2> HIDE DEF skills, N
  <2> QED
    BY <1>1, <1>9
<1>12. skills \in [0..N -> A]
  <2> HIDE DEF skills, N, A
  <2>1. skills = [n \in 0..N |-> skills[n]]
    BY <1>9
  <2>2. skills[0] \in A /\ \A n \in 1..N : skills[n - 1] \in A => skills[n] \in A
    BY <1>2, <1>3, <1>11
  <2> QED
    BY <1>1, <2>1, <2>2, Throughout
<1> QED
  <2> HIDE DEF skills
  <2> QED
    BY <1>10, <1>11, <1>12

\* skills: no two of the skills of a profile are one word.
LEMMA SkillsApart ==
  ASSUME NEW items \in Seq(SkillItems)
  PROVE  OnePerWord(SkillNames(Skills(items)))
<1> DEFINE N == Len(items)
           Apart(s) == \A i, j \in 1..Len(s) : Lower(s[i].name) = Lower(s[j].name) => i = j
<1>1. N \in Nat
  BY Elements
<1>2. PICK skills \in [0..N -> Seq(Entries)] :
        /\ skills[0] = <<>> /\ skills[N] = Skills(items)
        /\ \A n \in 1..N : skills[n] = AddSkill(skills[n - 1], items[n])
  BY SkillsGoOn
<1> DEFINE S == {n \in 0..N : Apart(skills[n])}
<1> HIDE DEF N
<1>3. 0 \in S
  BY <1>1, <1>2
<1>4. ASSUME NEW n \in 1..N, n - 1 \in S PROVE n \in S
  <2> DEFINE s == skills[n - 1]
             t == skills[n]
             entry == [name |-> items[n].name, endorsements |-> Endorsements(items[n])]
  <2>1. s \in Seq(Entries) /\ Len(s) \in Nat /\ DOMAIN s = 1..Len(s) /\ Apart(s) /\ n \in 0..N
    <3>1. n - 1 \in 0..N /\ n \in 0..N
      BY <1>1
    <3> QED
      BY <1>2, <1>4, <3>1, Elements
  <2>2. t = AddSkill(s, items[n])
    BY <1>2
  <2>3. CASE t = s
    BY <2>1, <2>3
  <2>4. CASE t # s
    <3> HIDE DEF s, t
    <3>1. t = Append(s, entry) /\ \A i \in 1..Len(s) : Lower(s[i].name) # Lower(entry.name)
      BY <2>1, <2>2, <2>4 DEF AddSkill
    <3>2. Len(t) = Len(s) + 1 /\ t[Len(s) + 1] = entry /\ \A i \in 1..Len(s) : t[i] = s[i]
      <4> HIDE DEF entry
      <4> QED
        BY <2>1, <3>1
    <3>3. \A k \in 1..Len(t) : k = Len(s) + 1 \/ k \in 1..Len(s)
      BY <2>1, <3>2
    <3> HIDE DEF entry
    <3>4. Apart(t)
      BY <2>1, <3>1, <3>2, <3>3
    <3> QED
      BY <2>1, <3>4 DEF t
  <2> QED
    BY <2>3, <2>4
<1>5. N \in S
  <2> HIDE DEF S
  <2>1. 0..N \subseteq S
    BY <1>1, <1>3, <1>4, Induction
  <2> QED
    BY <1>1, <2>1
<1>6. Apart(Skills(items)) /\ DOMAIN Skills(items) = 1..Len(Skills(items))
  BY <1>1, <1>2, <1>5, Elements
<1> QED
  BY <1>6 DEF OnePerWord, SkillNames

\* skills: the skills of a profile have the words of the items that have a name.
LEMMA SkillsNamed ==
  ASSUME NEW items \in Seq(SkillItems)
  PROVE  /\ Named(Skills(items)) = Named(items)
         /\ Skills(items) = <<>> <=> Named(items) = {}
<1> DEFINE N == Len(items)
           Spelt(n) == {Lower(items[i].name) : i \in {j \in 1..n : items[j].name # None}}
           Has(s) == {Lower(s[i].name) : i \in 1..Len(s)}
<1>1. N \in Nat /\ DOMAIN items = 1..N
  BY Elements
<1>2. PICK skills \in [0..N -> Seq(Entries)] :
        /\ skills[0] = <<>> /\ skills[N] = Skills(items)
        /\ \A n \in 1..N : skills[n] = AddSkill(skills[n - 1], items[n])
  BY SkillsGoOn
<1> DEFINE S == {n \in 0..N : Has(skills[n]) = Spelt(n)}
<1>3. 0 \in S
  <2> HIDE DEF N
  <2>1. Spelt(0) = {} /\ Has(<<>>) = {}
    OBVIOUS
  <2> QED
    BY <1>1, <1>2, <2>1
<1> HIDE DEF N
<1>4. ASSUME NEW n \in 1..N, n - 1 \in S PROVE n \in S
  <2> DEFINE s == skills[n - 1]
             t == skills[n]
             entry == [name |-> items[n].name, endorsements |-> Endorsements(items[n])]
  <2>1. s \in Seq(Entries) /\ Len(s) \in Nat /\ DOMAIN s = 1..Len(s) /\ n \in 0..N
    <3>1. n - 1 \in 0..N /\ n \in 0..N
      BY <1>1
    <3> QED
      BY <1>2, <3>1, Elements
  <2>2. t = AddSkill(s, items[n])
    BY <1>2
  <2>3. Has(s) = Spelt(n - 1)
    BY <1>4
  <2>4. \A j : j \in 1..n <=> j = n \/ j \in 1..n - 1
    BY <1>1
  <2>5. Spelt(n) = IF items[n].name = None THEN Spelt(n - 1)
                   ELSE Spelt(n - 1) \cup {Lower(items[n].name)}
    BY <2>4
  <2> HIDE DEF s, t, Spelt
  <2>6. CASE items[n].name = None
    <3>1. t = s
      BY <2>2, <2>6 DEF AddSkill
    <3> QED
      BY <2>1, <2>3, <2>5, <2>6, <3>1 DEF t
  <2>7. CASE items[n].name # None /\ \E i \in 1..Len(s) : Lower(s[i].name) = Lower(items[n].name)
    <3>1. t = s
      BY <2>1, <2>2, <2>7 DEF AddSkill
    <3>2. Lower(items[n].name) \in Has(s)
      BY <2>7
    <3> QED
      BY <2>1, <2>3, <2>5, <2>7, <3>1, <3>2 DEF t
  <2>8. CASE items[n].name # None /\ ~ \E i \in 1..Len(s) : Lower(s[i].name) = Lower(items[n].name)
    <3>1. t = Append(s, entry) /\ entry.name = items[n].name
      BY <2>1, <2>2, <2>8 DEF AddSkill
    <3> HIDE DEF entry
    <3>2. Len(t) = Len(s) + 1 /\ t[Len(s) + 1] = entry /\ \A i \in 1..Len(s) : t[i] = s[i]
      BY <2>1, <3>1
    <3>3. \A k : k \in 1..Len(t) <=> k = Len(s) + 1 \/ k \in 1..Len(s)
      BY <2>1, <3>2
    <3>4. Has(t) = Has(s) \cup {Lower(items[n].name)}
      BY <3>1, <3>2, <3>3
    <3> QED
      BY <2>1, <2>3, <2>5, <2>8, <3>4 DEF t
  <2> QED
    BY <2>6, <2>7, <2>8
<1>5. N \in S
  <2> HIDE DEF S
  <2>1. 0..N \subseteq S
    BY <1>1, <1>3, <1>4, Induction
  <2> QED
    BY <1>1, <2>1
<1>6. Has(Skills(items)) = Spelt(N)
  BY <1>2, <1>5
<1>7. Named(items) = Spelt(N)
  <2>1. SkillNames(items) = [i \in 1..N |-> items[i].name]
    BY <1>1 DEF SkillNames
  <2> DEFINE names == SkillNames(items)
             At == {j \in 1..N : items[j].name # None}
  <2>2. DOMAIN names = 1..N /\ \A i \in 1..N : names[i] = items[i].name
    BY <2>1
  <2> HIDE DEF names
  <2>3. {j \in DOMAIN names : names[j] # None} = At
    BY <2>2
  <2>4. \A i \in At : Lower(names[i]) = Lower(items[i].name)
    BY <2>2
  <2> HIDE DEF At
  <2>5. WordsOf(names) = {Lower(items[i].name) : i \in At}
    BY <2>3, <2>4 DEF WordsOf
  <2> QED
    BY <2>5 DEF Named, names, At
<1>8. Named(Skills(items)) = Has(Skills(items))
  <2> DEFINE r == Skills(items)
  <2>1. r \in Seq(Entries) /\ DOMAIN r = 1..Len(r) /\ \A i \in 1..Len(r) : r[i] \in Entries
    BY <1>1, <1>2, Elements
  <2> HIDE DEF r
  <2>3. \A i \in 1..Len(r) : r[i].name # None
    BY <2>1, InputsAssumption DEF Entries
  <2>4. SkillNames(r) = [i \in 1..Len(r) |-> r[i].name]
    BY <2>1 DEF SkillNames
  <2>5. {j \in DOMAIN SkillNames(r) : SkillNames(r)[j] # None} = 1..Len(r)
    BY <2>3, <2>4
  <2>6. Named(r) = Has(r)
    BY <2>4, <2>5 DEF Named, WordsOf
  <2> QED
    BY <2>6 DEF r
<1>9. Skills(items) = <<>> <=> Has(Skills(items)) = {}
  <2> DEFINE r == Skills(items)
  <2>1. r \in Seq(Entries) /\ Len(r) \in Nat
    BY <1>1, <1>2, Elements
  <2> HIDE DEF r
  <2>2. CASE Len(r) = 0
    BY <2>1, <2>2 DEF r
  <2>3. CASE Len(r) # 0
    <3>1. 1 \in 1..Len(r) /\ r # <<>>
      BY <2>1, <2>3
    <3>2. Lower(r[1].name) \in Has(r)
      BY <3>1
    <3> QED
      BY <3>1, <3>2 DEF r
  <2> QED
    BY <2>2, <2>3
<1> QED
  BY <1>6, <1>7, <1>8, <1>9

-----------------------------------------------------------------------------

\* parse_contact_info: what a card says is in the contact, each word once.
LEMMA CardRead ==
  ASSUME NEW card \in Contacts(Written \cup {None})
  PROVE  LET contact == ParseContactInfo(card)
         IN  /\ contact \in Contacts(Written) \cup {None}
             /\ BirthdayOf(contact) = card.birthday
             /\ contact # None => \A l \in ContactLists : OnePerWord(contact.lists[l])
             /\ \A l \in ContactLists : WordsOf(card.lists[l]) \subseteq WordsOf(ListsOf(contact)[l])
<1> DEFINE lists == [l \in ContactLists |-> Pushed(card.lists[l])]
           contact == ParseContactInfo(card)
<1>1. card.lists \in [ContactLists -> Seq(Written \cup {None})] /\ card.birthday \in STRING \cup {None}
  BY DEF Contacts
<1>2. None \notin Written
  BY InputsAssumption
<1>3. ASSUME NEW l \in ContactLists
      PROVE  /\ lists[l] \in Seq(Written) /\ OnePerWord(lists[l])
             /\ WordsOf(card.lists[l]) \subseteq WordsOf(lists[l])
  <2> DEFINE entries == card.lists[l]
  <2>1. entries \in Seq(Written \cup {None})
    BY <1>1
  <2> HIDE DEF entries
  <2>2. /\ Pushed(entries) \in Seq(Written) /\ OnePerWord(Pushed(entries))
        /\ \A i \in 1..Len(entries) : entries[i] # None =>
             \E k \in 1..Len(Pushed(entries)) : Lower(Pushed(entries)[k]) = Lower(entries[i])
    BY <2>1, PushedEach
  <2>3. DOMAIN entries = 1..Len(entries) /\ DOMAIN Pushed(entries) = 1..Len(Pushed(entries))
        /\ \A k \in 1..Len(Pushed(entries)) : Pushed(entries)[k] # None
    BY <1>2, <2>1, <2>2, Elements
  <2>4. WordsOf(entries) \subseteq WordsOf(Pushed(entries))
    BY <2>2, <2>3 DEF WordsOf
  <2>5. lists[l] = Pushed(entries)
    BY DEF entries
  <2> QED
    BY <2>2, <2>4, <2>5 DEF entries
<1>4. contact = IF lists = NoLists /\ card.birthday = None THEN None ELSE ContactInfo(lists, card.birthday)
  BY DEF ParseContactInfo
<1>5. lists \in [ContactLists -> Seq(Written)]
  BY <1>3
<1> HIDE DEF lists, contact
<1>6. CASE lists = NoLists /\ card.birthday = None
  BY <1>3, <1>4, <1>6 DEF ListsOf, BirthdayOf, contact
<1>7. CASE ~(lists = NoLists /\ card.birthday = None)
  <2>1. contact = [lists |-> lists, birthday |-> card.birthday]
    BY <1>4, <1>7 DEF ContactInfo
  <2>2. contact \in Contacts(Written)
    BY <1>1, <1>5, <2>1 DEF Contacts
  <2>3. contact \in Contacts(Written \cup {None})
    <3>1. lists \in [ContactLists -> Seq(Written \cup {None})]
      <4>1. ASSUME NEW l \in ContactLists PROVE lists[l] \in Seq(Written \cup {None})
        BY <1>3
      <4> QED
        BY <1>5, <4>1
    <3> QED
      BY <1>1, <2>1, <3>1 DEF Contacts
  <2>4. contact # None
    BY <2>3, InputsAssumption
  <2>5. contact.lists = lists /\ ListsOf(contact) = lists /\ BirthdayOf(contact) = card.birthday
    BY <2>1, <2>4 DEF ListsOf, BirthdayOf
  <2> QED
    BY <1>3, <2>2, <2>4, <2>5 DEF contact
<1> QED
  BY <1>6, <1>7

\* merge_contact: nothing of the profile's contact is lost, all of the card's is there,
\* and the same card again changes nothing.
LEMMA ContactMerged ==
  ASSUME NEW existing \in Contacts(Written) \cup {None}, NEW card \in Contacts(Written) \cup {None}
  PROVE  LET merged == MergeContact(existing, card)
         IN  /\ MergeContact(merged, card) = merged
             /\ BirthdayOf(existing) \in {None, BirthdayOf(merged)}
             /\ BirthdayOf(existing) = None => BirthdayOf(merged) = BirthdayOf(card)
             /\ \A l \in ContactLists :
                  /\ IsPrefix(ListsOf(existing)[l], ListsOf(merged)[l])
                  /\ WordsOf(ListsOf(card)[l]) \subseteq WordsOf(ListsOf(merged)[l])
                  /\ ListsOf(existing)[l] = <<>> /\ OnePerWord(ListsOf(card)[l]) =>
                       OnePerWord(ListsOf(merged)[l])
<1>1. ASSUME NEW c \in Contacts(Written) \cup {None} PROVE ListsOf(c) \in [ContactLists -> Seq(Written)]
  BY DEF ListsOf, NoLists, Contacts
<1>2. ASSUME NEW s \in Seq(Written)
      PROVE  IsPrefix(s, s) /\ IsPrefix(<<>>, s) /\ \A i \in 1..Len(s) : Contains(s, s[i])
  <2>1. Len(s) \in Nat /\ <<>> \in Seq(Written) /\ Len(<<>>) = 0
    BY Elements
  <2>2. IsPrefix(s, s)
    BY <2>1, PrefixElements
  <2>3. IsPrefix(<<>>, s)
    <3>1. SubSeq(<<>>, 1, 0) = SubSeq(s, 1, 0)
      BY <2>1
    <3> QED
      BY <2>1, <3>1 DEF IsPrefix
  <2> QED
    BY <2>2, <2>3 DEF Contains
<1>3. None \notin Written /\ OnePerWord(<<>>) /\ WordsOf(<<>>) = {}
  BY InputsAssumption DEF OnePerWord, WordsOf
<1>4. ASSUME NEW s \in Seq(Written), NEW t \in Seq(Written), \A i \in 1..Len(s) : Contains(t, s[i])
      PROVE  WordsOf(s) \subseteq WordsOf(t)
  <2>1. DOMAIN s = 1..Len(s) /\ DOMAIN t = 1..Len(t) /\ \A i \in 1..Len(t) : t[i] # None
    BY <1>3, Elements
  <2> QED
    BY <1>4, <2>1 DEF WordsOf, Contains
<1>5. ASSUME NEW c \in Contacts(Written) PROVE c = ContactInfo(c.lists, c.birthday) /\ c # None
  <2>1. c = [lists |-> c.lists, birthday |-> c.birthday]
    BY DEF Contacts
  <2>2. c \in Contacts(Written \cup {None})
    <3>1. c.lists \in [ContactLists -> Seq(Written)] /\ c.birthday \in STRING \cup {None}
      BY DEF Contacts
    <3>2. ASSUME NEW l \in ContactLists PROVE c.lists[l] \in Seq(Written \cup {None})
      BY <3>1
    <3>3. c.lists \in [ContactLists -> Seq(Written \cup {None})]
      BY <3>1, <3>2
    <3> QED
      BY <2>1, <3>1, <3>3 DEF Contacts
  <2> QED
    BY <2>1, <2>2, InputsAssumption DEF ContactInfo
<1>6. CASE card = None
  <2>1. MergeContact(existing, card) = existing /\ MergeContact(existing, None) = existing
    BY <1>6 DEF MergeContact, Or
  <2>2. \A l \in ContactLists : ListsOf(card)[l] = <<>>
    BY <1>6 DEF ListsOf, NoLists
  <2>3. BirthdayOf(card) = None
    BY <1>6 DEF BirthdayOf
  <2> QED
    BY <1>1, <1>2, <1>3, <1>6, <2>1, <2>2, <2>3
<1>7. CASE card # None
  <2> DEFINE Joined(c) == [l \in ContactLists |-> MergeLists(c.lists[l], card.lists[l])]
  <2>1. card \in Contacts(Written) /\ card.lists \in [ContactLists -> Seq(Written)] /\ ListsOf(card) = card.lists
    BY <1>7 DEF Contacts, ListsOf
  <2>2. ASSUME NEW c \in Contacts(Written)
        PROVE  /\ MergeContact(c, card) = ContactInfo(Joined(c), Or(c.birthday, card.birthday))
               /\ c.lists \in [ContactLists -> Seq(Written)]
               /\ Joined(c) \in [ContactLists -> Seq(Written)]
               /\ MergeContact(c, card) \in Contacts(Written)
    <3>1. MergeContact(c, card) = ContactInfo(Joined(c), Or(c.birthday, card.birthday))
      BY <1>5, <1>7 DEF MergeContact
    <3>2. c.lists \in [ContactLists -> Seq(Written)] /\ c.birthday \in STRING \cup {None}
          /\ card.birthday \in STRING \cup {None}
      BY <2>1 DEF Contacts
    <3>3. ASSUME NEW l \in ContactLists PROVE MergeLists(c.lists[l], card.lists[l]) \in Seq(Written)
      BY <2>1, <3>2, MergedLists
    <3>4. Joined(c) \in [ContactLists -> Seq(Written)]
      BY <3>3
    <3> HIDE DEF Joined
    <3>5. ContactInfo(Joined(c), Or(c.birthday, card.birthday)) \in Contacts(Written)
      BY <3>2, <3>4 DEF Contacts, ContactInfo, Or
    <3> QED
      BY <3>1, <3>2, <3>4, <3>5
  \* The same card again, on a contact that has all it says.
  <2>3. ASSUME NEW c \in Contacts(Written), Or(c.birthday, card.birthday) = c.birthday,
               \A l \in ContactLists : \A i \in 1..Len(card.lists[l]) : Contains(c.lists[l], card.lists[l][i])
        PROVE  MergeContact(c, card) = c
    <3>1. ASSUME NEW l \in ContactLists PROVE Joined(c)[l] = c.lists[l]
      <4>1. c.lists[l] \in Seq(Written) /\ card.lists[l] \in Seq(Written)
        BY <2>1, <2>2
      <4>2. \A i \in 1..Len(card.lists[l]) : Contains(c.lists[l], card.lists[l][i])
        BY <2>3
      <4>3. MergeLists(c.lists[l], card.lists[l]) = c.lists[l]
        BY <4>1, <4>2, MergedLists
      <4> QED
        BY <4>3
    <3>2. Joined(c) \in [ContactLists -> Seq(Written)] /\ c.lists \in [ContactLists -> Seq(Written)]
      BY <2>2
    <3> HIDE DEF Joined
    <3>3. Joined(c) = c.lists
      BY <3>1, <3>2
    <3> QED
      BY <1>5, <2>2, <2>3, <3>3
  <2>4. CASE existing = None
    <3>1. MergeContact(existing, card) = card
      BY <2>4 DEF MergeContact, Or
    <3>2. \A l \in ContactLists : \A i \in 1..Len(card.lists[l]) : Contains(card.lists[l], card.lists[l][i])
      BY <1>2, <2>1
    <3>3. MergeContact(card, card) = card
      BY <2>1, <2>3, <3>2 DEF Or
    <3>4. \A l \in ContactLists : ListsOf(existing)[l] = <<>>
      BY <2>4 DEF ListsOf, NoLists
    <3>5. BirthdayOf(existing) = None
      BY <2>4 DEF BirthdayOf
    <3> QED
      BY <1>2, <2>1, <2>4, <3>1, <3>3, <3>4, <3>5
  <2>5. CASE existing # None
    <3> DEFINE merged == MergeContact(existing, card)
    <3>1. existing \in Contacts(Written) /\ ListsOf(existing) = existing.lists
      BY <2>5 DEF ListsOf
    <3>2. merged \in Contacts(Written) /\ merged = ContactInfo(Joined(existing), Or(existing.birthday, card.birthday))
      BY <2>2, <3>1
    <3>3. merged.birthday = Or(existing.birthday, card.birthday)
          /\ \A l \in ContactLists : merged.lists[l] = MergeLists(existing.lists[l], card.lists[l])
      BY <3>2 DEF ContactInfo
    <3>4. ListsOf(merged) = merged.lists
      BY <1>5, <3>2 DEF ListsOf
    <3> HIDE DEF merged
    <3>5. ASSUME NEW l \in ContactLists
          PROVE  /\ IsPrefix(existing.lists[l], merged.lists[l])
                 /\ \A i \in 1..Len(card.lists[l]) : Contains(merged.lists[l], card.lists[l][i])
                 /\ existing.lists[l] = <<>> /\ OnePerWord(card.lists[l]) => OnePerWord(merged.lists[l])
                 /\ merged.lists[l] \in Seq(Written) /\ card.lists[l] \in Seq(Written)
      <4>1. existing.lists[l] \in Seq(Written) /\ card.lists[l] \in Seq(Written)
        BY <2>1, <2>2, <3>1
      <4>2. merged.lists[l] = MergeLists(existing.lists[l], card.lists[l])
        BY <3>3
      <4> DEFINE a == existing.lists[l]
                 b == card.lists[l]
                 r == merged.lists[l]
      <4> HIDE DEF a, b, r
      <4>3. a \in Seq(Written) /\ b \in Seq(Written) /\ r = MergeLists(a, b)
        BY <4>1, <4>2 DEF a, b, r
      <4>4. /\ IsPrefix(a, r) /\ \A i \in 1..Len(b) : Contains(r, b[i])
            /\ a = <<>> /\ OnePerWord(b) => OnePerWord(r)
            /\ r \in Seq(Written)
        BY <4>3, MergedLists
      <4> QED
        BY <4>3, <4>4 DEF a, b, r
    <3>6. Or(merged.birthday, card.birthday) = merged.birthday
      BY <3>3 DEF Or
    <3>7. MergeContact(merged, card) = merged
      BY <2>3, <3>2, <3>5, <3>6
    <3>8. /\ BirthdayOf(existing) \in {None, BirthdayOf(merged)}
          /\ BirthdayOf(existing) = None => BirthdayOf(merged) = BirthdayOf(card)
      <4>1. merged # None
        BY <1>5, <3>2
      <4> QED
        BY <1>7, <2>5, <3>3, <4>1 DEF BirthdayOf, Or
    <3>9. \A l \in ContactLists : WordsOf(card.lists[l]) \subseteq WordsOf(merged.lists[l])
      BY <1>4, <3>5
    <3> QED
      BY <2>1, <3>1, <3>4, <3>5, <3>7, <3>8, <3>9 DEF merged
  <2> QED
    BY <2>4, <2>5
<1> QED
  BY <1>6, <1>7

\* fill_network: what the profile says of the network stays, what it does not is taken,
\* and the same again changes nothing.
LEMMA NetworkFilled ==
  ASSUME NEW existing \in Networks \cup {None}, NEW network \in Networks \cup {None}
  PROVE  LET filled == FillNetwork(existing, network)
         IN  /\ FillNetwork(filled, network) = filled
             /\ \A f \in NetworkFields :
                  /\ FieldOf(existing, f) \in {None, FieldOf(filled, f)}
                  /\ FieldOf(existing, f) = None => FieldOf(network, f) = FieldOf(filled, f)
<1>1. None \notin Networks
  BY InputsAssumption
<1>2. ASSUME NEW n \in Networks PROVE n = [f \in NetworkFields |-> n[f]] /\ n # None
  BY <1>1 DEF Networks, NetworkFields
<1>3. CASE existing = None \/ network = None
  <2>1. FillNetwork(existing, network) = Or(existing, network)
    BY <1>3 DEF FillNetwork
  <2>2. CASE existing = None /\ network # None
    <3>1. network = [f \in NetworkFields |-> Or(network[f], network[f])]
      BY <1>2, <2>2 DEF Or
    <3>2. FillNetwork(existing, network) = network
      BY <2>1, <2>2 DEF Or
    <3>3. FillNetwork(network, network) = network
      BY <2>2, <3>1 DEF FillNetwork
    <3> QED
      BY <2>2, <3>2, <3>3 DEF FieldOf
  <2>3. CASE network = None
    <3>1. FillNetwork(existing, network) = existing
      BY <2>1, <2>3 DEF Or
    <3> QED
      BY <2>3, <3>1 DEF FieldOf
  <2> QED
    BY <1>3, <2>2, <2>3
<1>4. CASE existing # None /\ network # None
  <2> DEFINE filled == [f \in NetworkFields |-> Or(existing[f], network[f])]
  <2>1. FillNetwork(existing, network) = filled
    BY <1>4 DEF FillNetwork
  <2>2. filled # None
    <3> DEFINE E(f) == Or(existing[f], network[f])
               record == [followers |-> E("followers"), connections |-> E("connections"),
                          distance |-> E("distance"), following |-> E("following")]
    <3>1. record \in Networks
      BY <1>4 DEF Networks, Or
    <3>2. record = filled
      BY DEF NetworkFields
    <3> QED
      BY <1>1, <3>1, <3>2
  <2>3. filled = [f \in NetworkFields |-> Or(filled[f], network[f])]
    BY DEF Or
  <2>4. \A f \in NetworkFields :
          /\ existing[f] \in {None, filled[f]}
          /\ existing[f] = None => network[f] = filled[f]
    BY DEF Or
  <2> HIDE DEF filled
  <2>5. FillNetwork(filled, network) = filled
    BY <1>4, <2>2, <2>3 DEF FillNetwork
  <2>6. \A f \in NetworkFields :
          /\ FieldOf(existing, f) \in {None, FieldOf(filled, f)}
          /\ FieldOf(existing, f) = None => FieldOf(network, f) = FieldOf(filled, f)
    <3> TAKE f \in NetworkFields
    <3>1. existing[f] \in {None, filled[f]} /\ (existing[f] = None => network[f] = filled[f])
      BY <2>4
    <3>2. FieldOf(existing, f) = existing[f] /\ FieldOf(network, f) = network[f]
          /\ FieldOf(filled, f) = filled[f]
      BY <1>4, <2>2 DEF FieldOf
    <3> QED
      BY <3>1, <3>2
  <2> QED
    BY <2>1, <2>5, <2>6
<1> QED
  BY <1>3, <1>4

\* EnrichDraft: whatever draft a parser leaves and whatever the three calls bring, the
\* enrichment loses nothing but skills for others, adds what the card says and what was
\* not known of network and birthday, and is done after once.
THEOREM EnrichmentSound == LookupSpec => []EnrichmentKeeps
<1>1. ASSUME InputRead, input.what = "card" PROVE EnrichmentKeeps
  <2> DEFINE before  == input.draft
             contact == ParseContactInfo(input.card)
             added   == IF input.skills = None THEN <<>> ELSE Skills(input.skills)
             after   == EnrichDraft(before, input.skills, input.network, input.card)
             again   == EnrichDraft(after, input.skills, input.network, input.card)
  <2>1. /\ IsDraft(before) /\ input.card \in Contacts(Written \cup {None})
        /\ input.network \in Networks \cup {None} /\ input.skills \in Seq(SkillItems) \cup {None}
    <3>1. input \in Inputs
      BY <1>1 DEF InputRead, NoInput
    <3> QED
      BY <1>1, <3>1, InputsAssumption
  <2>2. /\ DOMAIN before = {"member", "sections", "network", "contact"}
        /\ DOMAIN before.sections = SectionFields
        /\ OnePerWord(SkillNames(before.sections["skills"]))
        /\ before.network \in Networks \cup {None} /\ before.contact \in Contacts(Written) \cup {None}
    BY <2>1 DEF IsDraft
  <2>3. input.card # None
    BY <2>1, InputsAssumption
  <2>4. ASSUME NEW d, DOMAIN d = {"member", "sections", "network", "contact"}
        PROVE  LET e == EnrichDraft(d, input.skills, input.network, input.card)
               IN  /\ e = [x \in DOMAIN d |-> e[x]] /\ DOMAIN e = DOMAIN d
                   /\ e.member = d.member
                   /\ e.sections = AdoptSkills(d.sections, added)
                   /\ e.network = FillNetwork(d.network, input.network)
                   /\ e.contact = MergeContact(d.contact, contact)
    <3> DEFINE e        == EnrichDraft(d, input.skills, input.network, input.card)
               sections == AdoptSkills(d.sections, added)
               network  == FillNetwork(d.network, input.network)
               joined   == MergeContact(d.contact, contact)
    <3>1. e = [d EXCEPT !.sections = sections, !.network = network, !.contact = joined]
      BY <2>3 DEF EnrichDraft
    <3> HIDE DEF e, sections, network, joined
    <3>2. DOMAIN e = DOMAIN d /\ e = [x \in DOMAIN d |-> e[x]]
      BY <3>1
    <3>3. e.member = d.member /\ e.sections = sections /\ e.network = network /\ e.contact = joined
      BY <2>4, <3>1
    <3> QED
      BY <3>2, <3>3 DEF e, sections, network, joined
  <2>5. /\ after = [x \in DOMAIN before |-> after[x]] /\ DOMAIN after = DOMAIN before
        /\ after.sections = AdoptSkills(before.sections, added)
        /\ after.network = FillNetwork(before.network, input.network)
        /\ after.contact = MergeContact(before.contact, contact)
    <3> HIDE DEF contact, added
    <3> QED
      BY <2>2, <2>4
  <2>6. /\ again = [x \in DOMAIN before |-> again[x]]
        /\ again.member = after.member
        /\ again.sections = AdoptSkills(after.sections, added)
        /\ again.network = FillNetwork(after.network, input.network)
        /\ again.contact = MergeContact(after.contact, contact)
    <3> HIDE DEF contact, added, after
    <3> QED
      BY <2>2, <2>4, <2>5
  <2>7. AdoptSkills(AdoptSkills(before.sections, added), added) = AdoptSkills(before.sections, added)
    <3> HIDE DEF added
    <3> QED
      BY DEF AdoptSkills
  <2>8. OnePerWord(SkillNames(after.sections["skills"]))
    <3>1. CASE added = <<>>
      BY <2>2, <2>5, <3>1 DEF AdoptSkills
    <3>2. CASE added # <<>>
      <4>1. added = Skills(input.skills) /\ input.skills \in Seq(SkillItems)
        BY <2>1, <3>2
      <4> HIDE DEF added, after
      <4>2. after.sections["skills"] = added
        BY <2>2, <2>5, <3>2 DEF AdoptSkills, SectionFields
      <4> QED
        BY <4>1, <4>2, SkillsApart
    <3> QED
      BY <3>1, <3>2
  <2>15. IF input.skills = None \/ Named(input.skills) = {} THEN after.sections = before.sections
         ELSE Named(after.sections["skills"]) = Named(input.skills)
    <3>1. CASE input.skills = None
      BY <2>5, <3>1 DEF AdoptSkills
    <3>2. CASE input.skills # None
      <4>1. added = Skills(input.skills) /\ input.skills \in Seq(SkillItems)
        BY <2>1, <3>2
      <4>2. Named(added) = Named(input.skills) /\ (added = <<>> => Named(input.skills) = {})
            /\ (Named(input.skills) = {} => added = <<>>)
        BY <4>1, SkillsNamed
      <4> HIDE DEF added, after
      <4>3. added # <<>> => after.sections["skills"] = added
        BY <2>2, <2>5 DEF AdoptSkills, SectionFields
      <4> QED
        BY <2>5, <3>2, <4>2, <4>3 DEF AdoptSkills
    <3> QED
      BY <3>1, <3>2
  <2>9. /\ contact \in Contacts(Written) \cup {None}
        /\ BirthdayOf(contact) = input.card.birthday
        /\ contact # None => \A l \in ContactLists : OnePerWord(contact.lists[l])
        /\ \A l \in ContactLists : WordsOf(input.card.lists[l]) \subseteq WordsOf(ListsOf(contact)[l])
    BY <2>1, CardRead
  <2> HIDE DEF contact, added, after, again
  <2>10. \A l \in ContactLists : OnePerWord(ListsOf(contact)[l])
    BY <2>9 DEF ListsOf, NoLists, OnePerWord
  <2>11. /\ MergeContact(after.contact, contact) = after.contact
         /\ BirthdayOf(before.contact) \in {None, BirthdayOf(after.contact)}
         /\ BirthdayOf(before.contact) = None => BirthdayOf(contact) = BirthdayOf(after.contact)
         /\ \A l \in ContactLists :
              /\ IsPrefix(ListsOf(before.contact)[l], ListsOf(after.contact)[l])
              /\ WordsOf(ListsOf(contact)[l]) \subseteq WordsOf(ListsOf(after.contact)[l])
              /\ ListsOf(before.contact)[l] = <<>> /\ OnePerWord(ListsOf(contact)[l]) =>
                   OnePerWord(ListsOf(after.contact)[l])
    BY <2>2, <2>5, <2>9, ContactMerged
  <2>12. /\ FillNetwork(after.network, input.network) = after.network
         /\ \A f \in NetworkFields :
              /\ FieldOf(before.network, f) \in {None, FieldOf(after.network, f)}
              /\ FieldOf(before.network, f) = None =>
                   FieldOf(input.network, f) = FieldOf(after.network, f)
    BY <2>1, <2>2, <2>5, NetworkFilled
  <2>13. again = after
    <3>1. \A x \in DOMAIN before : again[x] = after[x]
      BY <2>2, <2>5, <2>6, <2>7, <2>11, <2>12
    <3> QED
      BY <2>5, <2>6, <3>1
  <2>14. \A l \in ContactLists :
           WordsOf(input.card.lists[l]) \subseteq WordsOf(ListsOf(after.contact)[l])
    BY <2>9, <2>11
  <2> QED
    BY <1>1, <2>8, <2>9, <2>10, <2>11, <2>12, <2>13, <2>14, <2>15 DEF EnrichmentKeeps, after, again
<1>2. InputRead => EnrichmentKeeps
  BY <1>1 DEF EnrichmentKeeps
<1> QED
  BY <1>2, InputKept, PTL

-----------------------------------------------------------------------------
(* Experience                                                              *)

\* In a finite set that is ordered each place is someone's, and those ahead come first.
Place(R, I, i) == Cardinality({j \in I : <<j, i>> \in R})

LEMMA Places ==
  ASSUME NEW I, IsFiniteSet(I), NEW R,
         \A i \in I : <<i, i>> \notin R,
         \A i \in I, j \in I : i # j => <<i, j>> \in R \/ <<j, i>> \in R,
         \A i \in I, j \in I, k \in I : <<i, j>> \in R /\ <<j, k>> \in R => <<i, k>> \in R
  PROVE  /\ Cardinality(I) \in Nat
         /\ \A i \in I : Place(R, I, i) \in 0..Cardinality(I) - 1
         /\ \A i \in I, j \in I : <<i, j>> \in R => Place(R, I, i) < Place(R, I, j)
         /\ \A n \in 1..Cardinality(I) : \E i \in I : Place(R, I, i) = n - 1
<1> DEFINE N == Cardinality(I)
           Below(i) == {j \in I : <<j, i>> \in R}
<1>1. N \in Nat
  BY FS_CardinalityType
<1>2. \A S \in SUBSET I : IsFiniteSet(S) /\ Cardinality(S) \in Nat /\ Cardinality(S) <= N
                            /\ (Cardinality(S) = N => S = I)
  BY FS_Subset, FS_CardinalityType
<1>3. ASSUME NEW i \in I PROVE Place(R, I, i) = Cardinality(Below(i)) /\ Place(R, I, i) \in 0..N - 1
  <2>1. Below(i) \in SUBSET I /\ i \notin Below(i)
    OBVIOUS
  <2>2. Cardinality(Below(i)) \in Nat /\ Cardinality(Below(i)) <= N /\ Cardinality(Below(i)) # N
    <3> HIDE DEF Below, N
    <3> QED
      BY <1>2, <2>1
  <2>3. Place(R, I, i) = Cardinality(Below(i))
    BY DEF Place
  <2> HIDE DEF Below, N
  <2> QED
    BY <1>1, <2>2, <2>3
<1>4. ASSUME NEW i \in I, NEW j \in I, <<i, j>> \in R PROVE Place(R, I, i) < Place(R, I, j)
  <2>1. Below(i) \subseteq Below(j) /\ i \in Below(j) /\ i \notin Below(i)
    BY <1>4
  <2>2. IsFiniteSet(Below(j))
    BY <1>2
  <2> HIDE DEF Below
  <2>3. Cardinality(Below(i)) <= Cardinality(Below(j)) /\ Cardinality(Below(i)) # Cardinality(Below(j))
    BY <2>1, <2>2, FS_Subset
  <2> QED
    BY <1>3, <2>3
<1> DEFINE f == [i \in I |-> Place(R, I, i)]
           T == 0..N - 1
<1>5. f \in Injection(I, T)
  <2>1. f \in [I -> T]
    BY <1>3
  <2>2. ASSUME NEW i \in I, NEW j \in I, i # j PROVE Place(R, I, i) # Place(R, I, j)
    <3> HIDE DEF Below, N
    <3>1. Place(R, I, i) \in Int /\ Place(R, I, j) \in Int
      BY <1>1, <1>3
    <3>2. CASE <<i, j>> \in R
      <4>1. Place(R, I, i) < Place(R, I, j)
        BY <1>4, <3>2
      <4> QED
        BY <3>1, <4>1
    <3>3. CASE <<j, i>> \in R
      <4>1. Place(R, I, j) < Place(R, I, i)
        BY <1>4, <3>3
      <4> QED
        BY <3>1, <4>1
    <3> QED
      BY <2>2, <3>2, <3>3
  <2>3. \A i \in I, j \in I : f[i] = f[j] => i = j
    BY <2>2
  <2> QED
    BY <2>1, <2>3 DEF Injection, IsInjective
<1>6. IsFiniteSet(T) /\ Cardinality(T) = N
  <2> HIDE DEF N
  <2>1. 0 \in Int /\ N - 1 \in Int
    BY <1>1
  <2> DEFINE b == N - 1
  <2>2. /\ IsFiniteSet(0..b)
        /\ Cardinality(0..b) = IF 0 > b THEN 0 ELSE b - 0 + 1
    <3> HIDE DEF b, T
    <3>1. b \in Int
      BY <2>1 DEF b
    <3> QED
      BY <2>1, <3>1, FS_Interval
  <2>3. (IF 0 > b THEN 0 ELSE b - 0 + 1) = N
    BY <1>1
  <2> QED
    BY <2>2, <2>3
<1>7. f \in Surjection(I, T)
  <2> HIDE DEF f, T
  <2> QED
    BY <1>5, <1>6, FS_Injection
<1>8. ASSUME NEW n \in 1..N PROVE \E i \in I : Place(R, I, i) = n - 1
  <2>1. n - 1 \in T
    BY <1>1
  <2> QED
    BY <1>7, <2>1 DEF Surjection
<1> QED
  BY <1>1, <1>3, <1>4, <1>8

\* The start of a position as a number: what experience_sort_key orders by.
Key(p) == IF p.start # None /\ p.start.year # None THEN 13 * (p.start.year + 1) + Or(p.start.month, 0)
          ELSE 0

LEMMA KeysOrder ==
  /\ \A p \in Positions : Key(p) \in Nat
  /\ \A p, q \in Positions : NewestFirst(p, q) <=> Key(p) > Key(q)
<1> DEFINE dated(p) == p.start # None /\ p.start.year # None
           month(p) == IF p.start.month = None THEN 0 ELSE p.start.month
<1>1. ASSUME NEW p \in Positions
      PROVE  /\ dated(p) => /\ p.start.year \in Nat /\ month(p) \in 0..12
                            /\ Key(p) = 13 * (p.start.year + 1) + month(p)
             /\ ~dated(p) => Key(p) = 0
  <2>1. p.start = None \/ p.start \in [year : Nat \cup {None}, month : 1..12 \cup {None}]
    BY DEF Positions
  <2>2. dated(p) => p.start.year \in Nat /\ p.start.month \in 1..12 \cup {None}
    BY <2>1
  <2> QED
    BY <2>2 DEF Key, Or
<1>2. ASSUME NEW p \in Positions PROVE Key(p) \in Nat /\ (dated(p) <=> Key(p) # 0)
  <2>1. CASE dated(p)
    BY <1>1, <2>1
  <2>2. CASE ~dated(p)
    BY <1>1, <2>2
  <2> QED
    BY <2>1, <2>2
<1>3. ASSUME NEW p \in Positions, NEW q \in Positions PROVE NewestFirst(p, q) <=> Key(p) > Key(q)
  <2>1. NewestFirst(p, q) <=>
          \/ dated(p) /\ ~dated(q)
          \/ dated(p) /\ dated(q) /\ p.start.year > q.start.year
          \/ dated(p) /\ dated(q) /\ p.start.year = q.start.year /\ month(p) > month(q)
    BY DEF NewestFirst
  <2>2. CASE dated(p) /\ dated(q)
    <3>1. \A a, b \in Nat, i, j \in 0..12 :
            13 * (a + 1) + i > 13 * (b + 1) + j <=> a > b \/ (a = b /\ i > j)
      OBVIOUS
    <3>2. /\ p.start.year \in Nat /\ month(p) \in 0..12 /\ Key(p) = 13 * (p.start.year + 1) + month(p)
          /\ q.start.year \in Nat /\ month(q) \in 0..12 /\ Key(q) = 13 * (q.start.year + 1) + month(q)
      BY <1>1, <2>2
    <3>3. Key(p) > Key(q) <=> p.start.year > q.start.year \/ (p.start.year = q.start.year /\ month(p) > month(q))
      <4> HIDE DEF month
      <4> QED
        BY <3>1, <3>2
    <3> HIDE DEF month, dated
    <3> QED
      BY <2>1, <2>2, <3>3
  <2>3. CASE ~(dated(p) /\ dated(q))
    <3> HIDE DEF month, dated
    <3> QED
      BY <1>2, <2>1, <2>3
  <2> QED
    BY <2>2, <2>3
<1> QED
  BY <1>2, <1>3

\* experience_sort_key, sort_by_key: the elements that are kept, each at a place of its
\* own, none before one with a later start.
LEMMA Sorted ==
  ASSUME NEW seq \in Seq(Positions), NEW at \in SUBSET DOMAIN seq
  PROVE  \E place \in [1..Cardinality(at) -> at] :
           /\ Cardinality(at) \in Nat
           /\ SortSome(seq, at, NewestFirst) = [n \in 1..Cardinality(at) |-> seq[place[n]]]
           /\ \A i \in at : \E n \in 1..Cardinality(at) : place[n] = i
           /\ \A m, n \in 1..Cardinality(at) : place[m] = place[n] => m = n
           /\ \A m, n \in 1..Cardinality(at) : m < n => Key(seq[place[m]]) >= Key(seq[place[n]])
<1> DEFINE Ahead(i, j) == NewestFirst(seq[i], seq[j]) \/ (i < j /\ ~NewestFirst(seq[j], seq[i]))
           R == {p \in at \X at : Ahead(p[1], p[2])}
           N == Cardinality(at)
           place == [n \in 1..N |-> CHOOSE i \in at : Place(R, at, i) = n - 1]
<1>1. Len(seq) \in Nat /\ DOMAIN seq = 1..Len(seq) /\ \A i \in at : i \in Nat /\ seq[i] \in Positions
  BY Elements
<1>2. IsFiniteSet(at)
  <2>1. 1 \in Int /\ Len(seq) \in Int
    BY <1>1
  <2>2. IsFiniteSet(1..Len(seq))
    BY <2>1, FS_Interval
  <2> QED
    BY <1>1, <2>2, FS_Subset
<1>3. \A i, j \in at : <<i, j>> \in R <=> Key(seq[i]) > Key(seq[j]) \/ (Key(seq[i]) = Key(seq[j]) /\ i < j)
  <2>1. \A i, j \in at : <<i, j>> \in R <=> Ahead(i, j)
    OBVIOUS
  <2>2. ASSUME NEW i \in at, NEW j \in at
        PROVE  Ahead(i, j) <=> Key(seq[i]) > Key(seq[j]) \/ (Key(seq[i]) = Key(seq[j]) /\ i < j)
    <3>1. /\ NewestFirst(seq[i], seq[j]) <=> Key(seq[i]) > Key(seq[j])
          /\ NewestFirst(seq[j], seq[i]) <=> Key(seq[j]) > Key(seq[i])
          /\ Key(seq[i]) \in Nat /\ Key(seq[j]) \in Nat
      BY <1>1, KeysOrder
    <3> QED
      BY <3>1
  <2> HIDE DEF Ahead, R
  <2> QED
    BY <2>1, <2>2
<1>4. \A i \in at : i \in Nat /\ Key(seq[i]) \in Nat
  BY <1>1, KeysOrder
<1>5. SortSome(seq, at, NewestFirst) = [n \in 1..N |-> seq[place[n]]]
  <2>1. ASSUME NEW i \in at PROVE Place(R, at, i) = Cardinality({j \in at : Ahead(j, i)})
    <3>1. {j \in at : <<j, i>> \in R} = {j \in at : Ahead(j, i)}
      OBVIOUS
    <3> QED
      BY <3>1 DEF Place
  <2>2. SortSome(seq, at, NewestFirst) =
          [n \in 1..N |-> seq[CHOOSE i \in at : Cardinality({j \in at : Ahead(j, i)}) = n - 1]]
    BY DEF SortSome
  <2> DEFINE Rank(i) == Cardinality({j \in at : Ahead(j, i)})
  <2> HIDE DEF Rank, R, Ahead
  <2>3. \A n \in 1..N : (CHOOSE i \in at : Place(R, at, i) = n - 1) = CHOOSE i \in at : Rank(i) = n - 1
    BY <2>1 DEF Rank
  <2>4. SortSome(seq, at, NewestFirst) = [n \in 1..N |-> seq[CHOOSE i \in at : Rank(i) = n - 1]]
    BY <2>2 DEF Rank
  <2> QED
    BY <2>3, <2>4
<1> HIDE DEF R, N
<1>6. /\ N \in Nat /\ \A i \in at : Place(R, at, i) \in 0..N - 1
      /\ \A i, j \in at : <<i, j>> \in R => Place(R, at, i) < Place(R, at, j)
      /\ \A n \in 1..N : \E i \in at : Place(R, at, i) = n - 1
  <2>1. \A i \in at : <<i, i>> \notin R
    BY <1>3, <1>4
  <2>2. \A i, j \in at : i # j => <<i, j>> \in R \/ <<j, i>> \in R
    BY <1>3, <1>4
  <2>3. \A i, j, k \in at : <<i, j>> \in R /\ <<j, k>> \in R => <<i, k>> \in R
    BY <1>3, <1>4
  <2> QED
    BY <1>2, <2>1, <2>2, <2>3, Places DEF N
<1>7. \A n \in 1..N : place[n] \in at /\ Place(R, at, place[n]) = n - 1
  BY <1>6
<1> HIDE DEF place
<1>8. place \in [1..N -> at]
  BY <1>7 DEF place
<1>9. ASSUME NEW i \in at PROVE \E n \in 1..N : place[n] = i
  <2> DEFINE n == Place(R, at, i) + 1
  <2>1. n \in 1..N /\ Place(R, at, i) = n - 1
    BY <1>6
  <2> HIDE DEF n
  <2>2. place[n] \in at /\ Place(R, at, place[n]) = Place(R, at, i)
    BY <1>7, <2>1
  <2>3. \A j \in at : Place(R, at, j) \in Int
    BY <1>6
  <2>4. place[n] = i
    <3>1. place[n] # i => <<place[n], i>> \in R \/ <<i, place[n]>> \in R
      BY <1>3, <1>4, <2>2
    <3> QED
      BY <1>6, <2>2, <2>3, <3>1
  <2> QED
    BY <2>1, <2>4
<1>10. ASSUME NEW m \in 1..N, NEW n \in 1..N, place[m] = place[n] PROVE m = n
  <2>1. m - 1 = n - 1
    BY <1>7, <1>10
  <2> QED
    BY <1>6, <2>1
<1>11. ASSUME NEW m \in 1..N, NEW n \in 1..N, m < n PROVE Key(seq[place[m]]) >= Key(seq[place[n]])
  <2>1. /\ place[m] \in at /\ place[n] \in at
        /\ Place(R, at, place[m]) < Place(R, at, place[n])
        /\ Place(R, at, place[m]) \in Int /\ Place(R, at, place[n]) \in Int
    BY <1>6, <1>7, <1>11
  <2>2. <<place[n], place[m]>> \notin R
    BY <1>6, <2>1
  <2> QED
    BY <1>3, <1>4, <2>1, <2>2
<1> QED
  BY <1>5, <1>6, <1>8, <1>9, <1>10, <1>11 DEF N

-----------------------------------------------------------------------------

\* What flatten_positions has at hand: the positions so far, and the URNs of them.
UrnsOf(positions) == {positions[i].urn : i \in DOMAIN positions}
Sofars == [seen : SUBSET (Urns \cup {None}), positions : Seq(Positions)]
Fits(s) == /\ s.seen = UrnsOf(s.positions)
           /\ \A i, j \in DOMAIN s.positions : s.positions[i].urn = s.positions[j].urn => i = j
Extends(t, s) == /\ Len(s.positions) <= Len(t.positions)
                 /\ \A k \in 1..Len(s.positions) : t.positions[k] = s.positions[k]
Has(t, position) == \E k \in 1..Len(t.positions) : t.positions[k] = position

LEMMA MergedPosition ==
  ASSUME NEW group \in Groups, NEW p \in Positions
  PROVE  /\ Merged(group, p) \in Positions /\ Merged(group, p).urn = p.urn
         /\ Merged(group, p).title = p.title /\ Merged(group, p).start = p.start
         /\ Merged(group, p).companyName = Or(p.companyName, group.companyName)
<1>1. group.companyName \in STRING \cup {None} /\ group.company \in STRING \cup {None}
  BY DEF Groups
<1> DEFINE name    == Or(p.companyName, group.companyName)
           company == Or(p.company, group.company)
           q == [urn |-> p.urn, title |-> p.title, companyName |-> name, company |-> company,
                 start |-> p.start]
<1>2. Merged(group, p) = q
  <2>1. Merged(group, p) = [p EXCEPT !.companyName = name, !.company = company]
    BY DEF Merged
  <2> HIDE DEF name, company
  <2> DEFINE r == [p EXCEPT !.companyName = name, !.company = company]
             Fields == {"urn", "title", "companyName", "company", "start"}
  <2>2. DOMAIN p = Fields
    BY DEF Positions
  <2>3. DOMAIN r = Fields /\ r = [x \in Fields |-> r[x]]
    BY <2>2
  <2>4. /\ r.urn = p.urn /\ r.title = p.title /\ r.companyName = name
        /\ r.company = company /\ r.start = p.start
    BY <2>2
  <2>5. DOMAIN q = Fields /\ q = [x \in Fields |-> q[x]]
    OBVIOUS
  <2>6. /\ q.urn = p.urn /\ q.title = p.title /\ q.companyName = name
        /\ q.company = company /\ q.start = p.start
    OBVIOUS
  <2> HIDE DEF r, q
  <2>8. \A x \in Fields : r[x] = q[x]
    BY <2>4, <2>6
  <2> HIDE DEF Fields
  <2>7. r = q
    BY <2>3, <2>5, <2>8
  <2> QED
    BY <2>1, <2>7 DEF r
<1>3. q \in Positions
  BY <1>1 DEF Positions, Or
<1> QED
  BY <1>2, <1>3

\* A position that is added is there afterwards, unless its URN was, and then nothing is.
LEMMA AddOne ==
  ASSUME NEW s \in Sofars, Fits(s), NEW group \in Groups, NEW p \in Positions
  PROVE  LET t == Add(s, group, p)
         IN  /\ t \in Sofars /\ Fits(t) /\ Extends(t, s)
             /\ t.seen = s.seen \cup {p.urn}
             /\ p.urn \notin s.seen => Has(t, Merged(group, p))
<1>1. p # None
  BY InputsAssumption
<1>2. /\ s.seen \in SUBSET (Urns \cup {None}) /\ s.positions \in Seq(Positions)
      /\ Len(s.positions) \in Nat /\ DOMAIN s.positions = 1..Len(s.positions)
  BY Elements DEF Sofars
<1>3. CASE p.urn \in s.seen
  <2>1. Add(s, group, p) = s
    BY <1>3 DEF Add
  <2> QED
    BY <1>2, <1>3, <2>1 DEF Extends
<1>4. CASE p.urn \notin s.seen
  <2> DEFINE m == Merged(group, p)
             n == Len(s.positions)
             t == [seen |-> s.seen \cup {p.urn}, positions |-> Append(s.positions, m)]
  <2>1. Add(s, group, p) = t
    BY <1>1, <1>4 DEF Add
  <2>2. m \in Positions /\ m.urn = p.urn /\ p.urn \in Urns \cup {None}
    BY MergedPosition DEF Positions
  <2> HIDE DEF m
  <2>3. /\ t.positions \in Seq(Positions) /\ Len(t.positions) = n + 1 /\ DOMAIN t.positions = 1..n + 1
        /\ t.positions[n + 1] = m /\ \A k \in 1..n : t.positions[k] = s.positions[k]
    BY <1>2, <2>2, Appended
  <2>4. t \in Sofars
    BY <1>2, <2>2, <2>3 DEF Sofars
  <2>5. t.seen = s.seen \cup {p.urn}
    OBVIOUS
  <2> HIDE DEF t
  <2>6. n \in Nat /\ n + 1 \in 1..n + 1 /\ \A k \in 1..n + 1 : k \in 1..n \/ k = n + 1
    BY <1>2
  <2>7. \A k \in 1..n : k \in 1..n + 1 /\ s.positions[k].urn \in s.seen
    BY <1>2 DEF Fits, UrnsOf
  <2>8. t.seen = UrnsOf(t.positions)
    <3>1. \A u \in s.seen : \E k \in 1..n : s.positions[k].urn = u
      BY <1>2 DEF Fits, UrnsOf
    <3>2. \A u \in t.seen : \E k \in 1..n + 1 : t.positions[k].urn = u
      BY <2>2, <2>3, <2>5, <2>6, <2>7, <3>1
    <3>3. \A k \in 1..n + 1 : t.positions[k].urn \in t.seen
      BY <2>2, <2>3, <2>5, <2>6, <2>7
    <3>4. UrnsOf(t.positions) = {t.positions[k].urn : k \in 1..n + 1}
      BY <2>3 DEF UrnsOf
    <3> QED
      BY <3>2, <3>3, <3>4
  <2>9. \A i, j \in 1..n + 1 : t.positions[i].urn = t.positions[j].urn => i = j
    <3>1. \A i, j \in 1..n : s.positions[i].urn = s.positions[j].urn => i = j
      BY <1>2 DEF Fits
    <3> QED
      BY <1>4, <2>2, <2>3, <2>6, <2>7, <3>1
  <2>10. Fits(t)
    BY <2>3, <2>8, <2>9 DEF Fits
  <2>11. Extends(t, s) /\ Has(t, m)
    BY <2>3, <2>6 DEF Extends, Has
  <2> QED
    BY <2>1, <2>4, <2>5, <2>10, <2>11 DEF m
<1> QED
  BY <1>3, <1>4

\* The loop over the positions of a group, in the embedded envelope.
LEMMA GroupUnwrapped ==
  ASSUME NEW s \in Sofars, Fits(s), NEW payload, ~payload.normalised, NEW group \in Groups
  PROVE  LET t == Unwrap(s, payload, group)
         IN  /\ t \in Sofars /\ Fits(t) /\ Extends(t, s)
             /\ t.seen = s.seen \cup UrnsOf(group.items)
             /\ (\A i, j \in DOMAIN group.items : group.items[i].urn = group.items[j].urn => i = j) =>
                  \A i \in DOMAIN group.items :
                    group.items[i].urn \notin s.seen => Has(t, Merged(group, group.items[i]))
<1> DEFINE items == group.items
           N == Len(items)
           Body(h) == [n \in 0..N |-> IF n = 0 THEN s ELSE Add(h[n - 1], group, items[n])]
           added == CHOOSE h : h = Body(h)
<1>1. N \in Nat /\ DOMAIN items = 1..N /\ items \in Seq(Positions) /\ \A n \in 1..N : items[n] \in Positions
  <2>1. items \in Seq(Positions)
    BY DEF Groups
  <2> QED
    BY <2>1, Elements
<1>2. GroupPositions(payload, group) = items
  <2>1. \A i \in 1..N : items[i] \notin Urns
    BY <1>1, InputsAssumption
  <2>2. GroupPositions(payload, group) = [i \in 1..N |-> items[i]]
    BY <1>1, <2>1 DEF GroupPositions
  <2> HIDE DEF items, N
  <2> QED
    BY <1>1, <2>2
<1>3. Unwrap(s, payload, group) = added[N]
  <2> HIDE DEF items
  <2> QED
    BY <1>2 DEF Unwrap
<1> HIDE DEF items
<1> DEFINE F == {t \in Sofars : Fits(t)}
           G == [q \in F \X (1..N) |-> Add(q[1], group, items[q[2]])]
<1>4. \A t \in F, n \in 1..N : Add(t, group, items[n]) \in F
  BY <1>1, AddOne
<1>5. G \in [F \X (1..N) -> F] /\ s \in F
  <2>1. G \in [F \X (1..N) -> F]
    BY <1>4
  <2> QED
    BY <2>1
<1>6. \A t \in F, n \in 1..N : G[<<t, n>>] = Add(t, group, items[n])
  OBVIOUS
<1>7. PICK g \in [0..N -> F] : GoesOn(g, s, N, G)
  <2> HIDE DEF N, F, G
  <2> QED
    BY <1>1, <1>5, Recursion
<1>8. g[0] = s /\ \A n \in 1..N : g[n] = G[<<g[n - 1], n>>]
  BY <1>7 DEF GoesOn
<1>9. \A n \in 1..N : g[n] = Add(g[n - 1], group, items[n])
  <2> HIDE DEF N, F, G
  <2> TAKE n \in 1..N
  <2>1. n - 1 \in 0..N
    BY <1>1
  <2> QED
    BY <1>6, <1>8, <2>1
<1>10. g = Body(g)
  <2> HIDE DEF N, F
  <2>1. \A n \in 0..N : n = 0 \/ n \in 1..N
    BY <1>1
  <2> QED
    BY <1>8, <1>9, <2>1
<1>11. added = Body(added)
  <2> HIDE DEF Body
  <2> QED
    BY <1>10
<1>12. added[0] = s /\ \A n \in 1..N : added[n] = Add(added[n - 1], group, items[n])
  <2> HIDE DEF added, N
  <2> QED
    BY <1>1, <1>11
<1>13. added \in [0..N -> F]
  <2> HIDE DEF added, N, F
  <2>1. added = [n \in 0..N |-> added[n]]
    BY <1>11
  <2>2. added[0] \in F /\ \A n \in 1..N : added[n - 1] \in F => added[n] \in F
    BY <1>4, <1>5, <1>12
  <2> QED
    BY <1>1, <2>1, <2>2, Throughout
<1> HIDE DEF added, G
<1> DEFINE Apart == \A i, j \in 1..N : items[i].urn = items[j].urn => i = j
           Upto(n) == /\ Extends(added[n], s)
                      /\ added[n].seen = s.seen \cup {items[i].urn : i \in 1..n}
                      /\ Apart => \A i \in 1..n : items[i].urn \notin s.seen =>
                                    Has(added[n], Merged(group, items[i]))
           S == {n \in 0..N : Upto(n)}
<1> HIDE DEF N
<1>14. 0 \in S
  <2>1. Len(s.positions) \in Nat
    BY Elements DEF Sofars
  <2>2. Extends(s, s)
    BY <2>1 DEF Extends
  <2> QED
    BY <1>1, <1>12, <2>2
<1>15. ASSUME NEW n \in 1..N, n - 1 \in S PROVE n \in S
  <2> DEFINE r == added[n - 1]
             t == added[n]
  <2>0. n - 1 \in 0..N /\ n \in 0..N /\ \A i \in 1..n : i = n \/ i \in 1..n - 1
    BY <1>1
  <2>1. r \in Sofars /\ Fits(r) /\ t \in Sofars /\ t = Add(r, group, items[n]) /\ Upto(n - 1)
    BY <1>12, <1>13, <1>15, <2>0
  <2>2. /\ Extends(t, r) /\ t.seen = r.seen \cup {items[n].urn}
        /\ items[n].urn \notin r.seen => Has(t, Merged(group, items[n]))
    <3> HIDE DEF r, t
    <3> QED
      BY <1>1, <2>1, AddOne
  <2>3. t.seen = s.seen \cup {items[i].urn : i \in 1..n}
    BY <2>0, <2>1, <2>2
  <2> HIDE DEF r, t
  <2>4. /\ Len(s.positions) \in Nat /\ Len(r.positions) \in Nat /\ Len(t.positions) \in Nat
    BY <2>1, Elements DEF Sofars
  <2>5. Extends(t, s)
    <3>1. Extends(r, s)
      BY <2>1 DEF r
    <3> QED
      BY <2>2, <2>4, <3>1 DEF Extends
  <2>6. \A p : Has(r, p) => Has(t, p)
    BY <2>2, <2>4 DEF Extends, Has
  <2>7. ASSUME Apart, NEW i \in 1..n, items[i].urn \notin s.seen PROVE Has(t, Merged(group, items[i]))
    <3>1. CASE i \in 1..n - 1
      <4>1. Has(r, Merged(group, items[i]))
        BY <2>1, <2>7, <3>1 DEF r
      <4> QED
        BY <2>6, <4>1
    <3>2. CASE i = n
      <4>1. r.seen = s.seen \cup {items[j].urn : j \in 1..n - 1}
        BY <2>1 DEF r
      <4>2. \A j \in 1..n - 1 : j \in 1..N /\ j # n
        BY <1>1
      <4>3. items[n].urn \notin r.seen
        BY <2>7, <3>2, <4>1, <4>2
      <4> QED
        BY <2>2, <3>2, <4>3
    <3> QED
      BY <2>0, <3>1, <3>2
  <2> QED
    BY <2>0, <2>3, <2>5, <2>7 DEF t
<1>16. N \in S
  <2> HIDE DEF S
  <2>1. 0..N \subseteq S
    BY <1>1, <1>14, <1>15, Induction
  <2> QED
    BY <1>1, <2>1
<1>17. added[N] \in Sofars /\ Fits(added[N])
  BY <1>1, <1>13
<1>18. UrnsOf(items) = {items[i].urn : i \in 1..N}
  BY <1>1 DEF UrnsOf
<1> QED
  BY <1>1, <1>3, <1>16, <1>17, <1>18 DEF items

UrnsIn(groups, n) == UNION {UrnsOf(groups[g].items) : g \in 1..n}

\* flatten_positions: what stands alone is there as it is, and of what is in a group and
\* does not stand alone too, each is there with what its group says; no URN twice.
LEMMA Flattened ==
  ASSUME NEW m, IsMember(m)
  PROVE  LET flat == FlattenPositions(Embedded(m))
         IN  /\ flat \in Seq(Positions)
             /\ \A i, j \in DOMAIN flat : flat[i].urn = flat[j].urn => i = j
             /\ \A i \in DOMAIN m.alone : \E k \in DOMAIN flat : flat[k] = m.alone[i]
             /\ \A g \in DOMAIN m.groups : \A i \in DOMAIN m.groups[g].items :
                  m.groups[g].items[i].urn \notin UrnsOf(m.alone) =>
                    \E k \in DOMAIN flat : flat[k] = Merged(m.groups[g], m.groups[g].items[i])
<1> DEFINE groups == m.groups
           alone  == m.alone
           payload == Embedded(m)
           N == Len(groups)
           s == [seen |-> UrnsOf(alone), positions |-> alone]
           Body(h) == [n \in 0..N |-> IF n = 0 THEN s ELSE Unwrap(h[n - 1], payload, groups[n])]
           flat == CHOOSE h : h = Body(h)
           F == {t \in Sofars : Fits(t)}
           G == [q \in F \X (1..N) |-> Unwrap(q[1], payload, groups[q[2]])]
<1>1. /\ N \in Nat /\ DOMAIN groups = 1..N /\ \A n \in 1..N : groups[n] \in Groups
      /\ alone \in Seq(Positions) /\ DOMAIN alone = 1..Len(alone)
      /\ \A i, j \in DOMAIN alone : alone[i].urn = alone[j].urn => i = j
      /\ \A g, h \in 1..N : \A i \in DOMAIN groups[g].items, j \in DOMAIN groups[h].items :
           groups[g].items[i].urn = groups[h].items[j].urn => g = h /\ i = j
  <2>1. groups \in Seq(Groups) /\ alone \in Seq(Positions)
    BY DEF IsMember
  <2>2. /\ N \in Nat /\ DOMAIN groups = 1..N /\ \A n \in 1..N : groups[n] \in Groups
        /\ DOMAIN alone = 1..Len(alone)
    <3> HIDE DEF groups, alone
    <3> QED
      BY <2>1, Elements
  <2> QED
    BY <2>1, <2>2 DEF IsMember
<1>2. /\ ~payload.normalised /\ FlattenPositions(payload) = flat[N].positions
  <2>1. ~payload.normalised /\ payload.positions = alone /\ payload.groups = groups
    BY DEF Embedded
  <2>2. EntitiesOf(payload, payload.positions) = alone
    BY <2>1 DEF EntitiesOf
  <2> HIDE DEF payload, alone, groups
  <2> QED
    BY <2>1, <2>2 DEF FlattenPositions, UrnsOf
<1> HIDE DEF payload, groups, alone
<1>3. s \in F
  <2>1. Len(alone) \in Nat /\ \A i \in 1..Len(alone) : alone[i] \in Positions
    BY <1>1, Elements
  <2>2. UrnsOf(alone) \subseteq Urns \cup {None}
    BY <1>1, <2>1 DEF UrnsOf, Positions
  <2>3. s \in Sofars
    BY <1>1, <2>2 DEF Sofars
  <2> QED
    BY <1>1, <2>3 DEF Fits
<1> HIDE DEF s
<1>4. \A t \in F, n \in 1..N : Unwrap(t, payload, groups[n]) \in F
  BY <1>1, <1>2, GroupUnwrapped
<1>5. G \in [F \X (1..N) -> F]
  <2> HIDE DEF F
  <2> QED
    BY <1>4
<1>6. \A t \in F, n \in 1..N : G[<<t, n>>] = Unwrap(t, payload, groups[n])
  OBVIOUS
<1>7. PICK f \in [0..N -> F] : GoesOn(f, s, N, G)
  <2> HIDE DEF N, F, G
  <2> QED
    BY <1>1, <1>3, <1>5, Recursion
<1>8. f[0] = s /\ \A n \in 1..N : f[n] = G[<<f[n - 1], n>>]
  BY <1>7 DEF GoesOn
<1>9. \A n \in 1..N : f[n] = Unwrap(f[n - 1], payload, groups[n])
  <2> HIDE DEF N, F, G
  <2> TAKE n \in 1..N
  <2>1. n - 1 \in 0..N
    BY <1>1
  <2> QED
    BY <1>6, <1>8, <2>1
<1>10. f = Body(f)
  <2> HIDE DEF N, F
  <2>1. \A n \in 0..N : n = 0 \/ n \in 1..N
    BY <1>1
  <2> QED
    BY <1>8, <1>9, <2>1
<1>11. flat = Body(flat)
  <2> HIDE DEF Body
  <2> QED
    BY <1>10
<1>12. flat[0] = s /\ \A n \in 1..N : flat[n] = Unwrap(flat[n - 1], payload, groups[n])
  <2> HIDE DEF flat, N
  <2> QED
    BY <1>1, <1>11
<1>13. flat \in [0..N -> F]
  <2> HIDE DEF flat, N, F
  <2>1. flat = [n \in 0..N |-> flat[n]]
    BY <1>11
  <2>2. flat[0] \in F /\ \A n \in 1..N : flat[n - 1] \in F => flat[n] \in F
    BY <1>3, <1>4, <1>12
  <2> QED
    BY <1>1, <2>1, <2>2, Throughout
<1> HIDE DEF flat, G
<1> DEFINE Upto(n) == /\ Extends(flat[n], s)
                      /\ flat[n].seen = s.seen \cup UrnsIn(groups, n)
                      /\ \A g \in 1..n : \A i \in DOMAIN groups[g].items :
                           groups[g].items[i].urn \notin s.seen =>
                             Has(flat[n], Merged(groups[g], groups[g].items[i]))
           S == {n \in 0..N : Upto(n)}
<1> HIDE DEF N
<1>14. 0 \in S
  <2>1. Len(s.positions) \in Nat
    BY <1>3, Elements DEF Sofars
  <2>2. Extends(s, s)
    BY <2>1 DEF Extends
  <2>3. UrnsIn(groups, 0) = {}
    BY DEF UrnsIn
  <2> QED
    BY <1>1, <1>12, <2>2, <2>3
<1>15. ASSUME NEW n \in 1..N, n - 1 \in S PROVE n \in S
  <2> DEFINE r == flat[n - 1]
             t == flat[n]
             items == groups[n].items
  <2>0. n - 1 \in 0..N /\ n \in 0..N /\ (\A i \in 1..n : i = n \/ i \in 1..n - 1)
        /\ n \in 1..n /\ (\A i \in 1..n - 1 : i \in 1..n /\ i \in 1..N /\ i # n)
    BY <1>1
  <2>1. r \in Sofars /\ Fits(r) /\ t \in Sofars /\ t = Unwrap(r, payload, groups[n]) /\ Upto(n - 1)
    BY <1>12, <1>13, <1>15, <2>0
  <2>2. \A i, j \in DOMAIN items : items[i].urn = items[j].urn => i = j
    BY <1>1
  <2>3. /\ Extends(t, r) /\ t.seen = r.seen \cup UrnsOf(items)
        /\ \A i \in DOMAIN items : items[i].urn \notin r.seen => Has(t, Merged(groups[n], items[i]))
    <3> HIDE DEF r, t
    <3> QED
      BY <1>1, <1>2, <2>1, <2>2, GroupUnwrapped
  <2>4. UrnsIn(groups, n) = UrnsIn(groups, n - 1) \cup UrnsOf(items)
    BY <2>0 DEF UrnsIn
  <2>5. t.seen = s.seen \cup UrnsIn(groups, n)
    BY <2>1, <2>3, <2>4
  <2> HIDE DEF r, t
  <2>6. Len(s.positions) \in Nat /\ Len(r.positions) \in Nat /\ Len(t.positions) \in Nat
    BY <1>3, <2>1, Elements DEF Sofars
  <2>7. Extends(t, s)
    <3>1. Extends(r, s)
      BY <2>1 DEF r
    <3> QED
      BY <2>3, <2>6, <3>1 DEF Extends
  <2>8. \A p : Has(r, p) => Has(t, p)
    BY <2>3, <2>6 DEF Extends, Has
  <2>9. ASSUME NEW g \in 1..n, NEW i \in DOMAIN groups[g].items, groups[g].items[i].urn \notin s.seen
        PROVE  Has(t, Merged(groups[g], groups[g].items[i]))
    <3>1. CASE g \in 1..n - 1
      <4>1. Has(r, Merged(groups[g], groups[g].items[i]))
        BY <2>1, <2>9, <3>1 DEF r
      <4> QED
        BY <2>8, <4>1
    <3>2. CASE g = n
      <4>1. r.seen = s.seen \cup UrnsIn(groups, n - 1)
        BY <2>1 DEF r
      <4>2. items[i].urn \notin UrnsIn(groups, n - 1)
        <5>1. \A h \in 1..n - 1 : \A j \in DOMAIN groups[h].items : groups[h].items[j].urn # items[i].urn
          BY <1>1, <2>0, <3>2
        <5> QED
          BY <5>1 DEF UrnsIn, UrnsOf
      <4> QED
        BY <2>3, <2>9, <3>2, <4>1, <4>2
    <3> QED
      BY <2>0, <3>1, <3>2
  <2> QED
    BY <2>0, <2>5, <2>7, <2>9 DEF t
<1>16. N \in S
  <2> HIDE DEF S
  <2>1. 0..N \subseteq S
    BY <1>1, <1>14, <1>15, Induction
  <2> QED
    BY <1>1, <2>1
<1> DEFINE all == flat[N].positions
<1>17. flat[N] \in Sofars /\ Fits(flat[N])
  BY <1>1, <1>13
<1>18. all \in Seq(Positions) /\ Len(all) \in Nat /\ DOMAIN all = 1..Len(all)
  BY <1>17, Elements DEF Sofars
<1>19. \A i, j \in DOMAIN all : all[i].urn = all[j].urn => i = j
  BY <1>17 DEF Fits
<1>20. \A i \in DOMAIN alone : \E k \in DOMAIN all : all[k] = alone[i]
  <2>1. s.positions = alone /\ Len(alone) \in Nat
    BY <1>1, Elements DEF s
  <2>2. Extends(flat[N], s)
    BY <1>16
  <2>3. \A i \in 1..Len(alone) : i \in 1..Len(all) /\ all[i] = alone[i]
    BY <1>18, <2>1, <2>2 DEF Extends
  <2> QED
    BY <1>1, <1>18, <2>3
<1>21. ASSUME NEW g \in 1..N, NEW i \in DOMAIN groups[g].items, groups[g].items[i].urn \notin UrnsOf(alone)
       PROVE  \E k \in DOMAIN all : all[k] = Merged(groups[g], groups[g].items[i])
  <2>1. groups[g].items[i].urn \notin s.seen
    BY <1>21 DEF s
  <2>2. Has(flat[N], Merged(groups[g], groups[g].items[i]))
    BY <1>16, <2>1
  <2> QED
    BY <1>18, <2>2 DEF Has
<1> HIDE DEF all
<1>22. FlattenPositions(payload) = all
  BY <1>2 DEF all
<1>23. /\ all \in Seq(Positions)
       /\ \A i \in DOMAIN m.alone : \E k \in DOMAIN all : all[k] = m.alone[i]
  BY <1>18, <1>20 DEF alone
<1>24. \A g \in DOMAIN m.groups : \A i \in DOMAIN m.groups[g].items :
         m.groups[g].items[i].urn \notin UrnsOf(m.alone) =>
           \E k \in DOMAIN all : all[k] = Merged(m.groups[g], m.groups[g].items[i])
  BY <1>1, <1>21 DEF alone, groups
<1>25. FlattenPositions(Embedded(m)) = all
  BY <1>22 DEF payload
<1> HIDE DEF groups, alone, payload, N, s, Body, flat, F, G
<1> QED
  BY <1>19, <1>23, <1>24, <1>25

\* flatten_positions, experience: for any member with positions that have a URN each, in
\* the embedded envelope every one with a title or a company is listed, once, the newest
\* first; one that stands in a group only with what the group hands down, one that
\* stands alone too without.
THEOREM ExperienceWhole == LookupSpec => []ExperienceComplete
<1>1. ASSUME InputRead, input.what = "member" PROVE ExperienceComplete
  <2> DEFINE m       == input.member
             flat    == FlattenPositions(Embedded(m))
             kept    == {i \in DOMAIN flat : Published("experience", TextFields(flat[i]))}
             listed  == Experience(Embedded(m))
             N       == Cardinality(kept)
             alone   == {[position |-> m.alone[i], companyName |-> m.alone[i].companyName] :
                           i \in DOMAIN m.alone}
             grouped == UNION {{[position |-> m.groups[g].items[i],
                                 companyName |-> Or(m.groups[g].items[i].companyName,
                                                    m.groups[g].companyName)] :
                                  i \in DOMAIN m.groups[g].items} : g \in DOMAIN m.groups}
             there   == {r.position.urn : r \in alone}
             start(p) == IF p.start = None \/ p.start.year = None THEN -1
                         ELSE 12 * p.start.year + Or(p.start.month, 0)
             Listed(urn, title, companyName) ==
               title # None \/ companyName # None =>
                 \E n \in DOMAIN listed :
                   /\ listed[n].companyName = companyName
                   /\ {i \in DOMAIN listed : listed[i].urn = urn} = {n}
  <2>1. IsMember(m)
    <3>1. input \in Inputs
      BY <1>1 DEF InputRead, NoInput
    <3> QED
      BY <1>1, <3>1, InputsAssumption
  <2>2. /\ flat \in Seq(Positions)
        /\ \A i, j \in DOMAIN flat : flat[i].urn = flat[j].urn => i = j
        /\ \A i \in DOMAIN m.alone : \E k \in DOMAIN flat : flat[k] = m.alone[i]
        /\ \A g \in DOMAIN m.groups : \A i \in DOMAIN m.groups[g].items :
             m.groups[g].items[i].urn \notin UrnsOf(m.alone) =>
               \E k \in DOMAIN flat : flat[k] = Merged(m.groups[g], m.groups[g].items[i])
    <3> HIDE DEF m
    <3> QED
      BY <2>1, Flattened
  <2>3. /\ m.alone \in Seq(Positions) /\ m.groups \in Seq(Groups)
        /\ \A g \in DOMAIN m.groups : m.groups[g] \in Groups /\ m.groups[g].items \in Seq(Positions)
        /\ \A g \in DOMAIN m.groups : \A i \in DOMAIN m.groups[g].items :
             m.groups[g].items[i] \in Positions
    <3>1. m.alone \in Seq(Positions) /\ m.groups \in Seq(Groups)
      BY <2>1 DEF IsMember
    <3>2. \A g \in DOMAIN m.groups : m.groups[g] \in Groups
      BY <3>1, Elements
    <3>3. \A g \in DOMAIN m.groups : m.groups[g].items \in Seq(Positions)
      BY <3>2 DEF Groups
    <3> QED
      BY <3>1, <3>2, <3>3, Elements
  <2>4. listed = SortSome(flat, kept, NewestFirst)
    BY DEF Experience
  <2> HIDE DEF flat
  <2>5. PICK place \in [1..N -> kept] :
          /\ N \in Nat
          /\ SortSome(flat, kept, NewestFirst) = [n \in 1..N |-> flat[place[n]]]
          /\ \A i \in kept : \E n \in 1..N : place[n] = i
          /\ \A k, n \in 1..N : place[k] = place[n] => k = n
          /\ \A k, n \in 1..N : k < n => Key(flat[place[k]]) >= Key(flat[place[n]])
    <3>1. kept \in SUBSET DOMAIN flat
      OBVIOUS
    <3> HIDE DEF kept
    <3> QED
      BY <2>2, <3>1, Sorted
  <2> HIDE DEF listed, N
  <2>6. /\ DOMAIN listed = 1..N /\ \A n \in 1..N : listed[n] = flat[place[n]] /\ place[n] \in kept
    BY <2>4, <2>5
  <2>7. \A k \in DOMAIN flat : flat[k] \in Positions
    BY <2>2, Elements
  <2>8. ASSUME NEW k \in DOMAIN flat
        PROVE  Listed(flat[k].urn, flat[k].title, flat[k].companyName)
    <3> SUFFICES ASSUME flat[k].title # None \/ flat[k].companyName # None
                 PROVE  \E n \in DOMAIN listed :
                          /\ listed[n].companyName = flat[k].companyName
                          /\ {i \in DOMAIN listed : listed[i].urn = flat[k].urn} = {n}
      OBVIOUS
    <3>1. k \in kept
      BY DEF Published, Needs, TextFields
    <3>2. PICK n \in 1..N : place[n] = k
      BY <2>5, <3>1
    <3> HIDE DEF kept
    <3>3. \A i \in 1..N : listed[i].urn = flat[k].urn => i = n
      <4> TAKE i \in 1..N
      <4>1. place[i] \in DOMAIN flat
        BY <2>6 DEF kept
      <4>2. flat[place[i]].urn = flat[k].urn => place[i] = k
        BY <2>2, <4>1
      <4> QED
        BY <2>5, <2>6, <3>2, <4>2
    <3>4. listed[n] = flat[k]
      BY <2>6, <3>2
    <3>5. {i \in DOMAIN listed : listed[i].urn = flat[k].urn} = {n}
      BY <2>6, <3>3, <3>4
    <3> QED
      BY <2>6, <3>4, <3>5
  <2> HIDE DEF Listed, kept
  <2>9. there = UrnsOf(m.alone)
    <3>1. \A r \in alone : \E i \in DOMAIN m.alone : r.position = m.alone[i]
      OBVIOUS
    <3>2. ASSUME NEW i \in DOMAIN m.alone PROVE \E r \in alone : r.position = m.alone[i]
      <4> WITNESS [position |-> m.alone[i], companyName |-> m.alone[i].companyName] \in alone
      <4> QED
        OBVIOUS
    <3> HIDE DEF alone, m
    <3> QED
      BY <3>1, <3>2 DEF UrnsOf
  <2>10. ASSUME NEW r \in alone PROVE Listed(r.position.urn, r.position.title, r.companyName)
    <3>1. PICK i \in DOMAIN m.alone :
            r = [position |-> m.alone[i], companyName |-> m.alone[i].companyName]
      OBVIOUS
    <3>2. PICK k \in DOMAIN flat : flat[k] = m.alone[i]
      BY <2>2
    <3>3. r.position = flat[k] /\ r.companyName = flat[k].companyName
      BY <3>1, <3>2
    <3> QED
      BY <2>8, <3>3
  <2>11. ASSUME NEW r \in grouped, r.position.urn \notin there
         PROVE  Listed(r.position.urn, r.position.title, r.companyName)
    <3>1. PICK g \in DOMAIN m.groups : \E i \in DOMAIN m.groups[g].items :
            r = [position |-> m.groups[g].items[i],
                 companyName |-> Or(m.groups[g].items[i].companyName, m.groups[g].companyName)]
      OBVIOUS
    <3>2. PICK i \in DOMAIN m.groups[g].items :
            r = [position |-> m.groups[g].items[i],
                 companyName |-> Or(m.groups[g].items[i].companyName, m.groups[g].companyName)]
      BY <3>1
    <3> DEFINE p == m.groups[g].items[i]
    <3>3. p \in Positions /\ m.groups[g] \in Groups /\ r.position = p
          /\ r.companyName = Or(p.companyName, m.groups[g].companyName)
      BY <2>3, <3>2
    <3>4. PICK k \in DOMAIN flat : flat[k] = Merged(m.groups[g], p)
      BY <2>2, <2>9, <2>11, <3>3
    <3> HIDE DEF p
    <3>5. flat[k].urn = p.urn /\ flat[k].title = p.title /\ flat[k].companyName = r.companyName
      BY <3>3, <3>4, MergedPosition
    <3> QED
      BY <2>8, <3>3, <3>5
  <2>12. ASSUME NEW i \in DOMAIN listed, NEW j \in DOMAIN listed, i < j
         PROVE  start(listed[i]) >= start(listed[j])
    <3>1. listed[i] \in Positions /\ listed[j] \in Positions /\ Key(listed[i]) >= Key(listed[j])
      BY <2>5, <2>6, <2>7, <2>12 DEF kept
    <3>2. ASSUME NEW p \in Positions
          PROVE  \/ Key(p) = 0 /\ start(p) = -1
                 \/ \E a \in Nat, b \in 0..12 : Key(p) = 13 * (a + 1) + b /\ start(p) = 12 * a + b
      <4>1. p.start = None \/ p.start \in [year : Nat \cup {None}, month : 1..12 \cup {None}]
        BY DEF Positions
      <4>2. CASE p.start # None /\ p.start.year # None
        <5>1. p.start.year \in Nat /\ Or(p.start.month, 0) \in 0..12
          BY <4>1, <4>2 DEF Or
        <5>2. Key(p) = 13 * (p.start.year + 1) + Or(p.start.month, 0)
              /\ start(p) = 12 * p.start.year + Or(p.start.month, 0)
          BY <4>2 DEF Key
        <5> QED
          BY <5>1, <5>2
      <4>3. CASE ~(p.start # None /\ p.start.year # None)
        BY <4>3 DEF Key
      <4> QED
        BY <4>2, <4>3
    <3>3. \A a, c \in Nat, b, d \in 0..12 :
            13 * (a + 1) + b >= 13 * (c + 1) + d => 12 * a + b >= 12 * c + d
      OBVIOUS
    <3> HIDE DEF start
    <3>4. CASE Key(listed[j]) = 0 /\ start(listed[j]) = -1
      BY <3>1, <3>2, <3>4
    <3>5. CASE ~(Key(listed[j]) = 0 /\ start(listed[j]) = -1)
      <4>1. PICK c \in Nat, d \in 0..12 :
              Key(listed[j]) = 13 * (c + 1) + d /\ start(listed[j]) = 12 * c + d
        BY <3>1, <3>2, <3>5
      <4>2. Key(listed[i]) # 0
        BY <3>1, <4>1
      <4>3. PICK a \in Nat, b \in 0..12 :
              Key(listed[i]) = 13 * (a + 1) + b /\ start(listed[i]) = 12 * a + b
        BY <3>1, <3>2, <4>2
      <4>4. 13 * (a + 1) + b >= 13 * (c + 1) + d
        BY <3>1, <4>1, <4>3
      <4>5. 12 * a + b >= 12 * c + d
        BY <3>3, <4>4
      <4> QED
        BY <4>1, <4>3, <4>5
    <3> QED
      BY <3>4, <3>5
  <2>13. \A r \in alone \cup {x \in grouped : x.position.urn \notin there} :
           Listed(r.position.urn, r.position.title, r.companyName)
    <3> HIDE DEF alone, grouped, there
    <3> QED
      BY <2>10, <2>11
  <2> QED
    BY <1>1, <2>12, <2>13 DEF ExperienceComplete, Listed, listed
<1>2. InputRead => ExperienceComplete
  BY <1>1 DEF ExperienceComplete
<1> QED
  BY <1>2, InputKept, PTL

=============================================================================
