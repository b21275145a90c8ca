------------------------- MODULE ProfileServiceProofs -------------------------
(***************************************************************************)
(* Theorems about ProfileService, for any keys, requests, sizes, times and *)
(* restarts.  The invariant has three layers: the flights, which know      *)
(* nothing of the cache; the files and the saves of their leaders; and the *)
(* map in memory with the disk jobs and the answers of lookups.  With it,  *)
(* each step of the service is one of the promise, ReadThrough.            *)
(***************************************************************************)
EXTENDS ProfileService, TLAPS

-----------------------------------------------------------------------------
(* The map: what an operation on memory leaves in it                       *)

\* The entries of a map are none but those of memory that are not of key k.
Among(map, k) ==
  \A i \in 1..Len(map) :
    map[i].key # k /\ \E j \in 1..Len(memory) : map[i] = memory[j]

\* A map has one entry of a key.
OneOfAKey(map) == \A i, j \in 1..Len(map) : map[i].key = map[j].key => i = j

\* Popping a key leaves the other entries, one less than there were if it was there.
LEMMA Popping ==
  ASSUME memory \in Seq(Entries), OneOfAKey(memory), NEW k
  PROVE  /\ Without(k) \in Seq(Entries)
         /\ Among(Without(k), k) /\ OneOfAKey(Without(k))
         /\ Len(Without(k)) = IF Held(k) = {} THEN Len(memory) ELSE Len(memory) - 1
<1>1. CASE Held(k) = {}
  <2>1. Without(k) = memory
    BY <1>1 DEF Without
  <2>2. \A i \in 1..Len(memory) : memory[i].key # k
    BY <1>1 DEF Held
  <2> QED
    BY <1>1, <2>1, <2>2 DEF Among, OneOfAKey
<1>2. CASE Held(k) # {}
  <2> DEFINE place == CHOOSE n \in 1..Len(memory) : memory[n].key = k
             from(n) == IF n < place THEN n ELSE n + 1
  <2>1. place \in 1..Len(memory) /\ memory[place].key = k
    BY <1>2 DEF Held
  <2>2. Len(memory) \in Nat /\ \A n \in 1..Len(memory) : memory[n] \in Entries
    OBVIOUS
  <2> HIDE DEF place
  <2>3. \A n \in 1..Len(memory) - 1 : from(n) \in 1..Len(memory) /\ from(n) # place
    BY <2>1, <2>2
  <2>4. \A m, n \in 1..Len(memory) - 1 : from(m) = from(n) => m = n
    BY <2>1, <2>2
  <2>5. Without(k) = [n \in 1..Len(memory) - 1 |-> memory[from(n)]]
    BY <1>2 DEF Without, place
  <2> HIDE DEF from
  <2>6. /\ Without(k) \in Seq(Entries) /\ Len(Without(k)) = Len(memory) - 1
        /\ \A n \in 1..Len(memory) - 1 : Without(k)[n] = memory[from(n)]
    <3>1. Len(memory) - 1 \in Nat
      BY <2>1, <2>2
    <3>2. \A n \in 1..Len(memory) - 1 : memory[from(n)] \in Entries
      BY <2>2, <2>3
    <3> QED
      BY <2>5, <3>1, <3>2
  <2>7. Among(Without(k), k)
    BY <2>1, <2>3, <2>6 DEF Among, OneOfAKey
  <2>8. OneOfAKey(Without(k))
    BY <2>3, <2>4, <2>6 DEF OneOfAKey
  <2> QED
    BY <1>2, <2>6, <2>7, <2>8
<1> QED
  BY <1>1, <1>2

\* Appending an entry to what popping its key left.
LEMMA Appending ==
  ASSUME memory \in Seq(Entries), OneOfAKey(memory), NEW m \in Entries
  PROVE  LET kept == Append(Without(m.key), m)
         IN  /\ kept \in Seq(Entries) /\ OneOfAKey(kept)
             /\ Len(kept) = Len(Without(m.key)) + 1
             /\ \A i \in 1..Len(kept) : kept[i] = m \/ \E j \in 1..Len(memory) : kept[i] = memory[j]
<1> DEFINE rest == Without(m.key)
           kept == Append(rest, m)
<1>1. rest \in Seq(Entries) /\ Among(rest, m.key) /\ OneOfAKey(rest)
  BY Popping
<1> HIDE DEF rest
<1>2. /\ kept \in Seq(Entries) /\ Len(kept) = Len(rest) + 1 /\ kept[Len(rest) + 1] = m
      /\ \A i \in 1..Len(rest) : kept[i] = rest[i]
  BY <1>1
<1>3. \A i \in 1..Len(kept) : i = Len(rest) + 1 \/ i \in 1..Len(rest)
  BY <1>1, <1>2
<1> HIDE DEF kept
<1>4. OneOfAKey(kept)
  BY <1>1, <1>2, <1>3 DEF OneOfAKey, Among
<1>5. \A i \in 1..Len(kept) : kept[i] = m \/ \E j \in 1..Len(memory) : kept[i] = memory[j]
  BY <1>1, <1>2, <1>3 DEF Among
<1> QED
  BY <1>2, <1>4, <1>5 DEF kept, rest

\* Putting an entry: the map holds no more than it may, and it and what it held.
LEMMA Putting ==
  ASSUME CacheAssumption, memory \in Seq(Entries), LruWithinBound, NEW m \in Entries
  PROVE  /\ Put(m) \in Seq(Entries) /\ OneOfAKey(Put(m)) /\ Len(Put(m)) <= MaxEntries
         /\ \A i \in 1..Len(Put(m)) :
              Put(m)[i] = m \/ \E j \in 1..Len(memory) : Put(m)[i] = memory[j]
<1> DEFINE kept == Append(Without(m.key), m)
<1>1. OneOfAKey(memory) /\ Len(memory) <= MaxEntries /\ Len(memory) \in Nat /\ MaxEntries \in Nat \ {0}
  BY CacheAssumption DEF LruWithinBound, OneOfAKey
<1>2. /\ kept \in Seq(Entries) /\ OneOfAKey(kept)
      /\ Len(kept) = Len(Without(m.key)) + 1
      /\ \A i \in 1..Len(kept) : kept[i] = m \/ \E j \in 1..Len(memory) : kept[i] = memory[j]
  BY <1>1, Appending
<1>3. Len(kept) <= MaxEntries + 1
  BY <1>1, <1>2, Popping
<1>4. Put(m) = IF Len(kept) > MaxEntries THEN Tail(kept) ELSE kept
  BY DEF Put
<1> HIDE DEF kept
<1>5. CASE Len(kept) <= MaxEntries
  BY <1>1, <1>2, <1>4, <1>5
<1>6. CASE Len(kept) > MaxEntries
  <2>1. Put(m) = Tail(kept) /\ kept # <<>>
    BY <1>1, <1>2, <1>4, <1>6
  <2>2. /\ Put(m) \in Seq(Entries) /\ Len(Put(m)) = Len(kept) - 1
        /\ \A i \in 1..Len(Put(m)) : Put(m)[i] = kept[i + 1] /\ i + 1 \in 1..Len(kept)
    BY <1>2, <2>1
  <2>3. OneOfAKey(Put(m))
    <3> SUFFICES ASSUME NEW i \in 1..Len(Put(m)), NEW j \in 1..Len(Put(m)),
                        Put(m)[i].key = Put(m)[j].key
                 PROVE  i = j
      BY DEF OneOfAKey
    <3>1. kept[i + 1].key = kept[j + 1].key /\ i + 1 \in 1..Len(kept) /\ j + 1 \in 1..Len(kept)
      BY <2>2
    <3>2. i + 1 = j + 1
      BY <1>2, <3>1 DEF OneOfAKey
    <3> QED
      BY <3>2
  <2>4. Len(Put(m)) <= MaxEntries
    BY <1>1, <1>2, <1>3, <2>2
  <2> QED
    BY <1>2, <2>2, <2>3, <2>4
<1> QED
  BY <1>1, <1>2, <1>5, <1>6

\* What each operation does to the map, with the entry it brings or moves to the front.
Kept(brought) ==
  /\ memory' \in Seq(Entries) /\ LruWithinBound'
  /\ \A i \in 1..Len(memory') :
       memory'[i] \in brought \/ \E j \in 1..Len(memory) : memory'[i] = memory[j]

LEMMA MemorySteps ==
  ASSUME CacheAssumption, memory \in Seq(Entries), LruWithinBound
  PROVE  /\ \A k : Pop(k) => Kept({})
         /\ \A k : GetMiss(k) => Kept({})
         /\ \A m : GetHit(m) => Kept({})
         /\ \A m \in Entries : InsertMemory(m) => Kept({m})
         /\ MemoryLost => Kept({})
         /\ memory' = memory => Kept({})
<1>1. OneOfAKey(memory) /\ Len(memory) <= MaxEntries /\ Len(memory) \in Nat /\ MaxEntries \in Nat \ {0}
  BY CacheAssumption DEF LruWithinBound, OneOfAKey
<1>2. ASSUME NEW k, memory' = Without(k) PROVE Kept({})
  <2>1. /\ Without(k) \in Seq(Entries) /\ Among(Without(k), k) /\ OneOfAKey(Without(k))
        /\ Len(Without(k)) <= Len(memory)
    BY <1>1, Popping
  <2>2. Len(Without(k)) <= MaxEntries
    BY <1>1, <2>1
  <2> QED
    BY <1>2, <2>1, <2>2 DEF Kept, LruWithinBound, Among, OneOfAKey
<1>3. ASSUME NEW m, GetHit(m) PROVE Kept({})
  <2>1. PICK n \in 1..Len(memory) : memory[n] = m
    BY <1>3 DEF GetHit, Held
  <2>2. m \in Entries /\ Held(m.key) # {} /\ memory' = Append(Without(m.key), m)
    BY <1>3, <2>1 DEF GetHit
  <2>3. /\ memory' \in Seq(Entries) /\ OneOfAKey(memory)'
        /\ Len(memory') = Len(Without(m.key)) + 1
        /\ \A i \in 1..Len(memory') : memory'[i] = m \/ \E j \in 1..Len(memory) : memory'[i] = memory[j]
    BY <1>1, <2>2, Appending DEF OneOfAKey
  <2>4. Len(memory') <= MaxEntries
    BY <1>1, <2>2, <2>3, Popping
  <2> QED
    BY <2>1, <2>3, <2>4 DEF Kept, LruWithinBound, OneOfAKey
<1>4. ASSUME NEW m \in Entries, InsertMemory(m) PROVE Kept({m})
  BY <1>4, Putting DEF InsertMemory, Kept, LruWithinBound, OneOfAKey
<1>5. ASSUME MemoryLost PROVE Kept({})
  <2>1. memory' = <<>> /\ Len(<<>>) = 0
    BY <1>5 DEF MemoryLost
  <2> QED
    BY <1>1, <2>1 DEF Kept, LruWithinBound
<1>6. ASSUME memory' = memory PROVE Kept({})
  BY <1>6 DEF Kept, LruWithinBound
<1> QED
  BY <1>2, <1>3, <1>4, <1>5, <1>6 DEF Pop, GetMiss

-----------------------------------------------------------------------------
(* The invariant: flights                                                  *)

\* A request joins a flight of its own key.
SameKey == \A r \in Requests : joined[r] # NoFlight => KeyOf[joined[r]] = KeyOf[r]

\* Who leaves has seen the outcome on the channel.
LeavesWhenSent == \A r \in Requests : waiter[r] = "leaving" => leader[joined[r]] \in Sent

\* A flight in the air is registered, unless an earlier one of its key came to its end:
\* only that removes an entry.
Registered ==
  \A f \in Requests :
    Aloft(f) => inflight[KeyOf[f]] = f \/ \E h \in Requests : KeyOf[h] = KeyOf[f] /\ leader[h] \in Sent

\* A leader fetches before it has an outcome, and stores when that is a profile.
Begun ==
  \A f \in Requests :
    /\ waiter[f] = "idle" => leader[f] = "none"
    /\ leader[f] \in {"none", "fetching"} => outcome[f] = "none" /\ save[f] = "memory"
    /\ leader[f] = "storing" => outcome[f] = "ok"

\* Two flights of a key that store at once are known to.
KnownTogether ==
  /\ together \subseteq Keys
  /\ \A f, g \in Requests :
       f # g /\ KeyOf[f] = KeyOf[g] /\ leader[f] = "storing" /\ leader[g] = "storing"
         => KeyOf[f] \in together

FlightInv ==
  /\ FlightTypeOK
  /\ save \in [Requests -> {"memory", "open", "write", "rename"}]
  /\ NoEntryOutlivesItsLeader
  /\ SameKey
  /\ LeavesWhenSent
  /\ Registered
  /\ Begun
  /\ KnownTogether

-----------------------------------------------------------------------------
(* Flights                                                                 *)

LEMMA FlightsInit == Init => FlightInv
BY ServiceAssumption
   DEF Init, FlightInit, FlightInv, FlightTypeOK, NoEntryOutlivesItsLeader, SameKey, LeavesWhenSent,
       Registered, Begun, KnownTogether, Aloft, Leaders, Waiters, Outcomes, Unsent, Sent

LEMMA BoardKeepsFlights ==
  ASSUME FlightInv, NEW r \in Requests, Board(r) PROVE FlightInv'
<1> USE ServiceAssumption DEF FlightInv
<1>1. /\ waiter[r] = "idle" /\ waiter' = [waiter EXCEPT ![r] = "waiting"]
      /\ IF inflight[KeyOf[r]] # NoFlight
         THEN /\ joined' = [joined EXCEPT ![r] = inflight[KeyOf[r]]]
              /\ inflight' = inflight /\ leader' = leader
         ELSE /\ joined' = [joined EXCEPT ![r] = r]
              /\ inflight' = [inflight EXCEPT ![KeyOf[r]] = r]
              /\ leader' = [leader EXCEPT ![r] = "fetching"]
      /\ outcome' = outcome /\ save' = save /\ together' = together
  BY DEF Board, Enter, saveVars, counted
<1>2. /\ KeyOf[r] \in Keys /\ leader[r] = "none"
      /\ inflight[KeyOf[r]] \in Requests \cup {NoFlight}
      /\ inflight[KeyOf[r]] # NoFlight => leader[inflight[KeyOf[r]]] # "none"
  BY <1>1 DEF FlightTypeOK, Begun
<1>3. FlightTypeOK'
  BY <1>1, <1>2 DEF FlightTypeOK, Leaders, Waiters, Unsent
<1>4. NoEntryOutlivesItsLeader'
  BY <1>1, <1>2 DEF FlightTypeOK, NoEntryOutlivesItsLeader, Unsent
<1>5. SameKey'
  BY <1>1, <1>2 DEF FlightTypeOK, SameKey, NoEntryOutlivesItsLeader
<1>6. LeavesWhenSent'
  BY <1>1, <1>2 DEF FlightTypeOK, LeavesWhenSent, Sent
<1>7. Registered'
  BY <1>1, <1>2 DEF FlightTypeOK, Registered, Aloft, Unsent, Sent
<1>8. Begun' /\ KnownTogether'
  BY <1>1, <1>2 DEF FlightTypeOK, Begun, KnownTogether
<1> QED
  BY <1>1, <1>3, <1>4, <1>5, <1>6, <1>7, <1>8

LEMMA FetchKeepsFlights ==
  ASSUME FlightInv, NEW f \in Requests, Fetch(f) PROVE FlightInv'
<1> USE ServiceAssumption DEF FlightInv
<1>1. PICK o \in {"ok", "error"} : FetchReturns(f, o)
  BY DEF Fetch
<1>2. /\ leader[f] = "fetching" /\ outcome' = [outcome EXCEPT ![f] = o]
      /\ leader' = [leader EXCEPT ![f] = IF o = "ok" THEN "storing" ELSE "publishing"]
      /\ UNCHANGED <<inflight, waiter, joined, save>>
      /\ together' = together \cup
           {k \in {KeyOf[f]} : /\ leader'[f] = "storing"
                              /\ \E g \in Requests \ {f} : KeyOf[g] = k /\ leader[g] = "storing"}
  BY <1>1 DEF Fetch, FetchReturns, saveVars
<1>3. FlightTypeOK'
  BY <1>2 DEF FlightTypeOK, Leaders, Outcomes, Unsent
<1>4. NoEntryOutlivesItsLeader' /\ SameKey' /\ LeavesWhenSent'
  BY <1>2 DEF FlightTypeOK, NoEntryOutlivesItsLeader, SameKey, LeavesWhenSent, Unsent, Sent
<1>5. Registered'
  BY <1>2 DEF FlightTypeOK, Registered, Aloft, Unsent, Sent
<1>6. Begun'
  BY <1>2 DEF FlightTypeOK, Begun
<1>7. KnownTogether'
  BY <1>2 DEF FlightTypeOK, KnownTogether
<1> QED
  BY <1>2, <1>3, <1>4, <1>5, <1>6, <1>7

\* The leader of flight f goes from one place to the next, which is no fetch and no
\* storing, and may remove the entry of its key when it has sent its outcome.
LEMMA LandingKeepsFlights ==
  ASSUME FlightInv, NEW f \in Requests, NEW w \in {"publishing", "removing", "finished", "dead"},
         leader[f] \in Unsent \cup Sent, leader' = [leader EXCEPT ![f] = w],
         leader[f] \in Sent => w = "finished", w \in Sent \/ leader[f] \notin Sent,
         IF w = "finished" THEN leader[f] = "removing" /\ inflight' = [inflight EXCEPT ![KeyOf[f]] = NoFlight]
                           ELSE inflight' = inflight,
         save' \in [Requests -> {"memory", "open", "write", "rename"}],
         \A g \in Requests : leader'[g] \in {"none", "fetching"} => save'[g] = save[g],
         UNCHANGED <<outcome, waiter, joined, together>>
  PROVE  FlightInv'
<1> USE ServiceAssumption DEF FlightInv
<1>1. FlightTypeOK'
  BY DEF FlightTypeOK, Leaders, Unsent, Sent
<1>2. NoEntryOutlivesItsLeader'
  <2>1. CASE w = "finished"
    BY <2>1 DEF FlightTypeOK, NoEntryOutlivesItsLeader
  <2>2. CASE w # "finished"
    BY <2>2 DEF FlightTypeOK, NoEntryOutlivesItsLeader, Unsent
  <2> QED
    BY <2>1, <2>2
<1>3. SameKey' /\ LeavesWhenSent'
  BY DEF FlightTypeOK, SameKey, LeavesWhenSent, Sent
<1>4. Registered'
  <2>1. \A g \in Requests : /\ leader[g] \in Sent => leader'[g] \in Sent
                            /\ Aloft(g)' => Aloft(g)
    BY DEF FlightTypeOK, Aloft, Unsent, Sent
  <2>2. w = "finished" => leader'[f] \in Sent
    BY DEF FlightTypeOK, Sent
  <2>3. \A g \in Requests : \/ inflight'[KeyOf[g]] = inflight[KeyOf[g]]
                            \/ w = "finished" /\ KeyOf[f] = KeyOf[g]
    <3>1. CASE w = "finished"
      <4>1. inflight' = [inflight EXCEPT ![KeyOf[f]] = NoFlight]
        BY <3>1
      <4> QED
        BY <3>1, <4>1 DEF FlightTypeOK
    <3>2. CASE w # "finished"
      BY <3>2
    <3> QED
      BY <3>1, <3>2
  <2> QED
    BY <2>1, <2>2, <2>3 DEF Registered
<1>5. Begun'
  <2>1. leader[f] # "none" /\ leader'[f] \notin {"none", "fetching", "storing"}
    BY DEF FlightTypeOK, Unsent, Sent
  <2>2. \A g \in Requests : g # f => leader'[g] = leader[g]
    BY DEF FlightTypeOK
  <2> QED
    BY <2>1, <2>2 DEF Begun
<1>6. KnownTogether'
  BY DEF FlightTypeOK, KnownTogether
<1> QED
  BY <1>1, <1>2, <1>3, <1>4, <1>5, <1>6

\* A save takes its next step.
LEMMA SavingKeepsFlights ==
  ASSUME FlightInv, NEW f \in Requests, leader[f] = "storing",
         NEW w \in {"open", "write", "rename"}, save' = [save EXCEPT ![f] = w],
         UNCHANGED <<inflight, leader, outcome, waiter, joined, together>>
  PROVE  FlightInv'
<1> USE DEF FlightInv
<1>1. FlightTypeOK' /\ NoEntryOutlivesItsLeader' /\ SameKey' /\ LeavesWhenSent' /\ KnownTogether'
  BY DEF FlightTypeOK, NoEntryOutlivesItsLeader, SameKey, LeavesWhenSent, KnownTogether
<1>2. Registered'
  BY DEF Registered, Aloft
<1>3. Begun'
  BY DEF Begun
<1> QED
  BY <1>1, <1>2, <1>3

\* A waiter goes on, and removes the entry of its key when it leaves.
LEMMA WaitingKeepsFlights ==
  ASSUME FlightInv, NEW r \in Requests, waiter[r] \in {"waiting", "leaving"},
         NEW w \in {"leaving", "answered", "failed", "gone"}, waiter' = [waiter EXCEPT ![r] = w],
         w = "leaving" => leader[joined[r]] \in Sent,
         \/ inflight' = inflight
         \/ waiter[r] = "leaving" /\ inflight' = [inflight EXCEPT ![KeyOf[r]] = NoFlight],
         UNCHANGED <<leader, outcome, joined, save, together>>
  PROVE  FlightInv'
<1> USE ServiceAssumption DEF FlightInv
<1>1. FlightTypeOK'
  BY DEF FlightTypeOK, Waiters
<1>2. NoEntryOutlivesItsLeader' /\ SameKey' /\ LeavesWhenSent'
  BY DEF FlightTypeOK, NoEntryOutlivesItsLeader, SameKey, LeavesWhenSent
<1>3. Registered'
  <2>1. CASE inflight' = inflight
    BY <2>1 DEF Registered, Aloft
  <2>2. CASE waiter[r] = "leaving" /\ inflight' = [inflight EXCEPT ![KeyOf[r]] = NoFlight]
    <3>1. joined[r] \in Requests /\ KeyOf[joined[r]] = KeyOf[r] /\ leader[joined[r]] \in Sent
      BY <2>2 DEF FlightTypeOK, SameKey, LeavesWhenSent
    <3>2. \A g \in Requests : KeyOf[g] # KeyOf[r] => inflight'[KeyOf[g]] = inflight[KeyOf[g]]
      BY <2>2 DEF FlightTypeOK
    <3> QED
      BY <3>1, <3>2 DEF Registered, Aloft
  <2> QED
    BY <2>1, <2>2
<1>4. Begun' /\ KnownTogether'
  BY DEF FlightTypeOK, Begun, KnownTogether
<1> QED
  BY <1>1, <1>2, <1>3, <1>4

LEMMA RestartKeepsFlights ==
  ASSUME FlightInv, Restart PROVE FlightInv'
<1> USE ServiceAssumption DEF FlightInv
<1>1. /\ inflight' = [k \in Keys |-> NoFlight]
      /\ leader' = [r \in Requests |->
                      IF leader[r] \in Unsent \cup {"removing"} THEN "dead" ELSE leader[r]]
      /\ waiter' = [r \in Requests |->
                      IF waiter[r] \in {"waiting", "leaving"} THEN "gone" ELSE waiter[r]]
      /\ UNCHANGED <<outcome, joined, save, together>>
  BY DEF Restart, FlightsLost, saveVars
<1>2. FlightTypeOK'
  BY <1>1 DEF FlightTypeOK, Leaders, Waiters, Unsent
<1>3. \A f \in Requests : leader'[f] \notin Unsent
  BY <1>1 DEF Unsent
<1>4. NoEntryOutlivesItsLeader' /\ SameKey' /\ LeavesWhenSent' /\ Registered'
  BY <1>1, <1>3 DEF FlightTypeOK, NoEntryOutlivesItsLeader, SameKey, LeavesWhenSent, Registered, Aloft
<1>5. Begun' /\ KnownTogether'
  BY <1>1, <1>3 DEF FlightTypeOK, Begun, KnownTogether, Unsent
<1> QED
  BY <1>1, <1>2, <1>4, <1>5

LEMMA FlightsKeep == ASSUME FlightInv, [Next]_vars PROVE FlightInv'
<1> USE DEF counted, flights, saveVars
<1>0. ASSUME UNCHANGED <<flights, save, together>> PROVE FlightInv'
  BY <1>0 DEF FlightInv, FlightTypeOK, NoEntryOutlivesItsLeader, SameKey, LeavesWhenSent, Registered,
              Begun, KnownTogether, Aloft
<1>1. ASSUME NEW r \in Requests,
             \/ Refresh(r) \/ MemoryHit(r) \/ MemoryMiss(r) \/ RefreshRemovesFile(r) \/ JobReads(r)
             \/ JobRemoves(r) \/ JobInserts(r) \/ DiskAnswers(r)
      PROVE  FlightInv'
  BY <1>0, <1>1 DEF Refresh, MemoryHit, MemoryMiss, RefreshRemovesFile, JobReads, JobRemoves,
                    JobInserts, DiskAnswers
<1>2. ASSUME NEW f \in Requests, StoreMemory(f) \/ SaveOpens(f) \/ SaveWrites(f) PROVE FlightInv'
  BY <1>2, SavingKeepsFlights DEF StoreMemory, SaveOpens, SaveWrites
<1>3. ASSUME NEW f \in Requests, SaveRenames(f) \/ SaveFails(f) PROVE FlightInv'
  BY <1>3, LandingKeepsFlights DEF SaveRenames, SaveFails, Stored, FlightInv, Unsent, Sent
<1>4. ASSUME NEW f \in Requests, Finish(f) \/ Panic(f) PROVE FlightInv'
  BY <1>4, LandingKeepsFlights DEF Finish, Publish, LeaderRemoves, Panic, LeaderPanics, FlightInv, Unsent, Sent
<1>5. ASSUME NEW r \in Requests, Await(r) \/ Disconnect(r) PROVE FlightInv'
  BY <1>0, <1>5, WaitingKeepsFlights
     DEF Await, Waiting, SeesDone, Leave, SeesClosed, Disconnect, Cancel
<1>6. CASE TimePasses
  BY <1>0, <1>6 DEF TimePasses
<1>7. CASE UNCHANGED vars
  BY <1>0, <1>7 DEF vars
<1> QED
  BY <1>1, <1>2, <1>3, <1>4, <1>5, <1>6, <1>7, BoardKeepsFlights, FetchKeepsFlights,
     RestartKeepsFlights DEF Next, Asking, Storing

\* What the files may know of the flights' steps: a profile stays one, and who begins to
\* store has opened nothing.
Moves ==
  /\ \A f \in Requests : outcome[f] = "ok" => outcome'[f] = "ok"
  /\ \A f \in Requests :
       leader'[f] = "storing" => leader[f] = "storing" \/ (save[f] = "memory" /\ save'[f] = "memory")
  /\ together \subseteq together'

LEMMA FlightsMove == ASSUME FlightInv, [Next]_vars PROVE Moves
<1> USE DEF counted, flights, saveVars
<1>0. ASSUME UNCHANGED <<outcome, leader, together>> PROVE Moves
  BY <1>0 DEF Moves
<1>1. ASSUME NEW r \in Requests,
             \/ Refresh(r) \/ MemoryHit(r) \/ MemoryMiss(r) \/ RefreshRemovesFile(r) \/ JobReads(r)
             \/ JobRemoves(r) \/ JobInserts(r) \/ DiskAnswers(r) \/ StoreMemory(r) \/ SaveOpens(r)
             \/ SaveWrites(r)
      PROVE  Moves
  BY <1>0, <1>1 DEF Refresh, MemoryHit, MemoryMiss, RefreshRemovesFile, JobReads, JobRemoves,
                    JobInserts, DiskAnswers, StoreMemory, SaveOpens, SaveWrites
<1>2. ASSUME NEW r \in Requests, Await(r) \/ Disconnect(r) PROVE Moves
  BY <1>0, <1>2 DEF Await, Waiting, SeesDone, Leave, SeesClosed, Disconnect, Cancel
<1>3. ASSUME NEW f \in Requests, NEW w, w # "storing", leader' = [leader EXCEPT ![f] = w],
             outcome' = outcome, together' = together
      PROVE  Moves
  BY <1>3 DEF Moves, FlightInv, FlightTypeOK
<1>4. ASSUME NEW f \in Requests, SaveRenames(f) \/ SaveFails(f) \/ Finish(f) \/ Panic(f) PROVE Moves
  BY <1>3, <1>4 DEF SaveRenames, SaveFails, Stored, Finish, Publish, LeaderRemoves, Panic, LeaderPanics
<1>5. ASSUME NEW r \in Requests, Board(r) PROVE Moves
  BY <1>0, <1>3, <1>5 DEF Board, Enter
<1>6. ASSUME NEW f \in Requests, Fetch(f) PROVE Moves
  BY <1>6 DEF Fetch, FetchReturns, Moves, FlightInv, FlightTypeOK, Begun
<1>7. CASE Restart
  BY <1>7 DEF Restart, FlightsLost, Moves
<1>8. CASE TimePasses \/ UNCHANGED vars
  BY <1>0, <1>8 DEF TimePasses, vars
<1> QED
  BY <1>1, <1>2, <1>4, <1>5, <1>6, <1>7, <1>8 DEF Next, Asking, Storing

-----------------------------------------------------------------------------
(* The invariant: files                                                    *)

DiskTypes ==
  /\ now \in Times
  /\ file \in [Keys -> Files \cup {NoFile}]
  /\ temp \in [Keys -> Requests \cup {NoFile}]
  /\ bytes \in [Files -> Contents]
  /\ draft \in [Requests -> Times]
  /\ handle \in [Requests -> Requests \cup {NoFile}]
  /\ \A f \in Requests : save[f] \in {"write", "rename"} => handle[f] # NoFile

\* Names and handles are of files of the key, and a save has no file before it opens one.
OwnFiles ==
  /\ \A k \in Keys : /\ temp[k] # NoFile => KeyOf[temp[k]] = k /\ file[k] # temp[k]
                     /\ file[k] \in Requests => KeyOf[file[k]] = k
  /\ \A f \in Requests :
       /\ handle[f] # NoFile => KeyOf[handle[f]] = KeyOf[f]
       /\ save[f] \in {"memory", "open"} => \A k \in Keys : file[k] # f /\ temp[k] # f

\* A file that is whole has a profile of its key, stored in the past.
WholeFiles ==
  /\ \A f \in Requests : bytes[f] # Torn => IsOf(bytes[f].fetch, KeyOf[f])
  /\ bytes[Past] # Torn /\ bytes[Past].fetch = Past
  /\ \A f \in Files : bytes[f].stored <= now
  /\ \A f \in Requests : draft[f] <= now

\* The one that saves alone has the file of the temporary name, which is whole once it
\* has written.
SavesAlone ==
  \A f \in Requests :
    leader[f] = "storing" /\ KeyOf[f] \notin together /\ save[f] \in {"write", "rename"} =>
      temp[KeyOf[f]] = handle[f] /\ (bytes[handle[f]] = Torn <=> save[f] = "write")

DiskInv == DiskTypes /\ OwnFiles /\ WholeFiles /\ SavesAlone /\ TornOnlyByTwoSaves

-----------------------------------------------------------------------------
(* Files                                                                   *)

LEMMA DiskInit == Init => DiskInv
<1> SUFFICES ASSUME Init PROVE DiskInv
  OBVIOUS
<1> USE ServiceAssumption, CacheAssumption DEF Init, CacheInit, FlightInit
<1>1. DiskTypes
  BY DEF DiskTypes, Files, Times, Contents
<1>2. OwnFiles /\ SavesAlone
  BY DEF OwnFiles, SavesAlone
<1>3. WholeFiles
  BY DEF WholeFiles, Files, Torn
<1>4. TornOnlyByTwoSaves
  BY DEF TornOnlyByTwoSaves, Files, Torn
<1> QED
  BY <1>1, <1>2, <1>3, <1>4 DEF DiskInv

LEMMA ProfilesStay ==
  ASSUME Moves, NEW f \in Files, NEW k, IsOf(f, k) PROVE IsOf(f, k)'
BY DEF Moves, IsOf, Files

\* Nothing happens to files.
LEMMA DiskStands ==
  ASSUME FlightInv, DiskInv, Moves, UNCHANGED <<file, temp, bytes, draft, handle>>,
         now' \in Times, now <= now',
         \A f \in Requests : save'[f] = save[f] \/ (save[f] = "memory" /\ save'[f] = "open")
  PROVE  DiskInv'
<1> USE DEF DiskInv
<1>1. DiskTypes'
  BY DEF DiskTypes
<1>2. OwnFiles'
  BY DEF OwnFiles
<1>3. WholeFiles'
  <2>1. \A f \in Requests : bytes[f] # Torn => bytes[f].fetch \in Files /\ bytes[f].stored \in Nat
    BY DEF DiskTypes, Files, Contents, Times
  <2>2. \A f \in Files : bytes[f].stored \in Nat
    BY DEF DiskTypes, Contents, Torn, Times
  <2>3. now \in Nat /\ now' \in Nat /\ \A f \in Requests : draft[f] \in Nat
    BY DEF DiskTypes, Times
  <2>4. \A f \in Requests : bytes'[f] # Torn => IsOf(bytes[f].fetch, KeyOf[f])'
    BY <2>1, ProfilesStay DEF WholeFiles
  <2> QED
    BY <2>2, <2>3, <2>4 DEF WholeFiles
<1>4. SavesAlone'
  BY DEF SavesAlone, Moves
<1>5. TornOnlyByTwoSaves'
  BY DEF TornOnlyByTwoSaves, Moves
<1> QED
  BY <1>1, <1>2, <1>3, <1>4, <1>5

\* The final name goes.
LEMMA RemoveKeepsDisk ==
  ASSUME FlightInv, DiskInv, Moves, NEW k \in Keys, RemoveFile(k), UNCHANGED <<draft, handle, save>>
  PROVE  DiskInv'
<1> USE DEF DiskInv
<1>1. file' = [file EXCEPT ![k] = NoFile] /\ UNCHANGED <<now, temp, bytes, draft, handle, save>>
  BY DEF RemoveFile
<1>2. DiskTypes'
  BY <1>1 DEF DiskTypes
<1>3. OwnFiles'
  BY <1>1, CacheAssumption DEF OwnFiles, DiskTypes
<1>4. WholeFiles'
  <2>1. \A f \in Requests : bytes[f] # Torn => bytes[f].fetch \in Files
    BY DEF DiskTypes, Files, Contents
  <2>2. \A f \in Requests : bytes'[f] # Torn => IsOf(bytes[f].fetch, KeyOf[f])'
    BY <1>1, <2>1, ProfilesStay DEF WholeFiles
  <2> QED
    BY <1>1, <2>2 DEF WholeFiles
<1>5. SavesAlone'
  BY <1>1 DEF SavesAlone, Moves
<1>6. TornOnlyByTwoSaves'
  BY <1>1 DEF TornOnlyByTwoSaves, Moves, DiskTypes
<1> QED
  BY <1>2, <1>3, <1>4, <1>5, <1>6

\* A save opens the temporary name: a file of its own, or the one that is there.
LEMMA OpeningKeepsDisk ==
  ASSUME FlightInv, DiskInv, Moves, FlightInv', NEW f \in Requests, SaveOpens(f) PROVE DiskInv'
<1> USE ServiceAssumption, CacheAssumption DEF DiskInv
<1> DEFINE k == KeyOf[f]
           h == IF temp[k] = NoFile THEN f ELSE temp[k]
<1>1. /\ leader[f] = "storing" /\ save[f] = "open" /\ save' = [save EXCEPT ![f] = "write"]
      /\ temp' = [temp EXCEPT ![k] = h] /\ bytes' = [bytes EXCEPT ![h] = Torn]
      /\ draft' = [draft EXCEPT ![f] = now] /\ handle' = [handle EXCEPT ![f] = temp'[k]]
      /\ UNCHANGED <<now, file, leader, outcome, together>>
  BY DEF SaveOpens, OpenTemp, flights, counted
<1>2. k \in Keys /\ h \in Requests /\ KeyOf[h] = k /\ temp'[k] = h /\ handle'[f] = h
  BY <1>1 DEF DiskTypes, OwnFiles
<1>3. \A l \in Keys : file[l] # h
  <2> SUFFICES ASSUME NEW l \in Keys, file[l] = h PROVE FALSE
    OBVIOUS
  <2>1. l = k
    BY <1>2 DEF OwnFiles
  <2> QED
    BY <1>1, <2>1 DEF OwnFiles
<1> HIDE DEF h
<1>4. DiskTypes'
  BY <1>1, <1>2 DEF DiskTypes, Files, Contents, FlightInv
<1>5. OwnFiles'
  <2>1. \A l \in Keys : temp'[l] = IF l = k THEN h ELSE temp[l]
    BY <1>1, <1>2 DEF DiskTypes
  <2>2. \A l \in Keys : temp'[l] # NoFile => KeyOf[temp'[l]] = l /\ file'[l] # temp'[l]
    BY <1>1, <1>2, <1>3, <2>1 DEF OwnFiles
  <2>3. \A g \in Requests : handle'[g] # NoFile => KeyOf[handle'[g]] = KeyOf[g]
    BY <1>1, <1>2 DEF OwnFiles, DiskTypes
  <2>4. ASSUME NEW g \in Requests, save'[g] \in {"memory", "open"}, NEW l \in Keys
        PROVE  file'[l] # g /\ temp'[l] # g
    <3>1. save[g] \in {"memory", "open"} /\ g # f
      BY <1>1, <2>4 DEF FlightInv
    <3>2. file[l] # g /\ temp[l] # g
      BY <3>1 DEF OwnFiles
    <3> QED
      BY <1>1, <2>1, <3>1, <3>2 DEF h
  <2> QED
    BY <1>1, <2>2, <2>3, <2>4 DEF OwnFiles
<1>6. WholeFiles'
  <2>1. \A g \in Files : bytes'[g] = IF g = h THEN Torn ELSE bytes[g]
    BY <1>1, <1>2 DEF DiskTypes
  <2>2. \A g \in Requests : bytes'[g] # Torn => IsOf(bytes[g].fetch, KeyOf[g])'
    BY <1>1, <2>1 DEF WholeFiles, Files, IsOf
  <2>3. bytes'[Past] # Torn /\ bytes'[Past].fetch = Past
    BY <1>2, <2>1 DEF WholeFiles, Files
  <2>4. \A g \in Files : bytes'[g].stored <= now'
    BY <1>1, <2>1 DEF WholeFiles, Torn, DiskTypes, Times
  <2>5. \A g \in Requests : draft'[g] <= now'
    BY <1>1 DEF WholeFiles, DiskTypes, Times
  <2> QED
    BY <2>2, <2>3, <2>4, <2>5 DEF WholeFiles
<1>7. SavesAlone'
  <2> SUFFICES ASSUME NEW g \in Requests, leader[g] = "storing", KeyOf[g] \notin together,
                      save'[g] \in {"write", "rename"}
               PROVE  temp'[KeyOf[g]] = handle'[g] /\ (bytes'[handle'[g]] = Torn <=> save'[g] = "write")
    BY <1>1 DEF SavesAlone
  <2>1. CASE g = f
    BY <1>1, <1>2, <2>1 DEF DiskTypes, Files, FlightInv
  <2>2. CASE g # f
    <3>1. KeyOf[g] # k
      BY <1>1, <2>2 DEF FlightInv, KnownTogether
    <3>2. save'[g] = save[g] /\ handle'[g] = handle[g] /\ temp'[KeyOf[g]] = temp[KeyOf[g]]
      BY <1>1, <2>2, <3>1 DEF DiskTypes, FlightInv
    <3>3. temp[KeyOf[g]] = handle[g] /\ (bytes[handle[g]] = Torn <=> save[g] = "write")
      BY <3>2 DEF SavesAlone
    <3>4. handle[g] # h /\ handle[g] \in Requests
      BY <1>2, <3>1, <3>2 DEF OwnFiles, DiskTypes
    <3>5. bytes'[handle[g]] = bytes[handle[g]]
      BY <1>1, <3>4 DEF DiskTypes, Files
    <3> QED
      BY <3>2, <3>3, <3>5
  <2> QED
    BY <2>1, <2>2
<1>8. TornOnlyByTwoSaves'
  BY <1>1, <1>2, <1>3 DEF TornOnlyByTwoSaves, DiskTypes, Files
<1> QED
  BY <1>4, <1>5, <1>6, <1>7, <1>8

\* A save writes to its handle: a whole record, if nobody else has it.
LEMMA WritingKeepsDisk ==
  ASSUME FlightInv, DiskInv, Moves, FlightInv', NEW f \in Requests, SaveWrites(f) PROVE DiskInv'
<1> USE ServiceAssumption, CacheAssumption DEF DiskInv
<1> DEFINE k == KeyOf[f]
           h == handle[f]
           record == [fetch |-> f, stored |-> draft[f]]
<1>1. /\ leader[f] = "storing" /\ save[f] = "write" /\ save' = [save EXCEPT ![f] = "rename"]
      /\ UNCHANGED <<now, file, temp, leader, outcome, together, draft, handle>>
  BY DEF SaveWrites, WriteOpened, flights, counted
<1>2. PICK c \in {record, Torn} : bytes' = [bytes EXCEPT ![h] = c] /\ (bytes[h] = Torn => c = record)
  BY DEF SaveWrites, WriteOpened
<1>3. /\ k \in Keys /\ h \in Requests /\ KeyOf[h] = k /\ outcome[f] = "ok"
      /\ record \in Contents /\ record # Torn /\ draft[f] <= now /\ draft[f] \in Nat
  BY <1>1 DEF DiskTypes, OwnFiles, WholeFiles, FlightInv, Begun, Contents, Files, Torn, Times
<1>4. DiskTypes'
  <2>1. c \in Contents
    BY <1>2, <1>3 DEF Contents
  <2> QED
    BY <1>1, <1>2, <1>3, <2>1 DEF DiskTypes, Files, FlightInv
<1>5. OwnFiles'
  BY <1>1 DEF OwnFiles, FlightInv
<1>6. WholeFiles'
  <2>1. \A g \in Files : bytes'[g] = IF g = h THEN c ELSE bytes[g]
    BY <1>2, <1>3 DEF DiskTypes
  <2>2. c # Torn => c.fetch = f /\ IsOf(f, k)'
    BY <1>1, <1>2, <1>3 DEF IsOf
  <2>3. \A g \in Requests : bytes'[g] # Torn => IsOf(bytes[g].fetch, KeyOf[g])'
    BY <1>1, <1>3, <2>1, <2>2 DEF WholeFiles, Files, IsOf
  <2>4. bytes'[Past] # Torn /\ bytes'[Past].fetch = Past
    BY <1>3, <2>1 DEF WholeFiles, Files
  <2>5. c.stored <= now
    BY <1>2, <1>3 DEF Torn, DiskTypes, Times
  <2> QED
    BY <1>1, <2>1, <2>3, <2>4, <2>5 DEF WholeFiles
<1>7. SavesAlone'
  <2> SUFFICES ASSUME NEW g \in Requests, leader[g] = "storing", KeyOf[g] \notin together,
                      save'[g] \in {"write", "rename"}
               PROVE  temp[KeyOf[g]] = handle[g] /\ (bytes'[handle[g]] = Torn <=> save'[g] = "write")
    BY <1>1 DEF SavesAlone
  <2>1. CASE g = f
    <3>1. temp[k] = h /\ bytes[h] = Torn /\ save'[f] = "rename"
      BY <1>1, <2>1 DEF SavesAlone, FlightInv
    <3>2. bytes'[h] = record
      BY <1>2, <1>3, <3>1 DEF DiskTypes, Files
    <3> QED
      BY <1>3, <2>1, <3>1, <3>2
  <2>2. CASE g # f
    <3>1. KeyOf[g] # k
      BY <1>1, <2>2 DEF FlightInv, KnownTogether
    <3>2. save'[g] = save[g]
      BY <1>1, <2>2 DEF FlightInv
    <3>3. temp[KeyOf[g]] = handle[g] /\ (bytes[handle[g]] = Torn <=> save[g] = "write")
      BY <3>2 DEF SavesAlone
    <3>4. handle[g] # h /\ handle[g] \in Requests
      BY <1>3, <3>1, <3>2 DEF OwnFiles, DiskTypes
    <3>5. bytes'[handle[g]] = bytes[handle[g]]
      BY <1>2, <3>4 DEF DiskTypes, Files
    <3> QED
      BY <3>2, <3>3, <3>5
  <2> QED
    BY <2>1, <2>2
<1>8. TornOnlyByTwoSaves'
  <2> SUFFICES ASSUME NEW l \in Keys, file[l] # NoFile, l \notin together PROVE bytes'[file[l]] # Torn
    BY <1>1 DEF TornOnlyByTwoSaves
  <2>1. bytes[file[l]] # Torn /\ file[l] \in Files
    BY DEF TornOnlyByTwoSaves, DiskTypes
  <2>2. file[l] # h
    <3> SUFFICES ASSUME file[l] = h PROVE FALSE
      OBVIOUS
    <3>1. l = k
      BY <1>3 DEF OwnFiles
    <3>2. temp[k] = h
      BY <1>1, <3>1 DEF SavesAlone
    <3> QED
      BY <1>3, <3>1, <3>2 DEF OwnFiles
  <2> QED
    BY <1>2, <2>1, <2>2 DEF DiskTypes
<1> QED
  BY <1>4, <1>5, <1>6, <1>7, <1>8

\* The rename, or its failure, frees the temporary name.
LEMMA RenamingKeepsDisk ==
  ASSUME FlightInv, DiskInv, Moves, FlightInv', NEW f \in Requests, SaveRenames(f) PROVE DiskInv'
<1> USE ServiceAssumption, CacheAssumption DEF DiskInv
<1> DEFINE k == KeyOf[f]
<1>1. /\ save[f] = "rename" /\ leader[f] = "storing" /\ leader' = [leader EXCEPT ![f] = "publishing"]
      /\ temp' = [temp EXCEPT ![k] = NoFile]
      /\ \/ file' = [file EXCEPT ![k] = IF temp[k] = NoFile THEN @ ELSE temp[k]]
         \/ file' = file
      /\ UNCHANGED <<now, bytes, draft, handle, save, outcome, together>>
  BY DEF SaveRenames, RenameTemp, RenameFails, Stored, saveVars, counted
<1>2. k \in Keys
  OBVIOUS
<1>3. /\ \A l \in Keys : temp'[l] = IF l = k THEN NoFile ELSE temp[l]
      /\ \A l \in Keys : \/ file'[l] = file[l]
                         \/ l = k /\ temp[k] # NoFile /\ file'[l] = temp[k]
  BY <1>1, <1>2 DEF DiskTypes
<1>4. DiskTypes'
  BY <1>1, <1>2 DEF DiskTypes, Files
<1>5. OwnFiles'
  BY <1>1, <1>2, <1>3 DEF OwnFiles
<1>6. WholeFiles'
  BY <1>1 DEF WholeFiles, IsOf
<1>7. SavesAlone'
  <2> SUFFICES ASSUME NEW g \in Requests, leader'[g] = "storing", KeyOf[g] \notin together,
                      save[g] \in {"write", "rename"}
               PROVE  temp'[KeyOf[g]] = handle[g] /\ (bytes[handle[g]] = Torn <=> save[g] = "write")
    BY <1>1 DEF SavesAlone
  <2>1. g # f /\ leader[g] = "storing"
    BY <1>1 DEF FlightInv, FlightTypeOK
  <2>2. KeyOf[g] # k
    BY <1>1, <2>1 DEF FlightInv, KnownTogether
  <2> QED
    BY <1>3, <2>1, <2>2 DEF SavesAlone
<1>8. TornOnlyByTwoSaves'
  <2> SUFFICES ASSUME NEW l \in Keys, file'[l] # NoFile, l \notin together PROVE bytes[file'[l]] # Torn
    BY <1>1 DEF TornOnlyByTwoSaves
  <2>1. CASE file'[l] = file[l]
    BY <2>1 DEF TornOnlyByTwoSaves
  <2>2. CASE l = k /\ temp[k] # NoFile /\ file'[l] = temp[k]
    BY <1>1, <2>2 DEF SavesAlone
  <2> QED
    BY <1>3, <2>1, <2>2
<1> QED
  BY <1>4, <1>5, <1>6, <1>7, <1>8

LEMMA DiskKeeps == ASSUME FlightInv, DiskInv, [Next]_vars PROVE DiskInv'
<1>1. Moves /\ FlightInv'
  BY FlightsMove, FlightsKeep
<1>2. ASSUME UNCHANGED <<now, diskVars, saveVars>> PROVE DiskInv'
  BY <1>1, <1>2, DiskStands DEF diskVars, saveVars, DiskInv, DiskTypes, Times
<1>3. ASSUME NEW r \in Requests,
             \/ Refresh(r) \/ MemoryHit(r) \/ MemoryMiss(r) \/ JobReads(r) \/ JobInserts(r)
             \/ DiskAnswers(r) \/ Board(r) \/ Fetch(r) \/ SaveFails(r) \/ Finish(r) \/ Panic(r)
             \/ Await(r) \/ Disconnect(r)
      PROVE  DiskInv'
  BY <1>2, <1>3 DEF Refresh, Pop, MemoryHit, GetHit, MemoryMiss, GetMiss, JobReads, JobInserts,
                    InsertMemory, DiskAnswers, Board, Fetch, SaveFails, Finish, Panic, Await,
                    Disconnect, cacheVars
<1>4. ASSUME NEW r \in Requests, RefreshRemovesFile(r) \/ JobRemoves(r) PROVE DiskInv'
  BY <1>1, <1>4, RemoveKeepsDisk, ServiceAssumption DEF RefreshRemovesFile, JobRemoves, saveVars
<1>5. ASSUME NEW f \in Requests, StoreMemory(f) PROVE DiskInv'
  <2>1. /\ UNCHANGED <<now, file, temp, bytes, draft, handle>>
        /\ save[f] = "memory" /\ save' = [save EXCEPT ![f] = "open"]
    BY <1>5 DEF StoreMemory, InsertMemory, diskVars
  <2> QED
    BY <1>1, <2>1, DiskStands DEF DiskInv, DiskTypes, Times, FlightInv
<1>6. ASSUME NEW f \in Requests, SaveOpens(f) \/ SaveWrites(f) \/ SaveRenames(f) PROVE DiskInv'
  BY <1>1, <1>6, OpeningKeepsDisk, WritingKeepsDisk, RenamingKeepsDisk
<1>7. CASE Restart
  BY <1>2, <1>7 DEF Restart, MemoryLost
<1>8. CASE TimePasses
  <2>1. /\ now < MaxTime /\ now' = now + 1
        /\ UNCHANGED <<file, temp, bytes, draft, handle, save>>
    BY <1>8 DEF TimePasses, Tick, diskVars, saveVars
  <2>2. now' \in Times /\ now <= now'
    BY <2>1, CacheAssumption DEF DiskInv, DiskTypes, Times
  <2> QED
    BY <1>1, <2>1, <2>2, DiskStands
<1>9. CASE UNCHANGED vars
  BY <1>2, <1>9 DEF vars, cacheVars
<1> QED
  BY <1>3, <1>4, <1>5, <1>6, <1>7, <1>8, <1>9 DEF Next, Asking, Storing

-----------------------------------------------------------------------------
(* The invariant: memory, jobs and answers                                 *)

MemoryTypes ==
  /\ memory \in Seq(Entries)
  /\ at \in [Requests -> {"new", "clearing", "loading", "missed", "flying", "hit", "gone"}]
  /\ served \in [Requests -> [fetch : Files \cup {NoFile}, age : Times]]
  /\ job \in [Requests -> {"none", "reading", "removing", "inserting", "done"}]
  /\ found \in [Requests -> Entries \cup {Nothing}]
  /\ restarts \in 0..MaxRestarts

\* An entry is a profile of its key that went into memory no later than a time after it
\* was stored.
Sound(e) ==
  /\ IsOf(e.fetch, e.key)
  /\ e.stored <= e.inserted /\ e.inserted <= now /\ e.inserted - e.stored <= Ttl

MapSound == \A i \in 1..Len(memory) : Sound(memory[i])

JobsSound ==
  \A r \in Requests : /\ found[r] # Nothing => found[r].key = KeyOf[r] /\ Sound(found[r])
                      /\ job[r] = "inserting" => found[r] # Nothing

AnswersSound ==
  \A r \in Requests : /\ served[r].age <= 2 * Ttl
                      /\ at[r] = "hit" => served[r].fetch \in Files /\ IsOf(served[r].fetch, KeyOf[r])

MemoryInv == MemoryTypes /\ LruWithinBound /\ MapSound /\ JobsSound /\ AnswersSound

-----------------------------------------------------------------------------
(* Memory, jobs and answers                                                *)

LEMMA NumbersAre ==
  /\ Ttl \in Nat /\ MaxTime \in Nat /\ \A t \in Times : t \in Nat /\ t <= MaxTime
  /\ \A e \in Entries : /\ e.key \in Keys /\ e.fetch \in Files /\ e.stored \in Times
                        /\ e.inserted \in Times /\ e # Nothing
BY CacheAssumption DEF Times, Entries, Nothing, Files

LEMMA MemoryInit == Init => MemoryInv
<1> SUFFICES ASSUME Init PROVE MemoryInv
  OBVIOUS
<1> USE ServiceAssumption, CacheAssumption DEF Init, CacheInit
<1>1. memory \in Seq(Entries) /\ Len(memory) = 0
  OBVIOUS
<1>2. MemoryTypes
  BY <1>1 DEF MemoryTypes, Times
<1>3. LruWithinBound /\ MapSound
  BY <1>1 DEF LruWithinBound, MapSound
<1>4. JobsSound /\ AnswersSound
  BY DEF JobsSound, AnswersSound
<1> QED
  BY <1>2, <1>3, <1>4 DEF MemoryInv

\* What is sound stays so as time passes.
LEMMA SoundStays ==
  ASSUME MemoryInv, DiskInv, Moves, now' \in Times, now <= now'
  PROVE  /\ \A e \in Entries : Sound(e) => Sound(e)'
         /\ UNCHANGED <<found, job>> => JobsSound'
         /\ UNCHANGED <<at, served>> => AnswersSound'
<1>1. /\ now \in Nat /\ now' \in Nat
      /\ \A e \in Entries : e.fetch \in Files /\ e.stored \in Nat /\ e.inserted \in Nat
  BY NumbersAre DEF DiskInv, DiskTypes
<1>2. \A f \in Files : \A k : IsOf(f, k) => IsOf(f, k)'
  BY ProfilesStay
<1>3. \A e \in Entries : Sound(e) => Sound(e)'
  BY <1>1, <1>2 DEF Sound
<1>4. ASSUME UNCHANGED <<found, job>> PROVE JobsSound'
  <2>1. \A r \in Requests : found[r] # Nothing => found[r] \in Entries
    BY DEF MemoryInv, MemoryTypes
  <2> QED
    BY <1>3, <1>4, <2>1 DEF MemoryInv, JobsSound
<1>5. ASSUME UNCHANGED <<at, served>> PROVE AnswersSound'
  <2>1. \A r \in Requests : at[r] = "hit" => served[r].fetch \in Files
    BY DEF MemoryInv, AnswersSound
  <2> QED
    BY <1>2, <1>5, <2>1 DEF MemoryInv, AnswersSound
<1> QED
  BY <1>3, <1>4, <1>5

\* A map that is kept, with sound entries brought to it, is sound.
LEMMA MapKeeps ==
  ASSUME MemoryInv, DiskInv, Moves, now' \in Times, now <= now',
         NEW brought \in SUBSET Entries, \A e \in brought : Sound(e)', Kept(brought)
  PROVE  memory' \in Seq(Entries) /\ LruWithinBound' /\ MapSound'
<1>1. \A j \in 1..Len(memory) : memory[j] \in Entries /\ Sound(memory[j])
  BY DEF MemoryInv, MemoryTypes, MapSound
<1>2. \A e \in Entries : Sound(e) => Sound(e)'
  BY SoundStays
<1>3. \A i \in 1..Len(memory') :
        memory'[i] \in brought \/ \E j \in 1..Len(memory) : memory'[i] = memory[j]
  BY DEF Kept
<1>4. MapSound'
  BY <1>1, <1>2, <1>3 DEF MapSound, Sound, IsOf
<1> QED
  BY <1>4 DEF Kept

\* A step that finds nothing and answers nothing, whatever it does to the map.
LEMMA QuietKeeps ==
  ASSUME MemoryInv, DiskInv, Moves, now' \in Times, now <= now',
         NEW brought \in SUBSET Entries, \A e \in brought : Sound(e)', Kept(brought),
         at' \in [Requests -> {"new", "clearing", "loading", "missed", "flying", "hit", "gone"}],
         job' \in [Requests -> {"none", "reading", "removing", "inserting", "done"}],
         \A q \in Requests : /\ at'[q] = "hit" => at[q] = "hit"
                             /\ job'[q] = "inserting" => job[q] = "inserting",
         restarts' \in 0..MaxRestarts,
         UNCHANGED <<served, found>>
  PROVE  MemoryInv'
<1>1. memory' \in Seq(Entries) /\ LruWithinBound' /\ MapSound'
  BY MapKeeps
<1>2. MemoryTypes'
  BY <1>1 DEF MemoryInv, MemoryTypes
<1>3. JobsSound'
  <2>1. \A q \in Requests : found[q] # Nothing => found[q] \in Entries
    BY DEF MemoryInv, MemoryTypes
  <2>2. \A e \in Entries : Sound(e) => Sound(e)'
    BY SoundStays
  <2> QED
    BY <2>1, <2>2 DEF MemoryInv, JobsSound
<1>4. AnswersSound'
  <2>1. \A q \in Requests, f \in Files : IsOf(f, KeyOf[q]) => IsOf(f, KeyOf[q])'
    BY ProfilesStay
  <2> QED
    BY <2>1 DEF MemoryInv, AnswersSound
<1> QED
  BY <1>1, <1>2, <1>3, <1>4 DEF MemoryInv

LEMMA PopsKeep ==
  ASSUME MemoryInv, DiskInv, Moves, NEW r \in Requests, Refresh(r) \/ MemoryMiss(r) PROVE MemoryInv'
<1>1. now \in Nat /\ now' = now /\ now' \in Times
  BY NumbersAre DEF Refresh, MemoryMiss, Pop, GetMiss, DiskInv, DiskTypes
<1>2. Pop(KeyOf[r]) \/ GetMiss(KeyOf[r])
  BY DEF Refresh, MemoryMiss
<1>3. Kept({})
  BY <1>2, MemorySteps, CacheAssumption DEF MemoryInv, MemoryTypes
<1>4. CASE Refresh(r)
  <2>1. at' = [at EXCEPT ![r] = "clearing"] /\ UNCHANGED <<job, served, found, restarts>>
    BY <1>4 DEF Refresh, jobVars, counted
  <2> QED
    BY <1>1, <1>3, <2>1, QuietKeeps DEF MemoryInv, MemoryTypes
<1>5. CASE MemoryMiss(r)
  <2>1. /\ at' = [at EXCEPT ![r] = "loading"] /\ job' = [job EXCEPT ![r] = "reading"]
        /\ UNCHANGED <<served, found, restarts>>
    BY <1>5 DEF MemoryMiss, counted
  <2> QED
    BY <1>1, <1>3, <2>1, QuietKeeps DEF MemoryInv, MemoryTypes
<1> QED
  BY <1>4, <1>5

\* A hit is as old as an entry can be that spent its time in memory after one on disk.
LEMMA HitKeeps ==
  ASSUME MemoryInv, DiskInv, Moves, NEW r \in Requests, MemoryHit(r) PROVE MemoryInv'
<1>1. PICK m \in Held(KeyOf[r]) :
        GetHit(m) /\ served' = [served EXCEPT ![r] = [fetch |-> m.fetch, age |-> now - m.stored]]
  BY DEF MemoryHit
<1>2. at' = [at EXCEPT ![r] = "hit"] /\ UNCHANGED <<now, job, found, restarts>>
  BY <1>1 DEF MemoryHit, GetHit, jobVars, counted
<1>3. m \in Entries /\ Sound(m) /\ m.key = KeyOf[r] /\ now - m.inserted <= Ttl
  BY <1>1 DEF Held, GetHit, Fresh, MemoryInv, MemoryTypes, MapSound
<1>4. /\ now \in Times /\ now' \in Times /\ now <= now' /\ now \in Nat /\ Ttl \in Nat
      /\ m.stored \in Nat /\ m.inserted \in Nat /\ now <= MaxTime /\ MaxTime \in Nat
  BY <1>2, <1>3, NumbersAre DEF DiskInv, DiskTypes
<1>5. now - m.stored \in Times /\ now - m.stored <= 2 * Ttl
  <2>1. m.stored <= m.inserted /\ m.inserted <= now /\ m.inserted - m.stored <= Ttl
    BY <1>3 DEF Sound
  <2> QED
    BY <1>3, <1>4, <2>1 DEF Times
<1>6. memory' \in Seq(Entries) /\ LruWithinBound' /\ MapSound'
  <2>1. Kept({})
    BY <1>1, MemorySteps, CacheAssumption DEF MemoryInv, MemoryTypes
  <2> QED
    BY <1>4, <2>1, MapKeeps
<1>7. MemoryTypes'
  <2>1. [fetch |-> m.fetch, age |-> now - m.stored] \in [fetch : Files \cup {NoFile}, age : Times]
    BY <1>3, <1>5, NumbersAre
  <2> QED
    BY <1>1, <1>2, <1>6, <2>1 DEF MemoryInv, MemoryTypes
<1>8. JobsSound'
  BY <1>2, <1>4, SoundStays
<1>9. AnswersSound'
  <2>1. ASSUME NEW q \in Requests
        PROVE  /\ served'[q].age <= 2 * Ttl
               /\ at'[q] = "hit" => served'[q].fetch \in Files /\ IsOf(served[q].fetch, KeyOf[q])'
    <3>1. CASE q = r
      <4>1. served'[r] = [fetch |-> m.fetch, age |-> now - m.stored]
        BY <1>1 DEF MemoryInv, MemoryTypes
      <4>2. served'[r].fetch = m.fetch /\ served'[r].age = now - m.stored
        BY <4>1
      <4>3. m.fetch \in Files /\ IsOf(m.fetch, KeyOf[r])'
        BY <1>3, NumbersAre, ProfilesStay DEF Sound
      <4> QED
        BY <1>5, <3>1, <4>2, <4>3 DEF IsOf
    <3>2. CASE q # r
      <4>1. served'[q] = served[q] /\ at'[q] = at[q]
        BY <1>1, <1>2, <3>2 DEF MemoryInv, MemoryTypes
      <4>2. at[q] = "hit" => IsOf(served[q].fetch, KeyOf[q]) /\ served[q].fetch \in Files
        BY DEF MemoryInv, AnswersSound
      <4> QED
        BY <4>1, <4>2 DEF MemoryInv, AnswersSound, IsOf, Moves, Files
    <3> QED
      BY <3>1, <3>2
  <2> QED
    BY <2>1 DEF AnswersSound
<1> QED
  BY <1>6, <1>7, <1>8, <1>9 DEF MemoryInv

\* A disk job takes a file that is whole and no older than the time to live.
LEMMA JobReadsKeeps ==
  ASSUME MemoryInv, DiskInv, Moves, NEW r \in Requests, JobReads(r) PROVE MemoryInv'
<1> DEFINE k == KeyOf[r]
           e == EntryOf(k, bytes[file[k]])
<1>1. /\ UNCHANGED <<now, memory, at, served, restarts>>
      /\ \/ Loadable(k) /\ found' = [found EXCEPT ![r] = e] /\ job' = [job EXCEPT ![r] = "inserting"]
         \/ found' = found /\ job' = [job EXCEPT ![r] = "removing"]
         \/ found' = found /\ job' = [job EXCEPT ![r] = "done"]
  BY DEF JobReads, cacheVars, lookupVars, counted
<1>2. now \in Times /\ now' = now /\ now \in Nat /\ now <= now'
  BY <1>1, NumbersAre DEF DiskInv, DiskTypes
<1>3. k \in Keys
  BY ServiceAssumption
<1>4. ASSUME Loadable(k) PROVE e \in Entries /\ e.key = k /\ Sound(e)
  <2>1. file[k] \in Files /\ bytes[file[k]] # Torn /\ bytes[file[k]] \in Contents
        /\ now - bytes[file[k]].stored <= Ttl
    BY <1>3, <1>4 DEF Loadable, DiskInv, DiskTypes
  <2>2. bytes[file[k]] \in [fetch : Files, stored : Times]
    BY <2>1 DEF Contents
  <2>3. e = [key |-> k, fetch |-> bytes[file[k]].fetch, stored |-> bytes[file[k]].stored,
             inserted |-> now]
    BY DEF EntryOf
  <2>4. IsOf(bytes[file[k]].fetch, k)
    <3>1. CASE file[k] = Past
      BY <3>1 DEF DiskInv, WholeFiles, IsOf
    <3>2. CASE file[k] \in Requests
      BY <1>3, <2>1, <3>2 DEF DiskInv, WholeFiles, OwnFiles
    <3> QED
      BY <2>1, <3>1, <3>2 DEF Files
  <2>5. bytes[file[k]].stored <= now
    BY <2>1 DEF DiskInv, WholeFiles
  <2> HIDE DEF e
  <2> QED
    BY <1>2, <1>3, <2>1, <2>2, <2>3, <2>4, <2>5 DEF Entries, Sound
<1>5. memory' \in Seq(Entries) /\ LruWithinBound' /\ MapSound'
  <2>1. Kept({})
    BY <1>1, MemorySteps, CacheAssumption DEF MemoryInv, MemoryTypes
  <2> QED
    BY <1>2, <2>1, MapKeeps
<1> HIDE DEF e
<1>6. MemoryTypes'
  BY <1>1, <1>4, <1>5 DEF MemoryInv, MemoryTypes
<1>7. JobsSound'
  <2>1. ASSUME NEW q \in Requests
        PROVE  /\ found'[q] # Nothing => found'[q].key = KeyOf[q] /\ Sound(found[q])'
               /\ job'[q] = "inserting" => found'[q] # Nothing
    <3>1. \A x \in Entries : Sound(x) => Sound(x)'
      BY <1>2, SoundStays
    <3>2. CASE q = r /\ Loadable(k) /\ found' = [found EXCEPT ![r] = e]
      <4>1. found'[q] = e /\ e \in Entries /\ e.key = KeyOf[q] /\ Sound(e)
        BY <1>4, <3>2 DEF MemoryInv, MemoryTypes
      <4> QED
        BY <3>1, <4>1, NumbersAre DEF Sound, IsOf
    <3>3. CASE found'[q] = found[q] /\ (job'[q] = "inserting" => job[q] = "inserting")
      <4>1. found[q] # Nothing => found[q] \in Entries
        BY DEF MemoryInv, MemoryTypes
      <4> QED
        BY <3>1, <3>3, <4>1 DEF MemoryInv, JobsSound, Sound, IsOf
    <3> QED
      BY <1>1, <3>2, <3>3 DEF MemoryInv, MemoryTypes
  <2> QED
    BY <2>1 DEF JobsSound
<1>8. AnswersSound'
  BY <1>1, <1>2, SoundStays
<1> QED
  BY <1>5, <1>6, <1>7, <1>8 DEF MemoryInv

LEMMA DiskAnswersKeeps ==
  ASSUME MemoryInv, DiskInv, Moves, NEW r \in Requests, DiskAnswers(r) PROVE MemoryInv'
<1> DEFINE answer == [fetch |-> found[r].fetch, age |-> found[r].inserted - found[r].stored]
<1>1. /\ UNCHANGED <<now, memory, job, found, restarts>>
      /\ \/ /\ found[r] # Nothing /\ at' = [at EXCEPT ![r] = "hit"]
            /\ served' = [served EXCEPT ![r] = answer]
         \/ at' = [at EXCEPT ![r] = "missed"] /\ served' = served
  BY DEF DiskAnswers, cacheVars, jobVars, counted
<1>2. now \in Times /\ now' = now /\ now \in Nat /\ now <= now'
  BY <1>1, NumbersAre DEF DiskInv, DiskTypes
<1>3. ASSUME found[r] # Nothing
      PROVE  /\ answer.fetch \in Files /\ answer.age \in Times /\ answer.age <= 2 * Ttl
             /\ answer \in [fetch : Files \cup {NoFile}, age : Times]
             /\ answer.fetch = found[r].fetch /\ IsOf(found[r].fetch, KeyOf[r])
  <2>1. found[r] \in Entries /\ Sound(found[r]) /\ found[r].key = KeyOf[r]
    BY <1>3 DEF MemoryInv, MemoryTypes, JobsSound
  <2>2. /\ found[r].stored \in Nat /\ found[r].inserted \in Nat /\ found[r].inserted <= MaxTime
        /\ Ttl \in Nat /\ MaxTime \in Nat /\ found[r].fetch \in Files
    BY <2>1, NumbersAre
  <2>3. /\ found[r].stored <= found[r].inserted /\ found[r].inserted - found[r].stored <= Ttl
        /\ IsOf(found[r].fetch, KeyOf[r])
    BY <2>1 DEF Sound
  <2>4. found[r].inserted - found[r].stored \in Times /\ found[r].inserted - found[r].stored <= 2 * Ttl
    BY <2>2, <2>3 DEF Times
  <2> QED
    BY <2>2, <2>3, <2>4
<1>4. memory' \in Seq(Entries) /\ LruWithinBound' /\ MapSound'
  <2>1. Kept({})
    BY <1>1, MemorySteps, CacheAssumption DEF MemoryInv, MemoryTypes
  <2> QED
    BY <1>2, <2>1, MapKeeps
<1> HIDE DEF answer
<1>5. MemoryTypes'
  BY <1>1, <1>3, <1>4 DEF MemoryInv, MemoryTypes
<1>6. JobsSound'
  BY <1>1, <1>2, SoundStays
<1>7. AnswersSound'
  <2>1. ASSUME NEW q \in Requests
        PROVE  /\ served'[q].age <= 2 * Ttl
               /\ at'[q] = "hit" => served'[q].fetch \in Files /\ IsOf(served[q].fetch, KeyOf[q])'
    <3>1. CASE q = r /\ found[r] # Nothing /\ served' = [served EXCEPT ![r] = answer]
      <4>1. served'[q] = answer
        BY <3>1 DEF MemoryInv, MemoryTypes
      <4>2. IsOf(found[r].fetch, KeyOf[r]) /\ answer.fetch \in Files /\ answer.fetch = found[r].fetch
        BY <1>3, <3>1
      <4> QED
        BY <1>3, <3>1, <4>1, <4>2 DEF IsOf, Moves, Files
    <3>2. CASE served'[q] = served[q] /\ (at'[q] = "hit" => at[q] = "hit")
      BY <3>2 DEF MemoryInv, AnswersSound, IsOf, Moves, Files
    <3> QED
      BY <1>1, <3>1, <3>2 DEF MemoryInv, MemoryTypes
  <2> QED
    BY <2>1 DEF AnswersSound
<1> QED
  BY <1>4, <1>5, <1>6, <1>7 DEF MemoryInv

LEMMA InsertsKeep ==
  ASSUME MemoryInv, DiskInv, Moves, FlightInv, NEW r \in Requests, JobInserts(r) \/ StoreMemory(r)
  PROVE  MemoryInv'
<1> USE DEF counted
<1>1. now \in Nat /\ now \in Times /\ now' = now
  BY NumbersAre DEF JobInserts, StoreMemory, InsertMemory, DiskInv, DiskTypes
<1>2. /\ UNCHANGED <<at, served, found, restarts>>
      /\ job' = job \/ job' = [job EXCEPT ![r] = "done"]
  BY DEF JobInserts, StoreMemory, lookupVars, jobVars
<1>3. PICK m \in Entries : InsertMemory(m) /\ Sound(m)
  <2>1. CASE JobInserts(r)
    BY <2>1 DEF JobInserts, MemoryInv, MemoryTypes, JobsSound
  <2>2. CASE StoreMemory(r)
    <3> DEFINE m == EntryOf(KeyOf[r], [fetch |-> r, stored |-> now])
    <3>1. m = [key |-> KeyOf[r], fetch |-> r, stored |-> now, inserted |-> now]
      BY DEF EntryOf
    <3>2. KeyOf[r] \in Keys /\ r \in Files /\ outcome[r] = "ok" /\ 0 <= Ttl /\ now - now = 0
      <4>1. KeyOf[r] \in Keys /\ r \in Files
        BY ServiceAssumption DEF Files
      <4>2. outcome[r] = "ok"
        BY <2>2 DEF StoreMemory, FlightInv, Begun
      <4>3. 0 <= Ttl /\ now - now = 0
        BY <1>1, NumbersAre
      <4> QED
        BY <4>1, <4>2, <4>3
    <3>3. InsertMemory(m)
      BY <2>2 DEF StoreMemory
    <3> HIDE DEF m
    <3>4. m \in Entries /\ Sound(m)
      BY <1>1, <3>1, <3>2 DEF Entries, Sound, IsOf
    <3> QED
      BY <3>3, <3>4
  <2> QED
    BY <2>1, <2>2
<1>4. Sound(m)'
  BY <1>1, <1>3, SoundStays
<1>5. Kept({m})
  BY <1>3, MemorySteps, CacheAssumption DEF MemoryInv, MemoryTypes
<1> QED
  BY <1>1, <1>2, <1>4, <1>5, QuietKeeps DEF MemoryInv, MemoryTypes

LEMMA MemoryKeeps == ASSUME FlightInv, DiskInv, MemoryInv, [Next]_vars PROVE MemoryInv'
<1> USE DEF counted, lookupVars, jobVars
<1>1. Moves /\ DiskInv'
  BY FlightsMove, DiskKeeps
<1>2. now \in Nat /\ now \in Times /\ now' \in Times
  BY <1>1, NumbersAre DEF DiskInv, DiskTypes
<1>3. memory' = memory => Kept({})
  BY MemorySteps, CacheAssumption DEF MemoryInv, MemoryTypes
<1>4. ASSUME UNCHANGED <<memory, at, served, job, found, restarts>>, now <= now' PROVE MemoryInv'
  BY <1>1, <1>2, <1>3, <1>4, QuietKeeps DEF MemoryInv, MemoryTypes
<1>5. ASSUME NEW r \in Requests,
             \/ Fetch(r) \/ SaveOpens(r) \/ SaveWrites(r) \/ SaveRenames(r) \/ SaveFails(r)
             \/ Finish(r) \/ Panic(r) \/ Await(r)
      PROVE  MemoryInv'
  BY <1>2, <1>4, <1>5 DEF Fetch, SaveOpens, OpenTemp, SaveWrites, WriteOpened, SaveRenames,
                          RenameTemp, RenameFails, SaveFails, Finish, Panic, Await, cacheVars
<1>6. ASSUME NEW r \in Requests,
             RefreshRemovesFile(r) \/ JobRemoves(r) \/ Board(r) \/ Disconnect(r)
      PROVE  MemoryInv'
  <2>1. UNCHANGED <<now, memory, served, found, restarts>>
    BY <1>6 DEF RefreshRemovesFile, JobRemoves, RemoveFile, Board, Disconnect, cacheVars
  <2>2. /\ at' = at \/ \E w \in {"missed", "flying", "gone"} : at' = [at EXCEPT ![r] = w]
        /\ job' = job \/ job' = [job EXCEPT ![r] = "done"]
    BY <1>6 DEF RefreshRemovesFile, JobRemoves, Board, Disconnect
  <2> QED
    BY <1>1, <1>2, <1>3, <2>1, <2>2, QuietKeeps DEF MemoryInv, MemoryTypes
<1>7. CASE Restart
  <2>1. Kept({}) /\ now' = now
    BY <1>7, MemorySteps, CacheAssumption DEF Restart, MemoryLost, MemoryInv, MemoryTypes
  <2>2. /\ at' = [r \in Requests |-> IF at[r] \in {"new", "hit"} THEN at[r] ELSE "gone"]
        /\ job' = [r \in Requests |-> IF job[r] = "none" THEN "none" ELSE "done"]
        /\ restarts < MaxRestarts /\ restarts' = restarts + 1 /\ UNCHANGED <<served, found>>
    BY <1>7 DEF Restart
  <2>3. restarts' \in 0..MaxRestarts
    BY <2>2, ServiceAssumption DEF MemoryInv, MemoryTypes
  <2> QED
    BY <1>1, <1>2, <2>1, <2>2, <2>3, QuietKeeps DEF MemoryInv, MemoryTypes
<1>8. CASE TimePasses
  BY <1>2, <1>4, <1>8 DEF TimePasses, Tick
<1>9. CASE UNCHANGED vars
  BY <1>2, <1>4, <1>9 DEF vars, cacheVars
<1> QED
  BY <1>1, <1>5, <1>6, <1>7, <1>8, <1>9, PopsKeep, HitKeeps, JobReadsKeeps, DiskAnswersKeeps,
     InsertsKeep DEF Next, Asking, Storing

-----------------------------------------------------------------------------
(* Theorems                                                                *)

ServiceInv == FlightInv /\ DiskInv /\ MemoryInv

LEMMA Invariance == Spec => []ServiceInv
<1>1. Init => ServiceInv
  BY FlightsInit, DiskInit, MemoryInit DEF ServiceInv
<1>2. ServiceInv /\ [Next]_vars => ServiceInv'
  BY FlightsKeep, DiskKeeps, MemoryKeeps DEF ServiceInv
<1> QED
  BY <1>1, <1>2, PTL DEF Spec

\* Lookups, jobs, leaders and saves are where their code has them; a registered or
\* joined flight has a leader, a save that writes an open file.
THEOREM ServiceTypes == Spec => []ServiceTypeOK
<1>1. ServiceInv => ServiceTypeOK
  BY DEF ServiceInv, FlightInv, DiskInv, MemoryInv, DiskTypes, MemoryTypes, KnownTogether,
         ServiceTypeOK, CacheTypeOK
<1> QED
  BY <1>1, Invariance, PTL

\* The map is an LRU map of bounded size, whatever is put, popped and moved in it.
THEOREM MemoryBounded == Spec => []LruWithinBound
<1>1. ServiceInv => LruWithinBound
  BY DEF ServiceInv, MemoryInv
<1> QED
  BY <1>1, Invariance, PTL

\* Coalescing: with any number of misses at once a second flight of a key takes off only
\* when an earlier one has come to its end.
THEOREM FirstFlight == Spec => []FirstFlightAlone
<1>1. ServiceInv => FirstFlightAlone
  BY DEF ServiceInv, FlightInv, Registered, FirstFlightAlone, Aloft, Unsent, Sent
<1> QED
  BY <1>1, Invariance, PTL

\* Entries of the inflight map are of leaders that have still to remove them, or
\* panicked.
THEOREM NoStaleEntry == Spec => []NoEntryOutlivesItsLeader
<1>1. ServiceInv => NoEntryOutlivesItsLeader
  BY DEF ServiceInv, FlightInv
<1> QED
  BY <1>1, Invariance, PTL

\* What is answered, kept and on disk is a profile of its key, for any interleaving of
\* lookups, jobs, saves, restarts and cancellations.
THEOREM RightProfile == Spec => []OnlyProfilesOfTheKey
<1>1. ServiceInv => OnlyProfilesOfTheKey
  <2> SUFFICES ASSUME ServiceInv PROVE OnlyProfilesOfTheKey
    OBVIOUS
  <2>1. \A r \in Requests : at[r] = "hit" => IsOf(served[r].fetch, KeyOf[r])
    BY DEF ServiceInv, MemoryInv, AnswersSound
  <2>2. \A i \in 1..Len(memory) : IsOf(memory[i].fetch, memory[i].key)
    BY DEF ServiceInv, MemoryInv, MapSound, Sound
  <2>3. ASSUME NEW k \in Keys, file[k] # NoFile, bytes[file[k]] # Torn
        PROVE  IsOf(bytes[file[k]].fetch, k)
    <3>1. CASE file[k] = Past
      BY <3>1 DEF ServiceInv, DiskInv, WholeFiles, IsOf
    <3>2. CASE file[k] \in Requests
      BY <2>3, <3>2 DEF ServiceInv, DiskInv, WholeFiles, OwnFiles
    <3> QED
      BY <2>3, <3>1, <3>2 DEF ServiceInv, DiskInv, DiskTypes, Files
  <2> QED
    BY <2>1, <2>2, <2>3 DEF OnlyProfilesOfTheKey
<1> QED
  BY <1>1, Invariance, PTL

\* A hit is no older than the time to live on disk and the one in memory together.
THEOREM HitsYoung == Spec => []HitsWithinTwoTtls
<1>1. ServiceInv => HitsWithinTwoTtls
  BY DEF ServiceInv, MemoryInv, AnswersSound, HitsWithinTwoTtls
<1> QED
  BY <1>1, Invariance, PTL

\* Half a record gets the final name only where two flights of the key have been storing
\* at once, in one process: crashes between the steps of a save are not enough.
THEOREM WholeUnlessTwoSave == Spec => []TornOnlyByTwoSaves
<1>1. ServiceInv => TornOnlyByTwoSaves
  BY DEF ServiceInv, DiskInv
<1> QED
  BY <1>1, Invariance, PTL

-----------------------------------------------------------------------------
(* The promise                                                             *)

\* A lookup waits for a flight just while it is in one, and nothing is found before the
\* job has read.
InStep ==
  \A r \in Requests :
    /\ at[r] \in {"new", "clearing", "loading", "missed", "hit"} => waiter[r] = "idle"
    /\ at[r] = "flying" => waiter[r] \in {"waiting", "leaving", "answered", "failed"}
    /\ at[r] = "gone" => waiter[r] \notin {"waiting", "leaving"}
    /\ at[r] = "new" => job[r] = "none"
    /\ job[r] \in {"none", "reading", "removing"} => found[r] = Nothing

\* A leader has an outcome when it publishes one.
Returned == \A f \in Requests : leader[f] \in {"publishing"} \cup Sent => outcome[f] # "none"

LEMMA AboardInit == Init => InStep /\ Returned
BY DEF Init, FlightInit, InStep, Returned, Sent

LEMMA InStepKeeps == ASSUME ServiceInv, InStep, [Next]_vars PROVE InStep'
<1> USE DEF counted, lookupVars, jobVars, flights
<1>1. /\ waiter \in [Requests -> Waiters]
      /\ at \in [Requests -> {"new", "clearing", "loading", "missed", "flying", "hit", "gone"}]
      /\ job \in [Requests -> {"none", "reading", "removing", "inserting", "done"}]
      /\ found \in [Requests -> Entries \cup {Nothing}]
  BY DEF ServiceInv, FlightInv, FlightTypeOK, MemoryInv, MemoryTypes
<1>2. ASSUME UNCHANGED <<at, waiter, job, found>> PROVE InStep'
  BY <1>2 DEF InStep
<1>3. ASSUME NEW r \in Requests, Refresh(r) \/ MemoryHit(r) \/ MemoryMiss(r) \/ RefreshRemovesFile(r)
      PROVE  InStep'
  BY <1>1, <1>3 DEF Refresh, MemoryHit, MemoryMiss, RefreshRemovesFile, InStep
<1>4. ASSUME NEW r \in Requests, JobReads(r) \/ JobRemoves(r) \/ JobInserts(r) PROVE InStep'
  BY <1>1, <1>4 DEF JobReads, JobRemoves, JobInserts, InStep
<1>5. ASSUME NEW r \in Requests, DiskAnswers(r) PROVE InStep'
  BY <1>1, <1>5 DEF DiskAnswers, InStep
<1>6. ASSUME NEW r \in Requests, Board(r) PROVE InStep'
  BY <1>1, <1>6 DEF Board, Enter, InStep
<1>7. ASSUME NEW f \in Requests,
             \/ Fetch(f) \/ StoreMemory(f) \/ SaveOpens(f) \/ SaveWrites(f) \/ SaveRenames(f)
             \/ SaveFails(f) \/ Finish(f) \/ Panic(f)
      PROVE  InStep'
  BY <1>2, <1>7 DEF Fetch, FetchReturns, StoreMemory, SaveOpens, SaveWrites, SaveRenames, SaveFails,
                    Stored, Finish, Publish, LeaderRemoves, Panic, LeaderPanics
<1>8. ASSUME NEW r \in Requests, Await(r) \/ Disconnect(r) PROVE InStep'
  <2>1. CASE Await(r)
    BY <1>1, <2>1 DEF Await, Waiting, SeesDone, Leave, SeesClosed, InStep
  <2>2. CASE Disconnect(r)
    BY <1>1, <2>2 DEF Disconnect, Cancel, InStep
  <2> QED
    BY <1>8, <2>1, <2>2
<1>9. CASE Restart
  BY <1>1, <1>9 DEF Restart, FlightsLost, InStep
<1>10. CASE TimePasses \/ UNCHANGED vars
  BY <1>2, <1>10 DEF TimePasses, vars
<1> QED
  BY <1>3, <1>4, <1>5, <1>6, <1>7, <1>8, <1>9, <1>10 DEF Next, Asking, Storing

LEMMA ReturnedKeeps == ASSUME ServiceInv, Returned, [Next]_vars PROVE Returned'
<1> USE DEF counted, flights
<1>1. /\ leader \in [Requests -> Leaders] /\ outcome \in [Requests -> Outcomes]
      /\ \A f \in Requests : leader[f] = "storing" => outcome[f] = "ok"
  BY DEF ServiceInv, FlightInv, FlightTypeOK, Begun
<1>2. ASSUME UNCHANGED <<leader, outcome>> PROVE Returned'
  BY <1>2 DEF Returned
<1>3. ASSUME NEW r \in Requests,
             \/ Refresh(r) \/ MemoryHit(r) \/ MemoryMiss(r) \/ RefreshRemovesFile(r) \/ JobReads(r)
             \/ JobRemoves(r) \/ JobInserts(r) \/ DiskAnswers(r) \/ StoreMemory(r) \/ SaveOpens(r)
             \/ SaveWrites(r)
      PROVE  Returned'
  BY <1>2, <1>3 DEF Refresh, MemoryHit, MemoryMiss, RefreshRemovesFile, JobReads, JobRemoves,
                    JobInserts, DiskAnswers, StoreMemory, SaveOpens, SaveWrites
<1>4. ASSUME NEW r \in Requests, Await(r) \/ Disconnect(r) PROVE Returned'
  BY <1>2, <1>4 DEF Await, Waiting, SeesDone, Leave, SeesClosed, Disconnect, Cancel
<1>5. ASSUME NEW r \in Requests, Board(r) PROVE Returned'
  BY <1>1, <1>5 DEF Board, Enter, Returned, Sent
<1>6. ASSUME NEW f \in Requests, Fetch(f) PROVE Returned'
  BY <1>1, <1>6 DEF Fetch, FetchReturns, Returned, Sent
<1>7. ASSUME NEW f \in Requests, SaveRenames(f) \/ SaveFails(f) \/ Finish(f) \/ Panic(f) PROVE Returned'
  BY <1>1, <1>7 DEF SaveRenames, SaveFails, Stored, Finish, Publish, LeaderRemoves, Panic,
                    LeaderPanics, Returned, Sent
<1>8. CASE Restart
  BY <1>1, <1>8 DEF Restart, FlightsLost, Returned, Unsent, Sent
<1>9. CASE TimePasses \/ UNCHANGED vars
  BY <1>2, <1>9 DEF TimePasses, vars
<1> QED
  BY <1>3, <1>4, <1>5, <1>6, <1>7, <1>8, <1>9 DEF Next, Asking, Storing

PromiseInv == ServiceInv /\ InStep /\ Returned

LEMMA PromiseTypes ==
  ASSUME PromiseInv
  PROVE  /\ waiter \in [Requests -> Waiters] /\ leader \in [Requests -> Leaders]
         /\ joined \in [Requests -> Requests \cup {NoFlight}]
         /\ outcome \in [Requests -> Outcomes]
         /\ at \in [Requests -> {"new", "clearing", "loading", "missed", "flying", "hit", "gone"}]
         /\ job \in [Requests -> {"none", "reading", "removing", "inserting", "done"}]
         /\ found \in [Requests -> Entries \cup {Nothing}]
         /\ save \in [Requests -> {"memory", "open", "write", "rename"}]
         /\ KeyOf \in [Requests -> Keys]
         /\ DOMAIN served = Requests /\ DOMAIN draft = Requests
         /\ memory \in Seq(Entries) /\ LruWithinBound
BY ServiceAssumption
   DEF PromiseInv, ServiceInv, FlightInv, FlightTypeOK, DiskInv, DiskTypes, MemoryInv, MemoryTypes

\* No copy comes of a step but those it is said to bring: each place either has what it
\* had, or what was in another or is brought.
Forgets(brought) ==
  /\ \A i \in 1..Len(memory') :
       \/ \E j \in 1..Len(memory) : memory'[i] = memory[j]
       \/ CopyOf(memory'[i].key, memory'[i]) \in Copies \cup brought
  /\ \A r \in Requests : job'[r] = "inserting" =>
       \/ job[r] = "inserting" /\ found'[r] = found[r]
       \/ CopyOf(KeyOf[r], found'[r]) \in Copies \cup brought
  /\ \A k \in Keys : file'[k] = Past => file[k] = Past
  /\ bytes'[Past] = bytes[Past]
  /\ \A f \in Requests : bytes'[f] # Torn =>
       bytes'[f] = bytes[f] \/ CopyOf(KeyOf[f], bytes'[f]) \in Copies \cup brought
  /\ \A f \in Requests : leader'[f] = "storing" /\ save'[f] = "write" =>
       \/ leader[f] = "storing" /\ save[f] = "write" /\ draft'[f] = draft[f]
       \/ CopyOf(KeyOf[f], [fetch |-> f, stored |-> draft'[f]]) \in Copies \cup brought

LEMMA Forgetting == ASSUME NEW brought, Forgets(brought) PROVE Copies' \subseteq Copies \cup brought
<1> SUFFICES ASSUME NEW c \in Copies' PROVE c \in Copies \cup brought
  OBVIOUS
<1>1. CASE \E i \in 1..Len(memory') : c = CopyOf(memory'[i].key, memory'[i])
  BY <1>1 DEF Forgets, Copies
<1>2. CASE \E r \in Requests : job'[r] = "inserting" /\ c = CopyOf(KeyOf[r], found'[r])
  BY <1>2 DEF Forgets, Copies
<1>3. CASE \E k \in Keys : file'[k] = Past /\ c = CopyOf(k, bytes'[Past])
  BY <1>3 DEF Forgets, Copies
<1>4. CASE \E f \in Requests : bytes'[f] # Torn /\ c = CopyOf(KeyOf[f], bytes'[f])
  BY <1>4 DEF Forgets, Copies
<1>5. CASE \E f \in Requests : /\ leader'[f] = "storing" /\ save'[f] = "write"
                               /\ c = CopyOf(KeyOf[f], [fetch |-> f, stored |-> draft'[f]])
  BY <1>5 DEF Forgets, Copies
<1> QED
  BY <1>1, <1>2, <1>3, <1>4, <1>5 DEF Copies, CopyOf

\* What happens to memory, jobs, files and saves that bring nothing.
LEMMA Keeping ==
  /\ Kept({}) \/ memory' = memory =>
       \A i \in 1..Len(memory') : \E j \in 1..Len(memory) : memory'[i] = memory[j]
  /\ UNCHANGED <<memory, job, found, file, bytes, leader, save, draft>> => Forgets({})
<1>1. Kept({}) \/ memory' = memory =>
        \A i \in 1..Len(memory') : \E j \in 1..Len(memory) : memory'[i] = memory[j]
  BY DEF Kept
<1> QED
  BY <1>1 DEF Forgets

\* A step no lookup and no flight of the promise notices.
LEMMA Unnoticed ==
  ASSUME Forgets({}), UNCHANGED <<now, Phase, Reply, joined, Stage, outcome>>
  PROVE  Promise!Forgetting
BY Forgetting DEF Promise!Forgetting, Promise!Forget, Promise!lookups, Promise!flights

\* A lookup that goes on alone.
LEMMA GoesOn ==
  ASSUME PromiseInv, NEW r \in Requests,
         \A q \in Requests \ {r} : /\ waiter'[q] = waiter[q] /\ at'[q] = at[q]
                                   /\ found'[q] = found[q] /\ served'[q] = served[q]
  PROVE  /\ Phase' = [Phase EXCEPT ![r] = Phase'[r]]
         /\ Reply' = [Reply EXCEPT ![r] = Reply'[r]]
         /\ Phase'[r] = Phase[r] => Phase' = Phase
         /\ Reply'[r] = Reply[r] => Reply' = Reply
<1>1. \A q \in Requests \ {r} : Phase'[q] = Phase[q]
  BY DEF Phase, Found
<1>2. \A q \in Requests \ {r} : Reply'[q] = Reply[q]
  BY DEF Reply, Found
<1>3. /\ Phase = [q \in Requests |-> Phase[q]] /\ Phase' = [q \in Requests |-> Phase'[q]]
      /\ Reply = [q \in Requests |-> Reply[q]] /\ Reply' = [q \in Requests |-> Reply'[q]]
  BY DEF Phase, Reply
<1> QED
  BY <1>1, <1>2, <1>3

LEMMA RefreshPromised ==
  ASSUME PromiseInv, NEW r \in Requests, Refresh(r) PROVE Promise!Miss(r)
<1>1. /\ at[r] = "new" /\ at' = [at EXCEPT ![r] = "clearing"] /\ Pop(KeyOf[r])
      /\ UNCHANGED <<flights, served, jobVars, saveVars>>
  BY DEF Refresh
<1>2. waiter[r] = "idle" /\ waiter' = waiter /\ found' = found
  BY <1>1 DEF PromiseInv, InStep, flights, jobVars
<1>3. Phase[r] = "new" /\ Phase'[r] = "missed" /\ Reply'[r] = Reply[r]
  BY <1>1, <1>2, PromiseTypes DEF Phase, Reply, Found
<1>4. Phase' = [Phase EXCEPT ![r] = "missed"] /\ Reply' = Reply
  BY <1>1, <1>2, <1>3, GoesOn, PromiseTypes
<1>5. Kept({}) /\ UNCHANGED <<now, diskVars>>
  BY <1>1, MemorySteps, CacheAssumption, PromiseTypes DEF Pop
<1>6. Forgets({})
  BY <1>1, <1>5, Keeping DEF Forgets, diskVars, jobVars, saveVars, flights
<1>7. Stage' = Stage /\ joined' = joined /\ outcome' = outcome /\ now' = now
  BY <1>1, <1>5 DEF Stage, flights
<1> QED
  BY <1>3, <1>4, <1>6, <1>7, Forgetting
     DEF Promise!Miss, Promise!Becomes, Promise!Forget, Promise!flights

LEMMA MemoryHitPromised ==
  ASSUME PromiseInv, NEW r \in Requests, MemoryHit(r) PROVE Promise!Hit(r)
<1>1. PICK m \in Held(KeyOf[r]) :
        GetHit(m) /\ served' = [served EXCEPT ![r] = [fetch |-> m.fetch, age |-> now - m.stored]]
  BY DEF MemoryHit
<1>2. /\ at[r] = "new" /\ at' = [at EXCEPT ![r] = "hit"]
      /\ UNCHANGED <<flights, jobVars, saveVars>>
  BY DEF MemoryHit
<1>3. waiter[r] = "idle" /\ waiter' = waiter /\ found' = found
  BY <1>2 DEF PromiseInv, InStep, flights, jobVars
<1>4. /\ Phase[r] = "new" /\ Phase'[r] = "hit"
      /\ Reply'[r] = [fetch |-> m.fetch, age |-> now - m.stored]
  BY <1>1, <1>2, <1>3, PromiseTypes DEF Phase, Reply, Found
<1>5. /\ Phase' = [Phase EXCEPT ![r] = "hit"]
      /\ Reply' = [Reply EXCEPT ![r] = [fetch |-> m.fetch, age |-> now - m.stored]]
  BY <1>1, <1>2, <1>3, <1>4, GoesOn, PromiseTypes
<1>6. PICK n \in 1..Len(memory) : memory[n] = m
  BY DEF Held
<1>7. m.key = KeyOf[r] /\ CopyOf(KeyOf[r], m) \in Copies
  BY <1>6 DEF Held, Copies
<1>8. m.stored <= now /\ now - m.stored <= 2 * Ttl
  <2>1. m \in Entries /\ Sound(m)
    BY <1>6, PromiseTypes DEF PromiseInv, ServiceInv, MemoryInv, MapSound
  <2>2. m.stored \in Nat /\ m.inserted \in Nat /\ now \in Nat /\ Ttl \in Nat
    BY <2>1, NumbersAre DEF PromiseInv, ServiceInv, DiskInv, DiskTypes
  <2>3. now - m.inserted <= Ttl
    BY <1>1 DEF GetHit, Fresh
  <2> QED
    BY <2>1, <2>2, <2>3 DEF Sound
<1>9. Kept({}) /\ UNCHANGED <<now, diskVars>>
  BY <1>1, MemorySteps, CacheAssumption, PromiseTypes DEF GetHit
<1>10. Forgets({})
  BY <1>2, <1>9, Keeping DEF Forgets, diskVars, jobVars, saveVars, flights
<1>11. Stage' = Stage /\ joined' = joined /\ outcome' = outcome /\ now' = now
  BY <1>2, <1>9 DEF Stage, flights
<1> DEFINE copy == CopyOf(KeyOf[r], m)
<1>12. /\ copy \in Copies /\ copy.key = KeyOf[r] /\ copy.stored = m.stored /\ copy.fetch = m.fetch
  BY <1>7 DEF CopyOf
<1> HIDE DEF copy
<1>13. \E c \in Copies :
         /\ c.key = KeyOf[r] /\ c.stored <= now /\ now - c.stored <= 2 * Ttl
         /\ Reply' = [Reply EXCEPT ![r] = [fetch |-> c.fetch, age |-> now - c.stored]]
  BY <1>5, <1>8, <1>12
<1>14. Promise!Becomes(r, {"new", "asked"}, "hit")
  BY <1>4, <1>5, <1>10, <1>11, Forgetting DEF Promise!Becomes, Promise!Forget
<1> QED
  BY <1>11, <1>13, <1>14 DEF Promise!Hit, Promise!flights

LEMMA MemoryMissPromised ==
  ASSUME PromiseInv, NEW r \in Requests, MemoryMiss(r) PROVE Promise!Ask(r)
<1>1. /\ at[r] = "new" /\ at' = [at EXCEPT ![r] = "loading"] /\ GetMiss(KeyOf[r])
      /\ job' = [job EXCEPT ![r] = "reading"] /\ UNCHANGED <<flights, served, found, saveVars>>
  BY DEF MemoryMiss
<1>2. waiter[r] = "idle" /\ waiter' = waiter /\ found[r] = Nothing
  BY <1>1 DEF PromiseInv, InStep, flights
<1>3. Phase[r] = "new" /\ Phase'[r] = "asked" /\ Reply'[r] = Reply[r]
  BY <1>1, <1>2, PromiseTypes DEF Phase, Reply, Found
<1>4. Phase' = [Phase EXCEPT ![r] = "asked"] /\ Reply' = Reply
  BY <1>1, <1>2, <1>3, GoesOn, PromiseTypes
<1>5. Kept({}) /\ UNCHANGED <<now, diskVars>>
  BY <1>1, MemorySteps, CacheAssumption, PromiseTypes DEF GetMiss
<1>6. Forgets({})
  BY <1>1, <1>5, Keeping, PromiseTypes DEF Forgets, diskVars, saveVars, flights
<1>7. Stage' = Stage /\ joined' = joined /\ outcome' = outcome /\ now' = now
  BY <1>1, <1>5 DEF Stage, flights
<1> QED
  BY <1>3, <1>4, <1>6, <1>7, Forgetting
     DEF Promise!Ask, Promise!Becomes, Promise!Forget, Promise!flights

\* What a job takes from a file is one of the copies.
LEMMA FileIsCopy ==
  ASSUME PromiseInv, NEW k \in Keys, file[k] # NoFile, bytes[file[k]] # Torn
  PROVE  CopyOf(k, bytes[file[k]]) \in Copies
<1>1. CASE file[k] = Past
  BY <1>1 DEF Copies
<1>2. CASE file[k] \in Requests
  <2>1. KeyOf[file[k]] = k
    BY <1>2 DEF PromiseInv, ServiceInv, DiskInv, OwnFiles
  <2> QED
    BY <1>2, <2>1 DEF Copies
<1> QED
  BY <1>1, <1>2 DEF PromiseInv, ServiceInv, DiskInv, DiskTypes, Files

LEMMA JobReadsPromised ==
  ASSUME PromiseInv, NEW r \in Requests, JobReads(r) PROVE Promise!Hit(r) \/ Promise!Forgetting
<1>1. /\ job[r] = "reading" /\ UNCHANGED <<cacheVars, flights, lookupVars, saveVars>>
      /\ \/ /\ Loadable(KeyOf[r])
            /\ found' = [found EXCEPT ![r] = EntryOf(KeyOf[r], bytes[file[KeyOf[r]]])]
            /\ job' = [job EXCEPT ![r] = "inserting"]
         \/ found' = found /\ \E w \in {"removing", "done"} : job' = [job EXCEPT ![r] = w]
  BY DEF JobReads
<1>2. /\ found[r] = Nothing /\ waiter' = waiter /\ at' = at /\ served' = served
      /\ UNCHANGED <<now, memory, file, bytes, leader, save, draft>>
  BY <1>1 DEF PromiseInv, InStep, flights, lookupVars, cacheVars, diskVars, saveVars
<1>3. Stage' = Stage /\ joined' = joined /\ outcome' = outcome /\ now' = now
  BY <1>1, <1>2 DEF Stage, flights
<1>4. CASE found' = found /\ \E w \in {"removing", "done"} : job' = [job EXCEPT ![r] = w]
  <2>1. Phase' = Phase /\ Reply' = Reply
    BY <1>2, <1>4 DEF Phase, Reply, Found
  <2>2. Forgets({})
    BY <1>2, <1>4, PromiseTypes DEF Forgets
  <2> QED
    BY <1>3, <2>1, <2>2, Unnoticed
<1>5. CASE /\ Loadable(KeyOf[r])
           /\ found' = [found EXCEPT ![r] = EntryOf(KeyOf[r], bytes[file[KeyOf[r]]])]
           /\ job' = [job EXCEPT ![r] = "inserting"]
  <2> DEFINE record == bytes[file[KeyOf[r]]]
             copy == CopyOf(KeyOf[r], record)
  <2>1. copy \in Copies /\ now - record.stored <= Ttl
    BY <1>5, FileIsCopy, PromiseTypes DEF Loadable
  <2>2. found'[r] = EntryOf(KeyOf[r], record) /\ \A q \in Requests \ {r} : found'[q] = found[q]
    BY <1>5, PromiseTypes
  <2>3. copy.key = KeyOf[r] /\ copy.fetch = record.fetch /\ copy.stored = record.stored
    BY DEF CopyOf
  <2>4. record.stored \in Nat /\ record.stored <= now /\ now \in Nat /\ Ttl \in Nat
        /\ record.fetch \in Files
    <3>1. KeyOf[r] \in Keys /\ file[KeyOf[r]] \in Files /\ record # Torn
      BY <1>5, PromiseTypes DEF Loadable, PromiseInv, ServiceInv, DiskInv, DiskTypes
    <3>2. record \in [fetch : Files, stored : Times] /\ record.stored <= now
      BY <3>1 DEF PromiseInv, ServiceInv, DiskInv, DiskTypes, WholeFiles, Contents
    <3> QED
      BY <3>2, NumbersAre DEF PromiseInv, ServiceInv, DiskInv, DiskTypes
  <2> HIDE DEF record, copy
  <2>5. /\ found'[r].fetch = record.fetch /\ found'[r].stored = record.stored
        /\ found'[r].inserted = now /\ found'[r] # Nothing /\ CopyOf(KeyOf[r], found'[r]) = copy
    BY <2>2, <2>4, CacheAssumption DEF EntryOf, Nothing, Files, copy, CopyOf
  <2>6. Forgets({})
    BY <1>2, <1>5, <2>1, <2>2, <2>5, PromiseTypes DEF Forgets
  <2>7. CASE at[r] # "loading"
    <3>1. Phase'[r] = Phase[r] /\ Reply'[r] = Reply[r]
      BY <1>2, <2>7 DEF Phase, Reply, Found
    <3>2. Phase' = Phase /\ Reply' = Reply
      BY <1>2, <2>2, <3>1, GoesOn
    <3> QED
      BY <1>3, <2>6, <3>2, Unnoticed
  <2>8. CASE at[r] = "loading"
    <3>1. waiter[r] = "idle"
      BY <2>8 DEF PromiseInv, InStep
    <3>2. /\ Phase[r] = "asked" /\ Phase'[r] = "hit"
          /\ Reply'[r] = [fetch |-> copy.fetch, age |-> now - copy.stored]
      BY <1>2, <2>3, <2>5, <2>8, <3>1 DEF Phase, Reply, Found
    <3>3. /\ Phase' = [Phase EXCEPT ![r] = "hit"]
          /\ Reply' = [Reply EXCEPT ![r] = [fetch |-> copy.fetch, age |-> now - copy.stored]]
      BY <1>2, <2>2, <3>2, GoesOn
    <3>4. copy.stored <= now /\ now - copy.stored <= 2 * Ttl
      BY <2>1, <2>3, <2>4
    <3>5. \E c \in Copies :
            /\ c.key = KeyOf[r] /\ c.stored <= now /\ now - c.stored <= 2 * Ttl
            /\ Reply' = [Reply EXCEPT ![r] = [fetch |-> c.fetch, age |-> now - c.stored]]
      BY <2>1, <2>3, <3>3, <3>4
    <3>6. Promise!Becomes(r, {"new", "asked"}, "hit")
      BY <1>3, <2>6, <3>2, <3>3, Forgetting DEF Promise!Becomes, Promise!Forget
    <3> QED
      BY <1>3, <3>5, <3>6 DEF Promise!Hit, Promise!flights
  <2> QED
    BY <2>7, <2>8
<1> QED
  BY <1>1, <1>4, <1>5

LEMMA DiskAnswersPromised ==
  ASSUME PromiseInv, NEW r \in Requests, DiskAnswers(r) PROVE Promise!Miss(r) \/ Promise!Forgetting
<1>1. /\ at[r] = "loading"
      /\ UNCHANGED <<now, memory, file, bytes, leader, save, draft, job, found, waiter, joined, outcome>>
  BY DEF DiskAnswers, cacheVars, diskVars, flights, jobVars, saveVars
<1>2. waiter[r] = "idle"
  BY <1>1 DEF PromiseInv, InStep
<1>3. Stage' = Stage /\ Forgets({})
  BY <1>1, Keeping DEF Stage
<1>4. CASE found[r] = Nothing
  <2>1. at' = [at EXCEPT ![r] = "missed"] /\ served' = served
    BY <1>4 DEF DiskAnswers
  <2>2. Phase[r] = "asked" /\ Phase'[r] = "missed" /\ Reply'[r] = Reply[r]
    BY <1>1, <1>2, <1>4, <2>1, PromiseTypes DEF Phase, Reply, Found
  <2>3. Phase' = [Phase EXCEPT ![r] = "missed"] /\ Reply' = Reply
    BY <1>1, <2>1, <2>2, GoesOn, PromiseTypes
  <2> QED
    BY <1>1, <1>3, <2>2, <2>3, Forgetting
       DEF Promise!Miss, Promise!Becomes, Promise!Forget, Promise!flights
<1>5. CASE found[r] # Nothing
  <2>1. /\ at' = [at EXCEPT ![r] = "hit"]
        /\ served' = [served EXCEPT ![r] =
             [fetch |-> found[r].fetch, age |-> found[r].inserted - found[r].stored]]
    BY <1>5 DEF DiskAnswers
  <2>2. Phase[r] = "hit" /\ Phase'[r] = "hit" /\ Reply'[r] = Reply[r]
    BY <1>1, <1>2, <1>5, <2>1, PromiseTypes DEF Phase, Reply, Found
  <2>3. Phase' = Phase /\ Reply' = Reply
    BY <1>1, <2>1, <2>2, GoesOn, PromiseTypes
  <2> QED
    BY <1>1, <1>3, <2>3, Unnoticed
<1> QED
  BY <1>4, <1>5

\* A file is removed, by a refresh or a job, or a job's entry goes into memory.
LEMMA CacheStepsPromised ==
  ASSUME PromiseInv, NEW r \in Requests, RefreshRemovesFile(r) \/ JobRemoves(r) \/ JobInserts(r)
  PROVE  Promise!Forgetting
<1>1. CASE RefreshRemovesFile(r) \/ JobRemoves(r)
  <2>1. /\ RemoveFile(KeyOf[r]) /\ UNCHANGED <<waiter, joined, leader, outcome, served, found, save, draft>>
        /\ \/ at[r] = "clearing" /\ at' = [at EXCEPT ![r] = "missed"] /\ job' = job
           \/ job[r] = "removing" /\ job' = [job EXCEPT ![r] = "done"] /\ at' = at
    BY <1>1 DEF RefreshRemovesFile, JobRemoves, flights, jobVars, lookupVars, saveVars
  <2>2. /\ file' = [file EXCEPT ![KeyOf[r]] = NoFile] /\ UNCHANGED <<now, memory, bytes>>
        /\ file \in [Keys -> Files \cup {NoFile}]
    BY <2>1 DEF RemoveFile, PromiseInv, ServiceInv, DiskInv, DiskTypes
  <2>3. Forgets({})
    BY <2>1, <2>2, CacheAssumption, PromiseTypes DEF Forgets
  <2>4. Phase'[r] = Phase[r] /\ Reply'[r] = Reply[r]
    BY <2>1, PromiseTypes DEF Phase, Reply, Found, PromiseInv, InStep
  <2>5. Phase' = Phase /\ Reply' = Reply /\ Stage' = Stage
    BY <2>1, <2>4, GoesOn, PromiseTypes DEF Stage
  <2> QED
    BY <2>1, <2>2, <2>3, <2>5, Unnoticed
<1>2. CASE JobInserts(r)
  <2>1. /\ job[r] = "inserting" /\ InsertMemory(found[r]) /\ job' = [job EXCEPT ![r] = "done"]
        /\ UNCHANGED <<waiter, joined, leader, outcome, at, served, found, save, draft>>
    BY <1>2 DEF JobInserts, flights, lookupVars, saveVars
  <2>2. UNCHANGED <<now, file, bytes>>
    BY <2>1 DEF InsertMemory, diskVars
  <2>3. found[r] \in Entries /\ found[r].key = KeyOf[r]
    BY <2>1, PromiseTypes DEF PromiseInv, ServiceInv, MemoryInv, JobsSound
  <2>4. Kept({found[r]}) /\ CopyOf(found[r].key, found[r]) \in Copies
    BY <2>1, <2>3, MemorySteps, CacheAssumption, PromiseTypes DEF Copies
  <2>5. Forgets({})
    BY <2>1, <2>2, <2>4, PromiseTypes DEF Forgets, Kept
  <2>6. Phase' = Phase /\ Reply' = Reply /\ Stage' = Stage
    BY <2>1 DEF Phase, Reply, Stage, Found
  <2> QED
    BY <2>1, <2>2, <2>5, <2>6, Unnoticed
<1> QED
  BY <1>1, <1>2

LEMMA BoardPromised ==
  ASSUME PromiseInv, NEW r \in Requests, Board(r) PROVE Promise!Join(r) \/ Promise!Depart(r)
<1>1. /\ at[r] = "missed" /\ at' = [at EXCEPT ![r] = "flying"]
      /\ waiter[r] = "idle" /\ waiter' = [waiter EXCEPT ![r] = "waiting"]
      /\ UNCHANGED <<now, memory, file, bytes, outcome, served, job, found, save, draft>>
  BY DEF Board, Enter, cacheVars, diskVars, jobVars, saveVars
<1>2. Phase[r] = "missed" /\ Phase'[r] = "boarded" /\ Reply'[r] = Reply[r]
  BY <1>1, PromiseTypes DEF Phase, Reply, Found
<1>3. Phase' = [Phase EXCEPT ![r] = "boarded"] /\ Reply' = Reply
  BY <1>1, <1>2, GoesOn, PromiseTypes
<1>4. leader[r] = "none"
  BY <1>1 DEF PromiseInv, ServiceInv, FlightInv, Begun
<1>5. CASE inflight[KeyOf[r]] # NoFlight
  <2> DEFINE f == inflight[KeyOf[r]]
  <2>1. joined' = [joined EXCEPT ![r] = f] /\ leader' = leader
    BY <1>5 DEF Board, Enter
  <2>2. f \in Requests /\ KeyOf[f] = KeyOf[r] /\ leader[f] \in Unsent \cup {"removing", "dead"}
    BY <1>5, PromiseTypes
       DEF PromiseInv, ServiceInv, FlightInv, FlightTypeOK, NoEntryOutlivesItsLeader
  <2>3. Stage[f] \in {"aloft", "landed", "lost"}
    BY <2>2 DEF Stage, Unsent
  <2>4. Stage' = Stage /\ Forgets({})
    BY <1>1, <2>1, Keeping DEF Stage
  <2> HIDE DEF f
  <2>5. Promise!Becomes(r, {"missed"}, "boarded")
    BY <1>1, <1>2, <1>3, <2>4, Forgetting DEF Promise!Becomes, Promise!Forget
  <2> QED
    BY <1>1, <1>3, <2>1, <2>2, <2>3, <2>4, <2>5 DEF Promise!Join, Promise!flights
<1>6. CASE inflight[KeyOf[r]] = NoFlight
  <2>1. joined' = [joined EXCEPT ![r] = r] /\ leader' = [leader EXCEPT ![r] = "fetching"]
    BY <1>6 DEF Board, Enter
  <2>2. Stage[r] = "none" /\ Stage' = [Stage EXCEPT ![r] = "aloft"]
    BY <1>4, <2>1, PromiseTypes DEF Stage, Unsent
  <2>3. Forgets({})
    BY <1>1, <2>1, PromiseTypes DEF Forgets
  <2>4. ASSUME NEW f \in Requests, KeyOf[f] = KeyOf[r], Stage[f] = "aloft"
        PROVE  \E g \in Requests : KeyOf[g] = KeyOf[r] /\ Promise!Landed(g)
    <3>1. Aloft(f)
      BY <2>4 DEF Stage, Aloft
    <3>2. inflight[KeyOf[f]] # f
      BY <1>6, <2>4, ServiceAssumption
    <3>3. PICK g \in Requests : KeyOf[g] = KeyOf[f] /\ leader[g] \in Sent
      BY <3>1, <3>2 DEF PromiseInv, ServiceInv, FlightInv, Registered
    <3>4. Stage[g] \in {"landed", "closed"}
      BY <3>3 DEF Stage, Sent, Unsent
    <3> QED
      BY <2>4, <3>3, <3>4 DEF Promise!Landed
  <2>5. Promise!Becomes(r, {"missed"}, "boarded")
    BY <1>1, <1>2, <1>3, <2>3, Forgetting DEF Promise!Becomes, Promise!Forget
  <2> QED
    BY <1>1, <1>3, <2>1, <2>2, <2>4, <2>5 DEF Promise!Depart
<1> QED
  BY <1>5, <1>6

\* Steps of a leader, which lookups do not notice until it has landed.
LEMMA LeaderAlone ==
  ASSUME UNCHANGED <<waiter, at, served, found>> PROVE Phase' = Phase /\ Reply' = Reply
BY DEF Phase, Reply, Found

LEMMA FetchPromised ==
  ASSUME PromiseInv, NEW f \in Requests, Fetch(f) PROVE Promise!Return(f)
<1>1. PICK o \in {"ok", "error"} : FetchReturns(f, o)
  BY DEF Fetch
<1>2. /\ leader[f] = "fetching" /\ outcome' = [outcome EXCEPT ![f] = o]
      /\ leader' = [leader EXCEPT ![f] = IF o = "ok" THEN "storing" ELSE "publishing"]
      /\ UNCHANGED <<now, memory, file, bytes, waiter, joined, at, served, job, found, save, draft>>
  BY <1>1 DEF Fetch, FetchReturns, cacheVars, diskVars, lookupVars, jobVars, saveVars
<1>3. outcome[f] = "none" /\ save[f] = "memory"
  BY <1>2 DEF PromiseInv, ServiceInv, FlightInv, Begun
<1>4. Stage[f] = "aloft" /\ Stage' = Stage
  BY <1>2, PromiseTypes DEF Stage, Unsent
<1>5. Forgets({})
  BY <1>2, <1>3, PromiseTypes DEF Forgets
<1>6. Phase' = Phase /\ Reply' = Reply
  BY <1>2, LeaderAlone
<1>7. \E p \in {"ok", "error"} : outcome' = [outcome EXCEPT ![f] = p]
  BY <1>2
<1>8. Copies' \subseteq Copies
  BY <1>5, Forgetting
<1> QED
  BY <1>2, <1>3, <1>4, <1>6, <1>7, <1>8 DEF Promise!Return, Promise!Forget, Promise!lookups

\* What a leader puts into memory, and means to write, is a copy of what it fetched.
LEMMA StorePromised ==
  ASSUME PromiseInv, NEW f \in Requests, StoreMemory(f) \/ SaveOpens(f) PROVE Promise!Keep(f)
<1> DEFINE copy == CopyOf(KeyOf[f], [fetch |-> f, stored |-> now])
<1>1. /\ leader[f] = "storing" /\ now' = now /\ file' = file
      /\ UNCHANGED <<waiter, leader, joined, outcome, at, served, job, found>>
  BY DEF StoreMemory, SaveOpens, InsertMemory, OpenTemp, diskVars, flights, lookupVars, jobVars
<1>2. Stage[f] = "aloft" /\ Stage' = Stage /\ outcome[f] = "ok"
  BY <1>1, PromiseTypes DEF Stage, Unsent, PromiseInv, ServiceInv, FlightInv, Begun
<1>3. Phase' = Phase /\ Reply' = Reply
  BY <1>1, LeaderAlone
<1>4. Forgets({copy})
  <2>1. CASE StoreMemory(f)
    <3> DEFINE m == EntryOf(KeyOf[f], [fetch |-> f, stored |-> now])
    <3>1. InsertMemory(m) /\ save' = [save EXCEPT ![f] = "open"] /\ UNCHANGED <<bytes, draft>>
      BY <2>1 DEF StoreMemory, InsertMemory, diskVars
    <3>2. m \in Entries /\ CopyOf(m.key, m) = copy
      BY PromiseTypes DEF EntryOf, Entries, Files, CopyOf, PromiseInv, ServiceInv, DiskInv, DiskTypes
    <3> HIDE DEF m
    <3>3. Kept({m})
      BY <3>1, <3>2, MemorySteps, CacheAssumption, PromiseTypes
    <3> QED
      BY <1>1, <3>1, <3>2, <3>3, PromiseTypes DEF Forgets, Kept
  <2>2. CASE SaveOpens(f)
    <3>1. /\ memory' = memory /\ save' = [save EXCEPT ![f] = "write"]
          /\ draft' = [draft EXCEPT ![f] = now] /\ OpenTemp(KeyOf[f], f)
      BY <2>2 DEF SaveOpens, OpenTemp
    <3>2. PICK h \in Requests : bytes' = [bytes EXCEPT ![h] = Torn]
      BY <3>1, PromiseTypes DEF OpenTemp, PromiseInv, ServiceInv, DiskInv, DiskTypes
    <3>3. DOMAIN bytes = Files /\ Past \notin Requests
      BY CacheAssumption DEF PromiseInv, ServiceInv, DiskInv, DiskTypes
    <3>4. bytes'[Past] = bytes[Past] /\ \A g \in Requests : bytes'[g] # Torn => bytes'[g] = bytes[g]
      BY <3>2, <3>3 DEF Files
    <3>5. \A g \in Requests : save'[g] = "write" => g = f \/ (save[g] = "write" /\ draft'[g] = draft[g])
      BY <3>1, PromiseTypes
    <3>6. CopyOf(KeyOf[f], [fetch |-> f, stored |-> draft'[f]]) = copy
      BY <3>1, PromiseTypes
    <3> HIDE DEF copy
    <3> QED
      BY <1>1, <3>1, <3>4, <3>5, <3>6 DEF Forgets
  <2> QED
    BY <2>1, <2>2
<1>5. Copies' \subseteq Copies \cup {[key |-> KeyOf[f], fetch |-> f, stored |-> now]}
  <2>1. copy = [key |-> KeyOf[f], fetch |-> f, stored |-> now]
    BY DEF CopyOf
  <2> QED
    BY <1>4, <2>1, Forgetting
<1> QED
  BY <1>1, <1>2, <1>3, <1>5 DEF Promise!Keep, Promise!lookups, Promise!flights

\* The rest of a save makes no copy that was not there, or not meant to be written.
LEMMA SavePromised ==
  ASSUME PromiseInv, NEW f \in Requests, SaveWrites(f) \/ SaveRenames(f) \/ SaveFails(f)
  PROVE  Promise!Forgetting
<1>1. UNCHANGED <<now, memory, waiter, joined, outcome, at, served, job, found, draft>>
  BY DEF SaveWrites, WriteOpened, SaveRenames, RenameTemp, RenameFails, SaveFails, Stored, cacheVars,
         flights, lookupVars, jobVars, saveVars
<1>2. Phase' = Phase /\ Reply' = Reply
  BY <1>1, LeaderAlone
<1>3. CASE SaveWrites(f)
  <2>1. /\ leader[f] = "storing" /\ save[f] = "write" /\ leader' = leader /\ file' = file
        /\ save' = [save EXCEPT ![f] = "rename"]
        /\ WriteOpened(handle[f], [fetch |-> f, stored |-> draft[f]])
    BY <1>3 DEF SaveWrites, WriteOpened, flights
  <2>2. PICK c \in {[fetch |-> f, stored |-> draft[f]], Torn} : bytes' = [bytes EXCEPT ![handle[f]] = c]
    BY <2>1 DEF WriteOpened
  <2>3. /\ handle[f] \in Requests /\ KeyOf[handle[f]] = KeyOf[f]
        /\ DOMAIN bytes = Files /\ Past \notin Requests
    BY <2>1, CacheAssumption DEF PromiseInv, ServiceInv, DiskInv, DiskTypes, OwnFiles
  <2>4. CopyOf(KeyOf[f], [fetch |-> f, stored |-> draft[f]]) \in Copies
    BY <2>1 DEF Copies
  <2>5. /\ bytes'[Past] = bytes[Past]
        /\ \A g \in Requests : g # handle[f] => bytes'[g] = bytes[g]
        /\ bytes'[handle[f]] = c
    BY <2>2, <2>3 DEF Files
  <2>6. \A g \in Requests : bytes'[g] # Torn =>
          bytes'[g] = bytes[g] \/ CopyOf(KeyOf[g], bytes'[g]) \in Copies
    BY <2>2, <2>3, <2>4, <2>5
  <2>7. \A g \in Requests : save'[g] = "write" => save[g] = "write"
    BY <2>1, PromiseTypes
  <2>8. Forgets({})
    BY <1>1, <2>1, <2>5, <2>6, <2>7 DEF Forgets
  <2> QED
    BY <1>1, <1>2, <2>1, <2>8, Unnoticed DEF Stage
<1>4. CASE SaveRenames(f) \/ SaveFails(f)
  <2>1. /\ leader[f] = "storing" /\ leader' = [leader EXCEPT ![f] = "publishing"]
        /\ bytes' = bytes /\ save' = save
    BY <1>4 DEF SaveRenames, RenameTemp, RenameFails, SaveFails, Stored, cacheVars, diskVars, saveVars
  <2>2. \A k \in Keys : file'[k] = Past => file[k] = Past
    <3>1. file \in [Keys -> Files \cup {NoFile}] /\ temp \in [Keys -> Requests \cup {NoFile}]
      BY DEF PromiseInv, ServiceInv, DiskInv, DiskTypes
    <3> QED
      BY <1>4, <3>1, CacheAssumption, PromiseTypes
         DEF SaveRenames, RenameTemp, RenameFails, SaveFails, cacheVars, diskVars
  <2>3. Forgets({})
    BY <1>1, <2>1, <2>2, PromiseTypes DEF Forgets
  <2>4. Stage' = Stage
    BY <2>1, PromiseTypes DEF Stage, Unsent
  <2> QED
    BY <1>1, <1>2, <2>3, <2>4, Unnoticed
<1> QED
  BY <1>3, <1>4
LEMMA LandingPromised ==
  ASSUME PromiseInv, NEW f \in Requests, Finish(f) \/ Panic(f)
  PROVE  Promise!Land(f) \/ Promise!Close(f) \/ Promise!Lose(f)
<1>1. UNCHANGED <<now, memory, file, bytes, waiter, joined, outcome, at, served, job, found, save, draft>>
  BY DEF Finish, Publish, LeaderRemoves, Panic, LeaderPanics, cacheVars, diskVars, lookupVars,
         jobVars, saveVars
<1>2. Phase' = Phase /\ Reply' = Reply
  BY <1>1, LeaderAlone
<1>3. \/ leader[f] = "publishing" /\ leader' = [leader EXCEPT ![f] = "removing"]
      \/ leader[f] = "removing" /\ leader' = [leader EXCEPT ![f] = "finished"]
      \/ leader[f] = "fetching" /\ leader' = [leader EXCEPT ![f] = "dead"]
  BY DEF Finish, Publish, LeaderRemoves, Panic, LeaderPanics
<1>4. leader[f] = "publishing" => outcome[f] # "none"
  BY DEF PromiseInv, Returned
<1>5. Copies' \subseteq Copies
  <2>1. Forgets({})
    BY <1>1, <1>3, PromiseTypes DEF Forgets
  <2> QED
    BY <2>1, Forgetting
<1>6. \/ Stage[f] = "aloft" /\ Stage' = [Stage EXCEPT ![f] = "landed"] /\ outcome[f] # "none"
      \/ Stage[f] = "landed" /\ Stage' = [Stage EXCEPT ![f] = "closed"]
      \/ Stage[f] = "aloft" /\ Stage' = [Stage EXCEPT ![f] = "lost"]
  BY <1>3, <1>4, PromiseTypes DEF Stage, Unsent
<1> QED
  BY <1>1, <1>2, <1>5, <1>6
     DEF Promise!Land, Promise!Close, Promise!Lose, Promise!Moves, Promise!Forget, Promise!lookups

LEMMA AwaitPromised ==
  ASSUME PromiseInv, NEW r \in Requests, Await(r) PROVE Promise!Arrive(r) \/ Promise!Forgetting
<1>1. UNCHANGED <<now, memory, file, bytes, leader, joined, outcome, at, served, job, found, save, draft>>
  BY DEF Await, Waiting, SeesDone, Leave, SeesClosed, cacheVars, diskVars, lookupVars, jobVars, saveVars
<1>2. Stage' = Stage /\ Forgets({})
  BY <1>1, Keeping DEF Stage
<1>3. Copies' \subseteq Copies
  BY <1>2, Forgetting
<1>4. waiter[r] \in {"waiting", "leaving"} /\ joined[r] \in Requests
  BY DEF Await, Waiting, SeesDone, Leave, SeesClosed, PromiseInv, ServiceInv, FlightInv, FlightTypeOK
<1>5. Phase[r] = "boarded" /\ at[r] = "flying"
  <2>1. /\ at[r] \in {"new", "clearing", "loading", "missed", "flying", "hit", "gone"}
        /\ at[r] \in {"new", "clearing", "loading", "missed", "hit"} => waiter[r] = "idle"
        /\ at[r] = "gone" => waiter[r] \notin {"waiting", "leaving"}
    BY PromiseTypes DEF PromiseInv, InStep
  <2>2. at[r] = "flying"
    BY <1>4, <2>1
  <2> QED
    BY <1>4, <2>2 DEF Phase, Found
<1>6. CASE SeesDone(r)
  <2>1. waiter' = [waiter EXCEPT ![r] = "leaving"]
    BY <1>6 DEF SeesDone
  <2>2. Phase'[r] = Phase[r] /\ Reply'[r] = Reply[r]
    BY <1>1, <1>5, <2>1, PromiseTypes DEF Phase, Reply, Found
  <2>3. Phase' = Phase /\ Reply' = Reply
    BY <1>1, <2>1, <2>2, GoesOn, PromiseTypes
  <2> QED
    BY <1>1, <1>2, <2>3, Unnoticed
<1>7. ASSUME NEW w \in {"answered", "failed"}, waiter' = [waiter EXCEPT ![r] = w]
      PROVE  Phase' = [Phase EXCEPT ![r] = w] /\ Reply' = Reply
  <2>1. Phase'[r] = w /\ Reply'[r] = Reply[r]
    BY <1>1, <1>5, <1>7, PromiseTypes DEF Phase, Reply, Found
  <2> QED
    BY <1>1, <1>7, <2>1, GoesOn, PromiseTypes
<1>8. CASE Leave(r)
  <2>1. waiter' = [waiter EXCEPT ![r] = "answered"] /\ leader[joined[r]] \in Sent
    BY <1>8 DEF Leave, PromiseInv, ServiceInv, FlightInv, LeavesWhenSent
  <2>2. Stage[joined[r]] \in {"landed", "closed"}
    BY <1>4, <2>1 DEF Stage, Sent, Unsent
  <2> QED
    BY <1>1, <1>2, <1>3, <1>5, <1>7, <2>1, <2>2
       DEF Promise!Arrive, Promise!Becomes, Promise!Landed, Promise!Forget, Promise!flights
<1>9. CASE SeesClosed(r)
  <2>1. waiter' = [waiter EXCEPT ![r] = "failed"] /\ leader[joined[r]] = "dead"
    BY <1>9 DEF SeesClosed
  <2>2. Stage[joined[r]] = "lost"
    BY <1>4, <2>1 DEF Stage, Unsent
  <2> QED
    BY <1>1, <1>2, <1>3, <1>5, <1>7, <2>1, <2>2
       DEF Promise!Arrive, Promise!Becomes, Promise!Forget, Promise!flights
<1> QED
  BY <1>6, <1>8, <1>9 DEF Await, Waiting

LEMMA DisconnectPromised ==
  ASSUME PromiseInv, NEW r \in Requests, Disconnect(r) PROVE Promise!Drop(r)
<1>1. UNCHANGED <<now, memory, file, bytes, leader, joined, outcome, served, job, found, save, draft>>
  BY DEF Disconnect, Cancel, cacheVars, diskVars, flights, jobVars, saveVars
<1>2. /\ at' = [at EXCEPT ![r] = "gone"]
      /\ \/ at[r] \in {"loading", "missed"} /\ waiter' = waiter
         \/ waiter[r] \in {"waiting", "leaving"} /\ waiter' = [waiter EXCEPT ![r] = "gone"]
  BY DEF Disconnect, Cancel, flights
<1>3. Stage' = Stage /\ Copies' \subseteq Copies
  <2>1. Forgets({})
    BY <1>1, Keeping
  <2> QED
    BY <1>1, <2>1, Forgetting DEF Stage
<1>4. at[r] \in {"loading", "missed"} => waiter[r] = "idle"
  BY DEF PromiseInv, InStep
<1>5. /\ Phase[r] \in {"asked", "hit", "missed", "boarded"} /\ Phase'[r] = "gone"
      /\ Reply'[r] = [fetch |-> NoFile, age |-> 0]
  BY <1>1, <1>2, <1>4, PromiseTypes DEF Phase, Reply, Found
<1>6. /\ Phase' = [Phase EXCEPT ![r] = "gone"]
      /\ Reply' = [Reply EXCEPT ![r] = [fetch |-> NoFile, age |-> 0]]
  BY <1>1, <1>2, <1>5, GoesOn, PromiseTypes
<1> QED
  BY <1>1, <1>3, <1>5, <1>6
     DEF Promise!Drop, Promise!Becomes, Promise!Forget, Promise!NoReply, Promise!flights

LEMMA RestartPromised == ASSUME PromiseInv, Restart PROVE Promise!Crash
<1>1. /\ memory' = <<>> /\ UNCHANGED <<now, file, bytes, joined, outcome, served, found, save, draft>>
      /\ leader' = [r \in Requests |->
                      IF leader[r] \in Unsent \cup {"removing"} THEN "dead" ELSE leader[r]]
      /\ waiter' = [r \in Requests |->
                      IF waiter[r] \in {"waiting", "leaving"} THEN "gone" ELSE waiter[r]]
      /\ at' = [r \in Requests |-> IF at[r] \in {"new", "hit"} THEN at[r] ELSE "gone"]
      /\ job' = [r \in Requests |-> IF job[r] = "none" THEN "none" ELSE "done"]
  BY DEF Restart, MemoryLost, FlightsLost, diskVars, saveVars
<1>2. Copies' \subseteq Copies
  <2>1. \A r \in Requests : job'[r] # "inserting" /\ leader'[r] # "storing"
    BY <1>1 DEF Unsent
  <2>2. Len(memory') = 0
    BY <1>1
  <2>3. Forgets({})
    BY <1>1, <2>1, <2>2 DEF Forgets
  <2> QED
    BY <2>3, Forgetting
<1>3. Stage' = [f \in Requests |-> IF Stage[f] \in {"aloft", "landed"} THEN "lost" ELSE Stage[f]]
  BY <1>1, PromiseTypes DEF Stage, Unsent, Leaders, Sent
<1> DEFINE untold == {r \in Requests : Found(r)}
           ends == untold \cup {r \in Requests : Phase[r] \in {"asked", "missed", "boarded"}}
<1>4. \A r \in Requests : Found(r) => Phase[r] = "hit"
  BY DEF Found, Phase, PromiseInv, InStep
<1>5. ASSUME NEW r \in Requests
      PROVE  /\ Phase'[r] = IF r \in ends THEN "gone" ELSE Phase[r]
             /\ Reply'[r] = IF r \in ends THEN [fetch |-> NoFile, age |-> 0] ELSE Reply[r]
  <2>1. /\ waiter'[r] = IF waiter[r] \in {"waiting", "leaving"} THEN "gone" ELSE waiter[r]
        /\ at'[r] = IF at[r] \in {"new", "hit"} THEN at[r] ELSE "gone"
        /\ found'[r] = found[r] /\ served'[r] = served[r]
    BY <1>1
  <2>2. /\ at[r] \in {"new", "clearing", "loading", "missed", "flying", "hit", "gone"}
        /\ waiter[r] \in Waiters
    BY PromiseTypes
  <2>3. /\ at[r] \in {"new", "clearing", "loading", "missed", "hit"} => waiter[r] = "idle"
        /\ at[r] = "flying" => waiter[r] \in {"waiting", "leaving", "answered", "failed"}
        /\ at[r] = "gone" => waiter[r] \notin {"waiting", "leaving"}
    BY DEF PromiseInv, InStep
  <2> QED
    BY <2>1, <2>2, <2>3 DEF Phase, Reply, Found, Waiters
<1>6. /\ Phase' = [r \in Requests |-> IF r \in ends THEN "gone" ELSE Phase[r]]
      /\ Reply' = [r \in Requests |-> IF r \in ends THEN [fetch |-> NoFile, age |-> 0] ELSE Reply[r]]
  <2>1. Phase' = [r \in Requests |-> Phase'[r]] /\ Reply' = [r \in Requests |-> Reply'[r]]
    BY DEF Phase, Reply
  <2> HIDE DEF ends
  <2> QED
    BY <1>5, <2>1
<1>7. untold \in SUBSET {r \in Requests : Phase[r] = "hit"}
  BY <1>4
<1> HIDE DEF untold
<1> QED
  BY <1>1, <1>2, <1>3, <1>6, <1>7 DEF Promise!Crash, Promise!Forget, Promise!NoReply

\* get_profile implements ReadThrough: each step of lookups, jobs, leaders, saves and
\* restarts is one step of the promise, or one that forgets copies at most.
THEOREM Refinement == Spec => ImplementsReadThrough
<1>1. Init => Promise!Init
  <2> SUFFICES ASSUME Init PROVE Promise!Init
    OBVIOUS
  <2>1. Phase = [r \in Requests |-> "new"] /\ Stage = [f \in Requests |-> "none"]
    BY DEF Init, FlightInit, Phase, Stage, Found, Unsent
  <2>2. Reply = [r \in Requests |-> [fetch |-> NoFile, age |-> 0]]
    BY DEF Init, Reply, Found
  <2>3. Copies \subseteq {[key |-> k, fetch |-> Past, stored |-> 0] : k \in Keys}
    <3>1. Len(memory) = 0 /\ \A r \in Requests : job[r] = "none" /\ leader[r] = "none"
      BY DEF Init, CacheInit, FlightInit
    <3>2. /\ \A f \in Requests : bytes[f] = Torn
          /\ bytes[Past].fetch = Past /\ bytes[Past].stored = 0
      BY CacheAssumption DEF Init, CacheInit, Files
    <3> QED
      BY <3>1, <3>2 DEF Copies, CopyOf
  <2> QED
    BY <2>1, <2>2, <2>3 DEF Init, CacheInit, FlightInit, Promise!Init, Promise!NoReply
<1>2. PromiseInv /\ [Next]_vars => Promise!Next
  <2> SUFFICES ASSUME PromiseInv, [Next]_vars PROVE Promise!Next
    OBVIOUS
  <2> USE DEF Promise!Next
  <2>1. ASSUME NEW r \in Requests, Refresh(r) \/ MemoryHit(r) \/ MemoryMiss(r) \/ Asking(r)
        PROVE  Promise!Next
    BY <2>1, RefreshPromised, MemoryHitPromised, MemoryMissPromised, CacheStepsPromised,
       JobReadsPromised, DiskAnswersPromised, BoardPromised DEF Asking
  <2>2. ASSUME NEW f \in Requests, Fetch(f) \/ Storing(f) \/ Finish(f) \/ Panic(f)
        PROVE  Promise!Next
    BY <2>2, FetchPromised, StorePromised, SavePromised, LandingPromised DEF Storing
  <2>3. ASSUME NEW r \in Requests, Await(r) \/ Disconnect(r) PROVE Promise!Next
    BY <2>3, AwaitPromised, DisconnectPromised
  <2>4. CASE Restart
    BY <2>4, RestartPromised
  <2>5. CASE TimePasses
    <3>1. /\ now' = now + 1
          /\ UNCHANGED <<memory, file, bytes, leader, waiter, joined, outcome, at, served, job, found,
                         save, draft>>
      BY <2>5 DEF TimePasses, Tick, diskVars, flights, lookupVars, jobVars, saveVars
    <3>2. Phase' = Phase /\ Reply' = Reply /\ Stage' = Stage /\ Copies' \subseteq Copies
      BY <3>1, Keeping, Forgetting, LeaderAlone DEF Stage
    <3> QED
      BY <3>1, <3>2 DEF Promise!Tick, Promise!Forget, Promise!lookups, Promise!flights
  <2>6. CASE UNCHANGED vars
    <3>1. UNCHANGED <<now, memory, file, bytes, leader, waiter, joined, outcome, at, served, job, found,
                      save, draft>>
      BY <2>6 DEF vars, cacheVars, diskVars, flights, lookupVars, jobVars, saveVars
    <3> QED
      BY <3>1, Keeping, LeaderAlone, Unnoticed DEF Stage
  <2> QED
    BY <2>1, <2>2, <2>3, <2>4, <2>5, <2>6 DEF Next
<1>3. InStep /\ Returned /\ ServiceInv /\ [Next]_vars => (InStep /\ Returned)'
  BY InStepKeeps, ReturnedKeeps
<1>4. PromiseInv <=> ServiceInv /\ InStep /\ Returned
  BY DEF PromiseInv
<1> QED
  BY <1>1, <1>2, <1>3, <1>4, AboardInit, Invariance, PTL DEF Spec, ImplementsReadThrough, Promise!Spec

=============================================================================
