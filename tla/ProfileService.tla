--------------------------- MODULE ProfileService ---------------------------
(***************************************************************************)
(* ProfileService::get_profile (service/profile.rs): a lookup asks memory, *)
(* then has a blocking job ask the disk, then takes part in a flight; a    *)
(* refresh clears the key first and goes straight to the flight.  Jobs and *)
(* leaders are tasks of their own: they go on when the lookup that started *)
(* them is dropped, and their steps interleave with everything else.       *)
(***************************************************************************)
EXTENDS ProfileCache

CONSTANTS KeyOf, NoFlight,
  MaxRestarts   \* bound: process restarts in one behaviour

ASSUME ServiceAssumption ==
  /\ KeyOf \in [Requests -> Keys]
  /\ NoFlight \notin Requests
  /\ MaxRestarts \in Nat

VARIABLES
  inflight, leader, outcome, waiter, joined,   \* SingleFlight's
  at,        \* where a lookup is outside fetch_once
  served,    \* the entry a hit was answered with, and its age at the check
  job,       \* where a lookup's disk job is
  found,     \* the entry the job read
  save,      \* what the leader of a flight does next to store its profile
  draft,     \* stored_at of the record it saves
  handle,    \* the file it has open
  restarts,
  together   \* history: keys of which two flights have been storing at once

INSTANCE SingleFlight

flights    == <<inflight, leader, outcome, waiter, joined>>
lookupVars == <<at, served>>
jobVars    == <<job, found>>
saveVars   == <<save, draft, handle>>
counted    == <<restarts, together>>
vars == <<cacheVars, flights, lookupVars, jobVars, saveVars, counted>>

-----------------------------------------------------------------------------

Nothing == [key |-> NoFile, fetch |-> NoFile, stored |-> 0, inserted |-> 0]

\* A profile that goes into memory now: a fetch's own, or the record of a file.
EntryOf(k, record) ==
  [key |-> k, fetch |-> record.fetch, stored |-> record.stored, inserted |-> now]

Init ==
  /\ CacheInit
  /\ FlightInit
  /\ at = [r \in Requests |-> "new"]
  /\ served = [r \in Requests |-> [fetch |-> NoFile, age |-> 0]]
  /\ job = [r \in Requests |-> "none"]
  /\ found = [r \in Requests |-> Nothing]
  /\ save = [r \in Requests |-> "memory"]
  /\ draft = [r \in Requests |-> 0]
  /\ handle = [r \in Requests |-> NoFile]
  /\ restarts = 0
  /\ together = {}

-----------------------------------------------------------------------------
(* The lookup up to the flight                                             *)

\* refresh: invalidate pops the entry and then removes the file.
Refresh(r) ==
  /\ at[r] = "new"
  /\ Pop(KeyOf[r])
  /\ at' = [at EXCEPT ![r] = "clearing"]
  /\ UNCHANGED <<flights, served, jobVars, saveVars, counted>>

RefreshRemovesFile(r) ==
  /\ at[r] = "clearing"
  /\ RemoveFile(KeyOf[r])
  /\ at' = [at EXCEPT ![r] = "missed"]
  /\ UNCHANGED <<flights, served, jobVars, saveVars, counted>>

MemoryHit(r) ==
  /\ at[r] = "new"
  /\ \E m \in Held(KeyOf[r]) :
       /\ GetHit(m)
       /\ served' = [served EXCEPT ![r] = [fetch |-> m.fetch, age |-> now - m.stored]]
  /\ at' = [at EXCEPT ![r] = "hit"]
  /\ UNCHANGED <<flights, jobVars, saveVars, counted>>

\* A miss spawns the disk job and waits for it.
MemoryMiss(r) ==
  /\ at[r] = "new"
  /\ GetMiss(KeyOf[r])
  /\ at' = [at EXCEPT ![r] = "loading"]
  /\ job' = [job EXCEPT ![r] = "reading"]
  /\ UNCHANGED <<flights, served, found, saveVars, counted>>

\* The job reads and judges the file: take it, drop it as torn or too old, or
\* do without; a read that fails is as good as no file.
JobReads(r) ==
  /\ job[r] = "reading"
  /\ \/ /\ Loadable(KeyOf[r])
        /\ found' = [found EXCEPT ![r] = EntryOf(KeyOf[r], bytes[file[KeyOf[r]]])]
        /\ job' = [job EXCEPT ![r] = "inserting"]
     \/ /\ file[KeyOf[r]] # NoFile
        /\ ~Loadable(KeyOf[r])
        /\ job' = [job EXCEPT ![r] = "removing"]
        /\ UNCHANGED found
     \/ /\ job' = [job EXCEPT ![r] = "done"]
        /\ UNCHANGED found
  /\ UNCHANGED <<cacheVars, flights, lookupVars, saveVars, counted>>

\* It removes what it takes for the file it read.
JobRemoves(r) ==
  /\ job[r] = "removing"
  /\ RemoveFile(KeyOf[r])
  /\ job' = [job EXCEPT ![r] = "done"]
  /\ UNCHANGED <<flights, lookupVars, found, saveVars, counted>>

JobInserts(r) ==
  /\ job[r] = "inserting"
  /\ InsertMemory(found[r])
  /\ job' = [job EXCEPT ![r] = "done"]
  /\ UNCHANGED <<flights, lookupVars, found, saveVars, counted>>

\* Mutant: only a hit wakes the lookup.
DiskAnswersHits(r) ==
  /\ at[r] = "loading"
  /\ job[r] = "done"
  /\ found[r] # Nothing
  /\ at' = [at EXCEPT ![r] = "hit"]
  /\ served' = [served EXCEPT ![r] =
       [fetch |-> found[r].fetch, age |-> found[r].inserted - found[r].stored]]
  /\ UNCHANGED <<cacheVars, flights, jobVars, saveVars, counted>>

\* The lookup resumes with what the job found.
DiskAnswers(r) ==
  /\ at[r] = "loading"
  /\ job[r] = "done"
  /\ IF found[r] # Nothing
     THEN /\ at' = [at EXCEPT ![r] = "hit"]
          /\ served' = [served EXCEPT ![r] =
               [fetch |-> found[r].fetch, age |-> found[r].inserted - found[r].stored]]
     ELSE /\ at' = [at EXCEPT ![r] = "missed"]
          /\ UNCHANGED served
  /\ UNCHANGED <<cacheVars, flights, jobVars, saveVars, counted>>

\* fetch_once: join the flight of the key or begin one.
Board(r) ==
  /\ at[r] = "missed"
  /\ Enter(r)
  /\ at' = [at EXCEPT ![r] = "flying"]
  /\ UNCHANGED <<cacheVars, served, jobVars, saveVars, counted>>

-----------------------------------------------------------------------------
(* The leader, and the rest of fetch_once                                  *)

Fetch(f) ==
  /\ \E o \in {"ok", "error"} : FetchReturns(f, o)
  /\ together' = together \cup
       {k \in {KeyOf[f]} : /\ leader'[f] = "storing"
                          /\ \E g \in Requests \ {f} : KeyOf[g] = k /\ leader[g] = "storing"}
  /\ UNCHANGED <<cacheVars, lookupVars, jobVars, saveVars, restarts>>

\* insert_memory, with the times of this moment.
StoreMemory(f) ==
  /\ leader[f] = "storing"
  /\ save[f] = "memory"
  /\ InsertMemory(EntryOf(KeyOf[f], [fetch |-> f, stored |-> now]))
  /\ save' = [save EXCEPT ![f] = "open"]
  /\ UNCHANGED <<flights, lookupVars, jobVars, draft, handle, counted>>

\* Mutant: the file of another save makes the open fail, unnoticed.
SaveOpensNew(f) ==
  /\ leader[f] = "storing"
  /\ save[f] = "open"
  /\ handle' = [handle EXCEPT ![f] = IF temp[KeyOf[f]] = NoFile THEN f ELSE NoFile]
  /\ OpenTemp(KeyOf[f], f)
  /\ draft' = [draft EXCEPT ![f] = now]
  /\ save' = [save EXCEPT ![f] = "write"]
  /\ UNCHANGED <<flights, lookupVars, jobVars, counted>>

\* save_disk takes the time and opens the temporary file.
SaveOpens(f) ==
  /\ leader[f] = "storing"
  /\ save[f] = "open"
  /\ OpenTemp(KeyOf[f], f)
  /\ draft' = [draft EXCEPT ![f] = now]
  /\ handle' = [handle EXCEPT ![f] = temp'[KeyOf[f]]]
  /\ save' = [save EXCEPT ![f] = "write"]
  /\ UNCHANGED <<flights, lookupVars, jobVars, counted>>

SaveWrites(f) ==
  /\ leader[f] = "storing"
  /\ save[f] = "write"
  /\ WriteOpened(handle[f], [fetch |-> f, stored |-> draft[f]])
  /\ save' = [save EXCEPT ![f] = "rename"]
  /\ UNCHANGED <<flights, lookupVars, jobVars, draft, handle, counted>>

\* The rename ends the job, and with it the storing.
SaveRenames(f) ==
  /\ save[f] = "rename"
  /\ RenameTemp(KeyOf[f]) \/ RenameFails(KeyOf[f])
  /\ Stored(f)
  /\ UNCHANGED <<lookupVars, jobVars, saveVars, counted>>

\* No directory is configured, or it cannot be created or written to.
SaveFails(f) ==
  /\ save[f] \in {"open", "write"}
  /\ Stored(f)
  /\ UNCHANGED <<cacheVars, lookupVars, jobVars, saveVars, counted>>

Finish(f) ==
  /\ Publish(f) \/ LeaderRemoves(f)
  /\ UNCHANGED <<cacheVars, lookupVars, jobVars, saveVars, counted>>

Panic(f) ==
  /\ LeaderPanics(f)
  /\ UNCHANGED <<cacheVars, lookupVars, jobVars, saveVars, counted>>

Await(r) ==
  /\ Waiting(r)
  /\ UNCHANGED <<cacheVars, lookupVars, jobVars, saveVars, counted>>

-----------------------------------------------------------------------------
(* Cancellation, restarts, time                                            *)

Disconnect(r) ==
  /\ \/ /\ at[r] \in {"loading", "missed"}
        /\ UNCHANGED flights
     \/ /\ at[r] = "flying"
        /\ Cancel(r)
  /\ at' = [at EXCEPT ![r] = "gone"]
  /\ UNCHANGED <<cacheVars, served, jobVars, saveVars, counted>>

\* Memory, flights, jobs and lookups go; the directory stays.
Restart ==
  /\ restarts < MaxRestarts
  /\ restarts' = restarts + 1
  /\ MemoryLost
  /\ FlightsLost
  /\ at' = [r \in Requests |-> IF at[r] \in {"new", "hit"} THEN at[r] ELSE "gone"]
  /\ job' = [r \in Requests |-> IF job[r] = "none" THEN "none" ELSE "done"]
  /\ UNCHANGED <<served, found, saveVars, together>>

TimePasses == Tick /\ UNCHANGED <<flights, lookupVars, jobVars, saveVars, counted>>

Asking(r) ==
  \/ RefreshRemovesFile(r) \/ JobReads(r) \/ JobRemoves(r) \/ JobInserts(r)
  \/ DiskAnswers(r) \/ Board(r)

Storing(f) ==
  \/ StoreMemory(f) \/ SaveOpens(f) \/ SaveWrites(f) \/ SaveRenames(f) \/ SaveFails(f)

Next ==
  \/ \E r \in Requests :
       \/ Refresh(r) \/ MemoryHit(r) \/ MemoryMiss(r) \/ Asking(r)
       \/ Fetch(r) \/ Storing(r) \/ Finish(r) \/ Panic(r)
       \/ Await(r) \/ Disconnect(r)
  \/ Restart
  \/ TimePasses

Spec == Init /\ [][Next]_vars

\* The runtime runs blocking jobs, leaders and lookups somebody awaits, and the
\* upstream calls of a fetch time out.
FairSpec ==
  /\ Spec
  /\ \A r \in Requests : /\ WF_vars(Asking(r))
                         /\ WF_vars(Fetch(r) \/ Storing(r) \/ Finish(r))
                         /\ WF_vars(Await(r))

-----------------------------------------------------------------------------

\* The shapes of the state: among them, a save that writes has a file open.
ServiceTypeOK ==
  /\ CacheTypeOK
  /\ FlightTypeOK
  /\ at \in [Requests -> {"new", "clearing", "loading", "missed", "flying", "hit", "gone"}]
  /\ served \in [Requests -> [fetch : Files \cup {NoFile}, age : Times]]
  /\ job \in [Requests -> {"none", "reading", "removing", "inserting", "done"}]
  /\ found \in [Requests -> Entries \cup {Nothing}]
  /\ save \in [Requests -> {"memory", "open", "write", "rename"}]
  /\ draft \in [Requests -> Times]
  /\ handle \in [Requests -> Requests \cup {NoFile}]
  /\ \A f \in Requests : save[f] \in {"write", "rename"} => handle[f] # NoFile
  /\ restarts \in 0..MaxRestarts
  /\ together \subseteq Keys

\* A profile is a profile of a key: what an earlier process left, or what a
\* fetch of that key returned without an error.
IsOf(f, k) == f = Past \/ (KeyOf[f] = k /\ outcome[f] = "ok")

\* Whatever restarts, cancellations, panics and overlapping flights do, a hit
\* is answered with a profile of its key, and so is every later one from
\* memory or from the disk: errors, and what half a file says, never get in.
OnlyProfilesOfTheKey ==
  /\ \A r \in Requests : at[r] = "hit" => IsOf(served[r].fetch, KeyOf[r])
  /\ \A i \in 1..Len(memory) : IsOf(memory[i].fetch, memory[i].key)
  /\ \A k \in Keys : file[k] # NoFile /\ bytes[file[k]] # Torn => IsOf(bytes[file[k]].fetch, k)

\* How old a hit can be: the time on disk and the time in memory, one after
\* the other.  Every path to an answer obeys it, those that put an older
\* profile over a newer one too.
HitsWithinTwoTtls == \A r \in Requests : served[r].age <= 2 * Ttl

\* Replacing by rename keeps half a record from the final name, a crash between
\* two steps of a save or not, unless two flights of the key were storing at once:
\* one then writes what the other has renamed, or renames what it has not written.
TornOnlyByTwoSaves ==
  \A k \in Keys : file[k] # NoFile /\ bytes[file[k]] = Torn => k \in together

\* A lookup that asks anything ends: with a hit, with what its flight says, or
\* dropped.  (It ends once: that none is under way, again and again, is that each does.)
LookupsEnd ==
  []<>(\A r \in Requests : at[r] \in {"new", "hit", "gone"} \/ waiter[r] \in {"answered", "failed"})

-----------------------------------------------------------------------------
(* The promise: ReadThrough, and where its state is                        *)

CopyOf(k, record) == [key |-> k, fetch |-> record.fetch, stored |-> record.stored]

\* The copies a lookup may yet be answered with: in memory, with jobs on the way to
\* it, in files, whatever their names, and with saves that have still to write.
Copies ==
  {CopyOf(memory[i].key, memory[i]) : i \in 1..Len(memory)}
    \cup {CopyOf(KeyOf[r], found[r]) : r \in {r \in Requests : job[r] = "inserting"}}
    \cup {CopyOf(k, bytes[Past]) : k \in {k \in Keys : file[k] = Past}}
    \cup {CopyOf(KeyOf[f], bytes[f]) : f \in {f \in Requests : bytes[f] # Torn}}
    \cup {CopyOf(KeyOf[f], [fetch |-> f, stored |-> draft[f]]) :
            f \in {f \in Requests : leader[f] = "storing" /\ save[f] = "write"}}

\* A lookup has its hit when its job has found one.
Found(r) == at[r] = "loading" /\ found[r] # Nothing

Phase ==
  [r \in Requests |->
     CASE waiter[r] \in {"waiting", "leaving"}  -> "boarded"
       [] waiter[r] \in {"answered", "failed"}  -> waiter[r]
       [] Found(r)                              -> "hit"
       [] at[r] = "loading" /\ ~Found(r)        -> "asked"
       [] at[r] = "clearing"                    -> "missed"
       [] OTHER                                 -> at[r]]

Reply ==
  [r \in Requests |->
     IF at[r] = "hit" THEN served[r]
     ELSE IF Found(r) THEN [fetch |-> found[r].fetch, age |-> found[r].inserted - found[r].stored]
     ELSE [fetch |-> NoFile, age |-> 0]]

Stage ==
  [f \in Requests |->
     CASE leader[f] \in Unsent     -> "aloft"
       [] leader[f] = "removing"   -> "landed"
       [] leader[f] = "finished"   -> "closed"
       [] leader[f] = "dead"       -> "lost"
       [] OTHER                    -> "none"]

Promise == INSTANCE ReadThrough WITH
  kept <- Copies, phase <- Phase, reply <- Reply, boarded <- joined, stage <- Stage,
  result <- outcome

\* Through memory, disk jobs, saves under one name, cancelled lookups, orphaned leaders
\* and restarts, get_profile answers as ReadThrough says: with a young copy of a
\* profile of the key, or with what the flight that was boarded brought.
ImplementsReadThrough == Promise!Spec

=============================================================================
