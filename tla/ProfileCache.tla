---------------------------- MODULE ProfileCache ----------------------------
(***************************************************************************)
(* ProfileCache (service/cache.rs): an LRU map in memory and one file per  *)
(* key on disk.  Memory goes by the age since insertion, disk by the age   *)
(* since storing.  This module has the state of the cache and what each    *)
(* call does to it; ProfileService puts the calls in the order and on the  *)
(* tasks the service makes them.                                           *)
(*                                                                         *)
(* A profile is named by the fetch it comes from, a file by the save that  *)
(* created it, so that two names for one file can be told from two files.  *)
(***************************************************************************)
EXTENDS Naturals, Sequences

CONSTANTS
  Keys,
  Requests,     \* they name the fetches they begin and the saves these lead to
  Past,         \* the fetch whose file an earlier process may have left
  NoFile,       \* no file under this name
  MaxEntries,
  Ttl,
  MaxTime       \* bound: the clock stops here

ASSUME CacheAssumption ==
  /\ Past \notin Requests
  /\ NoFile \notin Requests \cup {Past}
  /\ MaxEntries \in Nat \ {0}
  /\ Ttl \in Nat
  /\ MaxTime \in Nat

VARIABLES
  now,
  memory,   \* the LRU map, least recently used first
  file,     \* the file under a key's final name
  temp,     \* the file under a key's temporary name
  bytes     \* what a file holds

diskVars  == <<file, temp, bytes>>
cacheVars == <<now, memory, diskVars>>

-----------------------------------------------------------------------------

Files == Requests \cup {Past}
Times == 0..MaxTime

Entries == [key : Keys, fetch : Files, stored : Times, inserted : Times]

\* A file holds a whole record of a key, or anything a parser rejects.
Torn     == [fetch |-> NoFile, stored |-> 0]
Contents == [fetch : Files, stored : Times] \cup {Torn}

CacheInit ==
  /\ now = 0
  /\ memory = <<>>
  /\ temp = [k \in Keys |-> NoFile]
  /\ file \in [Keys -> {NoFile, Past}]
  /\ bytes = [f \in Files |-> IF f = Past THEN [fetch |-> Past, stored |-> 0] ELSE Torn]

Tick ==
  /\ now < MaxTime
  /\ now' = now + 1
  /\ UNCHANGED <<memory, diskVars>>

-----------------------------------------------------------------------------
(* Memory                                                                  *)

Held(k) == {m \in {memory[i] : i \in 1..Len(memory)} : m.key = k}

\* pop: the entry of the key leaves the map, which has one of a key.
Without(k) ==
  LET at == CHOOSE n \in 1..Len(memory) : memory[n].key = k
  IN  IF Held(k) = {} THEN memory
      ELSE [n \in 1..Len(memory) - 1 |-> memory[IF n < at THEN n ELSE n + 1]]

\* Mutant: an entry of the key that is there stays beside the new one.
PutBeside(m) == LET kept == Append(memory, m)
                IN  IF Len(kept) > MaxEntries THEN Tail(kept) ELSE kept

\* put: the entry becomes the most recently used, and the least recently used
\* one goes when the map is full.
Put(m) == LET kept == Append(Without(m.key), m)
          IN  IF Len(kept) > MaxEntries THEN Tail(kept) ELSE kept

\* Mutant: memory ages by nothing at all.
FreshForever(m) == TRUE

\* get goes by the instant the entry was inserted.
Fresh(m) == now - m.inserted <= Ttl

GetHit(m) ==
  /\ m \in Held(m.key)
  /\ Fresh(m)
  /\ memory' = Append(Without(m.key), m)
  /\ UNCHANGED <<now, diskVars>>

\* Nothing under the key, or an entry too old, which is popped.
GetMiss(k) ==
  /\ \A m \in Held(k) : ~Fresh(m)
  /\ memory' = Without(k)
  /\ UNCHANGED <<now, diskVars>>

InsertMemory(m) == memory' = Put(m) /\ UNCHANGED <<now, diskVars>>

Pop(k) == memory' = Without(k) /\ UNCHANGED <<now, diskVars>>

-----------------------------------------------------------------------------
(* Disk                                                                    *)

\* load_disk goes by the time the record says it was stored.
Loadable(k) ==
  /\ file[k] # NoFile
  /\ bytes[file[k]] # Torn
  /\ now - bytes[file[k]].stored <= Ttl

RemoveFile(k) ==
  /\ file' = [file EXCEPT ![k] = NoFile]
  /\ UNCHANGED <<now, memory, temp, bytes>>

\* Mutant: the file is written in place.
OpenFinal(k, f) ==
  /\ temp' = [temp EXCEPT ![k] = f]
  /\ file' = [file EXCEPT ![k] = f]
  /\ bytes' = [bytes EXCEPT ![f] = Torn]
  /\ UNCHANGED <<now, memory>>

\* fs::write opens the temporary name, which all saves of a key share, and
\* truncates the file that is there or creates one.
OpenTemp(k, f) ==
  LET h == IF temp[k] = NoFile THEN f ELSE temp[k]
  IN  /\ temp' = [temp EXCEPT ![k] = h]
      /\ bytes' = [bytes EXCEPT ![h] = Torn]
      /\ UNCHANGED <<now, memory, file>>

\* It writes to the file it opened, by whatever name that goes now; over what
\* another save wrote meanwhile a shorter record leaves a tail.
WriteOpened(h, record) ==
  /\ bytes' \in {[bytes EXCEPT ![h] = c] :
                   c \in IF bytes[h] = Torn THEN {record} ELSE {record, Torn}}
  /\ UNCHANGED <<now, memory, file, temp>>

\* rename replaces the final name; without a temporary name it fails.
RenameTemp(k) ==
  /\ file' = [file EXCEPT ![k] = IF temp[k] = NoFile THEN @ ELSE temp[k]]
  /\ temp' = [temp EXCEPT ![k] = NoFile]
  /\ UNCHANGED <<now, memory, bytes>>

\* rename fails for another reason, and the temporary file is removed.
RenameFails(k) ==
  /\ temp' = [temp EXCEPT ![k] = NoFile]
  /\ UNCHANGED <<now, memory, file, bytes>>

\* A new process finds the directory as the last one left it.
MemoryLost == memory' = <<>> /\ UNCHANGED <<now, diskVars>>

-----------------------------------------------------------------------------

\* The shapes of the state: among them, a temporary name is a save's of this or
\* an earlier process, and files hold whole records or nothing a parser takes.
CacheTypeOK ==
  /\ now \in Times
  /\ memory \in Seq(Entries)
  /\ file \in [Keys -> Files \cup {NoFile}]
  /\ temp \in [Keys -> Requests \cup {NoFile}]
  /\ bytes \in [Files -> Contents]

\* The map never holds more than MaxEntries entries, nor two of one key.
LruWithinBound ==
  /\ Len(memory) <= MaxEntries
  /\ \A i, j \in 1..Len(memory) : memory[i].key = memory[j].key => i = j

=============================================================================
