--------------------------- MODULE SessionStoreProofs ---------------------------
(***************************************************************************)
(* Theorems about SessionStore, for any number of saves, sessions and      *)
(* files.  The argument is which files two saves have had open at a time   *)
(* (beside), for only those can be torn where a save has been over them.   *)
(***************************************************************************)
EXTENDS SessionStore, TLAPS

-----------------------------------------------------------------------------
(* The invariant                                                           *)

\* The two names are never those of one file.
NamesApart == temp # NoFile => temp # path

\* A file that two saves have open; and the one under the temporary name, when a save
\* has another one open (it was renamed under its hands, and the name given anew).
SharedBeside ==
  /\ \A v, w \in Savers : v # w /\ handle[v] = handle[w] /\ handle[v] # NoFile
                            => handle[v] \in beside
  /\ \A w \in Savers : handle[w] # NoFile /\ temp # NoFile /\ handle[w] # temp
                         => temp \in beside

\* A save that is before its write finds an empty file, and one that is after it left
\* a whole one, but where another has been at it.
WrittenAlone ==
  \A w \in Savers :
    /\ step[w] = "write" /\ disk[handle[w]] # Torn => handle[w] \in beside
    /\ step[w] = "rename" /\ disk[handle[w]] = Torn => handle[w] \in beside

\* The session file is whole, or two saves were at it.
PathWhole == path # NoFile /\ disk[path] = Torn => path \in beside

IInv == StoreTypeOK /\ NamesApart /\ SharedBeside /\ WrittenAlone /\ PathWhole

\* While it is known which save began last: it is over, and would be loaded, and no
\* load is about to remove it;
LastOver == Open = {} /\ path # NoFile /\ disk[path] = begun /\ loading = "idle"

\* or it is the only one with a file open, which is the temporary one, and has its
\* session once it is written.
LastUnderWay(w) ==
  /\ step[w] \in {"write", "rename"}
  /\ \A v \in Savers : v # w => handle[v] = NoFile
  /\ handle[w] = temp /\ saving[w] = begun
  /\ disk[temp] = (IF step[w] = "write" THEN Torn ELSE begun)

LastSave == begun # NoSave => LastOver \/ \E w \in Savers : LastUnderWay(w)

-----------------------------------------------------------------------------
(* A save has a file open just while it is between creating and renaming.  *)

LEMMA NoneOpen ==
  Open = {} <=> \A w \in Savers : handle[w] = NoFile
PROOF BY DEF Open

LEMMA InitIInv == Init => IInv
<1> SUFFICES ASSUME Init PROVE IInv
  OBVIOUS
<1> USE StoreAssumption DEF Init
<1>1. StoreTypeOK
  BY DEF StoreTypeOK
<1>2. NamesApart /\ SharedBeside /\ WrittenAlone /\ PathWhole
  BY DEF NamesApart, SharedBeside, WrittenAlone, PathWhole
<1> QED
  BY <1>1, <1>2 DEF IInv

\* Types: each action keeps the shapes of the state.
LEMMA NextTypes == StoreTypeOK /\ [Next]_vars => StoreTypeOK'
<1> SUFFICES ASSUME StoreTypeOK, [Next]_vars PROVE StoreTypeOK'
  OBVIOUS
<1> USE StoreAssumption DEF StoreTypeOK
<1>1. ASSUME NEW w \in Savers, Begin(w) PROVE StoreTypeOK'
  BY <1>1 DEF Begin
<1>2. ASSUME NEW w \in Savers, Create(w) PROVE StoreTypeOK'
  <2>1. PICK f \in Under(temp) : OpenFile(w, f) /\ temp' = f /\ UNCHANGED path
    BY <1>2 DEF Create
  <2>2. f \in Files
    BY <2>1 DEF Under
  <2>3. disk' \in [Files -> Contents \cup {Torn}] /\ beside' \subseteq Files
        /\ begun' \in Contents \cup {NoSave}
    BY <2>1, <2>2 DEF OpenFile
  <2> QED
    BY <2>1, <2>2, <2>3 DEF OpenFile
<1>3. ASSUME NEW w \in Savers, Write(w) PROVE StoreTypeOK'
  <2>1. handle[w] \in Files
    BY <1>3 DEF Write
  <2>2. saving[w] \in Contents
    BY <1>3 DEF Write
  <2>3. disk' \in [Files -> Contents \cup {Torn}]
    BY <1>3, <2>1, <2>2 DEF Write
  <2> QED
    BY <1>3, <2>3 DEF Write
<1>4. ASSUME NEW w \in Savers, Rename(w) PROVE StoreTypeOK'
  BY <1>4 DEF Rename, Keep
<1>5. ASSUME NEW w \in Savers, Fail(w) PROVE StoreTypeOK'
  BY <1>5 DEF Fail, Keep
<1>6. ASSUME Read PROVE StoreTypeOK'
  BY <1>6 DEF Read
<1>9. ASSUME Remove PROVE StoreTypeOK'
  BY <1>9 DEF Remove, Keep
<1>7. ASSUME Restart PROVE StoreTypeOK'
  BY <1>7 DEF Restart, Keep
<1>8. CASE UNCHANGED vars
  BY <1>8 DEF vars
<1> QED
  BY <1>1, <1>2, <1>3, <1>4, <1>5, <1>6, <1>7, <1>8, <1>9 DEF Next

\* Types are kept by every step, so they hold in every state.
THEOREM StoreTypes == Spec => []StoreTypeOK
<1>1. Init => StoreTypeOK
  BY InitIInv DEF IInv
<1> QED
  BY <1>1, NextTypes, PTL DEF Spec

-----------------------------------------------------------------------------
(* Each action keeps the invariant; types are NextTypes.                   *)

Shared == NamesApart /\ SharedBeside /\ WrittenAlone /\ PathWhole

\* A save begins with no file.
LEMMA BeginKeeps ==
  ASSUME IInv, NEW u \in Savers, Begin(u) PROVE Shared'
<1> USE DEF IInv, Begin
<1>1. NamesApart' /\ SharedBeside' /\ PathWhole'
  BY DEF NamesApart, SharedBeside, PathWhole
<1>2. WrittenAlone'
  BY DEF WrittenAlone, StoreTypeOK
<1> QED
  BY <1>1, <1>2 DEF Shared

\* The file that is created or emptied counts as shared where another save has one open.
LEMMA CreateKeeps ==
  ASSUME IInv, NEW u \in Savers, Create(u) PROVE Shared'
<1> USE StoreAssumption DEF IInv
<1>1. PICK f \in Under(temp) : OpenFile(u, f) /\ temp' = f /\ UNCHANGED path
  BY DEF Create
<1>2. f \in Files /\ f # path
  BY <1>1 DEF Under, NamesApart, StoreTypeOK
<1>3. /\ step' = [step EXCEPT ![u] = "write"] /\ step[u] = "create"
      /\ handle' = [handle EXCEPT ![u] = f]
      /\ disk' = [disk EXCEPT ![f] = Torn]
      /\ beside' = IF Open = {} THEN beside \ {f} ELSE beside \cup {f}
  BY <1>1 DEF OpenFile
<1>4. \A v \in Savers : handle[v] # NoFile => beside' = beside \cup {f}
  BY <1>3, NoneOpen
<1>5. NamesApart'
  BY <1>1, <1>2 DEF NamesApart
<1>6. SharedBeside'
  <2>1. ASSUME NEW v \in Savers, NEW w \in Savers, v # w,
               handle'[v] = handle'[w], handle'[v] # NoFile
        PROVE handle'[v] \in beside'
    <3>1. CASE v = u
      BY <2>1, <3>1, <1>2, <1>3, <1>4 DEF StoreTypeOK
    <3>2. CASE w = u
      BY <2>1, <3>2, <1>2, <1>3, <1>4 DEF StoreTypeOK
    <3>3. CASE v # u /\ w # u
      BY <2>1, <3>3, <1>3, <1>4 DEF StoreTypeOK, SharedBeside
    <3> QED
      BY <3>1, <3>2, <3>3
  <2>2. ASSUME NEW w \in Savers, handle'[w] # NoFile, handle'[w] # temp'
        PROVE temp' \in beside'
    BY <2>2, <1>1, <1>3, <1>4 DEF StoreTypeOK
  <2> QED
    BY <2>1, <2>2 DEF SharedBeside
<1>7. WrittenAlone'
  <2> SUFFICES ASSUME NEW w \in Savers
               PROVE /\ step'[w] = "write" /\ disk'[handle'[w]] # Torn => handle'[w] \in beside'
                     /\ step'[w] = "rename" /\ disk'[handle'[w]] = Torn => handle'[w] \in beside'
    BY DEF WrittenAlone
  <2>1. CASE w = u
    BY <2>1, <1>2, <1>3 DEF StoreTypeOK
  <2>2. CASE w # u /\ handle[w] = NoFile
    BY <2>2, <1>3 DEF StoreTypeOK
  <2>3. CASE w # u /\ handle[w] # NoFile
    BY <2>3, <1>2, <1>3, <1>4 DEF StoreTypeOK, WrittenAlone
  <2> QED
    BY <2>1, <2>2, <2>3
<1>8. PathWhole'
  BY <1>1, <1>2, <1>3 DEF PathWhole, StoreTypeOK
<1> QED
  BY <1>5, <1>6, <1>7, <1>8 DEF Shared

\* What is written over what another save wrote is in a file both have had open.
LEMMA WriteKeeps ==
  ASSUME IInv, NEW u \in Savers, Write(u) PROVE Shared'
<1> USE StoreAssumption DEF IInv
<1>1. /\ step[u] = "write" /\ step' = [step EXCEPT ![u] = "rename"]
      /\ UNCHANGED <<handle, path, temp, beside>>
  BY DEF Write
<1>2. handle[u] \in Files /\ saving[u] \in Contents
  BY <1>1 DEF StoreTypeOK
<1>3. PICK c \in {saving[u], Torn} :
        /\ disk' = [disk EXCEPT ![handle[u]] = c]
        /\ c = Torn => disk[handle[u]] # Torn
  BY <1>2 DEF Write
<1>4. c = Torn => handle[u] \in beside
  BY <1>1, <1>3 DEF WrittenAlone
<1>5. \A w \in Savers : w # u /\ handle[w] = handle[u] => handle[w] \in beside
  BY <1>2 DEF SharedBeside
<1>6. NamesApart' /\ SharedBeside'
  BY <1>1 DEF NamesApart, SharedBeside
<1>7. WrittenAlone'
  BY <1>1, <1>2, <1>3, <1>4, <1>5 DEF WrittenAlone, StoreTypeOK
<1>8. PathWhole'
  BY <1>1, <1>2, <1>3, <1>4 DEF PathWhole, StoreTypeOK
<1> QED
  BY <1>6, <1>7, <1>8 DEF Shared

\* The file that gets the final name is the one this save wrote, or a shared one.
LEMMA RenameKeeps ==
  ASSUME IInv, NEW u \in Savers, Rename(u) PROVE Shared'
<1> USE StoreAssumption DEF IInv
<1> DEFINE named == {path'} \cup {handle'[v] : v \in Savers}
<1>1. /\ step[u] = "rename" /\ step' = [step EXCEPT ![u] = "idle"]
      /\ handle' = [handle EXCEPT ![u] = NoFile]
      /\ path' = IF temp = NoFile THEN path ELSE temp
      /\ temp' = NoFile
      /\ disk' = [f \in Files |-> IF f \in named THEN disk[f] ELSE Torn]
      /\ beside' = beside \cap named
  BY DEF Rename, Keep
<1>2. path' \in named /\ \A v \in Savers : handle'[v] \in named
  OBVIOUS
<1> HIDE DEF named
<1>3. NamesApart'
  BY <1>1 DEF NamesApart
<1>4. SharedBeside'
  BY <1>1, <1>2 DEF SharedBeside, StoreTypeOK
<1>5. WrittenAlone'
  BY <1>1, <1>2 DEF WrittenAlone, StoreTypeOK
<1>6. PathWhole'
  <2> SUFFICES ASSUME path' # NoFile, disk'[path'] = Torn PROVE path' \in beside'
    BY DEF PathWhole
  <2>1. path' \in Files /\ disk[path'] = Torn
    BY <1>1, <1>2 DEF StoreTypeOK
  <2>2. CASE temp = NoFile
    BY <2>1, <2>2, <1>1, <1>2 DEF PathWhole
  <2>3. CASE temp # NoFile /\ handle[u] = temp
    BY <2>1, <2>3, <1>1, <1>2 DEF WrittenAlone
  <2>4. CASE temp # NoFile /\ handle[u] # temp
    <3>1. handle[u] # NoFile
      BY <1>1 DEF StoreTypeOK
    <3> QED
      BY <2>4, <3>1, <1>1, <1>2 DEF SharedBeside
  <2> QED
    BY <2>2, <2>3, <2>4
<1> QED
  BY <1>3, <1>4, <1>5, <1>6 DEF Shared

\* A save that fails leaves both names, and what the others have open.
LEMMA FailKeeps ==
  ASSUME IInv, NEW u \in Savers, Fail(u) PROVE Shared'
<1> USE StoreAssumption DEF IInv
<1> DEFINE named == {path, temp} \cup {handle'[v] : v \in Savers}
<1>1. /\ step' = [step EXCEPT ![u] = "idle"]
      /\ handle' = [handle EXCEPT ![u] = NoFile]
      /\ disk' = [f \in Files |-> IF f \in named THEN disk[f] ELSE Torn]
      /\ beside' = beside \cap named
      /\ UNCHANGED <<path, temp>>
  BY DEF Fail, Keep
<1>2. path \in named /\ temp \in named /\ \A v \in Savers : handle'[v] \in named
  OBVIOUS
<1> HIDE DEF named
<1>3. NamesApart' /\ PathWhole'
  BY <1>1, <1>2 DEF NamesApart, PathWhole, StoreTypeOK
<1>4. SharedBeside'
  BY <1>1, <1>2 DEF SharedBeside, StoreTypeOK
<1>5. WrittenAlone'
  BY <1>1, <1>2 DEF WrittenAlone, StoreTypeOK
<1> QED
  BY <1>3, <1>4, <1>5 DEF Shared

\* To read changes no file.
LEMMA ReadKeeps ==
  ASSUME IInv, Read PROVE Shared'
<1>1. UNCHANGED <<step, saving, handle, path, temp, disk, beside>>
  BY DEF Read
<1> QED
  BY <1>1 DEF IInv, Shared, NamesApart, SharedBeside, WrittenAlone, PathWhole

\* A load that found the file of no use may take the final name away.
LEMMA RemoveKeeps ==
  ASSUME IInv, Remove PROVE Shared'
<1> USE StoreAssumption DEF IInv
<1> DEFINE named == {temp} \cup Open
<1>1. /\ path' = NoFile
      /\ disk' = [f \in Files |-> IF f \in named THEN disk[f] ELSE Torn]
      /\ beside' = beside \cap named
      /\ UNCHANGED <<step, handle, temp>>
  BY DEF Remove, Keep
<1>2. temp \in named /\ \A v \in Savers : handle[v] # NoFile => handle[v] \in named
  BY DEF Open
<1> HIDE DEF named
<1>3. NamesApart' /\ PathWhole'
  BY <1>1 DEF NamesApart, PathWhole
<1>4. SharedBeside'
  BY <1>1, <1>2 DEF SharedBeside
<1>5. WrittenAlone'
  BY <1>1, <1>2 DEF WrittenAlone, StoreTypeOK
<1> QED
  BY <1>3, <1>4, <1>5 DEF Shared

\* A restart leaves both names and nothing open.
LEMMA RestartKeeps ==
  ASSUME IInv, Restart PROVE Shared'
<1> USE StoreAssumption DEF IInv
<1>1. /\ step' = [w \in Savers |-> "idle"]
      /\ handle' = [w \in Savers |-> NoFile]
      /\ disk' = [f \in Files |-> IF f \in {path, temp} THEN disk[f] ELSE Torn]
      /\ beside' = beside \cap {path, temp}
      /\ UNCHANGED <<path, temp>>
  BY DEF Restart, Keep
<1>2. NamesApart' /\ PathWhole'
  BY <1>1 DEF NamesApart, PathWhole, StoreTypeOK
<1>3. SharedBeside' /\ WrittenAlone'
  BY <1>1 DEF SharedBeside, WrittenAlone
<1> QED
  BY <1>2, <1>3 DEF Shared

\* The invariant is inductive.
LEMMA NextIInv == IInv /\ [Next]_vars => IInv'
<1> SUFFICES ASSUME IInv, [Next]_vars PROVE IInv'
  OBVIOUS
<1>1. StoreTypeOK'
  BY NextTypes DEF IInv
<1>2. CASE UNCHANGED vars
  <2>1. NamesApart' /\ SharedBeside' /\ WrittenAlone' /\ PathWhole'
    BY <1>2 DEF vars, IInv, NamesApart, SharedBeside, WrittenAlone, PathWhole
  <2> QED
    BY <1>1, <2>1 DEF IInv
<1>3. CASE Next
  <2>1. Shared'
    BY <1>3, BeginKeeps, CreateKeeps, WriteKeeps, RenameKeeps, FailKeeps, ReadKeeps,
       RemoveKeeps, RestartKeeps DEF Next
  <2> QED
    BY <1>1, <2>1 DEF IInv, Shared
<1> QED
  BY <1>2, <1>3

-----------------------------------------------------------------------------
(* What it is for.                                                         *)

\* The session file goes only by a load's removal.  What that finds under the name was
\* torn by two saves when it was read, and two saves have been at it; or it could not
\* be read; or another save has put it there in between (session.rs:249 and 323).
THEOREM Survival == Spec => FileSurvives
<1> DEFINE Goes == path # NoFile /\ path' = NoFile =>
                     loading \in {"unread", "raced"} \/ path \in beside
           Judged == loading = "torn" => path = NoFile \/ path \in beside
<1>1. Init => IInv /\ Judged
  BY InitIInv DEF Init
<1>2. IInv /\ Judged /\ [Next]_vars => IInv' /\ Judged'
  <2> SUFFICES ASSUME IInv, Judged, [Next]_vars, loading' = "torn"
               PROVE path' = NoFile \/ path' \in beside'
    BY NextIInv
  <2>1. ASSUME NEW u \in Savers, Begin(u) PROVE path' = NoFile \/ path' \in beside'
    BY <2>1 DEF Begin
  <2>2. ASSUME NEW u \in Savers, Create(u) PROVE path' = NoFile \/ path' \in beside'
    <3>1. PICK f \in Under(temp) : OpenFile(u, f) /\ UNCHANGED path
      BY <2>2 DEF Create
    <3>2. f # path \/ path = NoFile
      BY <3>1 DEF Under, IInv, NamesApart
    <3> QED
      BY <3>1, <3>2 DEF OpenFile
  <2>3. ASSUME NEW u \in Savers, Write(u) PROVE path' = NoFile \/ path' \in beside'
    BY <2>3 DEF Write
  <2>4. ASSUME NEW u \in Savers, Rename(u) PROVE path' = NoFile \/ path' \in beside'
    BY <2>4 DEF Rename, Keep
  <2>5. ASSUME NEW u \in Savers, Fail(u) PROVE path' = NoFile \/ path' \in beside'
    BY <2>5 DEF Fail, Keep
  <2>6. ASSUME Read PROVE path' = NoFile \/ path' \in beside'
    BY <2>6 DEF Read, IInv, PathWhole
  <2>7. ASSUME Remove \/ Restart PROVE path' = NoFile \/ path' \in beside'
    BY <2>7 DEF Remove, Restart
  <2>8. CASE UNCHANGED vars
    BY <2>8 DEF vars
  <2> QED
    BY <2>1, <2>2, <2>3, <2>4, <2>5, <2>6, <2>7, <2>8 DEF Next
<1>3. IInv /\ Judged /\ [Next]_vars => [Goes]_vars
  <2> SUFFICES ASSUME IInv, Judged, Next PROVE Goes
    BY DEF Goes
  <2>1. ASSUME NEW u \in Savers, Begin(u) \/ Create(u) \/ Write(u) \/ Rename(u) \/ Fail(u)
        PROVE path' = NoFile => path = NoFile
    BY <2>1 DEF Begin, Create, Write, Rename, Fail
  <2>2. ASSUME Read \/ Restart PROVE path' = path
    BY <2>2 DEF Read, Restart
  <2>3. ASSUME Remove PROVE loading \in {"torn", "unread", "raced"}
    BY <2>3 DEF Remove, IInv, StoreTypeOK
  <2> QED
    BY <2>1, <2>2, <2>3 DEF Next, Goes
<1> QED
  BY <1>1, <1>2, <1>3, PTL DEF Spec, FileSurvives, Goes

\* The save that began last: each step keeps what is known of it, or forgets it.
LEMMA NextLastSave == IInv /\ LastSave /\ [Next]_vars => LastSave'
<1> SUFFICES ASSUME IInv, LastSave, [Next]_vars, begun' # NoSave
             PROVE LastOver' \/ \E w \in Savers : LastUnderWay(w)'
  BY DEF LastSave
<1> USE StoreAssumption DEF IInv, StoreTypeOK
<1>1. ASSUME begun # NoSave PROVE LastOver \/ \E w \in Savers : LastUnderWay(w)
  BY <1>1 DEF LastSave
<1>2. ASSUME NEW w \in Savers, LastUnderWay(w)
      PROVE handle[w] # NoFile /\ Open # {} /\ \A v \in Savers : v # w => handle[v] = NoFile
  BY <1>2, NoneOpen DEF LastUnderWay
<1>3. ASSUME NEW u \in Savers, Begin(u) PROVE LastOver' \/ \E w \in Savers : LastUnderWay(w)'
  <2>1. LastOver => LastOver'
    BY <1>3 DEF Begin, LastOver, Open
  <2>2. ASSUME NEW w \in Savers, LastUnderWay(w) PROVE LastUnderWay(w)'
    BY <1>3, <2>2 DEF Begin, LastUnderWay
  <2> QED
    BY <1>1, <1>3, <2>1, <2>2 DEF Begin
<1>4. ASSUME NEW u \in Savers, Create(u) PROVE LastUnderWay(u)'
  <2>1. PICK f \in Under(temp) : OpenFile(u, f) /\ temp' = f
    BY <1>4 DEF Create
  <2>2. f \in Files
    BY <2>1 DEF Under
  <2>3. Open = {} /\ begun' = saving[u]
    BY <2>1 DEF OpenFile
  <2> QED
    BY <2>1, <2>2, <2>3, NoneOpen DEF OpenFile, LastUnderWay
<1>5. ASSUME NEW u \in Savers, Write(u) PROVE LastUnderWay(u)'
  <2>1. handle[u] # NoFile /\ begun' = begun
    BY <1>5 DEF Write
  <2>2. LastUnderWay(u)
    BY <1>1, <1>2, <2>1, NoneOpen DEF LastOver
  <2>3. disk[handle[u]] = Torn /\ handle[u] \in Files
    BY <1>5, <2>1, <2>2 DEF Write, LastUnderWay
  <2>4. disk' = [disk EXCEPT ![handle[u]] = saving[u]]
    BY <1>5, <2>3 DEF Write
  <2> QED
    BY <1>5, <2>2, <2>3, <2>4 DEF Write, LastUnderWay
<1>6. ASSUME NEW u \in Savers, Rename(u) PROVE LastOver'
  <2>1. handle[u] # NoFile /\ begun' = begun /\ loading' = "idle"
    BY <1>6 DEF Rename
  <2>2. LastUnderWay(u)
    BY <1>1, <1>2, <2>1, NoneOpen DEF LastOver
  <2>3. temp \in Files /\ path' = temp /\ disk[temp] = begun
    BY <1>6, <2>1, <2>2 DEF Rename, LastUnderWay
  <2>4. disk'[path'] = begun
    BY <1>6, <2>3 DEF Rename, Keep
  <2>5. \A v \in Savers : handle'[v] = NoFile
    BY <1>6, <2>2 DEF Rename, LastUnderWay
  <2>6. Open' = {}
    BY <2>5 DEF Open
  <2> QED
    BY <2>1, <2>3, <2>4, <2>6 DEF LastOver
<1>7. ASSUME NEW u \in Savers, Fail(u) PROVE FALSE
  BY <1>7 DEF Fail
<1>8. ASSUME Read PROVE \E w \in Savers : LastUnderWay(w)'
  <2>1. begun' = begun /\ disk[path] = Torn
    BY <1>8 DEF Read
  <2>2. PICK w \in Savers : LastUnderWay(w)
    BY <1>1, <2>1 DEF LastOver
  <2>3. LastUnderWay(w)'
    BY <1>8, <2>1, <2>2 DEF Read, LastUnderWay
  <2> QED
    BY <2>3
<1>11. ASSUME Remove PROVE \E w \in Savers : LastUnderWay(w)'
  <2>1. ~ LastOver /\ begun' = begun
    BY <1>11 DEF Remove, LastOver
  <2>2. PICK w \in Savers : LastUnderWay(w)
    BY <1>1, <2>1
  <2>3. temp \in Files /\ disk'[temp] = disk[temp]
    BY <1>2, <1>11, <2>2 DEF Remove, Keep, LastUnderWay
  <2>4. LastUnderWay(w)'
    BY <1>11, <2>1, <2>2, <2>3 DEF Remove, LastUnderWay
  <2> QED
    BY <2>4
<1>9. ASSUME Restart PROVE LastOver'
  <2>1. Open = {} /\ begun' = begun
    BY <1>9 DEF Restart
  <2>2. LastOver
    BY <1>1, <1>2, <2>1
  <2>3. disk'[path] = disk[path]
    BY <1>9, <2>2 DEF Restart, Keep, LastOver
  <2>4. Open' = {}
    BY <1>9 DEF Restart, Open
  <2> QED
    BY <1>9, <2>1, <2>2, <2>3, <2>4 DEF Restart, LastOver
<1>10. ASSUME UNCHANGED vars PROVE LastOver' \/ \E w \in Savers : LastUnderWay(w)'
  <2>1. LastOver => LastOver'
    BY <1>10 DEF vars, LastOver, Open
  <2>2. ASSUME NEW w \in Savers, LastUnderWay(w) PROVE LastUnderWay(w)'
    BY <1>10, <2>2 DEF vars, LastUnderWay
  <2> QED
    BY <1>1, <1>10, <2>1, <2>2 DEF vars
<1> QED
  BY <1>3, <1>4, <1>5, <1>6, <1>7, <1>8, <1>9, <1>10, <1>11 DEF Next

\* A save that overlaps no other, fails nowhere and does not come between the two steps of
\* a load that removes is the one a restart loads, whatever crashes left under the temporary name: save_sync creates it anew (session.rs:294).
THEOREM LastSaveWins == Spec => []LastSaveLoads
<1>1. Init => IInv /\ LastSave
  BY InitIInv DEF Init, LastSave
<1>2. IInv /\ LastSave /\ [Next]_vars => IInv' /\ LastSave'
  BY NextIInv, NextLastSave
<1>3. IInv /\ LastSave => LastSaveLoads
  <2> SUFFICES ASSUME IInv, LastSave, begun # NoSave, Open = {}
               PROVE path # NoFile /\ disk[path] = begun
    BY DEF LastSaveLoads
  <2>1. ASSUME NEW w \in Savers, LastUnderWay(w) PROVE FALSE
    BY <2>1, NoneOpen DEF LastUnderWay, IInv, StoreTypeOK
  <2> QED
    BY <2>1 DEF LastSave, LastOver
<1> QED
  BY <1>1, <1>2, <1>3, PTL DEF Spec

=============================================================================
