----------------------------- MODULE SessionStore -----------------------------
(***************************************************************************)
(* FileSessionStore (linkedin/session.rs).  save_sync creates or truncates *)
(* one temporary file, named after the process, writes to it and renames   *)
(* it; load reads the file and, when that is of no use, removes whatever   *)
(* has the name by then.  The auth mutex orders loads, and the saves of    *)
(* authentications, but not persist_if_due, nor a save whose caller was    *)
(* dropped.  The process may stop at any step, and the next one has the    *)
(* same id where it is the first of its container.                         *)
(***************************************************************************)

CONSTANTS
  Savers,       \* saves in flight
  Contents,     \* sessions, as far as the file tells them apart
  Files,        \* bound: files there are at a time
  NoFile, NoSave, Torn

ASSUME StoreAssumption ==
  /\ Torn \notin Contents
  /\ NoFile \notin Files

VARIABLES
  step,      \* where a save is
  saving,    \* what it saves
  handle,    \* the file it has open
  path,      \* the file under the final name
  temp,      \* the file under the temporary name
  disk,      \* what is in the files
  loading,   \* "idle", or why the load under way removes the file; "raced" is
             \* history: a save has replaced what it read
  beside,    \* history: files opened while another save had one open
  begun      \* history: the content of the save that began last, until two overlap

vars == <<step, saving, handle, path, temp, disk, loading, beside, begun>>

Open  == {handle[w] : w \in Savers} \ {NoFile}

Init ==
  /\ step = [w \in Savers |-> "idle"]
  /\ saving = [w \in Savers |-> NoSave]
  /\ handle = [w \in Savers |-> NoFile]
  /\ path = NoFile
  /\ temp = NoFile
  /\ disk = [f \in Files |-> Torn]
  /\ loading = "idle"
  /\ beside = {}
  /\ begun = NoSave

\* A file that nothing refers to any more is as good as a new one.
Keep(named) == /\ disk' = [f \in Files |-> IF f \in named THEN disk[f] ELSE Torn]
               /\ beside' = beside \cap named

Begin(w) ==
  /\ step[w] = "idle"
  /\ step' = [step EXCEPT ![w] = "create"]
  /\ \E s \in Contents : saving' = [saving EXCEPT ![w] = s]
  /\ UNCHANGED <<handle, path, temp, disk, loading, beside, begun>>

\* File::create under the given name, which has the file f or none.
OpenFile(w, f) ==
  /\ step[w] = "create"
  /\ step' = [step EXCEPT ![w] = "write"]
  /\ handle' = [handle EXCEPT ![w] = f]
  /\ disk' = [disk EXCEPT ![f] = Torn]
  /\ beside' = IF Open = {} THEN beside \ {f} ELSE beside \cup {f}
  /\ begun' = IF Open = {} THEN saving[w] ELSE NoSave
  /\ UNCHANGED <<saving, loading>>

\* The files a name may be given: the one it has, or a new one.
Under(name) == IF name = NoFile THEN Files \ (Open \cup {path, temp}) ELSE {name}

\* Mutant: the file is written where it is.
CreateInPlace(w) ==
  \E f \in Under(path) : OpenFile(w, f) /\ path' = f /\ UNCHANGED temp

\* tempfile_in_parent
Create(w) ==
  \E f \in Under(temp) : OpenFile(w, f) /\ temp' = f /\ UNCHANGED path

\* Over what another save wrote to the same file, a tail of that may remain.
Write(w) ==
  /\ step[w] = "write"
  /\ step' = [step EXCEPT ![w] = "rename"]
  /\ LET f == handle[w]
     IN  \E c \in IF disk[f] = Torn THEN {saving[w]} ELSE {saving[w], Torn} :
           disk' = [disk EXCEPT ![f] = c]
  /\ UNCHANGED <<saving, handle, path, temp, loading, beside, begun>>

\* Mutant: the save is over when it is written.
RenameNothing(w) ==
  /\ step[w] = "rename"
  /\ step' = [step EXCEPT ![w] = "idle"]
  /\ saving' = [saving EXCEPT ![w] = NoSave]
  /\ handle' = [handle EXCEPT ![w] = NoFile]
  /\ UNCHANGED <<path, temp, disk, loading, beside, begun>>

\* The temporary name goes, with the file that has it now; without one the save
\* fails, which is logged.
Rename(w) ==
  /\ step[w] = "rename"
  /\ step' = [step EXCEPT ![w] = "idle"]
  /\ saving' = [saving EXCEPT ![w] = NoSave]
  /\ handle' = [handle EXCEPT ![w] = NoFile]
  /\ path' = IF temp = NoFile THEN path ELSE temp
  /\ temp' = NoFile
  /\ Keep({path'} \cup {handle'[v] : v \in Savers})
  /\ loading' = IF loading = "idle" \/ temp = NoFile THEN loading ELSE "raced"
  /\ begun' = IF loading = "idle" THEN begun ELSE NoSave

\* Creating, writing or renaming fails, and the save ends there.
Fail(w) ==
  /\ step[w] # "idle"
  /\ step' = [step EXCEPT ![w] = "idle"]
  /\ saving' = [saving EXCEPT ![w] = NoSave]
  /\ handle' = [handle EXCEPT ![w] = NoFile]
  /\ Keep({path, temp} \cup {handle'[v] : v \in Savers})
  /\ begun' = NoSave
  /\ UNCHANGED <<path, temp, loading>>

\* load reads the file.  It goes on only with one that does not parse, or that could
\* not be read although it is there.
Read ==
  /\ loading = "idle"
  /\ path # NoFile
  /\ \/ /\ disk[path] = Torn
        /\ loading' = "torn"
        /\ UNCHANGED begun
     \/ /\ loading' = "unread"
        /\ begun' = NoSave
  /\ UNCHANGED <<step, saving, handle, path, temp, disk, beside>>

\* It removes the file, so that it is not tried for ever; one that parses but has no
\* li_at is removed by load_sync and by load.
Remove ==
  /\ loading # "idle"
  /\ loading' \in {"idle"} \cup ({loading} \ {"unread"})
  /\ path' = NoFile
  /\ Keep({temp} \cup Open)
  /\ UNCHANGED <<step, saving, handle, temp, begun>>

\* The process stops, and the next one finds its files.
Restart ==
  /\ step' = [w \in Savers |-> "idle"]
  /\ saving' = [w \in Savers |-> NoSave]
  /\ handle' = [w \in Savers |-> NoFile]
  /\ loading' = "idle"
  /\ begun' = IF Open = {} THEN begun ELSE NoSave
  /\ Keep({path, temp})
  /\ UNCHANGED <<path, temp>>

Next ==
  \/ \E w \in Savers : Begin(w) \/ Create(w) \/ Write(w) \/ Rename(w) \/ Fail(w)
  \/ Read \/ Remove
  \/ Restart

Spec == Init /\ [][Next]_vars

-----------------------------------------------------------------------------

\* The shapes of the state: among them, a save knows its session from its beginning,
\* and has a file open just while it is between creating and renaming.
StoreTypeOK ==
  /\ step \in [Savers -> {"idle", "create", "write", "rename"}]
  /\ saving \in [Savers -> Contents \cup {NoSave}]
  /\ handle \in [Savers -> Files \cup {NoFile}]
  /\ \A w \in Savers : handle[w] # NoFile <=> step[w] \in {"write", "rename"}
  /\ \A w \in Savers : step[w] # "idle" => saving[w] \in Contents
  /\ path \in Files \cup {NoFile} /\ temp \in Files \cup {NoFile}
  /\ disk \in [Files -> Contents \cup {Torn}]
  /\ loading \in {"idle", "torn", "unread", "raced"}
  /\ beside \subseteq Files
  /\ begun \in Contents \cup {NoSave}

\* session.rs:205, "Atomic JSON persistence": once there is a session file, a crash or
\* a failure at any step of a save leaves one.  It goes only by a load, which removes
\* one that two saves were at together, one it could not read, or, unseen, one that
\* was put in the place of such a one since it read.
FileSurvives ==
  [][path # NoFile /\ path' = NoFile =>
       loading \in {"unread", "raced"} \/ path \in beside]_vars

\* When the save that began last overlapped no other, failed nowhere, replaced no file
\* that a load was about to remove, and is over, a restart loads the session it saved,
\* whatever was left of earlier ones.
LastSaveLoads ==
  begun # NoSave /\ Open = {} => path # NoFile /\ disk[path] = begun

=============================================================================
