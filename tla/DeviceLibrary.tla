---------------------------- MODULE DeviceLibrary ----------------------------
(***************************************************************************)
(* The library of games on a device (offline.js): a record of each game in  *)
(* IndexedDB and its file, in the browser's private file system or in the   *)
(* native app's folder.  Importing, removing, repairing and rendering run   *)
(* as tasks of one page that await storage and the native host, in any      *)
(* order; every render of the native app first reconciles the records with  *)
(* the files that are there.  Storage may fail, and the page may go away    *)
(* between any two steps.                                                   *)
(***************************************************************************)
EXTENDS Naturals

CONSTANTS
    Ids,         \* bound: ids of games
    MaxRenders,  \* bound: renders of one page
    MaxVisits    \* bound: times the page is opened

ASSUME BoundsAssumption == MaxRenders \in Nat \ {0} /\ MaxVisits \in Nat

VARIABLES
    kind,        \* native, browser, or bare: a browser without OPFS
    page, visits,
    files, records,  \* what is stored: ids with a file, ids with a record
    used,        \* ids that were given out
    bare,        \* ids with a record that has no file handle
    import,      \* id -> step of its import: none, pick, repick, put, bare, drop
    remove,      \* id -> what its removal deletes next: none, record, file
    generation,  \* libraryRenderState.generation
    stage,       \* render -> what it does next
    todo, read,  \* render -> the files listed or records to put, the records read
    due,         \* history: render -> listed files not removed since
    shown,       \* the cards in the grid
    excused      \* history: a step that the code does not guard has happened

stored == <<files, records>>
life == <<kind, page, visits>>
lists == <<todo, read, due>>
drawing == <<generation, stage, lists, shown>>
vars == <<life, stored, bare, used, import, remove, drawing, excused>>

Renders == 1 .. MaxRenders

TypeOK ==
    /\ kind \in {"browser", "bare", "native"} /\ page \in {"closed", "open"}
    /\ visits \in 0 .. MaxVisits /\ generation \in 0 .. MaxRenders
    /\ files \subseteq Ids /\ records \subseteq Ids /\ used \subseteq Ids
    /\ bare \subseteq Ids
    /\ shown \subseteq Ids /\ excused \in BOOLEAN
    /\ import \in [Ids -> {"none", "pick", "repick", "put", "bare", "drop"}]
    /\ remove \in [Ids -> {"none", "record", "file"}]
    /\ stage \in [Renders -> {"idle", "manifest", "existing", "put", "read", "commit"}]
    /\ todo \in [Renders -> SUBSET Ids] /\ read \in [Renders -> SUBSET Ids]
    /\ due \in [Renders -> SUBSET Ids]

Nothing == [r \in Renders |-> {}]
AllIdle == [r \in Renders |-> "idle"]

Init ==
    /\ kind \in {"browser", "bare", "native"} /\ page = "closed" /\ visits = 0
    /\ files = {} /\ records = {} /\ used = {} /\ bare = {}
    /\ import = [i \in Ids |-> "none"] /\ remove = [i \in Ids |-> "none"]
    /\ generation = 0 /\ stage = AllIdle /\ shown = {}
    /\ todo = Nothing /\ read = Nothing /\ due = Nothing
    /\ excused = FALSE

Excuse(why) == excused' = (excused \/ why)
Importing(i) == import[i] # "none"
Removing(i) == remove[i] # "none"
-----------------------------------------------------------------------------
(* Rendering *)

\* renderLibrary takes a generation; the native app reconciles first.
BeginRender ==
    /\ generation < MaxRenders /\ generation' = generation + 1
    /\ stage' = [stage EXCEPT ![generation + 1] =
                     IF kind = "native" THEN "manifest" ELSE "read"]
    /\ UNCHANGED <<lists, shown>>

\* The native bootstrap has learnt of a capability.
Rerender ==
    /\ page = "open" /\ kind = "native" /\ BeginRender
    /\ UNCHANGED <<life, stored, bare, used, import, remove, excused>>

\* One step of a render, which changes neither the generation nor the grid.
Step(r, from, to) ==
    /\ stage[r] = from /\ stage' = [stage EXCEPT ![r] = to]
    /\ UNCHANGED <<life, files, bare, used, import, remove, generation, shown>>

\* The render has ended.
Finish(r) ==
    /\ stage' = [stage EXCEPT ![r] = "idle"]
    /\ todo' = [todo EXCEPT ![r] = {}]
    /\ read' = [read EXCEPT ![r] = {}]
    /\ due' = [due EXCEPT ![r] = {}]

\* The native host lists its files ...
Manifest(r) ==
    /\ Step(r, "manifest", "existing")
    /\ todo' = [todo EXCEPT ![r] = files]
    /\ due' = [due EXCEPT ![r] = files]
    /\ UNCHANGED <<records, read, excused>>

\* ... or does not answer.
NoManifest(r) ==
    /\ Step(r, "manifest", "read")
    /\ UNCHANGED <<records, lists, excused>>

\* Mutant of Missing: only records that exist are looked at.
MissingNot(listed) == {}
Missing(listed) == listed \ records

\* The records of then are read: files without one, and files whose record
\* says something else, get a new one.
Existing(r) ==
    /\ Step(r, "existing", "put")
    /\ \E differing \in SUBSET (todo[r] \cap records) :
           todo' = [todo EXCEPT ![r] = Missing(todo[r]) \cup differing]
    /\ UNCHANGED <<records, read, due, excused>>

\* One put of reconcileNativeLibrary.  Nothing looks whether meanwhile the game
\* was removed, or a newer render has read the records.
PutBack(r, i) ==
    /\ i \in todo[r]
    /\ Step(r, "put", "put")
    /\ todo' = [todo EXCEPT ![r] = todo[r] \ {i}]
    /\ records' = records \cup {i}
    /\ Excuse(r < generation \/ i \notin files \/ Removing(i) \/ import[i] = "drop")
    /\ UNCHANGED <<read, due>>

\* All are put, or nothing was listed; the records are read for the grid.
Read(r) ==
    /\ (todo[r] = {} /\ Step(r, "put", "commit")) \/ Step(r, "read", "commit")
    /\ read' = [read EXCEPT ![r] = records]
    /\ UNCHANGED <<records, todo, due, excused>>

\* Mutant of IsCurrent: a slow older render is shown over a newer one.
IsCurrentAlways(r) == TRUE
\* isCurrentLibraryRender
IsCurrent(r) == r = generation

Commit(r) ==
    /\ stage[r] = "commit" /\ Finish(r)
    /\ shown' = IF IsCurrent(r) THEN read[r] ELSE shown
    /\ UNCHANGED <<life, stored, bare, used, import, remove, generation, excused>>

\* Storage fails: a message is shown, and the grid stays.
RenderFails(r) ==
    /\ stage[r] \in {"existing", "put", "read"} /\ Finish(r)
    /\ Excuse(TRUE)
    /\ UNCHANGED <<life, stored, bare, used, import, remove, generation, shown>>
-----------------------------------------------------------------------------
(* Importing *)

ImportStep(i, from, to) ==
    /\ import[i] = from /\ import' = [import EXCEPT ![i] = to]
    /\ UNCHANGED <<life, used, remove>>

\* The form, or the native picker, whose button is disabled while it works.
Pick(i) ==
    /\ page = "open" /\ i \notin used /\ used' = used \cup {i}
    /\ kind = "native" => \A j \in Ids : import[j] \in {"none", "repick"}
    /\ import' = [import EXCEPT ![i] = "pick"]
    /\ UNCHANGED <<life, stored, bare, remove, drawing, excused>>

\* The button of a card whose file is missing: the file is picked again.
Repair(i) ==
    /\ page = "open" /\ kind = "native" /\ i \in shown /\ i \notin files
    /\ ImportStep(i, "none", "repick")
    /\ Excuse(Removing(i))
    /\ UNCHANGED <<stored, bare, drawing>>

\* The form finds a record of the same file name without a handle, and repairs
\* it under its id.
Reimport(i) ==
    /\ page = "open" /\ kind # "native" /\ i \in bare
    /\ ImportStep(i, "none", "repick")
    /\ Excuse(Removing(i))
    /\ UNCHANGED <<stored, bare, drawing>>

\* The file is written: writeRom, or the native host's copy.  Of a native file
\* picked for the first time the system may be one the page does not support.
FileWritten(i) ==
    /\ kind # "bare"
    /\ \/ ImportStep(i, "pick", "put") \/ ImportStep(i, "repick", "put")
       \/ kind = "native" /\ ImportStep(i, "pick", "drop")
    /\ files' = files \cup {i}
    /\ UNCHANGED <<records, bare, drawing, excused>>

\* Without OPFS writeRom writes nothing and returns the File, which the form
\* deletes from the record that it then puts.
NothingWritten(i) ==
    /\ kind = "bare"
    /\ ImportStep(i, "pick", "bare") \/ ImportStep(i, "repick", "bare")
    /\ UNCHANGED <<stored, bare, drawing, excused>>

\* Nothing was picked, the import was cancelled, or writing failed.
NotImported(i) ==
    /\ ImportStep(i, "pick", "none") \/ ImportStep(i, "repick", "none")
    /\ UNCHANGED <<stored, bare, drawing, excused>>

\* The unsupported file is removed again, or stays.
DropUnsupported(i) ==
    /\ ImportStep(i, "drop", "none")
    /\ files' \in {files \ {i}, files}
    /\ UNCHANGED <<records, bare, drawing, excused>>

\* The record is put and the library rendered, or putting fails.
PutImported(i) ==
    /\ ImportStep(i, "put", "none") \/ ImportStep(i, "bare", "none")
    /\ UNCHANGED <<files, excused>>
    /\ \/ /\ records' = records \cup {i}
          /\ bare' = IF import[i] = "put" THEN bare \ {i} ELSE bare \cup {i}
          /\ BeginRender
       \/ UNCHANGED <<records, bare, drawing>>
-----------------------------------------------------------------------------
(* Removing *)

\* Mutant of Following: the file goes first.
FollowingSwapped(step) ==
    CASE step = "none" -> "file" [] step = "file" -> "record" [] OTHER -> "none"
\* First the record, then the file.
Following(step) ==
    CASE step = "none" -> "record" [] step = "record" -> "file" [] OTHER -> "none"

\* The button of a card.
Remove(i) ==
    /\ page = "open" /\ i \in shown /\ ~Removing(i)
    /\ remove' = [remove EXCEPT ![i] = Following("none")]
    /\ Excuse(Importing(i))
    /\ UNCHANGED <<life, stored, bare, used, import, drawing>>

RemovalStep(i, step) ==
    /\ remove[i] = step
    /\ remove' = [remove EXCEPT ![i] = Following(step)]
    /\ UNCHANGED <<life, used, import, excused>>

\* The record is deleted.  History: no render owes the game any more.
DeleteRecord(i) ==
    /\ RemovalStep(i, "record")
    /\ records' = records \ {i} /\ bare' = bare \ {i}
    /\ due' = [r \in Renders |-> due[r] \ {i}]
    /\ UNCHANGED <<files, generation, stage, todo, read, shown>>

\* Deleting it fails, and the removal ends.
DeleteFails(i) ==
    /\ remove[i] = "record" /\ remove' = [remove EXCEPT ![i] = "none"]
    /\ UNCHANGED <<life, stored, bare, used, import, drawing, excused>>

\* The file is removed, if that works, and the library is rendered.
DeleteFile(i) ==
    /\ RemovalStep(i, "file")
    /\ files' \in {files \ {i}, files}
    /\ BeginRender
    /\ UNCHANGED <<records, bare>>
-----------------------------------------------------------------------------
(* The page *)

\* The browser may have been updated since.
Open ==
    /\ page = "closed" /\ visits < MaxVisits
    /\ kind' = kind \/ (kind = "bare" /\ kind' = "browser")
    /\ page' = "open" /\ visits' = visits + 1
    /\ BeginRender
    /\ UNCHANGED <<stored, bare, used, import, remove, excused>>

\* The page is closed or crashes: what it was doing stops between two steps.
Close ==
    /\ page = "open" /\ page' = "closed"
    /\ import' = [i \in Ids |-> "none"] /\ remove' = [i \in Ids |-> "none"]
    /\ generation' = 0 /\ stage' = AllIdle /\ shown' = {}
    /\ todo' = Nothing /\ read' = Nothing /\ due' = Nothing
    /\ UNCHANGED <<kind, visits, stored, bare, used, excused>>

\* No more visits.
Ended == page = "closed" /\ visits = MaxVisits /\ UNCHANGED vars

Next ==
    \/ \E r \in Renders :
           \/ Manifest(r) \/ NoManifest(r) \/ Existing(r) \/ \E i \in Ids : PutBack(r, i)
           \/ Read(r) \/ Commit(r) \/ RenderFails(r)
    \/ \E i \in Ids :
           \/ Pick(i) \/ Repair(i) \/ Reimport(i)
           \/ FileWritten(i) \/ NothingWritten(i) \/ NotImported(i)
           \/ DropUnsupported(i) \/ PutImported(i)
           \/ Remove(i) \/ DeleteRecord(i) \/ DeleteFails(i) \/ DeleteFile(i)
    \/ Rerender \/ Open \/ Close \/ Ended

Spec == Init /\ [][Next]_vars
-----------------------------------------------------------------------------
(* Properties *)

Quiet == /\ \A r \in Renders : stage[r] = "idle"
         /\ \A i \in Ids : ~Importing(i) /\ ~Removing(i)

\* "A newer render must win": however renders overlap with each other, with
\* imports and with removals, when all is done the library shows the games that
\* are stored.  Excused are a storage error, and a put of the reconciliation in
\* a render that was overtaken.
ShownIsStored ==
    page = "open" /\ Quiet /\ ~excused => shown = records

\* A record has its file, whatever step the page died at.  Excepted are games
\* that the form imported without OPFS, where it stores a record only.
\* Excused are a put of the reconciliation for a game that was removed after the
\* host listed it, and a removal that overlaps with another import of the game.
HasFile == ~excused => records \ bare \subseteq files

\* "Saved on this device": refuted by the code, DeviceLibrary_bare.cfg.
Saved == ~excused => records \subseteq files

\* A render of the native app reads a record for every file that the host
\* listed to it, also one whose import died before its record, unless the game
\* was removed meanwhile.
Reconciled == \A r \in Renders : stage[r] = "commit" => due[r] \subseteq read[r]
=============================================================================
