------------------------- MODULE DeviceLibrary_proofs -------------------------
(***************************************************************************)
(* The library's invariants for any set of games and any number of renders  *)
(* and visits.  Each property has an inductive part of its own: what ids    *)
(* were given out, what an import or a removal in progress means for the    *)
(* file and the record, what a render still owes, and that the newest       *)
(* render, or a removal that will begin one, brings the grid up to date.    *)
(***************************************************************************)
EXTENDS DeviceLibrary, TLAPS

\* Nothing is stored, listed or under way for an id that was not given out.
Known ==
    /\ files \subseteq used /\ records \subseteq used /\ shown \subseteq used
    /\ bare \subseteq records
    /\ \A r \in Renders : todo[r] \subseteq used /\ read[r] \subseteq used
    /\ \A i \in Ids : Importing(i) \/ Removing(i) => i \in used

\* What an import or a removal between two of its steps has stored.
Between ==
    /\ \A i \in Ids : import[i] = "pick" => i \notin files
    /\ ~excused =>
           /\ records \ bare \subseteq files
           /\ \A i \in Ids :
                  /\ import[i] \in {"pick", "drop"} => i \notin records
                  /\ import[i] = "put" => i \in files
                  /\ remove[i] = "file" => i \notin records
                  /\ ~(Importing(i) /\ Removing(i))

\* What a render owes is on its list or has a record.
Owed ==
    \A r \in Renders :
        /\ stage[r] \in {"idle", "manifest", "read"} => due[r] = {}
        /\ stage[r] = "existing" => due[r] \subseteq todo[r]
        /\ stage[r] = "put" => due[r] \subseteq todo[r] \cup records
        /\ stage[r] = "commit" => due[r] \subseteq read[r]

\* Renders are begun in turn, and the newest has read the records as they are,
\* or will, or a removal will begin another.
Fresh ==
    /\ \A r \in Renders : r > generation => stage[r] = "idle"
    /\ page = "open" /\ ~excused =>
           /\ generation > 0
           /\ \/ stage[generation] \in {"manifest", "existing", "put", "read"}
              \/ \E i \in Ids : remove[i] = "file"
              \/ stage[generation] = "commit" /\ read[generation] = records
              \/ stage[generation] = "idle" /\ shown = records

IInv == TypeOK /\ Known /\ Between /\ Owed /\ Fresh

LEMMA Bounds == MaxRenders \in Nat /\ MaxRenders >= 1 /\ MaxVisits \in Nat
  BY BoundsAssumption

LEMMA InitIInv == Init => IInv
<1> SUFFICES ASSUME Init PROVE IInv
  OBVIOUS
<1> USE Bounds DEF Init, Nothing, AllIdle
<1>1. Nothing \in [Renders -> SUBSET Ids]
  OBVIOUS
<1>2. TypeOK
  <2>1. /\ todo \in [Renders -> SUBSET Ids] /\ read \in [Renders -> SUBSET Ids]
        /\ due \in [Renders -> SUBSET Ids]
    BY <1>1
  <2>2. generation \in 0 .. MaxRenders /\ visits \in 0 .. MaxVisits
    OBVIOUS
  <2> QED
    BY <2>1, <2>2 DEF TypeOK
<1>3. Known /\ Between /\ Owed /\ Fresh
  BY DEF Known, Between, Owed, Fresh, Importing, Removing, Renders
<1> QED
  BY <1>2, <1>3 DEF IInv

-----------------------------------------------------------------------------
(* Rendering *)

\* What the host lists is what the render owes, and all of it is on its list.
LEMMA ManifestKeeps ==
  ASSUME IInv, NEW r \in Renders, Manifest(r)
  PROVE  IInv'
<1> USE Bounds DEF IInv, TypeOK, Renders, Manifest, life, Step
<1>1. TypeOK'
  OBVIOUS
<1>2. Known'
  BY DEF Known, Importing, Removing
<1>3. Between'
  BY DEF Between, Known, Importing, Removing
<1>4. Owed'
  BY DEF Owed, Fresh
<1>5. Fresh'
  BY DEF Fresh
<1> QED
  BY <1>1, <1>2, <1>3, <1>4, <1>5

\* Without a list nothing is owed.
LEMMA NoManifestKeeps ==
  ASSUME IInv, NEW r \in Renders, NoManifest(r)
  PROVE  IInv'
<1> USE Bounds DEF IInv, TypeOK, Renders, NoManifest, life, lists, Step
<1>1. TypeOK'
  OBVIOUS
<1>2. Known'
  BY DEF Known, Importing, Removing
<1>3. Between'
  BY DEF Between, Known, Importing, Removing
<1>4. Owed'
  BY DEF Owed, Fresh
<1>5. Fresh'
  BY DEF Fresh
<1> QED
  BY <1>1, <1>2, <1>3, <1>4, <1>5

\* A listed file leaves the list only for its record.
LEMMA ExistingKeeps ==
  ASSUME IInv, NEW r \in Renders, Existing(r)
  PROVE  IInv'
<1> USE Bounds DEF IInv, TypeOK, Renders, Existing, life, Step, Missing
<1>1. TypeOK'
  OBVIOUS
<1>2. Known'
  BY DEF Known, Importing, Removing
<1>3. Between'
  BY DEF Between, Known, Importing, Removing
<1>4. Owed'
  BY DEF Owed, Fresh
<1>5. Fresh'
  BY DEF Fresh
<1> QED
  BY <1>1, <1>2, <1>3, <1>4, <1>5

\* A put that is not excused is of a stored file, by the newest render.
LEMMA PutBackKeeps ==
  ASSUME IInv, NEW r \in Renders, NEW i \in Ids, PutBack(r, i)
  PROVE  IInv'
<1> USE Bounds DEF IInv, TypeOK, Renders, PutBack, life, Excuse, Step
<1>1. TypeOK'
  OBVIOUS
<1>2. Known'
  BY DEF Known, Importing, Removing
<1>3. Between'
  <2>1. ASSUME ~excused' PROVE i \in files /\ ~Removing(i) /\ import[i] # "drop" /\ ~excused
    BY <2>1
  <2>2. \A j \in Ids : import[j] = "pick" => j \notin files
    BY DEF Between
  <2>3. ASSUME ~excused' PROVE records' \ bare \subseteq files
    BY <2>1, <2>3 DEF Between
  <2>4. ASSUME ~excused', NEW j \in Ids
        PROVE  /\ import[j] \in {"pick", "drop"} => j \notin records'
               /\ import[j] = "put" => j \in files
               /\ remove[j] = "file" => j \notin records'
               /\ ~(Importing(j) /\ Removing(j))
    <3>1. j = i => import[j] \notin {"pick", "drop"} /\ remove[j] # "file"
      BY <2>1, <2>2, <2>4 DEF Removing
    <3> QED
      BY <2>1, <2>4, <3>1 DEF Between
  <2> QED
    BY <2>2, <2>3, <2>4 DEF Between, Importing, Removing
<1>4. Owed'
  BY DEF Owed, Fresh
<1>5. Fresh'
  <2>1. r <= generation
    BY DEF Fresh
  <2>2. stage'[r] = "put" /\ \A c \in Renders : stage'[c] = stage[c]
    OBVIOUS
  <2>3. CASE r = generation
    BY <2>2, <2>3 DEF Fresh
  <2>4. CASE r < generation
    BY <2>2, <2>4 DEF Fresh
  <2> QED
    BY <2>1, <2>3, <2>4
<1> QED
  BY <1>1, <1>2, <1>3, <1>4, <1>5

\* With an empty list every file that is owed has a record by now.
LEMMA ReadKeeps ==
  ASSUME IInv, NEW r \in Renders, Read(r)
  PROVE  IInv'
<1> USE Bounds DEF IInv, TypeOK, Renders, Read, life, Step
<1>1. TypeOK'
  OBVIOUS
<1>2. Known'
  BY DEF Known, Importing, Removing
<1>3. Between'
  BY DEF Between, Known, Importing, Removing
<1>4. Owed'
  BY DEF Owed, Fresh
<1>5. Fresh'
  BY DEF Fresh
<1> QED
  BY <1>1, <1>2, <1>3, <1>4, <1>5

\* An older render ends without touching the grid.
LEMMA CommitKeeps ==
  ASSUME IInv, NEW r \in Renders, Commit(r)
  PROVE  IInv'
<1> USE Bounds DEF IInv, TypeOK, Renders, Commit, stored, life, Finish, IsCurrent
<1>1. TypeOK'
  OBVIOUS
<1>2. Known'
  BY DEF Known, Importing, Removing
<1>3. Between'
  BY DEF Between, Known, Importing, Removing
<1>4. Owed'
  BY DEF Owed, Fresh
<1>5. Fresh'
  BY DEF Fresh
<1> QED
  BY <1>1, <1>2, <1>3, <1>4, <1>5

\* A failure is excused, and owes nothing.
LEMMA RenderFailsKeeps ==
  ASSUME IInv, NEW r \in Renders, RenderFails(r)
  PROVE  IInv'
<1> USE Bounds DEF IInv, TypeOK, Renders, RenderFails, stored, life, Excuse, Finish
<1>1. TypeOK'
  OBVIOUS
<1>2. Known'
  BY DEF Known, Importing, Removing
<1>3. Between'
  BY DEF Between, Known, Importing, Removing
<1>4. Owed'
  BY DEF Owed, Fresh
<1>5. Fresh'
  BY DEF Fresh
<1> QED
  BY <1>1, <1>2, <1>3, <1>4, <1>5

-----------------------------------------------------------------------------
(* Importing *)

\* A new id is of no file and no record.
LEMMA PickKeeps ==
  ASSUME IInv, NEW i \in Ids, Pick(i)
  PROVE  IInv'
<1> USE Bounds DEF IInv, TypeOK, Renders, Pick, stored, life, lists, drawing
<1>1. TypeOK'
  OBVIOUS
<1>2. Known'
  BY DEF Known, Importing, Removing
<1>3. Between'
  BY DEF Between, Known, Importing, Removing
<1>4. Owed'
  BY DEF Owed, Fresh
<1>5. Fresh'
  BY DEF Fresh
<1> QED
  BY <1>1, <1>2, <1>3, <1>4, <1>5

\* A repair beside a removal is excused.
LEMMA RepairKeeps ==
  ASSUME IInv, NEW i \in Ids, Repair(i)
  PROVE  IInv'
<1> USE Bounds DEF IInv, TypeOK, Renders, Repair, stored, life, lists, drawing, Excuse,
             ImportStep
<1>1. TypeOK'
  OBVIOUS
<1>2. Known'
  BY DEF Known, Importing, Removing
<1>3. Between'
  <2>1. import'[i] = "repick" /\ \A j \in Ids : j # i => import'[j] = import[j]
    OBVIOUS
  <2>2. (\A j \in Ids : import[j] = "pick" => j \notin files)'
    BY <2>1 DEF Between
  <2>3. ASSUME ~excused'
        PROVE  /\ ~excused /\ records \ bare \subseteq files
               /\ ~(Removing(i))
    BY <2>3 DEF Between, Importing, Removing
  <2>4. ASSUME ~excused', NEW j \in Ids
        PROVE  /\ import'[j] \in {"pick", "drop"} => j \notin records
               /\ import'[j] = "put" => j \in files
               /\ remove'[j] = "file" => j \notin records
               /\ ~(Importing(j) /\ Removing(j))'
    BY <2>1, <2>3, <2>4 DEF Between, Importing, Removing
  <2> QED
    BY <2>2, <2>3, <2>4 DEF Between, Importing, Removing
<1>4. Owed'
  BY DEF Owed, Fresh
<1>5. Fresh'
  BY DEF Fresh
<1> QED
  BY <1>1, <1>2, <1>3, <1>4, <1>5

\* So is importing again.
LEMMA ReimportKeeps ==
  ASSUME IInv, NEW i \in Ids, Reimport(i)
  PROVE  IInv'
<1> USE Bounds DEF IInv, TypeOK, Renders, Reimport, stored, life, lists, drawing, Excuse,
             ImportStep
<1>1. TypeOK'
  OBVIOUS
<1>2. Known'
  BY DEF Known, Importing, Removing
<1>3. Between'
  <2>1. import'[i] = "repick" /\ \A j \in Ids : j # i => import'[j] = import[j]
    OBVIOUS
  <2>2. (\A j \in Ids : import[j] = "pick" => j \notin files)'
    BY <2>1 DEF Between
  <2>3. ASSUME ~excused'
        PROVE  /\ ~excused /\ records \ bare \subseteq files
               /\ ~(Removing(i))
    BY <2>3 DEF Between, Importing, Removing
  <2>4. ASSUME ~excused', NEW j \in Ids
        PROVE  /\ import'[j] \in {"pick", "drop"} => j \notin records
               /\ import'[j] = "put" => j \in files
               /\ remove'[j] = "file" => j \notin records
               /\ ~(Importing(j) /\ Removing(j))'
    BY <2>1, <2>3, <2>4 DEF Between, Importing, Removing
  <2> QED
    BY <2>2, <2>3, <2>4 DEF Between, Importing, Removing
<1>4. Owed'
  BY DEF Owed, Fresh
<1>5. Fresh'
  BY DEF Fresh
<1> QED
  BY <1>1, <1>2, <1>3, <1>4, <1>5

\* The file is there before the record is put.
LEMMA FileWrittenKeeps ==
  ASSUME IInv, NEW i \in Ids, FileWritten(i)
  PROVE  IInv'
<1> USE Bounds DEF IInv, TypeOK, Renders, FileWritten, life, lists, drawing, ImportStep
<1>1. TypeOK'
  OBVIOUS
<1>2. Known'
  BY DEF Known, Importing, Removing
<1>3. Between'
  BY DEF Between, Known, Importing, Removing
<1>4. Owed'
  BY DEF Owed, Fresh
<1>5. Fresh'
  BY DEF Fresh
<1> QED
  BY <1>1, <1>2, <1>3, <1>4, <1>5

\* Without OPFS nothing is stored.
LEMMA NothingWrittenKeeps ==
  ASSUME IInv, NEW i \in Ids, NothingWritten(i)
  PROVE  IInv'
<1> USE Bounds DEF IInv, TypeOK, Renders, NothingWritten, stored, life, lists, drawing,
             ImportStep
<1>1. TypeOK'
  OBVIOUS
<1>2. Known'
  BY DEF Known, Importing, Removing
<1>3. Between'
  BY DEF Between, Known, Importing, Removing
<1>4. Owed'
  BY DEF Owed, Fresh
<1>5. Fresh'
  BY DEF Fresh
<1> QED
  BY <1>1, <1>2, <1>3, <1>4, <1>5

\* An import that ends early stores nothing.
LEMMA NotImportedKeeps ==
  ASSUME IInv, NEW i \in Ids, NotImported(i)
  PROVE  IInv'
<1> USE Bounds DEF IInv, TypeOK, Renders, NotImported, stored, life, lists, drawing, ImportStep
<1>1. TypeOK'
  OBVIOUS
<1>2. Known'
  BY DEF Known, Importing, Removing
<1>3. Between'
  BY DEF Between, Known, Importing, Removing
<1>4. Owed'
  BY DEF Owed, Fresh
<1>5. Fresh'
  BY DEF Fresh
<1> QED
  BY <1>1, <1>2, <1>3, <1>4, <1>5

\* A file that is dropped never had a record.
LEMMA DropUnsupportedKeeps ==
  ASSUME IInv, NEW i \in Ids, DropUnsupported(i)
  PROVE  IInv'
<1> USE Bounds DEF IInv, TypeOK, Renders, DropUnsupported, life, lists, drawing, ImportStep
<1>1. TypeOK'
  OBVIOUS
<1>2. Known'
  BY DEF Known, Importing, Removing
<1>3. Between'
  BY DEF Between, Known, Importing, Removing
<1>4. Owed'
  BY DEF Owed, Fresh
<1>5. Fresh'
  BY DEF Fresh
<1> QED
  BY <1>1, <1>2, <1>3, <1>4, <1>5

\* The record goes to a file that is there, and a render follows it.
LEMMA PutImportedKeeps ==
  ASSUME IInv, NEW i \in Ids, PutImported(i)
  PROVE  IInv'
<1> USE Bounds DEF IInv, TypeOK, Renders, PutImported, life, lists, drawing, BeginRender,
             ImportStep
<1>1. TypeOK'
  <2>1. records' \subseteq Ids /\ bare' \subseteq Ids
    OBVIOUS
  <2>2. /\ generation' \in 0 .. MaxRenders
        /\ stage' \in [Renders -> {"idle", "manifest", "existing", "put", "read", "commit"}]
    OBVIOUS
  <2>3. import' \in [Ids -> {"none", "pick", "repick", "put", "bare", "drop"}]
    OBVIOUS
  <2> QED
    BY <2>1, <2>2, <2>3
<1>2. Known'
  BY DEF Known, Importing, Removing
<1>3. Between'
  BY DEF Between, Known, Importing, Removing
<1>4. Owed'
  BY DEF Owed, Fresh
<1>5. Fresh'
  BY DEF Fresh
<1> QED
  BY <1>1, <1>2, <1>3, <1>4, <1>5

-----------------------------------------------------------------------------
(* Removing *)

\* A removal beside an import is excused.
LEMMA RemoveKeeps ==
  ASSUME IInv, NEW i \in Ids, Remove(i)
  PROVE  IInv'
<1> USE Bounds DEF IInv, TypeOK, Renders, Remove, stored, life, lists, drawing, Excuse,
             Following
<1>1. TypeOK'
  OBVIOUS
<1>2. Known'
  BY DEF Known, Importing, Removing
<1>3. Between'
  <2>1. remove'[i] = "record" /\ \A j \in Ids : j # i => remove'[j] = remove[j]
    OBVIOUS
  <2>2. (\A j \in Ids : import[j] = "pick" => j \notin files)'
    BY <2>1 DEF Between
  <2>3. ASSUME ~excused'
        PROVE  /\ ~excused /\ records \ bare \subseteq files
               /\ ~(Importing(i))
    BY <2>3 DEF Between, Importing, Removing
  <2>4. ASSUME ~excused', NEW j \in Ids
        PROVE  /\ import'[j] \in {"pick", "drop"} => j \notin records
               /\ import'[j] = "put" => j \in files
               /\ remove'[j] = "file" => j \notin records
               /\ ~(Importing(j) /\ Removing(j))'
    BY <2>1, <2>3, <2>4 DEF Between, Importing, Removing
  <2> QED
    BY <2>2, <2>3, <2>4 DEF Between, Importing, Removing
<1>4. Owed'
  BY DEF Owed, Fresh
<1>5. Fresh'
  BY DEF Fresh, Removing
<1> QED
  BY <1>1, <1>2, <1>3, <1>4, <1>5

\* The record goes first; from here the end of the removal owes a render.
LEMMA DeleteRecordKeeps ==
  ASSUME IInv, NEW i \in Ids, DeleteRecord(i)
  PROVE  IInv'
<1> USE Bounds DEF IInv, TypeOK, Renders, DeleteRecord, life, Following, RemovalStep
<1>1. TypeOK'
  OBVIOUS
<1>2. Known'
  BY DEF Known, Importing, Removing
<1>3. Between'
  BY DEF Between, Known, Importing, Removing
<1>4. Owed'
  BY DEF Owed, Fresh
<1>5. Fresh'
  BY DEF Fresh
<1> QED
  BY <1>1, <1>2, <1>3, <1>4, <1>5

\* Nothing was deleted.
LEMMA DeleteFailsKeeps ==
  ASSUME IInv, NEW i \in Ids, DeleteFails(i)
  PROVE  IInv'
<1> USE Bounds DEF IInv, TypeOK, Renders, DeleteFails, stored, life, lists, drawing
<1>1. TypeOK'
  OBVIOUS
<1>2. Known'
  BY DEF Known, Importing, Removing
<1>3. Between'
  BY DEF Between, Known, Importing, Removing
<1>4. Owed'
  BY DEF Owed, Fresh
<1>5. Fresh'
  BY DEF Fresh
<1> QED
  BY <1>1, <1>2, <1>3, <1>4, <1>5

\* By now no record names the file.
LEMMA DeleteFileKeeps ==
  ASSUME IInv, NEW i \in Ids, DeleteFile(i)
  PROVE  IInv'
<1> USE Bounds DEF IInv, TypeOK, Renders, DeleteFile, life, lists, BeginRender, Following,
             RemovalStep
<1>1. TypeOK'
  OBVIOUS
<1>2. Known'
  BY DEF Known, Importing, Removing
<1>3. Between'
  BY DEF Between, Known, Importing, Removing
<1>4. Owed'
  BY DEF Owed, Fresh
<1>5. Fresh'
  BY DEF Fresh
<1> QED
  BY <1>1, <1>2, <1>3, <1>4, <1>5

-----------------------------------------------------------------------------
(* The page *)

\* A new render will read the records.
LEMMA RerenderKeeps ==
  ASSUME IInv, Rerender
  PROVE  IInv'
<1> USE Bounds DEF IInv, TypeOK, Renders, Rerender, stored, life, lists, BeginRender
<1>1. TypeOK'
  OBVIOUS
<1>2. Known'
  BY DEF Known, Importing, Removing
<1>3. Between'
  BY DEF Between, Known, Importing, Removing
<1>4. Owed'
  BY DEF Owed, Fresh
<1>5. Fresh'
  BY DEF Fresh
<1> QED
  BY <1>1, <1>2, <1>3, <1>4, <1>5

\* So will the first of a page.
LEMMA OpenKeeps ==
  ASSUME IInv, Open
  PROVE  IInv'
<1> USE Bounds DEF IInv, TypeOK, Renders, Open, stored, lists, BeginRender
<1>1. TypeOK'
  OBVIOUS
<1>2. Known'
  BY DEF Known, Importing, Removing
<1>3. Between'
  BY DEF Between, Known, Importing, Removing
<1>4. Owed'
  BY DEF Owed, Fresh
<1>5. Fresh'
  BY DEF Fresh
<1> QED
  BY <1>1, <1>2, <1>3, <1>4, <1>5

\* Nothing of the page is left, and what is stored holds by itself.
LEMMA CloseKeeps ==
  ASSUME IInv, Close
  PROVE  IInv'
<1> USE Bounds DEF IInv, TypeOK, Renders, Close, stored, Nothing, AllIdle
<1>1. TypeOK'
  OBVIOUS
<1>2. Known'
  BY DEF Known, Importing, Removing
<1>3. Between'
  BY DEF Between, Known, Importing, Removing
<1>4. Owed'
  BY DEF Owed, Fresh
<1>5. Fresh'
  BY DEF Fresh
<1> QED
  BY <1>1, <1>2, <1>3, <1>4, <1>5

-----------------------------------------------------------------------------
\* Every step of the page keeps the inductive invariant.
LEMMA Inductive == IInv /\ [Next]_vars => IInv'
<1> SUFFICES ASSUME IInv, [Next]_vars PROVE IInv'
  OBVIOUS
<1>1. ASSUME NEW r \in Renders,
             \/ Manifest(r) \/ NoManifest(r) \/ Existing(r) \/ \E i \in Ids : PutBack(r, i)
             \/ Read(r) \/ Commit(r) \/ RenderFails(r)
      PROVE  IInv'
  BY <1>1, ManifestKeeps, NoManifestKeeps, ExistingKeeps, PutBackKeeps, ReadKeeps, CommitKeeps,
     RenderFailsKeeps
<1>2. ASSUME NEW i \in Ids,
             \/ Pick(i) \/ Repair(i) \/ Reimport(i)
             \/ FileWritten(i) \/ NothingWritten(i) \/ NotImported(i)
             \/ DropUnsupported(i) \/ PutImported(i)
      PROVE  IInv'
  BY <1>2, PickKeeps, RepairKeeps, ReimportKeeps, FileWrittenKeeps, NothingWrittenKeeps,
     NotImportedKeeps, DropUnsupportedKeeps, PutImportedKeeps
<1>3. ASSUME NEW i \in Ids, Remove(i) \/ DeleteRecord(i) \/ DeleteFails(i) \/ DeleteFile(i)
      PROVE  IInv'
  BY <1>3, RemoveKeeps, DeleteRecordKeeps, DeleteFailsKeeps, DeleteFileKeeps
<1>4. CASE Rerender \/ Open \/ Close
  BY <1>4, RerenderKeeps, OpenKeeps, CloseKeeps
<1>5. CASE UNCHANGED vars
  <2>1. UNCHANGED <<kind, page, visits, files, records, bare, used, import, remove,
                    generation, stage, todo, read, due, shown, excused>>
    BY <1>5 DEF vars, life, stored, drawing, lists
  <2>2. TypeOK'
    BY <2>1 DEF IInv, TypeOK
  <2>3. Known' /\ Between'
    BY <2>1 DEF IInv, Known, Between, Importing, Removing
  <2>4. Owed' /\ Fresh'
    BY <2>1 DEF IInv, Owed, Fresh
  <2> QED
    BY <2>2, <2>3, <2>4 DEF IInv
<1> QED
  BY <1>1, <1>2, <1>3, <1>4, <1>5 DEF Next, Ended

LEMMA Invariance == Spec => []IInv
  BY InitIInv, Inductive, PTL DEF Spec

\* The type invariant.
THEOREM TypeCorrect == Spec => []TypeOK
<1>1. IInv => TypeOK
  BY DEF IInv
<1> QED
  BY <1>1, Invariance, PTL

\* remove, writeRom and the native picker never leave a record without its file,
\* at whatever step the page dies, unless the game was imported without OPFS.
THEOREM RecordsHaveFiles == Spec => []HasFile
<1>1. IInv => HasFile
  BY DEF IInv, Between, HasFile
<1> QED
  BY <1>1, Invariance, PTL

\* reconcileNativeLibrary leaves no listed file without its record.
THEOREM ListedIsRecorded == Spec => []Reconciled
<1>1. IInv => Reconciled
  BY DEF IInv, Owed, Reconciled
<1> QED
  BY <1>1, Invariance, PTL

\* isCurrentLibraryRender and the renders that end imports and removals bring the
\* grid to what is stored, in whatever order the renders end.
THEOREM GridIsCurrent == Spec => []ShownIsStored
<1>1. ASSUME IInv, page = "open", Quiet, ~excused PROVE shown = records
  <2>1. generation \in Renders
    BY <1>1, Bounds DEF IInv, TypeOK, Fresh, Renders
  <2>2. stage[generation] = "idle" /\ \A i \in Ids : remove[i] = "none"
    BY <1>1, <2>1 DEF Quiet, Removing
  <2> QED
    BY <1>1, <2>2 DEF IInv, Fresh
<1>2. IInv => ShownIsStored
  BY <1>1 DEF ShownIsStored
<1> QED
  BY <1>2, Invariance, PTL
=============================================================================
