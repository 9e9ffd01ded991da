------------------------ MODULE MetadataBackup_proofs ------------------------
(***************************************************************************)
(* Proofs about MetadataBackup for any paths, roots, names, patches and    *)
(* bounds: the types; that a bulk patch brings no name back that has left  *)
(* its dictionary and does to each comic what it says; that imports do not *)
(* multiply links; and that an import of an export gives the comics their  *)
(* metadata back.                                                          *)
(***************************************************************************)
EXTENDS MetadataBackup, TLAPS

-----------------------------------------------------------------------------
(* Types *)

LEMMA NoRowType == NoRow \in Row
  BY DEF Row

LEMMA NoBackupType == NoBackup \in Backup
  BY DEF NoBackup, Backup

LEMMA IdleType == Idle \in Job /\ Idle.op = "idle" /\ Idle.todo = {} /\ Idle.on = {}
<1>1. NoChange \in Change
  BY DEF NoChange, Change, Op, Fields
<1>2. QED
  BY <1>1, NoBackupType DEF Idle, Job

LEMMA NoExportType == NoExport \in Export /\ NoExport.pc = "idle"
  BY NoBackupType DEF NoExport, Export

LEMMA NamesType == /\ Tags \subseteq Names /\ Authors \subseteq Names
                   /\ \A field \in Fields : field \subseteq Names
                   /\ \A N \in Lists : N \subseteq Names
                   /\ \A p \in Patches : p \in Change /\ p.values \subseteq Names
  BY BackupAssumption DEF Names, Fields, Change

LEMMA SpendType ==
  ASSUME TypeOK, NEW k \in Kind, Spend(k)
  PROVE  spent' \in [Kind -> Nat]
  BY DEF TypeOK, Spend

\* The fields of a row.
LEMMA RowFields ==
  ASSUME NEW r \in Row
  PROVE  r.names \subseteq Names /\ r.locked \subseteq Fields /\ r.trashed \in BOOLEAN
<1>1. CASE r = NoRow
  BY <1>1 DEF NoRow
<1>2. CASE r # NoRow
  <2>1. r \in [names : SUBSET Names, locked : SUBSET Fields, trashed : BOOLEAN, here : {TRUE}]
    BY <1>2 DEF Row
  <2>2. QED
    BY <2>1
<1>3. QED
  BY <1>1, <1>2

\* A row that is there may be given other names, locks and another flag.
LEMMA RowType ==
  ASSUME NEW r \in Row, r.here, NEW N \in SUBSET Names, NEW L \in SUBSET Fields, NEW b \in BOOLEAN
  PROVE  /\ [r EXCEPT !.names = N] \in Row
         /\ [r EXCEPT !.names = N, !.locked = L] \in Row
         /\ [r EXCEPT !.trashed = b] \in Row
<1>0. ~ NoRow.here
  BY DEF NoRow
<1>1. r \in [names : SUBSET Names, locked : SUBSET Fields, trashed : BOOLEAN, here : {TRUE}]
  BY <1>0 DEF Row
<1>2. /\ [r EXCEPT !.names = N] \in [names : SUBSET Names, locked : SUBSET Fields, trashed : BOOLEAN, here : {TRUE}]
      /\ [r EXCEPT !.names = N, !.locked = L] \in [names : SUBSET Names, locked : SUBSET Fields, trashed : BOOLEAN, here : {TRUE}]
      /\ [r EXCEPT !.trashed = b] \in [names : SUBSET Names, locked : SUBSET Fields, trashed : BOOLEAN, here : {TRUE}]
  BY <1>1
<1>3. QED
  BY <1>2 DEF Row

\* Names that are taken out of a row, or changed where it has any, leave a row.
LEMMA WithoutType ==
  ASSUME NEW r \in Row, NEW N
  PROVE  [r EXCEPT !.names = @ \ N] \in Row
<1>1. CASE r = NoRow
  <2>1. [NoRow EXCEPT !.names = @ \ N] = NoRow
    BY DEF NoRow
  <2>2. QED
    BY <1>1, <2>1
<1>2. CASE r # NoRow
  <2>1. r.here /\ r.names \ N \in SUBSET Names
    BY <1>2, RowFields DEF Row
  <2>2. QED
    BY <2>1, RowType
<1>3. QED
  BY <1>1, <1>2

\* The comics after a write to the field of one that is there.
LEMMA FieldType ==
  ASSUME TypeOK, NEW c \in Here, NEW field \in Fields, NEW N \in SUBSET Names
  PROVE  Field(c, field, N) \in [Id -> Row]
<1>1. c \in Id /\ comics[c] \in Row /\ comics[c].here
  BY DEF Here, TypeOK
<1>2. (comics[c].names \ field) \cup N \in SUBSET Names /\ comics[c].locked \cup {field} \in SUBSET Fields
  BY <1>1, RowFields
<1>3. [comics[c] EXCEPT !.names = (comics[c].names \ field) \cup N,
                        !.locked = comics[c].locked \cup {field}] \in Row
  BY <1>1, <1>2, RowType
<1>4. QED
  BY <1>1, <1>3 DEF Field, TypeOK

LEMMA RenamedType ==
  ASSUME TypeOK, NEW old \in Names, NEW new \in Names
  PROVE  Renamed(old, new) \in [Id -> Row]
<1>1. ASSUME NEW c \in Id, old \in comics[c].names
      PROVE  [comics[c] EXCEPT !.names = (@ \ {old}) \cup {new}] \in Row
  <2>0. NoRow.names = {}
    BY DEF NoRow
  <2>1. comics[c] \in Row /\ comics[c] # NoRow
    BY <1>1, <2>0 DEF TypeOK
  <2>2. comics[c].here
    BY <2>1 DEF Row
  <2>3. (comics[c].names \ {old}) \cup {new} \in SUBSET Names
    BY <2>1, RowFields
  <2>4. QED
    BY <2>1, <2>2, <2>3, RowType
<1>2. QED
  BY <1>1 DEF Renamed, TypeOK

\* What every action has to show, the history variables of Observe aside.
Typed ==
  /\ comics' \in [Id -> Row] /\ dict' \subseteq Names /\ links' \in [Authors -> Nat]
  /\ root' \in Roots /\ job' \in Job /\ export' \in Export /\ file' \in Backup
  /\ doubled' \subseteq Authors /\ spent' \in [Kind -> Nat]

LEMMA InitType == Init => TypeOK
<1> SUFFICES ASSUME Init PROVE TypeOK
  OBVIOUS
<1>1. dict \subseteq Names
  <2>1. PICK had \in Found : dict = UNION {had[x] : x \in Rels}
    BY DEF Init
  <2>2. \A x \in Rels : had[x] \subseteq Names
    BY BackupAssumption
  <2>3. QED
    BY <2>1, <2>2
<1>2. comics \in [Id -> Row]
  <2>1. PICK had \in [Rels -> SUBSET Names] :
          comics = [c \in Id |-> IF c[1] # First THEN NoRow
                                 ELSE [NoRow EXCEPT !.here = TRUE, !.names = had[c[2]]]]
    BY BackupAssumption DEF Init
  <2>2. ASSUME NEW c \in Id PROVE [NoRow EXCEPT !.here = TRUE, !.names = had[c[2]]] \in Row
    BY DEF NoRow, Row, Id
  <2>3. QED
    BY <2>1, <2>2, NoRowType
<1>3. QED
  BY <1>1, <1>2, IdleType, NoExportType, NoBackupType, BackupAssumption DEF Init, TypeOK

LEMMA UserType == TypeOK /\ User => Typed
<1> SUFFICES ASSUME TypeOK, User PROVE Typed
  OBVIOUS
<1>0. "edit" \in Kind
  BY DEF Kind
<1>1. ASSUME NEW c \in Id, NEW field \in Fields, NEW N \in Lists, Edit(c, field, N) PROVE Typed
  BY <1>0, <1>1, SpendType, FieldType, NamesType DEF Edit, Typed, TypeOK
<1>2. ASSUME NEW n \in Names, AddName(n) PROVE Typed
  BY <1>0, <1>2, SpendType DEF AddName, Typed, TypeOK
<1>3. ASSUME NEW a \in Authors, AddLink(a) PROVE Typed
  BY <1>0, <1>3, SpendType DEF AddLink, Typed, TypeOK
<1>4. ASSUME NEW a \in Authors, DeleteLink(a) PROVE Typed
  BY <1>0, <1>4, SpendType DEF DeleteLink, Typed, TypeOK
<1>5. CASE DeleteLibrary
  BY <1>0, <1>5, SpendType, NoRowType DEF DeleteLibrary, Typed, TypeOK
<1>6. QED
  BY <1>1, <1>2, <1>3, <1>4, <1>5 DEF User

LEMMA DictionaryType == TypeOK /\ Dictionary => Typed
<1> SUFFICES ASSUME TypeOK, Dictionary PROVE Typed
  OBVIOUS
<1>0. "locked" \in Kind
  BY DEF Kind
<1>1. ASSUME NEW N \in Lists, DeleteNames(N) PROVE Typed
  <2>1. comics' \in [Id -> Row]
    BY <1>1, WithoutType DEF DeleteNames, Without, TypeOK
  <2>2. QED
    BY <1>0, <1>1, <2>1, SpendType DEF DeleteNames, Locked, Typed, TypeOK
<1>2. ASSUME NEW o \in Tags, NEW n \in Tags, RenameTag(o, n) \/ MergeTag(o, n) PROVE Typed
  <2>1. comics' \in [Id -> Row] /\ spent' \in [Kind -> Nat]
    BY <1>0, <1>2, RenamedType, NamesType, SpendType DEF RenameTag, MergeTag, Locked
  <2>2. QED
    BY <1>2, <2>1, NamesType DEF RenameTag, MergeTag, Typed, TypeOK
<1>3. ASSUME NEW o \in Authors, NEW n \in Authors, RenameAuthor(o, n) PROVE Typed
  <2>1. comics' \in [Id -> Row] /\ spent' \in [Kind -> Nat]
    BY <1>0, <1>3, RenamedType, NamesType, SpendType DEF RenameAuthor, Locked
  <2>2. QED
    BY <1>3, <2>1, NamesType DEF RenameAuthor, Typed, TypeOK
<1>4. QED
  BY <1>1, <1>2, <1>3 DEF Dictionary

LEMMA LibraryType == TypeOK /\ Library => Typed
<1> SUFFICES ASSUME TypeOK, Library PROVE Typed
  OBVIOUS
<1>0. "locked" \in Kind /\ "scan" \in Kind
  BY DEF Kind
<1>1. ASSUME NEW c \in Id, NEW b \in BOOLEAN, Mark(c, b) PROVE Typed
  <2>1. comics[c] \in Row /\ comics[c].here
    BY <1>1 DEF Mark, Here, TypeOK
  <2>2. [comics[c] EXCEPT !.trashed = b] \in Row
    BY <2>1, RowType, RowFields
  <2>3. comics' \in [Id -> Row]
    BY <1>1, <2>2 DEF Mark, TypeOK
  <2>4. QED
    BY <1>0, <1>1, <2>3, SpendType DEF Mark, Locked, Typed, TypeOK
<1>2. ASSUME NEW c \in Id, NEW N \in Lists, Scan(c, N) PROVE Typed
  <2> DEFINE kept == {field \in Fields : field \in comics[c].locked \/ N \cap field = {}}
             new == N \ UNION kept
  <2>1. comics[c] \in Row /\ new \subseteq Names
    BY NamesType DEF TypeOK
  <2>2. (comics[c].names \cap UNION kept) \cup new \in SUBSET Names
    BY <2>1, RowFields
  <2>3. [comics[c] EXCEPT !.here = TRUE, !.names = (comics[c].names \cap UNION kept) \cup new] \in Row
    <3>1. /\ comics[c].locked \in SUBSET Fields /\ comics[c].trashed \in BOOLEAN
          /\ comics[c] = [names |-> comics[c].names, locked |-> comics[c].locked,
                          trashed |-> comics[c].trashed, here |-> comics[c].here]
      BY <2>1, RowFields DEF Row, NoRow
    <3>2. QED
      BY <2>2, <3>1 DEF Row
  <2>4. comics' = [comics EXCEPT ![c].here = TRUE, ![c].names = (@ \cap UNION kept) \cup new]
        /\ dict' = dict \cup new
    BY <1>2 DEF Scan
  <2> HIDE DEF new, kept
  <2>5. comics' \in [Id -> Row]
    BY <2>3, <2>4 DEF TypeOK
  <2>6. QED
    BY <1>0, <1>2, <2>1, <2>4, <2>5, SpendType DEF Scan, Typed, TypeOK
<1>3. ASSUME NEW c \in Id, Vanish(c) PROVE Typed
  BY <1>0, <1>3, SpendType, NoRowType DEF Vanish, Typed, TypeOK
<1>4. ASSUME NEW r \in Roots, NEW X \in SUBSET Rels, ChangeRoot(r, X) PROVE Typed
  <2>1. \A c \in Id : <<root, c[2]>> \in Id
    BY DEF Id, TypeOK
  <2>2. comics' \in [Id -> Row]
    BY <1>4, <2>1, NoRowType DEF ChangeRoot, TypeOK
  <2>3. QED
    BY <1>0, <1>4, <2>2, SpendType DEF ChangeRoot, Typed, TypeOK
<1>5. QED
  BY <1>1, <1>2, <1>3, <1>4 DEF Library

LEMMA PatchType == TypeOK /\ Patch => Typed
<1> SUFFICES ASSUME TypeOK, Patch PROVE Typed
  OBVIOUS
<1>0. "locked" \in Kind
  BY DEF Kind
<1>1. ASSUME NEW C \in SUBSET Here, NEW p \in Patches, StartPatch(C, p) PROVE Typed
  <2> DEFINE snap == [c \in Id |-> IF c \in C THEN comics[c].names ELSE {}]
  <2>1. snap \in [Id -> SUBSET Names]
    BY RowFields DEF TypeOK
  <2>2. C \subseteq Id
    BY DEF Here
  <2>3. job' = [Idle EXCEPT !.op = "patch", !.todo = C, !.patch = p, !.snap = snap]
    BY <1>1 DEF StartPatch
  <2> HIDE DEF snap
  <2>4. job' \in Job
    BY <2>1, <2>2, <2>3, IdleType, NamesType DEF Job
  <2>5. QED
    BY <1>0, <1>1, <2>4, SpendType DEF StartPatch, Locked, Typed, TypeOK
<1>2. ASSUME NEW c \in job.todo, PatchOne(c) PROVE Typed
  <2> DEFINE new == Merged(job.patch, Read(c))
  <2>1. /\ c \in Id /\ job \in Job /\ job.patch.field \in Fields /\ job.patch.values \subseteq Names
        /\ job.snap \in [Id -> SUBSET Names]
    BY DEF TypeOK, Job, Change
  <2>2. new \in SUBSET Names
    BY <2>1 DEF Merged, Read
  <2>3. /\ comics' = comics \/ (c \in Here /\ comics' = Field(c, job.patch.field, new))
        /\ dict' = dict \/ dict' = dict \cup new
        /\ job' = [job EXCEPT !.todo = @ \ {c}, !.snap[c] = {}]
    BY <1>2 DEF PatchOne
  <2> HIDE DEF new
  <2>4. comics' \in [Id -> Row]
    BY <2>1, <2>2, <2>3, FieldType DEF TypeOK
  <2>5. job' \in Job
    BY <2>1, <2>3 DEF Job
  <2>6. QED
    BY <1>2, <2>2, <2>3, <2>4, <2>5 DEF PatchOne, Typed, TypeOK
<1>3. ASSUME NEW c \in job.todo, PatchOneFails(c) PROVE Typed
  <2>1. c \in Id
    BY DEF TypeOK, Job
  <2>2. job' \in Job
    BY <1>3, <2>1 DEF PatchOneFails, TypeOK, Job
  <2>3. QED
    BY <1>3, <2>2 DEF PatchOneFails, Typed, TypeOK
<1>4. CASE EndPatch
  BY <1>4, IdleType DEF EndPatch, Typed, TypeOK
<1>5. QED
  BY <1>1, <1>2, <1>3, <1>4 DEF Patch

LEMMA ExportType ==
  TypeOK /\ ((\E all \in Options : StartExport(all)) \/ ExportTags \/ ExportAuthors \/ ExportOrphans \/ FinishExport)
  => Typed
<1> SUFFICES ASSUME TypeOK,
                    (\E all \in Options : StartExport(all)) \/ ExportTags \/ ExportAuthors \/ ExportOrphans \/ FinishExport
             PROVE  Typed
  OBVIOUS
<1>0. /\ "export" \in Kind /\ Options \subseteq BOOLEAN /\ export \in Export /\ export.got \in Backup /\ export.ids \subseteq Id
      /\ \A c \in Id : comics[c].names \subseteq Names
  BY RowFields, BackupAssumption DEF Kind, Export, TypeOK
<1>1. ASSUME NEW all \in Options, StartExport(all) PROVE Typed
  <2> DEFINE saved == [c \in Id |-> IF c \in Visible THEN comics[c].names ELSE {}]
  <2>1. saved \in [Id -> SUBSET Names] /\ Visible \subseteq Id
    BY <1>0 DEF Visible, Here
  <2>2. export' = [NoExport EXCEPT !.pc = "tags", !.ids = Visible, !.all = all, !.got.saved = saved]
    BY <1>1 DEF StartExport
  <2> HIDE DEF saved
  <2>3. [NoExport.got EXCEPT !.saved = saved] \in Backup
    BY <2>1, NoExportType DEF Backup, Export
  <2>4. export' \in Export
    BY <1>0, <2>1, <2>2, <2>3, NoExportType DEF Export
  <2>5. QED
    BY <1>0, <1>1, <2>4, SpendType DEF StartExport, Typed, TypeOK
<1>2. CASE ExportTags
  <2> DEFINE read == {[id |-> c, rel |-> {}, names |-> comics[c].names \cap Tags] : c \in export.ids \cap Here}
  <2>1. read \subseteq Record
    BY <1>0 DEF Record
  <2>2. export' = [export EXCEPT !.pc = "authors", !.got.records = read]
    BY <1>2 DEF ExportTags
  <2> HIDE DEF read
  <2>3. [export.got EXCEPT !.records = read] \in Backup
    BY <1>0, <2>1 DEF Backup
  <2>4. export' \in Export
    BY <1>0, <2>2, <2>3 DEF Export
  <2>5. QED
    BY <1>2, <2>4 DEF ExportTags, Typed, TypeOK
<1>3. CASE ExportAuthors
  <2> DEFINE read == {[id |-> r.id, rel |-> Relative(r.id),
                       names |-> r.names \cup (comics[r.id].names \cap Authors)] : r \in export.got.records}
  <2>1. read \subseteq Record
    <3>1. ASSUME NEW r \in export.got.records
          PROVE  [id |-> r.id, rel |-> Relative(r.id),
                  names |-> r.names \cup (comics[r.id].names \cap Authors)] \in Record
      <4>1. r.id \in Id /\ r.names \subseteq Names
        BY <1>0, <3>1 DEF Backup, Record
      <4>2. Relative(r.id) \subseteq Rels
        BY <4>1 DEF Relative, Id
      <4>3. QED
        BY <1>0, <4>1, <4>2 DEF Record
    <3>2. QED
      BY <3>1
  <2>2. export' = [export EXCEPT !.pc = IF export.all THEN "orphans" ELSE "links", !.got.records = read]
    BY <1>3 DEF ExportAuthors
  <2> HIDE DEF read
  <2>3. [export.got EXCEPT !.records = read] \in Backup
    BY <1>0, <2>1 DEF Backup
  <2>4. export' \in Export
    BY <1>0, <2>2, <2>3 DEF Export
  <2>5. QED
    BY <1>3, <2>4 DEF ExportAuthors, Typed, TypeOK
<1>4. CASE ExportOrphans
  <2> DEFINE read == {n \in dict : \A c \in Id : n \notin comics[c].names}
  <2>1. read \subseteq Names
    BY DEF TypeOK
  <2>2. export' = [export EXCEPT !.pc = "links", !.got.orphans = read]
    BY <1>4 DEF ExportOrphans
  <2> HIDE DEF read
  <2>3. [export.got EXCEPT !.orphans = read] \in Backup
    BY <1>0, <2>1 DEF Backup
  <2>4. export' \in Export
    BY <1>0, <2>2, <2>3 DEF Export
  <2>5. QED
    BY <1>4, <2>4 DEF ExportOrphans, Typed, TypeOK
<1>5. CASE FinishExport
  <2>1. [export.got EXCEPT !.links = links, !.sure = export.ids \ stirred] \in Backup
    BY <1>0 DEF Backup, TypeOK
  <2>2. QED
    BY <1>5, <2>1, NoExportType DEF FinishExport, Typed, TypeOK
<1>6. QED
  BY <1>1, <1>2, <1>3, <1>4, <1>5

LEMMA ImportType ==
  ASSUME TypeOK,
         \/ StartImport
         \/ \E p \in job.plan : ImportOne(p) \/ ImportOneFails(p)
         \/ ImportOrphans
         \/ \E a \in Authors : ReadLinks(a) \/ WriteLinks(a)
         \/ FinishImport \/ Abort
  PROVE  Typed
<1>0. /\ job \in Job /\ job.from \in Backup /\ job.plan \subseteq Plan /\ job.had \in Nat
      /\ job.from.links \in [Authors -> Nat] /\ job.from.orphans \subseteq Names
      /\ "locked" \in Kind
  BY DEF TypeOK, Job, Backup, Kind
<1>1. CASE StartImport
  <2> DEFINE plan == {p \in {[to |-> c, rec |-> r] : c \in Id, r \in file.records} : p.to \in Matched(p.rec)}
  <2>1. plan \subseteq Plan
    <3>1. file.records \subseteq Record
      BY DEF TypeOK, Backup
    <3>2. QED
      BY <3>1 DEF Plan
  <2>2. job' = [Idle EXCEPT !.op = "import", !.from = file, !.plan = plan]
    BY <1>1 DEF StartImport
  <2> HIDE DEF plan
  <2>3. job' \in Job
    BY <2>1, <2>2, IdleType DEF Job, TypeOK
  <2>4. QED
    BY <1>0, <1>1, <2>3, SpendType DEF StartImport, Locked, Typed, TypeOK
<1>2. ASSUME NEW p \in job.plan, ImportOne(p) PROVE Typed
  <2>1. p.to \in Id /\ p.rec.names \in SUBSET Names
    BY <1>0 DEF Plan, Record
  <2>2. comics[p.to] \in Row /\ comics[p.to].here
    BY <1>2, <2>1 DEF ImportOne, Here, TypeOK
  <2>3. [comics[p.to] EXCEPT !.names = p.rec.names, !.locked = Fields] \in Row
    BY <2>1, <2>2, RowType, RowFields
  <2>4. comics' \in [Id -> Row]
    BY <1>2, <2>1, <2>3 DEF ImportOne, TypeOK
  <2>5. job' \in Job
    BY <1>0, <1>2 DEF ImportOne, Job
  <2>6. QED
    BY <1>2, <2>1, <2>4, <2>5 DEF ImportOne, Typed, TypeOK
<1>3. ASSUME NEW p \in job.plan, ImportOneFails(p) PROVE Typed
  <2>1. p.to \in Id
    BY <1>0 DEF Plan
  <2>2. job' \in Job
    BY <1>0, <1>3, <2>1 DEF ImportOneFails, Job
  <2>3. QED
    BY <1>3, <2>2 DEF ImportOneFails, Typed, TypeOK
<1>4. CASE ImportOrphans
  <2>1. job' \in Job
    BY <1>0, <1>4 DEF ImportOrphans, Job
  <2>2. QED
    BY <1>0, <1>4, <2>1 DEF ImportOrphans, Typed, TypeOK
<1>5. ASSUME NEW a \in Authors, ReadLinks(a) PROVE Typed
  <2>1. job' \in Job
    BY <1>0, <1>5 DEF ReadLinks, Job, TypeOK
  <2>2. QED
    BY <1>5, <2>1, NamesType DEF ReadLinks, Typed, TypeOK
<1>6. ASSUME NEW a \in Authors, WriteLinks(a) PROVE Typed
  <2>1. job' \in Job
    BY <1>0, <1>6 DEF WriteLinks, Job
  <2>2. links' \in [Authors -> Nat]
    BY <1>0, <1>6 DEF WriteLinks, Inserted, TypeOK
  <2>3. QED
    BY <1>6, <2>1, <2>2 DEF WriteLinks, Typed, TypeOK
<1>7. CASE FinishImport \/ Abort
  <2>1. job.from.orphans \subseteq Names
    BY DEF TypeOK, Job, Backup
  <2>2. dict' \subseteq Names
    BY <1>7, <2>1 DEF FinishImport, Abort, TypeOK
  <2>3. QED
    BY <1>7, <2>2, IdleType DEF FinishImport, Abort, Typed, TypeOK
<1>8. QED
  BY <1>1, <1>2, <1>3, <1>4, <1>5, <1>6, <1>7

LEMMA NextType == TypeOK /\ [Next]_vars => TypeOK'
<1> SUFFICES ASSUME TypeOK, [Next]_vars PROVE TypeOK'
  OBVIOUS
<1>1. CASE UNCHANGED vars
  BY <1>1 DEF vars, core, TypeOK
<1>2. CASE Next
  <2>1. Typed
    <3>1. CASE Crash
      BY <3>1, IdleType, NoExportType DEF Crash, Typed, TypeOK
    <3>2. QED
      BY <1>2, <3>1, UserType, DictionaryType, LibraryType, PatchType, ExportType, ImportType
      DEF Next, Backups
  <2>2. touched' \subseteq Id \cup Authors /\ stirred' \subseteq Id
    BY <1>2 DEF Next, Observe, TypeOK
  <2>3. QED
    BY <2>1, <2>2 DEF Typed, TypeOK
<1>3. QED
  BY <1>1, <1>2

\* The types hold in every state; in particular a place without a comic has no
\* names, locks or flags left on it.
THEOREM SpecType == Spec => []TypeOK
  BY InitType, NextType, PTL DEF Spec

-----------------------------------------------------------------------------
(* Names and dictionaries *)

\* What foreign keys promise: a name that a comic has is in its dictionary.
Attached == \A c \in Id : comics[c].names \subseteq dict

\* The names of a row that is written to.
LEMMA RowNames ==
  ASSUME NEW r \in Row
  PROVE  /\ \A N : [r EXCEPT !.names = N].names = N
         /\ \A N, L : [r EXCEPT !.names = N, !.locked = L].names = N
         /\ \A N, b : [r EXCEPT !.here = b, !.names = N].names = N
         /\ \A b : [r EXCEPT !.trashed = b].names = r.names
<1>1. r = [names |-> r.names, locked |-> r.locked, trashed |-> r.trashed, here |-> r.here]
  BY DEF Row, NoRow
<1>2. QED
  BY <1>1

LEMMA NoRowNames == NoRow.names = {}
  BY DEF NoRow

LEMMA FieldNames ==
  ASSUME TypeOK, NEW c \in Id, NEW field, NEW N
  PROVE  /\ Field(c, field, N)[c].names = (comics[c].names \ field) \cup N
         /\ \A d \in Id \ {c} : Field(c, field, N)[d] = comics[d]
<1>1. comics \in [Id -> Row] /\ comics[c] \in Row
  BY DEF TypeOK
<1>2. Field(c, field, N)[c] = [comics[c] EXCEPT !.names = (comics[c].names \ field) \cup N,
                                                !.locked = comics[c].locked \cup {field}]
  BY <1>1 DEF Field
<1>3. QED
  BY <1>1, <1>2, RowNames DEF Field

LEMMA RenamedNames ==
  ASSUME TypeOK, NEW old, NEW new, NEW c \in Id
  PROVE  Renamed(old, new)[c].names
           = IF old \in comics[c].names THEN (comics[c].names \ {old}) \cup {new} ELSE comics[c].names
<1>1. comics[c] \in Row
  BY DEF TypeOK
<1>2. Renamed(old, new)[c] = IF old \in comics[c].names
                             THEN [comics[c] EXCEPT !.names = (comics[c].names \ {old}) \cup {new}]
                             ELSE comics[c]
  BY DEF Renamed
<1>3. QED
  BY <1>1, <1>2, RowNames

\* Without the lock names only enter a dictionary.
LEMMA UserNames == TypeOK /\ Attached /\ User => Attached' /\ dict \subseteq dict' /\ job' = job
<1> SUFFICES ASSUME TypeOK, Attached, User
             PROVE  Attached' /\ dict \subseteq dict' /\ job' = job
  OBVIOUS
<1>1. ASSUME NEW c \in Id, NEW field \in Fields, NEW N \in Lists, Edit(c, field, N)
      PROVE  Attached' /\ dict \subseteq dict' /\ job' = job
  <2>1. /\ comics'[c].names = (comics[c].names \ field) \cup N
        /\ \A d \in Id \ {c} : comics'[d] = comics[d]
    BY <1>1, FieldNames DEF Edit
  <2>2. QED
    BY <1>1, <2>1 DEF Edit, Attached
<1>2. ASSUME NEW n \in Names, AddName(n) PROVE Attached' /\ dict \subseteq dict' /\ job' = job
  BY <1>2 DEF AddName, Attached
<1>3. ASSUME NEW a \in Authors, AddLink(a) \/ DeleteLink(a) PROVE Attached' /\ dict \subseteq dict' /\ job' = job
  BY <1>3 DEF AddLink, DeleteLink, Attached
<1>4. CASE DeleteLibrary
  BY <1>4, NoRowNames DEF DeleteLibrary, Attached
<1>5. QED
  BY <1>1, <1>2, <1>3, <1>4 DEF User

\* With it they leave one together with what refers to them, and no job is on.
LEMMA DictionaryNames == TypeOK /\ Attached /\ Dictionary => Attached' /\ job' = Idle
<1> SUFFICES ASSUME TypeOK, Attached, Dictionary PROVE Attached' /\ job' = Idle
  OBVIOUS
<1>1. ASSUME NEW N \in Lists, DeleteNames(N) PROVE Attached' /\ job' = Idle
  <2>1. ASSUME NEW c \in Id PROVE comics'[c].names = comics[c].names \ N
    <3>1. comics[c] \in Row /\ comics'[c] = [comics[c] EXCEPT !.names = comics[c].names \ N]
      BY <1>1 DEF DeleteNames, Without, TypeOK
    <3>2. QED
      BY <3>1, RowNames
  <2>2. QED
    BY <1>1, <2>1 DEF DeleteNames, Locked, Attached
<1>2. ASSUME NEW o, NEW n, RenameTag(o, n) \/ MergeTag(o, n) \/ RenameAuthor(o, n)
      PROVE  Attached' /\ job' = Idle
  <2>1. \A c \in Id : comics'[c].names = IF o \in comics[c].names THEN (comics[c].names \ {o}) \cup {n}
                                          ELSE comics[c].names
    BY <1>2, RenamedNames DEF RenameTag, MergeTag, RenameAuthor
  <2>2. dict' = (dict \cup {n}) \ {o} /\ n # o
    BY <1>2 DEF RenameTag, MergeTag, RenameAuthor
  <2>3. job' = Idle
    BY <1>2 DEF RenameTag, MergeTag, RenameAuthor, Locked
  <2>4. QED
    BY <2>1, <2>2, <2>3 DEF Attached
<1>3. QED
  BY <1>1, <1>2 DEF Dictionary

LEMMA LibraryNames == TypeOK /\ Attached /\ Library => Attached' /\ dict \subseteq dict' /\ job' = job
<1> SUFFICES ASSUME TypeOK, Attached, Library
             PROVE  Attached' /\ dict \subseteq dict' /\ job' = job
  OBVIOUS
<1>1. ASSUME NEW c \in Id, NEW b \in BOOLEAN, Mark(c, b) PROVE Attached' /\ dict \subseteq dict' /\ job' = job
  <2>1. /\ comics[c] \in Row /\ comics'[c] = [comics[c] EXCEPT !.trashed = b]
        /\ \A d \in Id \ {c} : comics'[d] = comics[d]
    BY <1>1 DEF Mark, TypeOK
  <2>2. comics'[c].names = comics[c].names
    BY <2>1, RowNames
  <2>3. QED
    BY <1>1, <2>1, <2>2 DEF Mark, Attached
<1>2. ASSUME NEW c \in Id, NEW N \in Lists, Scan(c, N) PROVE Attached' /\ dict \subseteq dict' /\ job' = job
  <2> DEFINE kept == {field \in Fields : field \in comics[c].locked \/ N \cap field = {}}
             new == N \ UNION kept
             stay == comics[c].names \cap UNION kept
  <2>1. comics' = [comics EXCEPT ![c].here = TRUE, ![c].names = (@ \cap UNION kept) \cup new]
        /\ dict' = dict \cup new
    BY <1>2 DEF Scan
  <2>2. stay \subseteq comics[c].names
    OBVIOUS
  <2> HIDE DEF new, kept
  <2>3. /\ comics[c] \in Row
        /\ comics'[c] = [comics[c] EXCEPT !.here = TRUE, !.names = stay \cup new]
        /\ \A d \in Id \ {c} : comics'[d] = comics[d]
    BY <2>1 DEF TypeOK
  <2> HIDE DEF stay
  <2>4. comics'[c].names = stay \cup new
    BY <2>3, RowNames
  <2>5. QED
    BY <1>2, <2>1, <2>2, <2>3, <2>4 DEF Scan, Attached
<1>3. ASSUME NEW c \in Id, Vanish(c) PROVE Attached' /\ dict \subseteq dict' /\ job' = job
  BY <1>3, NoRowNames DEF Vanish, Attached, TypeOK
<1>4. ASSUME NEW r \in Roots, NEW X \in SUBSET Rels, ChangeRoot(r, X)
      PROVE  Attached' /\ dict \subseteq dict' /\ job' = job
  <2>1. \A c \in Id : <<root, c[2]>> \in Id
    BY DEF Id, TypeOK
  <2>2. \A c \in Id : comics'[c] \in {comics[c], comics[<<root, c[2]>>], NoRow}
    BY <1>4 DEF ChangeRoot
  <2>3. QED
    BY <1>4, <2>1, <2>2, NoRowNames DEF ChangeRoot, Attached
<1>5. QED
  BY <1>1, <1>2, <1>3, <1>4 DEF Library

\* The patch reads names that are in a dictionary and adds those it writes.
LEMMA PatchNames ==
  ASSUME TypeOK, Attached, PatchRevivesNothing, Patch
  PROVE  Attached' /\ PatchRevivesNothing'
<1>1. ASSUME NEW C \in SUBSET Here, NEW p \in Patches, StartPatch(C, p)
      PROVE  Attached' /\ PatchRevivesNothing'
  <2> DEFINE snap == [c \in Id |-> IF c \in C THEN comics[c].names ELSE {}]
  <2>1. job' = [Idle EXCEPT !.op = "patch", !.todo = C, !.patch = p, !.snap = snap]
    BY <1>1 DEF StartPatch
  <2>2. \A c \in C : c \in Id /\ snap[c] \subseteq dict
    BY DEF Here, Attached
  <2> HIDE DEF snap
  <2>3. job'.todo = C /\ job'.snap = snap
    BY <2>1 DEF Idle
  <2>4. QED
    BY <1>1, <2>2, <2>3 DEF StartPatch, Attached, PatchRevivesNothing
<1>2. ASSUME NEW c \in job.todo, PatchOne(c) PROVE Attached' /\ PatchRevivesNothing'
  <2> DEFINE new == Merged(job.patch, Read(c))
  <2>1. c \in Id /\ job.todo \subseteq Id /\ job.snap \in [Id -> SUBSET Names] /\ job \in Job
    BY DEF TypeOK, Job
  <2>2. /\ \/ comics' = comics /\ dict' = dict
           \/ comics' = Field(c, job.patch.field, new) /\ dict' = dict \cup new
        /\ job' = [job EXCEPT !.todo = @ \ {c}, !.snap[c] = {}]
    BY <1>2 DEF PatchOne
  <2> HIDE DEF new
  <2>3. /\ Field(c, job.patch.field, new)[c].names = (comics[c].names \ job.patch.field) \cup new
        /\ \A d \in Id \ {c} : Field(c, job.patch.field, new)[d] = comics[d]
    BY <2>1, FieldNames
  <2>4. Attached'
    BY <2>2, <2>3 DEF Attached
  <2>5. /\ job'.todo = job.todo \ {c}
        /\ \A d \in job'.todo : job'.snap[d] = job.snap[d]
    BY <2>1, <2>2 DEF Job
  <2>6. job.op = "patch" /\ dict \subseteq dict'
    BY <1>2, <2>2 DEF PatchOne
  <2>7. QED
    BY <2>4, <2>5, <2>6 DEF PatchRevivesNothing
<1>3. ASSUME NEW c \in job.todo, PatchOneFails(c) PROVE Attached' /\ PatchRevivesNothing'
  <2>1. c \in Id /\ job.todo \subseteq Id /\ job \in Job
    BY DEF TypeOK, Job
  <2>2. /\ job'.todo = job.todo \ {c}
        /\ \A d \in job'.todo : job'.snap[d] = job.snap[d]
    BY <1>3, <2>1 DEF PatchOneFails, Job
  <2>3. QED
    BY <1>3, <2>2 DEF PatchOneFails, Attached, PatchRevivesNothing
<1>4. CASE EndPatch
  BY <1>4, IdleType DEF EndPatch, Attached, PatchRevivesNothing
<1>5. QED
  BY <1>1, <1>2, <1>3, <1>4 DEF Patch

\* Import and export read names without asking, but an import adds its own.
LEMMA BackupsNames ==
  ASSUME TypeOK, Attached, PatchRevivesNothing, Backups
  PROVE  Attached' /\ PatchRevivesNothing'
<1>1. ASSUME (\E all \in Options : StartExport(all)) \/ ExportTags \/ ExportAuthors \/ ExportOrphans \/ FinishExport
      PROVE  Attached' /\ PatchRevivesNothing'
  BY <1>1 DEF StartExport, ExportTags, ExportAuthors, ExportOrphans, FinishExport, Attached, PatchRevivesNothing
<1>2. CASE StartImport
  <2>1. job'.op = "import"
    BY <1>2 DEF StartImport, Idle
  <2>2. QED
    BY <1>2, <2>1 DEF StartImport, Attached, PatchRevivesNothing
<1>3. ASSUME NEW p \in job.plan, ImportOne(p) PROVE Attached' /\ PatchRevivesNothing'
  <2>1. p.to \in Id /\ job \in Job
    BY DEF TypeOK, Job, Plan
  <2>2. /\ comics[p.to] \in Row
        /\ comics'[p.to] = [comics[p.to] EXCEPT !.names = p.rec.names, !.locked = Fields]
        /\ \A d \in Id \ {p.to} : comics'[d] = comics[d]
    BY <1>3, <2>1 DEF ImportOne, TypeOK
  <2>3. comics'[p.to].names = p.rec.names
    BY <2>2, RowNames
  <2>4. job'.op = "import"
    BY <1>3, <2>1 DEF ImportOne, Job
  <2>5. QED
    BY <1>3, <2>2, <2>3, <2>4 DEF ImportOne, Attached, PatchRevivesNothing
<1>4. ASSUME NEW p \in job.plan, ImportOneFails(p) PROVE Attached' /\ PatchRevivesNothing'
  <2>1. job'.op = "import"
    BY <1>4 DEF ImportOneFails, TypeOK, Job
  <2>2. QED
    BY <1>4, <2>1 DEF ImportOneFails, Attached, PatchRevivesNothing
<1>5. CASE ImportOrphans
  <2>1. job'.op = "links"
    BY <1>5 DEF ImportOrphans, TypeOK, Job
  <2>2. QED
    BY <1>5, <2>1 DEF ImportOrphans, Attached, PatchRevivesNothing
<1>6. ASSUME NEW a \in Authors, ReadLinks(a) \/ WriteLinks(a) PROVE Attached' /\ PatchRevivesNothing'
  <2>1. job'.op = "links"
    BY <1>6 DEF ReadLinks, WriteLinks, TypeOK, Job
  <2>2. QED
    BY <1>6, <2>1 DEF ReadLinks, WriteLinks, Attached, PatchRevivesNothing
<1>7. CASE FinishImport \/ Abort
  <2>1. comics' = comics /\ dict \subseteq dict' /\ job'.op = "idle"
    BY <1>7, IdleType DEF FinishImport, Abort
  <2>2. QED
    BY <2>1 DEF Attached, PatchRevivesNothing
<1>8. QED
  BY <1>1, <1>2, <1>3, <1>4, <1>5, <1>6, <1>7 DEF Backups

LEMMA InitNames == Init => Attached /\ PatchRevivesNothing
<1> SUFFICES ASSUME Init PROVE Attached /\ PatchRevivesNothing
  OBVIOUS
<1>1. PICK had \in Found :
        /\ dict = UNION {had[x] : x \in Rels}
        /\ comics = [c \in Id |-> IF c[1] # First THEN NoRow
                                  ELSE [NoRow EXCEPT !.here = TRUE, !.names = had[c[2]]]]
  BY DEF Init
<1>2. ASSUME NEW c \in Id PROVE comics[c].names \subseteq dict
  <2>1. CASE c[1] # First
    BY <1>1, <2>1, NoRowNames
  <2>2. CASE c[1] = First
    <3>1. comics[c] = [NoRow EXCEPT !.here = TRUE, !.names = had[c[2]]] /\ had[c[2]] \subseteq dict
      BY <1>1, <2>2 DEF Id
    <3>2. comics[c].names = had[c[2]]
      BY <3>1, NoRowType, RowNames
    <3>3. QED
      BY <3>1, <3>2
  <2>3. QED
    BY <2>1, <2>2
<1>3. QED
  BY <1>2, IdleType DEF Init, Attached, PatchRevivesNothing

LEMMA NextNames ==
  ASSUME TypeOK, Attached, PatchRevivesNothing, [Next]_vars
  PROVE  Attached' /\ PatchRevivesNothing'
<1>1. CASE UNCHANGED vars
  BY <1>1 DEF vars, core, Attached, PatchRevivesNothing
<1>2. CASE User \/ Library
  <2>1. Attached' /\ dict \subseteq dict' /\ job' = job
    BY <1>2, UserNames, LibraryNames
  <2>2. QED
    BY <2>1 DEF PatchRevivesNothing
<1>3. CASE Dictionary
  BY <1>3, DictionaryNames, IdleType DEF PatchRevivesNothing
<1>4. CASE Crash
  BY <1>4, IdleType DEF Crash, Attached, PatchRevivesNothing
<1>5. QED
  BY <1>1, <1>2, <1>3, <1>4, PatchNames, BackupsNames DEF Next

\* A bulk patch never writes a name back that has left its dictionary since it
\* read the comics, because what takes names out waits for the write lock
\* (bulk_patch.rs, named_facet/mod.rs).
THEOREM SpecPatchRevivesNothing == Spec => []PatchRevivesNothing
<1>1. TypeOK /\ Attached /\ PatchRevivesNothing /\ [Next]_vars
      => (TypeOK /\ Attached /\ PatchRevivesNothing)'
  BY NextType, NextNames
<1>2. QED
  BY <1>1, InitType, InitNames, PTL DEF Spec

-----------------------------------------------------------------------------
(* Links *)

\* What import relies on between reading the links of an author and writing them.
ReadIsFresh ==
  /\ job.op # "links" => job.on = {}
  /\ job.had = 0 => \A a \in job.on : links[a] = 0 \/ a \in doubled
LinksInv == LinksOnce /\ ReadIsFresh

LEMMA InitLinks == Init => LinksInv
<1> SUFFICES ASSUME Init PROVE LinksInv
  OBVIOUS
<1>1. \A a \in Authors : links[a] \in {0, 1}
  BY DEF Init
<1>2. job = Idle
  BY DEF Init
<1>3. QED
  BY <1>1, <1>2, IdleType DEF LinksInv, LinksOnce, ReadIsFresh

\* The other operations, and what they leave of the links.
LEMMA OtherLinks ==
  ASSUME links' = links, doubled' = doubled, LinksInv,
         job' = job \/ job'.on = {}
  PROVE  LinksInv'
BY DEF LinksInv, LinksOnce, ReadIsFresh

LEMMA UserLinks ==
  ASSUME TypeOK, LinksInv, User
  PROVE  LinksInv'
<1>1. ASSUME NEW a \in Authors, AddLink(a) PROVE LinksInv'
  <2>1. /\ links'[a] = links[a] + 1 /\ links[a] \in Nat /\ \A b \in Authors \ {a} : links'[b] = links[b]
        /\ doubled' = IF links[a] > 0 \/ a \in job.on THEN doubled \cup {a} ELSE doubled
        /\ job' = job /\ job.on \subseteq Authors
    BY <1>1 DEF AddLink, TypeOK, Job
  <2>2. LinksOnce'
    BY <2>1 DEF LinksInv, LinksOnce
  <2>3. ReadIsFresh'
    BY <2>1 DEF LinksInv, ReadIsFresh
  <2>4. QED
    BY <2>2, <2>3 DEF LinksInv
<1>2. ASSUME NEW a \in Authors, DeleteLink(a) PROVE LinksInv'
  <2>1. /\ links'[a] = links[a] - 1 /\ links[a] \in Nat /\ links[a] > 0
        /\ \A b \in Authors \ {a} : links'[b] = links[b]
        /\ \A b \in Authors : links[b] \in Nat
        /\ doubled' = doubled /\ job' = job /\ job.on \subseteq Authors
    BY <1>2 DEF DeleteLink, TypeOK, Job
  <2>2. LinksOnce'
    BY <2>1 DEF LinksInv, LinksOnce
  <2>3. ReadIsFresh'
    BY <2>1 DEF LinksInv, ReadIsFresh
  <2>4. QED
    BY <2>2, <2>3 DEF LinksInv
<1>3. ASSUME NEW c \in Id, NEW field \in Fields, NEW N \in Lists, Edit(c, field, N) PROVE LinksInv'
  BY <1>3, OtherLinks DEF Edit
<1>4. ASSUME NEW n \in Names, AddName(n) PROVE LinksInv'
  BY <1>4, OtherLinks DEF AddName
<1>5. CASE DeleteLibrary
  BY <1>5, OtherLinks DEF DeleteLibrary
<1>6. QED
  BY <1>1, <1>2, <1>3, <1>4, <1>5 DEF User

LEMMA DictionaryLinks ==
  ASSUME TypeOK, LinksInv, Dictionary
  PROVE  LinksInv'
<1>1. ASSUME NEW N \in Lists, DeleteNames(N) PROVE LinksInv'
  <2>1. /\ \A a \in Authors : links'[a] = IF a \in N THEN 0 ELSE links[a]
        /\ doubled' = doubled \ N /\ job' = Idle
    BY <1>1 DEF DeleteNames, Locked
  <2>2. QED
    BY <2>1, IdleType DEF LinksInv, LinksOnce, ReadIsFresh
<1>2. ASSUME NEW o \in Authors, NEW n \in Authors, RenameAuthor(o, n) PROVE LinksInv'
  <2>1. /\ o # n /\ job' = Idle /\ links' = [links EXCEPT ![n] = links[o], ![o] = 0]
        /\ doubled' = (doubled \ {o}) \cup (IF o \in doubled THEN {n} ELSE {})
    BY <1>2 DEF RenameAuthor, Locked
  <2>2. links'[n] = links[o] /\ links'[o] = 0 /\ \A a \in Authors \ {o, n} : links'[a] = links[a]
    BY <2>1 DEF TypeOK
  <2>3. ASSUME NEW a \in Authors, links'[a] > 1 PROVE a \in doubled'
    <3>1. CASE a = n
      BY <2>1, <2>2, <2>3, <3>1 DEF LinksInv, LinksOnce
    <3>2. CASE a = o
      BY <2>2, <2>3, <3>2
    <3>3. CASE a \notin {o, n}
      BY <2>1, <2>2, <2>3, <3>3 DEF LinksInv, LinksOnce
    <3>4. QED
      BY <3>1, <3>2, <3>3
  <2>4. ReadIsFresh'
    BY <2>1, IdleType DEF ReadIsFresh
  <2>5. QED
    BY <2>3, <2>4 DEF LinksInv, LinksOnce
<1>3. ASSUME NEW o \in Tags, NEW n \in Tags, RenameTag(o, n) \/ MergeTag(o, n) PROVE LinksInv'
  BY <1>3, OtherLinks DEF RenameTag, MergeTag
<1>4. QED
  BY <1>1, <1>2, <1>3 DEF Dictionary

LEMMA BackupsLinks ==
  ASSUME TypeOK, LinksInv, Backups
  PROVE  LinksInv'
<1>0. job \in Job /\ job.had \in Nat /\ job.on \subseteq Authors /\ job.from.links \in [Authors -> Nat]
  BY DEF TypeOK, Job, Backup
<1>1. ASSUME (\E all \in Options : StartExport(all)) \/ ExportTags \/ ExportAuthors \/ ExportOrphans \/ FinishExport
      PROVE  LinksInv'
  BY <1>1, OtherLinks DEF StartExport, ExportTags, ExportAuthors, ExportOrphans, FinishExport
<1>2. CASE StartImport
  <2>1. job'.on = {}
    BY <1>2 DEF StartImport, Idle
  <2>2. QED
    BY <1>2, <2>1, OtherLinks DEF StartImport
<1>3. ASSUME NEW p \in job.plan, ImportOne(p) \/ ImportOneFails(p) PROVE LinksInv'
  <2>1. job.op = "import" /\ job'.on = job.on
    BY <1>0, <1>3 DEF ImportOne, ImportOneFails, Job
  <2>2. job'.on = {}
    BY <2>1 DEF LinksInv, ReadIsFresh
  <2>3. QED
    BY <1>3, <2>2, OtherLinks DEF ImportOne, ImportOneFails
<1>4. CASE ImportOrphans
  <2>1. job'.on = job.on /\ job.op = "import"
    BY <1>0, <1>4 DEF ImportOrphans, Job
  <2>2. job'.on = {}
    BY <2>1 DEF LinksInv, ReadIsFresh
  <2>3. QED
    BY <1>4, <2>2, OtherLinks DEF ImportOrphans
<1>5. ASSUME NEW a \in Authors, ReadLinks(a) PROVE LinksInv'
  <2>1. /\ job'.on = {a} /\ job'.had = links[a] /\ links' = links /\ doubled' = doubled
        /\ job'.op = "links"
    BY <1>0, <1>5 DEF ReadLinks, Job
  <2>2. QED
    BY <2>1 DEF LinksInv, LinksOnce, ReadIsFresh
<1>6. ASSUME NEW a \in Authors, WriteLinks(a) PROVE LinksInv'
  <2>1. /\ job'.on = {} /\ links[a] \in Nat /\ job.from.links[a] \in Nat
        /\ links'[a] = links[a] + Inserted(a) /\ \A b \in Authors \ {a} : links'[b] = links[b]
        /\ doubled' = IF job.had = 0 /\ job.from.links[a] > 1 THEN doubled \cup {a} ELSE doubled
        /\ job.op = "links" /\ a \in job.on
    BY <1>0, <1>6 DEF WriteLinks, Job, TypeOK
  <2>2. CASE job.had = 0
    <3>1. Inserted(a) = job.from.links[a] /\ (links[a] = 0 \/ a \in doubled)
      BY <2>1, <2>2 DEF Inserted, LinksInv, ReadIsFresh
    <3>2. QED
      BY <2>1, <2>2, <3>1 DEF LinksInv, LinksOnce, ReadIsFresh
  <2>3. CASE job.had # 0
    <3>1. Inserted(a) = 0
      BY <2>3 DEF Inserted
    <3>2. QED
      BY <2>1, <2>3, <3>1 DEF LinksInv, LinksOnce, ReadIsFresh
  <2>4. QED
    BY <2>2, <2>3
<1>7. CASE FinishImport \/ Abort
  BY <1>7, IdleType, OtherLinks DEF FinishImport, Abort
<1>8. QED
  BY <1>1, <1>2, <1>3, <1>4, <1>5, <1>6, <1>7 DEF Backups

LEMMA NextLinks ==
  ASSUME TypeOK, LinksInv, [Next]_vars
  PROVE  LinksInv'
<1>1. CASE UNCHANGED vars
  BY <1>1, OtherLinks DEF vars, core
<1>2. CASE Library
  BY <1>2, OtherLinks DEF Library, Mark, Scan, Vanish, ChangeRoot
<1>3. CASE Patch
  <2>1. ASSUME NEW C \in SUBSET Here, NEW p \in Patches, StartPatch(C, p) PROVE job'.on = {}
    BY <2>1 DEF StartPatch, Idle
  <2>2. ASSUME NEW c \in job.todo, PatchOne(c) \/ PatchOneFails(c) PROVE job'.on = {}
    <3>1. job'.on = job.on /\ job.op = "patch"
      BY <2>2 DEF PatchOne, PatchOneFails, TypeOK, Job
    <3>2. QED
      BY <3>1 DEF LinksInv, ReadIsFresh
  <2>3. EndPatch => job'.on = {}
    BY IdleType DEF EndPatch
  <2>4. QED
    BY <1>3, <2>1, <2>2, <2>3, OtherLinks DEF Patch, StartPatch, PatchOne, PatchOneFails, EndPatch
<1>4. CASE Crash
  BY <1>4, IdleType, OtherLinks DEF Crash
<1>5. QED
  BY <1>1, <1>2, <1>3, <1>4, UserLinks, DictionaryLinks, BackupsLinks DEF Next

\* Imports, repeated or cut off anywhere, give no author a second copy of a
\* link: only a user who adds it does (merge_author_links_by_name,
\* author/mod.rs:594; add_author_link:450).
THEOREM SpecLinksOnce == Spec => []LinksOnce
<1>1. TypeOK /\ LinksInv /\ [Next]_vars => (TypeOK /\ LinksInv)'
  BY NextType, NextLinks
<1>2. LinksInv => LinksOnce
  BY DEF LinksInv
<1>3. QED
  BY <1>1, <1>2, InitType, InitLinks, PTL DEF Spec

-----------------------------------------------------------------------------
(* What a bulk patch does *)

\* What a bulk patch read of a comic that nobody else changed is what it has,
\* and the values of a patch are names of its field.
PatchTrue ==
  job.op = "patch" =>
    /\ job.patch.values \subseteq job.patch.field
    /\ \A c \in job.todo \ touched : job.snap[c] = comics[c].names

\* The steps that leave the job alone, and those after which there is no patch.
LEMMA HeldPatch ==
  ASSUME TypeOK, PatchTrue, Observe, job' = job \/ job'.op # "patch"
  PROVE  PatchTrue'
<1>1. CASE job'.op # "patch"
  BY <1>1 DEF PatchTrue
<1>2. CASE job' = job /\ job'.op = "patch"
  <2>1. touched \subseteq touched' /\ \A c \in Id \ touched' : comics'[c] = comics[c]
    BY <1>2 DEF Observe
  <2>2. job.todo \subseteq Id
    BY DEF TypeOK, Job
  <2>3. QED
    BY <1>2, <2>1, <2>2 DEF PatchTrue
<1>3. QED
  BY <1>1, <1>2

\* The steps of exports and imports: none of them is a patch.
LEMMA BackupsNoPatch ==
  ASSUME TypeOK, Backups
  PROVE  job' = job \/ (job.op # "patch" /\ job'.op # "patch")
<1>0. job \in Job /\ Idle.op = "idle"
  BY IdleType DEF TypeOK
<1>1. ASSUME (\E all \in Options : StartExport(all)) \/ ExportTags \/ ExportAuthors \/ ExportOrphans \/ FinishExport
      PROVE  job' = job
  BY <1>1 DEF StartExport, ExportTags, ExportAuthors, ExportOrphans, FinishExport
<1>2. CASE StartImport
  <2>1. job'.op = "import" /\ job = Idle
    BY <1>2 DEF StartImport, Locked, Idle
  <2>2. QED
    BY <1>0, <2>1
<1>3. ASSUME NEW p \in job.plan, ImportOne(p) \/ ImportOneFails(p)
      PROVE  job.op # "patch" /\ job'.op # "patch"
  BY <1>0, <1>3 DEF ImportOne, ImportOneFails, Job
<1>4. ASSUME ImportOrphans
      PROVE  job.op # "patch" /\ job'.op # "patch"
  BY <1>0, <1>4 DEF ImportOrphans, Job
<1>5. ASSUME NEW a \in Authors, ReadLinks(a) \/ WriteLinks(a)
      PROVE  job.op # "patch" /\ job'.op # "patch"
  BY <1>0, <1>5 DEF ReadLinks, WriteLinks, Job
<1>6. CASE FinishImport \/ Abort
  BY <1>0, <1>6 DEF FinishImport, Abort
<1>7. QED
  BY <1>1, <1>2, <1>3, <1>4, <1>5, <1>6 DEF Backups

LEMMA PatchKeepsTrue ==
  ASSUME TypeOK, PatchTrue, Patch, Observe
  PROVE  PatchTrue'
<1>0. job \in Job /\ job.todo \subseteq Id /\ Idle.op = "idle"
  BY IdleType DEF TypeOK, Job
<1>1. ASSUME NEW C \in SUBSET Here, NEW p \in Patches, StartPatch(C, p) PROVE PatchTrue'
  <2> DEFINE snap == [c \in Id |-> IF c \in C THEN comics[c].names ELSE {}]
  <2>1. job' = [Idle EXCEPT !.op = "patch", !.todo = C, !.patch = p, !.snap = snap]
    BY <1>1 DEF StartPatch
  <2>2. \A c \in C : snap[c] = comics[c].names
    BY DEF Here
  <2> HIDE DEF snap
  <2>3. job'.todo = C /\ job'.snap = snap /\ job'.patch = p
    BY <2>1 DEF Idle
  <2>4. comics' = comics /\ p.values \subseteq p.field
    BY <1>1, BackupAssumption DEF StartPatch
  <2>5. QED
    BY <2>2, <2>3, <2>4 DEF PatchTrue
<1>2. ASSUME NEW c \in job.todo, PatchOne(c) \/ PatchOneFails(c) PROVE PatchTrue'
  <2>1. /\ job'.todo = job.todo \ {c} /\ job'.op = job.op /\ job'.patch = job.patch
        /\ \A d \in job'.todo : job'.snap[d] = job.snap[d]
    <3>1. c \in Id
      BY <1>0
    <3>2. CASE PatchOne(c)
      <4>1. job' = [job EXCEPT !.todo = @ \ {c}, !.snap[c] = {}]
        BY <3>2 DEF PatchOne
      <4>2. QED
        BY <1>0, <3>1, <4>1 DEF Job
    <3>3. CASE PatchOneFails(c)
      BY <1>0, <3>1, <3>3 DEF PatchOneFails, Job
    <3>4. QED
      BY <1>2, <3>2, <3>3
  <2>2. \A d \in Id \ {c} : comics'[d] = comics[d]
    BY <1>0, <1>2, FieldNames DEF PatchOne, PatchOneFails
  <2>3. job.op = "patch" /\ touched' = touched
    BY <1>2, <2>1 DEF PatchOne, PatchOneFails, Observe
  <2>4. QED
    BY <1>0, <2>1, <2>2, <2>3 DEF PatchTrue
<1>3. CASE EndPatch
  BY <1>0, <1>3 DEF EndPatch, PatchTrue
<1>4. QED
  BY <1>1, <1>2, <1>3 DEF Patch

LEMMA NextPatchTrue ==
  ASSUME TypeOK, Attached, PatchTrue, [Next]_vars
  PROVE  PatchTrue'
<1>1. CASE UNCHANGED vars
  BY <1>1 DEF vars, core, PatchTrue
<1>2. CASE User \/ Library \/ Dictionary \/ Crash \/ Backups
  <2>1. job' = job \/ job'.op # "patch"
    BY <1>2, UserNames, LibraryNames, DictionaryNames, IdleType, BackupsNoPatch DEF Crash
  <2>2. CASE Observe
    BY <2>1, <2>2, HeldPatch
  <2>3. QED
    BY <1>1, <2>2 DEF Next
<1>3. CASE Patch
  <2>1. CASE Observe
    BY <1>3, <2>1, PatchKeepsTrue
  <2>2. QED
    BY <1>1, <2>1 DEF Next
<1>4. QED
  BY <1>1, <1>2, <1>3 DEF Next

\* The action of PatchDoesWhatItSays.
PatchStep ==
  \A c \in Id : job.op = "patch" /\ c \in job.todo \ job'.todo /\ job'.op = "patch" =>
       LET was == comics[c].names now == comics'[c].names IN
       /\ now \ job.patch.field = was \ job.patch.field
       /\ c \in Here \ (touched \cup job'.failed) =>
            CASE job.patch.how = "Add" -> now = was \cup job.patch.values
              [] job.patch.how = "Remove" -> now = was \ job.patch.values
              [] OTHER -> now \cap job.patch.field = job.patch.values

LEMMA PatchOneSays ==
  ASSUME TypeOK, PatchTrue, NEW c \in job.todo, PatchOne(c),
         NEW was, NEW now, was = comics[c].names, now = comics'[c].names
  PROVE  /\ now \ job.patch.field = was \ job.patch.field
         /\ c \notin touched =>
            CASE job.patch.how = "Add" -> now = was \cup job.patch.values
              [] job.patch.how = "Remove" -> now = was \ job.patch.values
              [] OTHER -> now \cap job.patch.field = job.patch.values
<1> DEFINE F == job.patch.field
           V == job.patch.values
           cur == job.snap[c] \cap F
           new == Merged(job.patch, cur)
<1>0. /\ c \in Id /\ job.op = "patch" /\ V \subseteq F
      /\ c \notin touched => job.snap[c] = was
  BY DEF PatchOne, PatchTrue, TypeOK, Job
<1>1. Read(c) = cur /\ (Unchanged(c) <=> new = cur)
  BY DEF Read, Unchanged
<1>2. (new = cur /\ comics' = comics) \/ comics' = Field(c, F, new)
  BY <1>1 DEF PatchOne
<1>3. new = CASE job.patch.how = "Add" -> cur \cup V
              [] job.patch.how = "Remove" -> cur \ V
              [] OTHER -> V
  BY DEF Merged
<1> HIDE DEF F, V, new
<1>4. (new = cur /\ now = was) \/ now = (was \ F) \cup new
  <2>1. Field(c, F, new)[c].names = (comics[c].names \ F) \cup new
    BY <1>0, FieldNames
  <2>2. QED
    BY <1>2, <2>1
<1>5. new \subseteq F
  BY <1>0, <1>3
<1>6. now \ F = was \ F
  BY <1>4, <1>5
<1>7. ASSUME c \notin touched PROVE now = (was \ F) \cup new /\ cur = was \cap F
  BY <1>0, <1>4, <1>7
<1>8. ASSUME c \notin touched
      PROVE  CASE job.patch.how = "Add" -> now = was \cup V
              [] job.patch.how = "Remove" -> now = was \ V
              [] OTHER -> now \cap F = V
  <2>1. CASE job.patch.how = "Add"
    <3>1. new = (was \cap F) \cup V
      BY <1>3, <1>7, <1>8, <2>1
    <3>2. now = was \cup V
      BY <1>7, <1>8, <3>1
    <3>3. QED
      BY <2>1, <3>2
  <2>2. CASE job.patch.how = "Remove"
    <3>1. new = (was \cap F) \ V
      BY <1>3, <1>7, <1>8, <2>2
    <3>2. now = was \ V
      BY <1>0, <1>7, <1>8, <3>1
    <3>3. QED
      BY <2>2, <3>2
  <2>3. CASE job.patch.how \notin {"Add", "Remove"}
    <3>1. new = V
      BY <1>3, <2>3
    <3>2. now \cap F = V
      BY <1>0, <1>7, <1>8, <3>1
    <3>3. QED
      BY <2>3, <3>2
  <2>4. QED
    BY <2>1, <2>2, <2>3
<1>9. QED
  BY <1>6, <1>8 DEF F, V

LEMMA NextPatchStep ==
  ASSUME TypeOK, Attached, PatchTrue, [Next]_vars
  PROVE  PatchStep
<1> SUFFICES ASSUME NEW c \in Id, job.op = "patch", c \in job.todo \ job'.todo, job'.op = "patch",
                    NEW was, NEW now, was = comics[c].names, now = comics'[c].names
             PROVE  /\ now \ job.patch.field = was \ job.patch.field
                    /\ c \in Here \ (touched \cup job'.failed) =>
                         CASE job.patch.how = "Add" -> now = was \cup job.patch.values
                           [] job.patch.how = "Remove" -> now = was \ job.patch.values
                           [] OTHER -> now \cap job.patch.field = job.patch.values
  BY DEF PatchStep
<1>0. job \in Job /\ Idle.op = "idle"
  BY IdleType DEF TypeOK
<1>1. job' # job
  OBVIOUS
<1>2. Patch
  <2>1. ~ UNCHANGED vars
    BY <1>1 DEF vars, core
  <2>2. ~ (User \/ Library \/ Dictionary \/ Crash)
    BY <1>0, <1>1, UserNames, LibraryNames, DictionaryNames DEF Crash
  <2>3. ~ Backups
    BY <1>1, BackupsNoPatch
  <2>4. QED
    BY <2>1, <2>2, <2>3 DEF Next
<1>3. PatchOne(c) \/ PatchOneFails(c)
  <2>1. ~ EndPatch
    BY <1>0 DEF EndPatch
  <2>2. \A C \in SUBSET Here \ {{}}, p \in Patches : ~ StartPatch(C, p)
    BY <1>0 DEF StartPatch, Locked
  <2>3. PICK d \in job.todo : PatchOne(d) \/ PatchOneFails(d)
    BY <1>2, <2>1, <2>2 DEF Patch
  <2>4. job'.todo = job.todo \ {d}
    BY <1>0, <2>3 DEF PatchOne, PatchOneFails, Job
  <2>5. QED
    BY <2>3, <2>4
<1>4. CASE PatchOne(c)
  <2>1. c \in job.todo
    OBVIOUS
  <2>2. /\ now \ job.patch.field = was \ job.patch.field
        /\ c \notin touched =>
            CASE job.patch.how = "Add" -> now = was \cup job.patch.values
              [] job.patch.how = "Remove" -> now = was \ job.patch.values
              [] OTHER -> now \cap job.patch.field = job.patch.values
    BY <1>4, <2>1, PatchOneSays
  <2>3. QED
    BY <2>2
<1>5. CASE PatchOneFails(c)
  <2>1. comics' = comics /\ c \in job'.failed
    BY <1>0, <1>5 DEF PatchOneFails, Job
  <2>2. QED
    BY <2>1
<1>6. QED
  BY <1>3, <1>4, <1>5

\* A bulk patch writes what its operation says on what the comic had, unless
\* another changed the comic since it was read or its failure is reported, and
\* never touches another field (bulk_patch.rs: merge_multi_value on the metadata
\* that was loaded before the first write).
THEOREM SpecPatchDoesWhatItSays == Spec => PatchDoesWhatItSays
<1>1. Init => PatchTrue
  BY IdleType DEF Init, PatchTrue
<1>2. TypeOK /\ Attached /\ PatchRevivesNothing /\ PatchTrue /\ [Next]_vars
      => (TypeOK /\ Attached /\ PatchRevivesNothing /\ PatchTrue)'
  BY NextType, NextNames, NextPatchTrue
<1>3. TypeOK /\ Attached /\ PatchTrue /\ [Next]_vars => [PatchStep]_vars
  BY NextPatchStep
<1>4. QED
  BY <1>1, <1>2, <1>3, InitType, InitNames, PTL DEF Spec, PatchDoesWhatItSays, PatchStep

-----------------------------------------------------------------------------
(* What export and import bring back *)

\* What an export has read of the comics that stayed as they were.
Exported(c, N) == \E r \in export.got.records : r.id = c /\ r.names = N
ExportTrue ==
  export.pc # "idle" =>
    \A c \in export.ids \ stirred :
      /\ c \in Here /\ export.got.saved[c] = comics[c].names
      /\ export.pc = "authors" => Exported(c, comics[c].names \cap Tags)
      /\ export.pc \in {"orphans", "links"} => Exported(c, comics[c].names)
BackupTrue(b) == \A c \in b.sure : \E r \in b.records : r.id = c /\ r.names = b.saved[c]
BackupsTrue == BackupTrue(file) /\ BackupTrue(job.from)

\* A record that an import still has to write has its comic at its place, or the
\* library has gone; one that it has written is there, unless another one of the
\* same place has been written over it.
Alone(r, d) == \A s \in job.from.records \ {r} : d \notin Place(s)
Restored(r, d) == comics[d].names = r.names /\ comics[d].locked = Fields
Waiting(r, d) == \E p \in job.plan : p.to = d /\ p.rec = r
Importing == job.op \in {"import", "links"}
ImportTrue ==
  Importing =>
    /\ \A p \in job.plan : /\ p.rec \in job.from.records
                           /\ p.to \in Here => p.to \in Place(p.rec)
    /\ \A r \in job.from.records : \A d \in Place(r) \ (touched \cup job.failed) :
         ~ Waiting(r, d) /\ Alone(r, d) => Restored(r, d)
    /\ job.op = "links" => job.plan = {}

\* The links of a backup are to come, being compared with those of the author,
\* or there.
LinksTrue ==
  job.op = "links" =>
    /\ job.from.orphans \subseteq dict
    /\ \A a, b \in job.on : a = b
    /\ \A a \in Authors \ touched :
         /\ job.from.links[a] > 0 => a \in job.left \cup job.on \/ links[a] > 0
         /\ a \in job.on => job.had = links[a]

\* Whether there is a row, and its locks, after a write.
LEMMA RowHere ==
  ASSUME NEW r \in Row
  PROVE  /\ \A N, L : [r EXCEPT !.names = N, !.locked = L].here = r.here
         /\ \A N, L : [r EXCEPT !.names = N, !.locked = L].locked = L
<1>1. r = [names |-> r.names, locked |-> r.locked, trashed |-> r.trashed, here |-> r.here]
  BY DEF Row, NoRow
<1>2. QED
  BY <1>1

LEMMA FieldHere ==
  ASSUME TypeOK, NEW c \in Id, NEW field, NEW N
  PROVE  \A d \in Id : Field(c, field, N)[d].here = comics[d].here
<1>1. comics \in [Id -> Row] /\ comics[c] \in Row
  BY DEF TypeOK
<1>2. Field(c, field, N)[c] = [comics[c] EXCEPT !.names = (comics[c].names \ field) \cup N,
                                                !.locked = comics[c].locked \cup {field}]
  BY <1>1 DEF Field
<1>3. Field(c, field, N)[c].here = comics[c].here
  BY <1>1, <1>2, RowHere
<1>4. QED
  BY <1>1, <1>3 DEF Field

\* Export

LEMMA HeldExport ==
  ASSUME TypeOK, ExportTrue, Observe, export' = export
  PROVE  ExportTrue'
<1> SUFFICES ASSUME export.pc # "idle", NEW c \in export.ids \ stirred'
             PROVE  /\ c \in Here' /\ export.got.saved[c] = comics'[c].names
                    /\ export.pc = "authors" => Exported(c, comics'[c].names \cap Tags)
                    /\ export.pc \in {"orphans", "links"} => Exported(c, comics'[c].names)
  BY DEF ExportTrue, Exported
<1>1. c \in Id
  BY DEF TypeOK, Export
<1>2. c \notin stirred /\ comics'[c] = comics[c]
  BY <1>1 DEF Observe
<1>3. c \in Here /\ c \in Here'
  BY <1>2 DEF ExportTrue, Here
<1>4. QED
  BY <1>2, <1>3 DEF ExportTrue

LEMMA ExportKeepsTrue ==
  ASSUME TypeOK, ExportTrue, Observe, comics' = comics,
         (\E all \in Options : StartExport(all)) \/ ExportTags \/ ExportAuthors \/ ExportOrphans \/ FinishExport
  PROVE  ExportTrue'
<1>0. /\ export \in Export /\ export.got \in Backup /\ export.ids \subseteq Id /\ Here' = Here
      /\ export'.pc # "idle" => stirred' = stirred
  BY DEF TypeOK, Export, Observe, Here
<1>1. ASSUME NEW all \in Options, StartExport(all) PROVE ExportTrue'
  <2> DEFINE saved == [c \in Id |-> IF c \in Visible THEN comics[c].names ELSE {}]
  <2>1. export' = [NoExport EXCEPT !.pc = "tags", !.ids = Visible, !.all = all, !.got.saved = saved]
    BY <1>1 DEF StartExport
  <2>2. \A c \in Visible : c \in Here /\ saved[c] = comics[c].names
    BY DEF Visible, Here
  <2> HIDE DEF saved
  <2>3. export'.pc = "tags" /\ export'.ids = Visible /\ export'.got.saved = saved
    BY <2>1 DEF NoExport, NoBackup
  <2>4. QED
    BY <1>0, <2>2, <2>3 DEF ExportTrue
<1>2. CASE ExportTags
  <2> DEFINE rec(c) == [id |-> c, rel |-> {}, names |-> comics[c].names \cap Tags]
             read == {rec(c) : c \in export.ids \cap Here}
  <2>1. export' = [export EXCEPT !.pc = "authors", !.got.records = read]
    BY <1>2 DEF ExportTags
  <2>2. \A c \in export.ids \cap Here : rec(c) \in read /\ rec(c).id = c /\ rec(c).names = comics[c].names \cap Tags
    OBVIOUS
  <2> HIDE DEF read, rec
  <2>3. /\ export'.pc = "authors" /\ export'.ids = export.ids /\ export'.got.records = read
        /\ export'.got.saved = export.got.saved
    BY <1>0, <2>1 DEF Export, Backup
  <2>4. export.pc = "tags"
    BY <1>2 DEF ExportTags
  <2>5. ASSUME NEW c \in export.ids \ stirred
        PROVE  /\ c \in Here /\ export.got.saved[c] = comics[c].names
               /\ \E r \in read : r.id = c /\ r.names = comics[c].names \cap Tags
    BY <2>2, <2>4 DEF ExportTrue
  <2>6. QED
    BY <1>0, <2>3, <2>5 DEF ExportTrue, Exported
<1>3. CASE ExportAuthors
  <2> DEFINE rec(r) == [id |-> r.id, rel |-> Relative(r.id),
                        names |-> r.names \cup (comics[r.id].names \cap Authors)]
             read == {rec(r) : r \in export.got.records}
  <2>1. export' = [export EXCEPT !.pc = IF export.all THEN "orphans" ELSE "links", !.got.records = read]
    BY <1>3 DEF ExportAuthors
  <2>2. \A r \in export.got.records :
           rec(r) \in read /\ rec(r).id = r.id /\ rec(r).names = r.names \cup (comics[r.id].names \cap Authors)
    OBVIOUS
  <2> HIDE DEF read, rec
  <2>3. /\ export'.pc \in {"orphans", "links"} /\ export'.ids = export.ids /\ export'.got.records = read
        /\ export'.got.saved = export.got.saved
    BY <1>0, <2>1 DEF Export, Backup
  <2>4. export.pc = "authors"
    BY <1>3 DEF ExportAuthors
  <2>5. ASSUME NEW c \in export.ids \ stirred
        PROVE  /\ c \in Here /\ export.got.saved[c] = comics[c].names
               /\ \E r \in read : r.id = c /\ r.names = comics[c].names
    <3>1. c \in Here /\ export.got.saved[c] = comics[c].names
      BY <2>4, <2>5 DEF ExportTrue
    <3>2. PICK r \in export.got.records : r.id = c /\ r.names = comics[c].names \cap Tags
      BY <2>4, <2>5 DEF ExportTrue, Exported
    <3>3. comics[c].names \subseteq Tags \cup Authors
      BY <3>1, RowFields DEF TypeOK, Here, Names
    <3>4. rec(r) \in read /\ rec(r).id = c /\ rec(r).names = comics[c].names
      BY <2>2, <3>2, <3>3
    <3>5. QED
      BY <3>1, <3>4
  <2>6. QED
    BY <1>0, <2>3, <2>5 DEF ExportTrue, Exported
<1>4. CASE ExportOrphans
  <2>1. /\ export'.pc = "links" /\ export'.ids = export.ids
        /\ export'.got.records = export.got.records /\ export'.got.saved = export.got.saved
    BY <1>0, <1>4 DEF ExportOrphans, Export, Backup
  <2>2. export.pc = "orphans"
    BY <1>4 DEF ExportOrphans
  <2>3. QED
    BY <1>0, <2>1, <2>2 DEF ExportTrue, Exported
<1>5. CASE FinishExport
  BY <1>5, NoExportType DEF FinishExport, ExportTrue
<1>6. QED
  BY <1>1, <1>2, <1>3, <1>4, <1>5

\* No other step but a crash touches an export.
LEMMA ExportHeld ==
  ASSUME Next, ~ \/ \E all \in Options : StartExport(all)
                 \/ ExportTags \/ ExportAuthors \/ ExportOrphans \/ FinishExport \/ Crash
  PROVE  export' = export /\ file' = file
<1>1. CASE User
  BY <1>1 DEF User, Edit, AddName, AddLink, DeleteLink, DeleteLibrary
<1>2. CASE Dictionary
  BY <1>2 DEF Dictionary, DeleteNames, RenameTag, MergeTag, RenameAuthor
<1>3. CASE Library
  BY <1>3 DEF Library, Mark, Scan, Vanish, ChangeRoot
<1>4. CASE Patch
  BY <1>4 DEF Patch, StartPatch, PatchOne, PatchOneFails, EndPatch
<1>5. CASE Backups
  <2>1. StartImport => export' = export /\ file' = file
    BY DEF StartImport
  <2>2. \A p : ImportOne(p) \/ ImportOneFails(p) => export' = export /\ file' = file
    BY DEF ImportOne, ImportOneFails
  <2>3. \A a : ReadLinks(a) \/ WriteLinks(a) => export' = export /\ file' = file
    BY DEF ReadLinks, WriteLinks
  <2>4. ImportOrphans \/ FinishImport \/ Abort => export' = export /\ file' = file
    BY DEF ImportOrphans, FinishImport, Abort
  <2>5. QED
    BY <1>5, <2>1, <2>2, <2>3, <2>4 DEF Backups
<1>6. QED
  BY <1>1, <1>2, <1>3, <1>4, <1>5 DEF Next

LEMMA NextExport ==
  ASSUME TypeOK, ExportTrue, [Next]_vars
  PROVE  ExportTrue'
<1>1. CASE UNCHANGED vars
  BY <1>1 DEF vars, core, ExportTrue, Exported, Here
<1>2. CASE Next
  <2>1. Observe
    BY <1>2 DEF Next
  <2>2. CASE \/ \E all \in Options : StartExport(all)
             \/ ExportTags \/ ExportAuthors \/ ExportOrphans \/ FinishExport
    <3>1. comics' = comics
      BY <2>2 DEF StartExport, ExportTags, ExportAuthors, ExportOrphans, FinishExport
    <3>2. QED
      BY <2>1, <2>2, <3>1, ExportKeepsTrue
  <2>3. CASE Crash
    BY <2>3, NoExportType DEF Crash, ExportTrue
  <2>4. QED
    BY <1>2, <2>1, <2>2, <2>3, ExportHeld, HeldExport
<1>3. QED
  BY <1>1, <1>2

\* Where the backup comes from that the lock holder has.
LEMMA JobFrom ==
  ASSUME TypeOK, Attached, Next
  PROVE  job'.from \in {job.from, file, NoBackup}
<1>0. job \in Job /\ Idle.from = NoBackup
  BY DEF TypeOK, Idle
<1>1. CASE User \/ Dictionary \/ Library \/ Crash
  BY <1>0, <1>1, UserNames, DictionaryNames, LibraryNames DEF Crash
<1>2. CASE Patch
  <2>1. ASSUME NEW C \in SUBSET Here, NEW p \in Patches, StartPatch(C, p) PROVE job'.from = NoBackup
    BY <2>1 DEF StartPatch, Idle
  <2>2. ASSUME NEW c \in job.todo, PatchOne(c) \/ PatchOneFails(c) PROVE job'.from = job.from
    BY <1>0, <2>2 DEF PatchOne, PatchOneFails, Job
  <2>3. QED
    BY <1>0, <1>2, <2>1, <2>2 DEF Patch, EndPatch
<1>3. CASE Backups
  <2>1. ASSUME (\E all \in Options : StartExport(all)) \/ ExportTags \/ ExportAuthors \/ ExportOrphans \/ FinishExport
        PROVE  job' = job
    BY <2>1 DEF StartExport, ExportTags, ExportAuthors, ExportOrphans, FinishExport
  <2>2. StartImport => job'.from = file
    BY DEF StartImport, Idle
  <2>3. ASSUME NEW p \in job.plan, ImportOne(p) \/ ImportOneFails(p) PROVE job'.from = job.from
    BY <1>0, <2>3 DEF ImportOne, ImportOneFails, Job
  <2>4. ASSUME NEW a \in Authors, ReadLinks(a) \/ WriteLinks(a) PROVE job'.from = job.from
    BY <1>0, <2>4 DEF ReadLinks, WriteLinks, Job
  <2>5. ImportOrphans => job'.from = job.from
    BY <1>0 DEF ImportOrphans, Job
  <2>6. FinishImport \/ Abort => job'.from = NoBackup
    BY <1>0 DEF FinishImport, Abort
  <2>7. QED
    BY <1>3, <2>1, <2>2, <2>3, <2>4, <2>5, <2>6 DEF Backups
<1>4. QED
  BY <1>1, <1>2, <1>3 DEF Next

LEMMA NextBackups ==
  ASSUME TypeOK, Attached, ExportTrue, BackupsTrue, [Next]_vars
  PROVE  BackupsTrue'
<1>1. CASE UNCHANGED vars
  BY <1>1 DEF vars, core, BackupsTrue, BackupTrue
<1>2. CASE Next
  <2>1. BackupTrue(file')
    <3>1. CASE FinishExport
      <4>1. export.pc = "links" /\ export.got \in Backup
        BY <3>1 DEF FinishExport, TypeOK, Export
      <4>2. /\ file'.records = export.got.records /\ file'.saved = export.got.saved
            /\ file'.sure = export.ids \ stirred
        BY <3>1, <4>1 DEF FinishExport, Backup
      <4>3. \A c \in export.ids \ stirred :
               \E r \in export.got.records : r.id = c /\ r.names = export.got.saved[c]
        BY <4>1 DEF ExportTrue, Exported
      <4>4. QED
        BY <4>2, <4>3 DEF BackupTrue
    <3>2. CASE ~ FinishExport
      <4>1. file' = file
        BY <1>2, <3>2, ExportHeld DEF StartExport, ExportTags, ExportAuthors, ExportOrphans, Crash
      <4>2. QED
        BY <4>1 DEF BackupsTrue
    <3>3. QED
      BY <3>1, <3>2
  <2>2. BackupTrue(NoBackup)
    BY DEF BackupTrue, NoBackup
  <2>3. BackupTrue(job'.from)
    BY <1>2, <2>2, JobFrom DEF BackupsTrue
  <2>4. QED
    BY <2>1, <2>3 DEF BackupsTrue, BackupTrue
<1>3. QED
  BY <1>1, <1>2

\* Import

\* Steps that leave what an import still has to do, or have it no longer: other
\* comics may change, and then are among those touched, or all of them go.
LEMMA HeldImport ==
  ASSUME TypeOK, ImportTrue, Importing' => Importing,
         job'.plan = job.plan, job'.from = job.from, job'.failed = job.failed,
         job'.op = "links" => job.plan = {},
         root' = root, Here' = Here \/ Here' = {},
         Importing' => touched \subseteq touched' /\ \A c \in Id \ touched' : comics'[c] = comics[c]
  PROVE  ImportTrue'
<1> SUFFICES ASSUME Importing', Importing PROVE ImportTrue'
  BY DEF ImportTrue
<1>1. CASE Here' = {}
  <2>1. \A r : Place(r)' = {}
    BY <1>1 DEF Place
  <2>2. QED
    BY <1>1, <2>1 DEF ImportTrue
<1>2. CASE Here' = Here
  <2>1. \A r : Place(r)' = Place(r)
    BY <1>2 DEF Place
  <2>2. \A r, d : (Waiting(r, d)' <=> Waiting(r, d)) /\ (Alone(r, d)' <=> Alone(r, d))
    BY <2>1 DEF Waiting, Alone
  <2>3. ASSUME NEW r \in job.from.records, NEW d \in Place(r) \ (touched' \cup job.failed),
               ~ Waiting(r, d), Alone(r, d)
        PROVE  Restored(r, d)'
    <3>1. d \in Id
      BY DEF Place, Here
    <3>2. comics'[d] = comics[d] /\ d \notin touched
      BY <3>1, <2>3
    <3>3. Restored(r, d)
      BY <2>3, <3>2 DEF ImportTrue
    <3>4. QED
      BY <3>2, <3>3 DEF Restored
  <2>4. \A p \in job.plan : p.rec \in job.from.records /\ (p.to \in Here => p.to \in Place(p.rec))
    BY DEF ImportTrue
  <2>5. QED
    BY <1>2, <2>1, <2>2, <2>3, <2>4 DEF ImportTrue
<1>3. QED
  BY <1>1, <1>2

\* A step that is not the job's, seen by the job.
LEMMA Touched ==
  ASSUME Observe
  PROVE  /\ job'.op # "idle" => touched \subseteq touched'
         /\ job' = job /\ job'.op # "idle"
              => /\ \A c \in Id \ touched' : comics'[c] = comics[c]
                 /\ \A a \in Authors \ touched' : links'[a] = links[a]
         /\ job' # job /\ job'.op # "idle" => touched' = touched
BY DEF Observe

LEMMA UserImport ==
  ASSUME TypeOK, Attached, ImportTrue, User, Observe
  PROVE  ImportTrue'
<1>1. job' = job
  BY UserNames
<1>2. root' = root
  BY DEF User, Edit, AddName, AddLink, DeleteLink, DeleteLibrary
<1>3. Here' = Here \/ Here' = {}
  <2>1. ASSUME NEW c \in Id, NEW field \in Fields, NEW N \in Lists, Edit(c, field, N) PROVE Here' = Here
    <3>1. \A d \in Id : comics'[d].here = comics[d].here
      BY <2>1, FieldHere DEF Edit
    <3>2. QED
      BY <3>1 DEF Here
  <2>2. DeleteLibrary => Here' = {}
    BY DEF DeleteLibrary, Here, NoRow
  <2>3. \A n : AddName(n) \/ AddLink(n) \/ DeleteLink(n) => Here' = Here
    BY DEF AddName, AddLink, DeleteLink, Here
  <2>4. QED
    BY <2>1, <2>2, <2>3 DEF User
<1>4. Importing' => touched \subseteq touched' /\ \A c \in Id \ touched' : comics'[c] = comics[c]
  BY <1>1, Touched DEF Importing
<1>5. (Importing' => Importing) /\ (job'.op = "links" => job.plan = {})
  BY <1>1 DEF Importing, ImportTrue
<1>6. QED
  BY <1>1, <1>2, <1>3, <1>4, <1>5, HeldImport

\* What an import writes.
LEMMA ImportOneTrue ==
  ASSUME TypeOK, ImportTrue, Observe, NEW p \in job.plan, ImportOne(p) \/ ImportOneFails(p)
  PROVE  ImportTrue'
<1>0. job \in Job /\ p.to \in Id /\ job.op = "import"
  BY DEF TypeOK, Job, Plan, ImportOne, ImportOneFails
<1>1. /\ job'.plan = job.plan \ {p} /\ job'.from = job.from /\ job'.op = "import"
      /\ ImportOne(p) => job'.failed = job.failed
      /\ ImportOneFails(p) => job'.failed = job.failed \cup {p.to}
  BY <1>0 DEF ImportOne, ImportOneFails, Job
<1>2. touched' = touched
  BY <1>1 DEF Observe
<1>3. /\ \A d \in Id \ {p.to} : comics'[d] = comics[d]
      /\ ImportOneFails(p) => comics' = comics
      /\ ImportOne(p) => /\ comics'[p.to].names = p.rec.names /\ comics'[p.to].locked = Fields
                         /\ comics'[p.to].here = comics[p.to].here
  <2>1. ASSUME ImportOne(p)
        PROVE  /\ comics'[p.to].names = p.rec.names /\ comics'[p.to].locked = Fields
               /\ comics'[p.to].here = comics[p.to].here
               /\ \A d \in Id \ {p.to} : comics'[d] = comics[d]
    <3>1. /\ comics[p.to] \in Row
          /\ comics'[p.to] = [comics[p.to] EXCEPT !.names = p.rec.names, !.locked = Fields]
          /\ \A d \in Id \ {p.to} : comics'[d] = comics[d]
      BY <1>0, <2>1 DEF ImportOne, TypeOK
    <3>2. QED
      BY <3>1, RowNames, RowHere
  <2>2. ImportOneFails(p) => comics' = comics
    BY DEF ImportOneFails
  <2>3. QED
    BY <2>1, <2>2
<1>4. Here' = Here /\ root' = root
  <2>1. \A d \in Id : comics'[d].here = comics[d].here
    BY <1>3
  <2>2. QED
    BY <2>1 DEF Here, ImportOne, ImportOneFails
<1>5. \A r : Place(r)' = Place(r)
  BY <1>4 DEF Place
<1>6. \A r, d : Alone(r, d)' <=> Alone(r, d)
  BY <1>1, <1>5 DEF Alone
<1>7. Importing
  BY <1>0 DEF Importing
<1>8. ASSUME NEW r \in job.from.records, NEW d \in Place(r) \ (touched \cup job'.failed),
             ~ Waiting(r, d)', Alone(r, d)
      PROVE  Restored(r, d)'
  <2>1. d \in Id
    BY DEF Place, Here
  <2>2. CASE d # p.to
    <3>1. ~ Waiting(r, d)
      BY <1>1, <1>8, <2>2 DEF Waiting
    <3>2. d \notin job.failed
      BY <1>1, <1>8
    <3>3. Restored(r, d)
      BY <1>7, <1>8, <3>1, <3>2 DEF ImportTrue
    <3>4. QED
      BY <1>3, <2>1, <2>2, <3>3 DEF Restored
  <2>3. CASE d = p.to
    <3>1. ImportOne(p)
      BY <1>1, <1>8, <2>3
    <3>2. p.rec \in job.from.records /\ d \in Place(p.rec)
      BY <1>7, <2>3, <3>1 DEF ImportTrue, ImportOne
    <3>3. p.rec = r
      BY <1>8, <3>2 DEF Alone
    <3>4. QED
      BY <1>3, <2>3, <3>1, <3>3 DEF Restored
  <2>4. QED
    BY <2>2, <2>3
<1>9. \A q \in job'.plan : q.rec \in job.from.records /\ (q.to \in Here => q.to \in Place(q.rec))
  BY <1>1, <1>7 DEF ImportTrue
<1>10. QED
  BY <1>1, <1>2, <1>4, <1>5, <1>6, <1>8, <1>9 DEF ImportTrue

LEMMA BackupsImport ==
  ASSUME TypeOK, ImportTrue, Backups, Observe
  PROVE  ImportTrue'
<1>0. job \in Job /\ Idle.op = "idle"
  BY IdleType DEF TypeOK
<1>1. ASSUME comics' = comics, root' = root,
             Importing' => Importing,
             job'.plan = job.plan, job'.from = job.from, job'.failed = job.failed,
             job'.op = "links" => job.plan = {}
      PROVE  ImportTrue'
  <2>1. Here' = Here
    BY <1>1 DEF Here
  <2>2. Importing' => touched \subseteq touched'
    BY Touched DEF Importing
  <2>3. QED
    BY <1>1, <2>1, <2>2, HeldImport
<1>2. ASSUME (\E all \in Options : StartExport(all)) \/ ExportTags \/ ExportAuthors \/ ExportOrphans \/ FinishExport
      PROVE  ImportTrue'
  <2>1. job' = job /\ comics' = comics /\ root' = root
    BY <1>2 DEF StartExport, ExportTags, ExportAuthors, ExportOrphans, FinishExport
  <2>2. (Importing' => Importing) /\ (job'.op = "links" => job.plan = {})
    BY <2>1 DEF Importing, ImportTrue
  <2>3. QED
    BY <1>1, <2>1, <2>2
<1>3. CASE StartImport
  <2> DEFINE all == {[to |-> c, rec |-> r] : c \in Id, r \in file.records}
             plan == {p \in all : p.to \in Matched(p.rec)}
  <2>1. job' = [Idle EXCEPT !.op = "import", !.from = file, !.plan = plan] /\ comics' = comics /\ root' = root
    BY <1>3 DEF StartImport
  <2>2. \A p \in plan : p.rec \in file.records /\ p.to \in Matched(p.rec)
    OBVIOUS
  <2>3. \A c \in Id, r \in file.records : c \in Matched(r) => \E p \in plan : p.to = c /\ p.rec = r
    <3>1. ASSUME NEW c \in Id, NEW r \in file.records, c \in Matched(r)
          PROVE  \E p \in plan : p.to = c /\ p.rec = r
      <4>1. [to |-> c, rec |-> r] \in all
        OBVIOUS
      <4>2. [to |-> c, rec |-> r] \in plan
        BY <3>1, <4>1
      <4>3. QED
        BY <4>2
    <3>2. QED
      BY <3>1
  <2> HIDE DEF all, plan
  <2>4. job'.op = "import" /\ job'.from = file /\ job'.plan = plan
    BY <2>1 DEF Idle
  <2>5. \A r : Place(r)' = Matched(r)
    BY <2>1 DEF Place, Matched, Here
  <2>6. \A p \in job'.plan : p.rec \in job'.from.records /\ p.to \in Place(p.rec)'
    BY <2>2, <2>4, <2>5
  <2>7. \A r \in job'.from.records : \A d \in Place(r)' : Waiting(r, d)'
    <3>1. \A r : Matched(r) \subseteq Id
      BY DEF Matched, Here
    <3>2. QED
      BY <2>3, <2>4, <2>5, <3>1 DEF Waiting
  <2>8. QED
    BY <2>4, <2>6, <2>7 DEF ImportTrue
<1>4. ASSUME NEW p \in job.plan, ImportOne(p) \/ ImportOneFails(p) PROVE ImportTrue'
  BY <1>4, ImportOneTrue
<1>5. CASE ImportOrphans
  <2>1. /\ comics' = comics /\ root' = root /\ job.op = "import" /\ job.plan = {} /\ job'.plan = job.plan
        /\ job'.from = job.from /\ job'.failed = job.failed
    BY <1>0, <1>5 DEF ImportOrphans, Job
  <2>2. QED
    BY <1>1, <2>1 DEF Importing
<1>6. ASSUME NEW a \in Authors, ReadLinks(a) \/ WriteLinks(a) PROVE ImportTrue'
  <2>1. /\ comics' = comics /\ root' = root /\ job.op = "links" /\ job'.plan = job.plan
        /\ job'.from = job.from /\ job'.failed = job.failed
    BY <1>0, <1>6 DEF ReadLinks, WriteLinks, Job
  <2>2. QED
    BY <1>1, <2>1 DEF Importing, ImportTrue
<1>7. CASE FinishImport \/ Abort
  BY <1>0, <1>7 DEF FinishImport, Abort, ImportTrue, Importing
<1>8. QED
  BY <1>2, <1>3, <1>4, <1>5, <1>6, <1>7 DEF Backups

\* A job that is a patch, or none, is not an import, and no operation on
\* dictionaries or libraries goes on beside one.
LEMMA OthersNoImport ==
  ASSUME TypeOK, Attached, Dictionary \/ Library \/ Patch \/ Crash
  PROVE  job'.op \notin {"import", "links"}
<1>0. job \in Job /\ Idle.op = "idle"
  BY IdleType DEF TypeOK
<1>1. CASE Dictionary \/ Crash
  BY <1>0, <1>1, DictionaryNames DEF Crash
<1>2. CASE Library
  <2>1. job = Idle
    BY <1>2 DEF Library, Mark, Scan, Vanish, ChangeRoot, Locked
  <2>2. QED
    BY <1>0, <1>2, <2>1, LibraryNames
<1>3. CASE Patch
  <2>1. ASSUME NEW C \in SUBSET Here, NEW p \in Patches, StartPatch(C, p) PROVE job'.op = "patch"
    BY <2>1 DEF StartPatch, Idle
  <2>2. ASSUME NEW c \in job.todo, PatchOne(c) \/ PatchOneFails(c) PROVE job'.op = "patch"
    BY <1>0, <2>2 DEF PatchOne, PatchOneFails, Job
  <2>3. QED
    BY <1>0, <1>3, <2>1, <2>2 DEF Patch, EndPatch
<1>4. QED
  BY <1>1, <1>2, <1>3

LEMMA NextImport ==
  ASSUME TypeOK, Attached, ImportTrue, [Next]_vars
  PROVE  ImportTrue'
<1>1. CASE UNCHANGED vars
  <2>1. /\ comics' = comics /\ root' = root /\ job' = job /\ touched' = touched
    BY <1>1 DEF vars, core
  <2>2. Here' = Here /\ (Importing' <=> Importing) /\ (job'.op = "links" => job.plan = {})
    BY <2>1 DEF Here, Importing, ImportTrue
  <2>3. QED
    BY <2>1, <2>2, HeldImport
<1>2. CASE Next
  <2>1. CASE Dictionary \/ Library \/ Patch \/ Crash
    BY <2>1, OthersNoImport DEF ImportTrue, Importing
  <2>2. QED
    BY <1>2, <2>1, UserImport, BackupsImport DEF Next
<1>3. QED
  BY <1>1, <1>2

LEMMA NextLinksTrue ==
  ASSUME TypeOK, Attached, LinksInv, LinksTrue, [Next]_vars
  PROVE  LinksTrue'
<1>0. /\ job \in Job /\ Idle.op = "idle" /\ links \in [Authors -> Nat] /\ job.had \in Nat
      /\ job.on \subseteq Authors /\ job.from.links \in [Authors -> Nat]
  BY IdleType DEF TypeOK, Job, Backup
<1>1. ASSUME job' = job, dict \subseteq dict', Observe PROVE LinksTrue'
  BY <1>1, Touched DEF LinksTrue
<1>2. CASE UNCHANGED vars
  BY <1>2 DEF vars, core, LinksTrue
<1>3. CASE User /\ Observe
  BY <1>1, <1>3, UserNames
<1>4. CASE Dictionary \/ Library \/ Patch \/ Crash
  BY <1>4, OthersNoImport DEF LinksTrue
<1>5. CASE Backups /\ Observe
  <2>1. ASSUME (\E all \in Options : StartExport(all)) \/ ExportTags \/ ExportAuthors \/ ExportOrphans \/ FinishExport
        PROVE  LinksTrue'
    <3>1. job' = job /\ dict' = dict
      BY <2>1 DEF StartExport, ExportTags, ExportAuthors, ExportOrphans, FinishExport
    <3>2. QED
      BY <1>1, <1>5, <3>1
  <2>2. StartImport => job'.op = "import"
    BY DEF StartImport, Idle
  <2>3. ASSUME NEW p \in job.plan, ImportOne(p) \/ ImportOneFails(p) PROVE job'.op = "import"
    BY <1>0, <2>3 DEF ImportOne, ImportOneFails, Job
  <2>4. ASSUME ImportOrphans PROVE LinksTrue'
    <3>1. /\ job'.op = "links" /\ job'.left = {a \in Authors : job.from.links[a] > 0} /\ job'.on = job.on
          /\ job'.from = job.from /\ dict' = dict \cup job.from.orphans /\ job.op = "import"
      BY <1>0, <2>4 DEF ImportOrphans, Job
    <3>2. job.on = {}
      BY <3>1 DEF LinksInv, ReadIsFresh
    <3>3. QED
      BY <3>1, <3>2 DEF LinksTrue
  <2>5. ASSUME NEW a \in Authors, ReadLinks(a) PROVE LinksTrue'
    <3>1. /\ job'.op = "links" /\ job'.left = job.left \ {a} /\ job'.on = {a} /\ job'.had = links[a]
          /\ job'.from = job.from /\ dict' = dict \cup {a} /\ job.op = "links" /\ job.on = {}
          /\ links' = links
      BY <1>0, <2>5 DEF ReadLinks, Job
    <3>2. touched \subseteq touched'
      BY <1>5, <3>1, Touched
    <3>3. QED
      BY <3>1, <3>2 DEF LinksTrue
  <2>6. ASSUME NEW a \in Authors, WriteLinks(a) PROVE LinksTrue'
    <3>1. /\ job'.op = "links" /\ job'.left = job.left /\ job'.on = {} /\ job'.from = job.from
          /\ dict' = dict /\ job.op = "links" /\ a \in job.on
          /\ links'[a] = links[a] + Inserted(a) /\ \A b \in Authors \ {a} : links'[b] = links[b]
      BY <1>0, <2>6 DEF WriteLinks, Job
    <3>2. touched \subseteq touched'
      BY <1>5, <3>1, Touched
    <3>3. ASSUME a \notin touched, job.from.links[a] > 0 PROVE links'[a] > 0
      <4>1. job.had = links[a] /\ links[a] \in Nat /\ job.from.links[a] \in Nat
        BY <1>0, <3>1, <3>3 DEF LinksTrue
      <4>2. QED
        BY <3>1, <3>3, <4>1 DEF Inserted
    <3>4. \A b \in Authors \ (touched \cup {a}) : job.from.links[b] > 0 => b \in job.left \/ links[b] > 0
      BY <3>1 DEF LinksTrue
    <3>5. job.from.orphans \subseteq dict
      BY <3>1 DEF LinksTrue
    <3>6. QED
      BY <3>1, <3>2, <3>3, <3>4, <3>5 DEF LinksTrue
  <2>7. FinishImport \/ Abort => job'.op = "idle"
    BY <1>0 DEF FinishImport, Abort
  <2>8. QED
    BY <1>5, <2>1, <2>2, <2>3, <2>4, <2>5, <2>6, <2>7 DEF Backups, LinksTrue
<1>6. QED
  BY <1>2, <1>3, <1>4, <1>5 DEF Next

\* The action of RoundTrip.
RoundStep ==
  FinishImport =>
       /\ \A c \in job.from.sure :
            \E r \in job.from.records : r.id = c /\
              \A d \in Place(r) \ (touched \cup job.failed) :
                (\A s \in job.from.records \ {r} : d \notin Place(s)) =>
                  comics[d].names = job.from.saved[c] /\ comics[d].locked = Fields
       /\ job.from.orphans \subseteq dict
       /\ \A a \in Authors \ touched : job.from.links[a] > 0 => links[a] > 0

LEMMA ImportEnds == BackupsTrue /\ ImportTrue /\ LinksTrue => RoundStep
<1> SUFFICES ASSUME BackupsTrue, ImportTrue, LinksTrue, FinishImport PROVE RoundStep
  BY DEF RoundStep
<1>1. job.op = "links" /\ job.left = {} /\ job.on = {} /\ job.plan = {} /\ Importing
  BY DEF FinishImport, ImportTrue, Importing
<1>2. ASSUME NEW c \in job.from.sure
      PROVE  \E r \in job.from.records : r.id = c /\
              \A d \in Place(r) \ (touched \cup job.failed) :
                (\A s \in job.from.records \ {r} : d \notin Place(s)) =>
                  comics[d].names = job.from.saved[c] /\ comics[d].locked = Fields
  <2>1. PICK r \in job.from.records : r.id = c /\ r.names = job.from.saved[c]
    BY <1>2 DEF BackupsTrue, BackupTrue
  <2>2. ASSUME NEW d \in Place(r) \ (touched \cup job.failed), Alone(r, d)
        PROVE  comics[d].names = job.from.saved[c] /\ comics[d].locked = Fields
    <3>1. ~ Waiting(r, d)
      BY <1>1 DEF Waiting
    <3>2. Restored(r, d)
      BY <1>1, <2>2, <3>1 DEF ImportTrue
    <3>3. QED
      BY <2>1, <3>2 DEF Restored
  <2>3. QED
    BY <2>1, <2>2 DEF Alone
<1>3. QED
  BY <1>1, <1>2 DEF RoundStep, LinksTrue

\* An export and an import of it give the comics their metadata back, wherever
\* their library has moved in between, and the links and spare names of the
\* backup are there again (export.rs without a transaction; import.rs:
\* resolve_match, apply_comic_record, upsert_orphan_facets,
\* merge_author_links_by_name).
THEOREM SpecRoundTrip == Spec => RoundTrip
<1> DEFINE Inv == /\ TypeOK /\ Attached /\ PatchRevivesNothing /\ LinksInv
                  /\ ExportTrue /\ BackupsTrue /\ ImportTrue /\ LinksTrue
<1>1. Init => ExportTrue /\ BackupsTrue /\ ImportTrue /\ LinksTrue
  <2>1. BackupTrue(NoBackup) /\ Idle.from = NoBackup
    BY DEF BackupTrue, NoBackup, Idle
  <2>2. QED
    BY <2>1, IdleType, NoExportType DEF Init, ExportTrue, BackupsTrue, ImportTrue, LinksTrue, Importing
<1>2. Inv /\ [Next]_vars => Inv'
  BY NextType, NextNames, NextLinks, NextExport, NextBackups, NextImport, NextLinksTrue
<1>3. Inv /\ [Next]_vars => [RoundStep]_vars
  BY ImportEnds
<1>4. Init => Inv
  BY <1>1, InitType, InitNames, InitLinks
<1>5. QED
  BY <1>2, <1>3, <1>4, PTL DEF Spec, RoundTrip, RoundStep
=============================================================================
