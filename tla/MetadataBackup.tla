--------------------------- MODULE MetadataBackup ---------------------------
(***************************************************************************)
(* The named metadata of the comics and its backups: the dictionaries of   *)
(* named_facet/mod.rs and author/mod.rs, the edits of one comic and of     *)
(* many (comic/write.rs, comic/bulk_patch.rs), and export and import of    *)
(* metadata (metadata_backup).                                             *)
(*                                                                         *)
(* Bulk patch, import and the operations that take names out of a          *)
(* dictionary hold the library write lock; the edit of one comic, a name   *)
(* that is added, the links of an author, the deletion of a library and    *)
(* export do not, and none of these reads all it needs in one transaction. *)
(*                                                                         *)
(* Of the fields of a comic the model keeps two that are tables of their   *)
(* own, tags (parodies and characters are the same code) and authors, each *)
(* with its lock.  An author is its name with the links on it: comics   *)
(* refer to it by a number, which a rename keeps, and no other operation   *)
(* here shows the number.  A comic id is the hash of its path, a root and  *)
(* what follows it; there is one library.                                  *)
(***************************************************************************)
EXTENDS Naturals, FiniteSets

CONSTANTS
  Rels,      \* paths below the root of the library
  Roots,     \* roots the library may have
  First,     \* the one it has at first
  Tags, Authors,
  Lists,     \* sets of names that are entered, found in a file or deleted
  Found,     \* names the first sync may have found in the files
  Patches,   \* what a bulk patch may ask for: an operation on a field
  Options,   \* whether an export has the names that no comic has
  MaxEdits,  \* bound on what users do without the lock
  MaxLocked, \* bound on the locked operations
  MaxScans,  \* bound on what syncs and purges do
  MaxExports,
  MaxSteps   \* bound on all these together

Names == Tags \cup Authors
Fields == {Tags, Authors}
Op == {"Add", "Remove", "Replace"}
Change == [how : Op, field : Fields, values : SUBSET Names]

ASSUME BackupAssumption ==
  /\ First \in Roots
  /\ Tags \cap Authors = {}
  /\ Lists \subseteq SUBSET Names
  /\ Found \subseteq [Rels -> SUBSET Names]
  /\ Options \subseteq BOOLEAN
  /\ Patches \subseteq {p \in Change : p.values \subseteq p.field}
  /\ \A n \in {MaxEdits, MaxLocked, MaxScans, MaxExports, MaxSteps} : n \in Nat

VARIABLES
  comics,   \* the rows, with the names attached to each
  dict,     \* tables tags and authors
  links,    \* author_links: how many rows each author has, all with one URL
  root,     \* the root of the library
  job,      \* the holder of the library write lock
  export,   \* the export in progress
  file,     \* the backup made last
  touched,  \* observed: comics and authors that others changed since the job began
  stirred,  \* observed: comics that changed since the export began
  doubled,  \* observed: authors whose link was added when it was there, or by a copy of such
  spent     \* what has been used of Bounds

core == <<comics, dict, links, root, job, export, file>>
vars == <<core, touched, stirred, doubled, spent>>

Id == Roots \X Rels
NoRow == [names |-> {}, locked |-> {}, trashed |-> FALSE, here |-> FALSE]
Row == [names : SUBSET Names, locked : SUBSET Fields, trashed : BOOLEAN, here : {TRUE}] \cup {NoRow}
Here == {c \in Id : comics[c].here}

\* A backup: a record of each comic with its relative path (none: {}), the
\* names without a comic and the links; and (observed) the names its comics had
\* when the export began, for those that stayed as they were until it ended.
Record == [id : Id, rel : SUBSET Rels, names : SUBSET Names]
Backup == [records : SUBSET Record, orphans : SUBSET Names, links : [Authors -> Nat],
           sure : SUBSET Id, saved : [Id -> SUBSET Names]]
NoBackup == [records |-> {}, orphans |-> {}, links |-> [a \in Authors |-> 0],
             sure |-> {}, saved |-> [c \in Id |-> {}]]

NoChange == [how |-> "Add", field |-> Tags, values |-> {}]
Idle == [op |-> "idle", todo |-> {}, patch |-> NoChange, snap |-> [c \in Id |-> {}], from |-> NoBackup, plan |-> {}, failed |-> {},
         left |-> {}, on |-> {}, had |-> 0]
Plan == [to : Id, rec : Record]
Job == [op : {"idle", "patch", "import", "links"}, todo : SUBSET Id, patch : Change,
        snap : [Id -> SUBSET Names], from : Backup, plan : SUBSET Plan,
        failed : SUBSET Id, left : SUBSET Authors, on : SUBSET Authors, had : Nat]
NoExport == [pc |-> "idle", ids |-> {}, all |-> FALSE, got |-> NoBackup]
Export == [pc : {"idle", "tags", "authors", "orphans", "links"}, ids : SUBSET Id,
           all : BOOLEAN, got : Backup]

Kind == {"edit", "locked", "scan", "export"}
Bounds == [k \in Kind |-> CASE k = "edit" -> MaxEdits [] k = "locked" -> MaxLocked
                            [] k = "scan" -> MaxScans [] OTHER -> MaxExports]
Spend(k) ==
  /\ spent[k] < Bounds[k]
  /\ spent["edit"] + spent["locked"] + spent["scan"] + spent["export"] < MaxSteps
  /\ spent' = [spent EXCEPT ![k] = @ + 1]

\* A library that a sync has filled, names that came with it, a link.
Init ==
  /\ \E had \in Found :
       /\ dict = UNION {had[x] : x \in Rels}
       /\ comics = [c \in Id |-> IF c[1] # First THEN NoRow
                                 ELSE [NoRow EXCEPT !.here = TRUE, !.names = had[c[2]]]]
  /\ links = [a \in Authors |-> IF a \in dict THEN 1 ELSE 0]
  /\ root = First
  /\ job = Idle /\ export = NoExport /\ file = NoBackup
  /\ touched = {} /\ stirred = {} /\ doubled = {}
  /\ spent = [k \in Kind |-> 0]

-----------------------------------------------------------------------------
(* Writes without the lock *)

\* replace_comic_named_facet and replace_comic_authors: the field of a comic is
\* replaced, new names go into the dictionary, the field is locked.
Field(c, field, N) ==
  [comics EXCEPT ![c].names = (@ \ field) \cup N, ![c].locked = @ \cup {field}]

Edit(c, field, N) ==
  /\ c \in Here
  /\ Spend("edit")
  /\ comics' = Field(c, field, N)
  /\ dict' = dict \cup N
  /\ UNCHANGED <<links, root, job, export, file, doubled>>

AddName(n) ==
  /\ n \notin dict
  /\ Spend("edit")
  /\ dict' = dict \cup {n}
  /\ UNCHANGED <<comics, links, root, job, export, file, doubled>>

\* add_author_link does not ask whether the author has that link.
AddLink(a) ==
  /\ a \in dict \cap Authors
  /\ Spend("edit")
  /\ links' = [links EXCEPT ![a] = @ + 1]
  /\ doubled' = IF links[a] > 0 \/ a \in job.on THEN doubled \cup {a} ELSE doubled
  /\ UNCHANGED <<comics, dict, root, job, export, file>>

DeleteLink(a) ==
  /\ links[a] > 0
  /\ Spend("edit")
  /\ links' = [links EXCEPT ![a] = @ - 1]
  /\ UNCHANGED <<comics, dict, root, job, export, file, doubled>>

\* delete_library: its comics go, with what is attached to them.
DeleteLibrary ==
  /\ Here # {}
  /\ Spend("edit")
  /\ comics' = [c \in Id |-> NoRow]
  /\ UNCHANGED <<dict, links, root, job, export, file, doubled>>

-----------------------------------------------------------------------------
(* Locked operations that are one transaction.  A definition used nowhere    *)
(* that stands before another is that one with a bug in it: some property    *)
(* has to notice the exchange.                                               *)

LockedAnyway == Spend("locked")
Locked ==
  /\ job = Idle
  /\ Spend("locked")

\* Names leave the dictionary: what refers to them goes with them (foreign keys).
Without(N) == [c \in Id |-> [comics[c] EXCEPT !.names = @ \ N]]

DeleteNames(N) ==
  /\ Locked
  /\ dict' = dict \ N
  /\ comics' = Without(N)
  /\ links' = [a \in Authors |-> IF a \in N THEN 0 ELSE links[a]]
  /\ doubled' = doubled \ N
  /\ UNCHANGED <<root, job, export, file>>

Renamed(old, new) ==
  [c \in Id |-> IF old \in comics[c].names
                THEN [comics[c] EXCEPT !.names = (@ \ {old}) \cup {new}] ELSE comics[c]]

\* rename_named_facet_name: the old name need not exist; a comic that has both
\* violates the key of the junction, and all is rolled back.
RenameTag(old, new) ==
  /\ Locked
  /\ old # new                                  \* the dialog does not send it
  /\ \A c \in Id : ~ {old, new} \subseteq comics[c].names
  /\ dict' = (dict \cup {new}) \ {old}
  /\ comics' = Renamed(old, new)
  /\ UNCHANGED <<links, root, job, export, file, doubled>>

\* rename_author refuses a name that is taken; the links stay on the author.
RenameAuthor(old, new) ==
  /\ Locked
  /\ old \in dict /\ new \notin dict
  /\ dict' = (dict \cup {new}) \ {old}
  /\ comics' = Renamed(old, new)
  /\ links' = [links EXCEPT ![new] = links[old], ![old] = 0]
  /\ doubled' = (doubled \ {old}) \cup (IF old \in doubled THEN {new} ELSE {})
  /\ UNCHANGED <<root, job, export, file>>

\* merge_named_facet_name; authors cannot be merged.
MergeTag(source, target) ==
  /\ Locked
  /\ source # target /\ {source, target} \subseteq dict
  /\ dict' = dict \ {source}
  /\ comics' = Renamed(source, target)
  /\ UNCHANGED <<links, root, job, export, file, doubled>>

\* trash_comics and restore_comics
Mark(c, deleted) ==
  /\ Locked
  /\ c \in Here
  /\ comics' = [comics EXCEPT ![c].trashed = deleted]
  /\ UNCHANGED <<dict, links, root, job, export, file, doubled>>

\* Library sync and Metadata refresh, as far as they show here (LibraryStore has
\* them step by step): a comic that is found takes the names in its file unless
\* they are locked or there are none; one that is not found, or purged, goes.
Scan(c, N) ==
  /\ job = Idle /\ Spend("scan")
  /\ c[1] = root
  /\ LET kept == {field \in Fields : field \in comics[c].locked \/ N \cap field = {}}
         new == N \ UNION kept IN
     /\ comics' = [comics EXCEPT ![c].here = TRUE, ![c].names = (@ \cap UNION kept) \cup new]
     /\ dict' = dict \cup new
  /\ UNCHANGED <<links, root, job, export, file, doubled>>

Vanish(c) ==
  /\ job = Idle /\ Spend("scan")
  /\ c \in Here
  /\ comics' = [comics EXCEPT ![c] = NoRow]
  /\ UNCHANGED <<dict, links, root, job, export, file, doubled>>

\* update_local_library_root: the comics X whose files are found again move
\* along; a row that is in the way fails the transaction (see LibraryRoots).
ChangeRoot(r, X) ==
  /\ job = Idle /\ Spend("scan")
  /\ r # root
  /\ \A x \in X : <<root, x>> \in Here /\ <<r, x>> \notin Here
  /\ root' = r
  /\ comics' = [c \in Id |-> IF c[2] \notin X THEN comics[c]
                             ELSE IF c[1] = r THEN comics[<<root, c[2]>>]
                             ELSE IF c[1] = root THEN NoRow ELSE comics[c]]
  /\ UNCHANGED <<dict, links, job, export, file, doubled>>

-----------------------------------------------------------------------------
(* Bulk patch *)

\* All comics are read first; those that are not there are only reported. The
\* app sends what is selected, a set: no comic comes twice.
StartPatch(C, p) ==
  /\ Locked
  /\ job' = [Idle EXCEPT !.op = "patch", !.todo = C, !.patch = p,
                         !.snap = [c \in Id |-> IF c \in C THEN comics[c].names ELSE {}]]
  /\ UNCHANGED <<comics, dict, links, root, export, file, doubled>>

MergedAsReplace(p, cur) == p.values
\* merge_multi_value
Merged(p, cur) ==
  CASE p.how = "Add" -> cur \cup p.values
    [] p.how = "Remove" -> cur \ p.values
    [] OTHER -> p.values

\* What the comic had when it was read decides what is written, and whether
\* anything is. The lists are compared with their order, so that the same names
\* may be written, and the field locked, for the order alone.
Read(c) == job.snap[c] \cap job.patch.field
Unchanged(c) == Merged(job.patch, Read(c)) = Read(c)
Reordered == job.patch.how = "Replace" /\ Cardinality(job.patch.values) > 1
PatchOne(c) ==
  LET new == Merged(job.patch, Read(c)) IN
  /\ job.op = "patch" /\ c \in job.todo
  /\ \/ Unchanged(c) /\ UNCHANGED <<comics, dict>>
     \/ /\ ~ Unchanged(c) \/ Reordered
        /\ c \in Here
        /\ comics' = Field(c, job.patch.field, new)
        /\ dict' = dict \cup new
  /\ job' = [job EXCEPT !.todo = @ \ {c}, !.snap[c] = {}]
  /\ UNCHANGED <<links, root, export, file, doubled, spent>>

\* The write fails, as it does for a comic that has gone: that is counted.
PatchOneFails(c) ==
  /\ job.op = "patch" /\ c \in job.todo
  /\ ~ Unchanged(c) \/ Reordered
  /\ job' = [job EXCEPT !.todo = @ \ {c}, !.snap[c] = {}, !.failed = @ \cup {c}]
  /\ UNCHANGED <<comics, dict, links, root, export, file, doubled, spent>>

\* The end, or the user cancels it between two comics.
EndPatch ==
  /\ job.op = "patch"
  /\ job' = Idle
  /\ UNCHANGED <<comics, dict, links, root, export, file, doubled, spent>>

-----------------------------------------------------------------------------
(* Export.  It takes no lock and no transaction. *)

Visible == {c \in Here : ~ comics[c].trashed}

StartExport(all) ==
  /\ export = NoExport
  /\ Spend("export")
  /\ export' = [NoExport EXCEPT !.pc = "tags", !.ids = Visible, !.all = all,
                  !.got.saved = [c \in Id |-> IF c \in Visible THEN comics[c].names ELSE {}]]
  /\ UNCHANGED <<comics, dict, links, root, job, file, doubled>>

\* load_comics_ordered: the rows with their tags, then the authors; and the root.
ExportTags ==
  /\ export.pc = "tags"
  /\ export' = [export EXCEPT !.pc = "authors", !.got.records =
        {[id |-> c, rel |-> {}, names |-> comics[c].names \cap Tags] : c \in export.ids \cap Here}]
  /\ UNCHANGED <<comics, dict, links, root, job, file, doubled, spent>>

\* compute_relative_path
Relative(c) == IF c[1] = root THEN {c[2]} ELSE {}

ExportAuthors ==
  /\ export.pc = "authors"
  /\ export' = [export EXCEPT !.pc = IF export.all THEN "orphans" ELSE "links", !.got.records =
        {[id |-> r.id, rel |-> Relative(r.id),
          names |-> r.names \cup (comics[r.id].names \cap Authors)] : r \in @}]
  /\ UNCHANGED <<comics, dict, links, root, job, file, doubled, spent>>

\* Names that no comic has, not even one in trash.
ExportOrphans ==
  /\ export.pc = "orphans"
  /\ export' = [export EXCEPT !.pc = "links",
                  !.got.orphans = {n \in dict : \A c \in Id : n \notin comics[c].names}]
  /\ UNCHANGED <<comics, dict, links, root, job, file, doubled, spent>>

FinishExport ==
  /\ export.pc = "links"
  /\ file' = [export.got EXCEPT !.links = links, !.sure = export.ids \ stirred]
  /\ export' = NoExport
  /\ UNCHANGED <<comics, dict, links, root, job, doubled, spent>>

-----------------------------------------------------------------------------
(* Import *)

MatchedById(r) == IF r.id \in Here THEN {r.id} ELSE {}
\* resolve_match: the id (and with it the path), then the place below the root.
\* Two comics of a library cannot share either, so no match is ambiguous.
Matched(r) ==
  IF r.id \in Here THEN {r.id}
  ELSE {<<root, x>> : x \in r.rel} \cap Here

StartImport ==
  /\ Locked
  /\ file # NoBackup
  /\ LET plan == {[to |-> c, rec |-> r] : c \in Id, r \in file.records} IN
     job' = [Idle EXCEPT !.op = "import", !.from = file,
                         !.plan = {p \in plan : p.to \in Matched(p.rec)}]
  /\ UNCHANGED <<comics, dict, links, root, export, file, doubled>>

\* apply_comic_record: one transaction; all fields are written and locked.
ImportOne(p) ==
  /\ job.op = "import" /\ p \in job.plan
  /\ p.to \in Here
  /\ comics' = [comics EXCEPT ![p.to].names = p.rec.names, ![p.to].locked = Fields]
  /\ dict' = dict \cup p.rec.names
  /\ job' = [job EXCEPT !.plan = @ \ {p}]
  /\ UNCHANGED <<links, root, export, file, doubled, spent>>

\* The comic has gone or the write fails: an entry in the errors of the result.
ImportOneFails(p) ==
  /\ job.op = "import" /\ p \in job.plan
  /\ job' = [job EXCEPT !.plan = @ \ {p}, !.failed = @ \cup {p.to}]
  /\ UNCHANGED <<comics, dict, links, root, export, file, doubled, spent>>

\* upsert_orphan_facets
ImportOrphans ==
  /\ job.op = "import" /\ job.plan = {}
  /\ dict' = dict \cup job.from.orphans
  /\ job' = [job EXCEPT !.op = "links", !.left = {a \in Authors : job.from.links[a] > 0}]
  /\ UNCHANGED <<comics, links, root, export, file, doubled, spent>>

\* merge_author_links_by_name: the links of the author are read ...
ReadLinks(a) ==
  /\ job.op = "links" /\ job.on = {} /\ a \in job.left
  /\ dict' = dict \cup {a}
  /\ job' = [job EXCEPT !.on = {a}, !.had = links[a], !.left = @ \ {a}]
  /\ UNCHANGED <<comics, links, root, export, file, doubled, spent>>

\* ... and those of the backup inserted that were not among them.
InsertedAll(a) == job.from.links[a]
Inserted(a) == IF job.had = 0 THEN job.from.links[a] ELSE 0
WriteLinks(a) ==
  /\ job.op = "links" /\ a \in job.on
  /\ links' = [links EXCEPT ![a] = @ + Inserted(a)]
  /\ doubled' = IF job.had = 0 /\ job.from.links[a] > 1 THEN doubled \cup {a} ELSE doubled
  /\ job' = [job EXCEPT !.on = {}]
  /\ UNCHANGED <<comics, dict, root, export, file, spent>>

FinishImport ==
  /\ job.op = "links" /\ job.left = {} /\ job.on = {}
  /\ job' = Idle
  /\ UNCHANGED <<comics, dict, links, root, export, file, doubled, spent>>

\* An error after the comics, or the process dies: among the names without a
\* comic, which are inserted one by one, or among the links.
Abort ==
  /\ \/ /\ job.op = "import" /\ job.plan = {}
        /\ \E N \in SUBSET job.from.orphans : dict' = dict \cup N
     \/ job.op = "links" /\ job.left \cup job.on # {} /\ UNCHANGED dict
  /\ job' = Idle
  /\ UNCHANGED <<comics, links, root, export, file, doubled, spent>>

Crash ==
  /\ job # Idle \/ export # NoExport
  /\ job' = Idle /\ export' = NoExport
  /\ UNCHANGED <<comics, dict, links, root, file, doubled, spent>>

-----------------------------------------------------------------------------
User ==
  \/ \E c \in Id, field \in Fields, N \in Lists : N \subseteq field /\ Edit(c, field, N)
  \/ \E n \in Names : AddName(n)
  \/ \E a \in Authors : AddLink(a) \/ DeleteLink(a)
  \/ DeleteLibrary

Dictionary ==
  \/ \E N \in Lists \ {{}} : DeleteNames(N)
  \/ \E o, n \in Tags : RenameTag(o, n) \/ MergeTag(o, n)
  \/ \E o, n \in Authors : RenameAuthor(o, n)

Library ==
  \/ \E c \in Id, b \in BOOLEAN : Mark(c, b)
  \/ \E c \in Id, N \in Lists : Scan(c, N)
  \/ \E c \in Id : Vanish(c)
  \/ \E r \in Roots, X \in SUBSET Rels : ChangeRoot(r, X)

Patch ==
  \/ \E C \in SUBSET Here \ {{}}, p \in Patches : StartPatch(C, p)
  \/ \E c \in job.todo : PatchOne(c) \/ PatchOneFails(c)
  \/ EndPatch

Backups ==
  \/ \E all \in Options : StartExport(all)
  \/ ExportTags \/ ExportAuthors \/ ExportOrphans \/ FinishExport
  \/ StartImport
  \/ \E p \in job.plan : ImportOne(p) \/ ImportOneFails(p)
  \/ ImportOrphans
  \/ \E a \in Authors : ReadLinks(a) \/ WriteLinks(a)
  \/ FinishImport \/ Abort

\* A step of the job changes the job; whatever changes without it is another's.
Observe ==
  /\ touched' = IF job'.op = "idle" THEN {}
                ELSE IF job' # job THEN touched
                ELSE touched \cup {c \in Id : comics'[c] # comics[c]}
                             \cup {a \in Authors : links'[a] # links[a]}
  /\ stirred' = IF export'.pc = "idle" THEN {}
                ELSE stirred \cup {c \in Id : comics'[c] # comics[c]}

Next == (User \/ Dictionary \/ Library \/ Patch \/ Backups \/ Crash) /\ Observe

Spec == Init /\ [][Next]_vars

-----------------------------------------------------------------------------
(* Properties *)

\* The types. A place without a comic has no names, locks or flags: what
\* foreign keys and cascades leave of a row that is deleted.
TypeOK ==
  /\ comics \in [Id -> Row]
  /\ dict \subseteq Names
  /\ links \in [Authors -> Nat]
  /\ root \in Roots
  /\ job \in Job /\ export \in Export /\ file \in Backup
  /\ touched \subseteq Id \cup Authors /\ stirred \subseteq Id /\ doubled \subseteq Authors
  /\ spent \in [Kind -> Nat]

\* While a bulk patch still has to write a comic, every name it read there is in
\* a dictionary: a name that was deleted, renamed or merged away does not come
\* back with it, because those operations wait for the same lock.
PatchRevivesNothing ==
  job.op = "patch" => \A c \in job.todo : job.snap[c] \subseteq dict

\* A bulk patch does to a comic that nobody else changed meanwhile what its
\* operation says, unless it reports the comic as failed, and leaves the other
\* field alone in any case.
PatchDoesWhatItSays ==
  [][\A c \in Id : job.op = "patch" /\ c \in job.todo \ job'.todo /\ job'.op = "patch" =>
       LET was == comics[c].names now == comics'[c].names IN
       /\ now \ job.patch.field = was \ job.patch.field
       /\ c \in Here \ (touched \cup job'.failed) =>
            CASE job.patch.how = "Add" -> now = was \cup job.patch.values
              [] job.patch.how = "Remove" -> now = was \ job.patch.values
              [] OTHER -> now \cap job.patch.field = job.patch.values]_vars

\* Where the comic of a record is now: at its place, or at the one that took
\* its relative path when the root was changed after the export.
Place(r) == IF r.id \in Here THEN {r.id} ELSE {<<root, x>> : x \in r.rel} \cap Here

\* Export and import give a comic back the metadata it had when the export
\* began, also after its library has moved, with everything locked: unless it
\* changed during the export, someone else wrote to it during the import, its
\* write failed, or another comic of the backup has taken its place. And the
\* backup's links and names without a comic are there again.
RoundTrip ==
  [][FinishImport =>
       /\ \A c \in job.from.sure :
            \E r \in job.from.records : r.id = c /\
              \A d \in Place(r) \ (touched \cup job.failed) :
                (\A s \in job.from.records \ {r} : d \notin Place(s)) =>
                  comics[d].names = job.from.saved[c] /\ comics[d].locked = Fields
       /\ job.from.orphans \subseteq dict
       /\ \A a \in Authors \ touched : job.from.links[a] > 0 => links[a] > 0]_vars

\* However often backups are imported, and wherever an import is cut off, no
\* author gets a second copy of a link but by the user who adds one.
LinksOnce ==
  \A a \in Authors : links[a] > 1 => a \in doubled
=============================================================================
