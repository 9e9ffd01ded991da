---------------------------- MODULE LibraryRoots ----------------------------
(***************************************************************************)
(* The libraries of the app, their roots and the comics they own:          *)
(* library/crud.rs, library/local_root_update.rs, and the sync of one or   *)
(* of all libraries as seen from outside one library                       *)
(* (sync/orchestrator.rs, sync/scanner.rs, sync/remote.rs).                *)
(*                                                                         *)
(* A path is a sequence of names: its head is the volume or the server     *)
(* that may go offline, its last name stands for the content of the file.  *)
(* The id of a library is the hash of the root it was created with, so it  *)
(* is that root here; the id of a comic is its path.                       *)
(*                                                                         *)
(* Sync and the change of a local root hold the library write lock (see    *)
(* LibraryStore); creating a library, deleting one, changing the root of a *)
(* remote one and choosing the formats a library takes do not.             *)
(***************************************************************************)
EXTENDS Naturals, Sequences, FiniteSets, SequencesExt

CONSTANTS
  LocalRoot,    \* directories that may become the root of a local library
  RemoteRoot,   \* WebDAV roots
  File,         \* places a comic may be at
  Format,       \* resource format categories
  FormatOf,     \* the category of each file, which its extension fixes
  MaxChanges,   \* bound on what happens to the files, the volumes and the formats
  MaxLibraries, \* bound on the libraries that exist at a time
  MaxEdited     \* bound on the comics with edited metadata

ASSUME RootsAssumption ==
  /\ LocalRoot \cap RemoteRoot = {}
  /\ \A p \in LocalRoot \cup RemoteRoot \cup File : p \in Seq(STRING) /\ p # <<>>
  /\ FormatOf \in [File -> Format]
  /\ MaxChanges \in Nat /\ MaxLibraries \in Nat /\ MaxEdited \in Nat

Root == LocalRoot \cup RemoteRoot
None == <<>>
NoRow == [lib |-> None, edited |-> FALSE]
Row == [lib : Root, edited : BOOLEAN] \cup {NoRow}
Volume == {Head(p) : p \in Root \cup File}

VARIABLES
  root,      \* libraries.root_path by library_id, None without a row
  takes,     \* libraries.enabled_resource_format_categories by library_id
  row,       \* comics by path: the library, and whether its metadata was edited (and so locked)
  disk,      \* files that exist
  broken,    \* files that parse to no comic: not a readable archive, or one without pages
  online,    \* volumes that are plugged in and servers that answer
  changes,   \* how often files, volumes and formats have changed
  creating,  \* calls of create_local_library between their checks and their insert, by root
  job,       \* the holder of the library write lock
  absent,    \* history: files that did not exist at some moment of the current sync of a library
  unseen,    \* history: files broken, or on a volume that was offline, at some such moment
  torn,      \* history: libraries deleted while a sync still had them to do
  late       \* history: libraries whose root passed a check that was out of date when it was written

vars == <<root, takes, row, disk, broken, online, changes, creating, job, absent, unseen, torn, late>>
env  == <<takes, disk, broken, online, changes, absent, unseen>>

Libraries == {i \in Root : root[i] # None}
LocalLibraries == Libraries \cap LocalRoot
Covers(r, f) == IsPrefix(r, f)
Overlap(r, s) == IsPrefix(r, s) \/ IsPrefix(s, r)

\* Another local library has a root equal to r, above it or below it.  (A
\* definition used nowhere that stands before another is that one with a bug in
\* it: some property has to notice the exchange.)
NestedAboveOnly(r, self) == \E i \in LocalLibraries \ {self} : IsPrefix(root[i], r)
Nested(r, self) == \E i \in LocalLibraries \ {self} : Overlap(r, root[i])

\* A library as it was read at the start of an operation.
Target == [id : Root, root : Root, takes : SUBSET Format]
NoTarget == [id |-> None, root |-> None, takes |-> {}]
Idle == [pc |-> "idle", todo |-> {}, at |-> NoTarget, spared |-> {}, found |-> {},
         known |-> {}, prior |-> {}, was |-> {}, migrate |-> FALSE]
Job == [pc : {"idle", "rootUpdate", "next", "scan", "apply", "record"},
        todo : SUBSET Target, at : Target \cup {NoTarget}, spared : SUBSET Root,
        found : SUBSET File, known : SUBSET File, prior : SUBSET File,
        was : SUBSET (LocalRoot \X LocalRoot), migrate : BOOLEAN]
RootsOf == {<<i, root[i]>> : i \in LocalLibraries}
Creations == [root : LocalRoot, saw : SUBSET (LocalRoot \X LocalRoot)]
Room == Cardinality(Libraries \cup {c.root : c \in creating}) < MaxLibraries

Init ==
  /\ root = [i \in Root |-> None]
  /\ takes = [i \in Root |-> Format]
  /\ row = [f \in File |-> NoRow]
  /\ disk \in SUBSET File /\ broken = {}
  /\ online = Volume
  /\ changes = 0
  /\ creating = {}
  /\ job = Idle
  /\ absent = {} /\ unseen = {} /\ torn = {} /\ late = {}

-----------------------------------------------------------------------------
(* Creating, deleting and repointing libraries, without the lock *)

\* A library whose id or whose root is there already is returned as it is.
CheckLocal(r) ==
  /\ Room /\ \A c \in creating : c.root # r
  /\ root[r] = None
  /\ \A i \in Root : root[i] # r
  /\ ~ Nested(r, None)
  /\ creating' = creating \cup {[root |-> r, saw |-> RootsOf]}
  /\ UNCHANGED <<root, row, job, torn, late, env>>

\* libraries has a primary key on the id and a unique root_path.
Free(r) == root[r] = None /\ \A i \in Root : root[i] # r

InsertLocal(c) ==
  LET r == c.root
      free == Free(r) IN
  /\ root' = IF free THEN [root EXCEPT ![r] = r] ELSE root
  /\ late' = IF free /\ RootsOf # c.saw THEN late \cup {r} ELSE late
  /\ creating' = creating \ {c}
  /\ UNCHANGED <<row, job, torn, env>>

\* A remote library is looked up by its id, then by its root, and repointed.
CreateRemote(r) ==
  /\ root[r] = None => Room
  /\ \A i \in Root : root[i] # r
  /\ root' = [root EXCEPT ![r] = r]
  /\ UNCHANGED <<row, creating, job, torn, late, env>>

UpdateRemote(i, r) ==
  /\ i \in Libraries
  /\ \A k \in Root \ {i} : root[k] # r
  /\ root' = [root EXCEPT ![i] = r]
  /\ UNCHANGED <<row, creating, job, torn, late, env>>

Pending == {t.id : t \in job.todo} \cup {job.at.id}

WithoutLibraryKeepsRows(i) == row
WithoutLibrary(i) == [f \in File |-> IF row[f].lib = i THEN NoRow ELSE row[f]]

\* A library that is created again takes every format.
DeleteLibrary(i) ==
  /\ i \in Libraries
  /\ root' = [root EXCEPT ![i] = None]
  /\ takes' = [takes EXCEPT ![i] = Format]
  /\ row' = WithoutLibrary(i)
  /\ torn' = IF i \in Pending THEN torn \cup {i} ELSE torn \ {i}
  /\ late' = late \ {i}
  /\ UNCHANGED <<creating, job, disk, broken, online, changes, absent, unseen>>

\* The formats a library takes, none among them, until its next sync without effect.
SetFormats(i, F) ==
  /\ changes < MaxChanges
  /\ i \in Libraries
  /\ F # takes[i]
  /\ takes' = [takes EXCEPT ![i] = F]
  /\ changes' = changes + 1
  /\ UNCHANGED <<root, row, creating, job, torn, late, disk, broken, online, absent, unseen>>

\* The user edits the metadata of a comic, which locks what was edited.
Edit(f) ==
  /\ row[f] # NoRow
  /\ Cardinality({g \in File : row[g].edited}) < MaxEdited
  /\ row' = [row EXCEPT ![f].edited = TRUE]
  /\ UNCHANGED <<root, creating, job, torn, late, env>>

-----------------------------------------------------------------------------
(* Change of a local root, under the lock *)

StartRootUpdate(i, r) ==
  /\ job = Idle
  /\ i \in LocalLibraries
  /\ ~ Nested(r, i)
  /\ job' = [Idle EXCEPT !.pc = "rootUpdate", !.at = [NoTarget EXCEPT !.id = i, !.root = r],
                         !.was = RootsOf, !.migrate = Head(r) \in online]
  /\ UNCHANGED <<root, row, creating, torn, late, env>>

\* A path below the old root, with the new root in its place.
Moved(f, from, to) == to \o SubSeq(f, Len(from) + 1, Len(f))

\* The comics that are found again under the new root.
RootMovesBlindly(i, from, to) ==
  {f \in File : row[f].lib = i /\ Covers(from, f) /\ Moved(f, from, to) \in File \ {f}}
RootMoves(i, from, to) ==
  {f \in File : /\ row[f].lib = i
                /\ Covers(from, f)
                /\ Moved(f, from, to) \in disk \ {f}
                /\ Head(to) \in online}

Rekeyed(moves, from, to) ==
  [g \in File |->
     LET here == {f \in moves : Moved(f, from, to) = g} IN
     IF here # {} THEN row[CHOOSE f \in here : TRUE]
     ELSE IF g \in moves THEN NoRow ELSE row[g]]

\* One transaction: rows are rekeyed one by one, in any order, each by an
\* insert that fails when the key is taken; then the root is written.
FinishRootUpdate ==
  LET i == job.at.id
      to == job.at.root
      from == (CHOOSE p \in job.was : p[1] = i)[2]
      moves == IF job.migrate THEN RootMoves(i, from, to) ELSE {}
      new(f) == Moved(f, from, to)
      taken == {f \in moves : row[new(f)] # NoRow} IN
  /\ job.pc = "rootUpdate"
  /\ job' = Idle
  /\ \/ UNCHANGED <<root, row, late>>          \* the transaction fails
        /\ \/ root[i] = None
           \/ \E k \in Root \ {i} : root[k] = to
           \/ taken # {}
     \/ /\ root[i] # None
        /\ \A k \in Root \ {i} : root[k] # to
        /\ \A f \in taken : new(f) \in moves
        /\ root' = [root EXCEPT ![i] = to]
        /\ row' = Rekeyed(moves, from, to)
        /\ late' = IF RootsOf # job.was THEN late \cup {i} ELSE late \ {i}
  /\ UNCHANGED <<creating, torn, env>>

-----------------------------------------------------------------------------
(* Sync of one library or of all, under the lock *)

StartSync ==
  /\ job = Idle
  /\ \E ids \in {{i} : i \in Libraries} \cup {Libraries} :
       /\ ids # {}
       /\ job' = [Idle EXCEPT !.pc = "next",
                              !.todo = {[id |-> i, root |-> root[i], takes |-> takes[i]] : i \in ids}]
  /\ UNCHANGED <<root, row, creating, torn, late, env>>

\* Cancellation is looked at between any two steps before the transaction;
\* any step may also fail and end the whole run.
AbortSync ==
  /\ job.pc \in {"next", "scan", "apply"}
  /\ job' = Idle
  /\ absent' = {} /\ unseen' = {}
  /\ UNCHANGED <<root, takes, row, creating, torn, late, disk, broken, online, changes>>

\* The lock is released after the last library.
Continue(todo) == IF todo = {} THEN Idle ELSE [Idle EXCEPT !.pc = "next", !.todo = todo]

\* The next library: its root is probed, a root that cannot be read is skipped.
\* Its failure is recorded, which is an error when the library is gone.
Skip(t) ==
  /\ job.pc = "next"
  /\ t \in job.todo
  /\ Head(t.root) \notin online \/ t.root \in RemoteRoot   \* no credentials
  /\ job' = IF root[t.id] = None THEN Idle ELSE Continue(job.todo \ {t})
  /\ UNCHANGED <<root, row, creating, torn, late, env>>

\* The roots of the other libraries are not descended into.
Probe(t) ==
  /\ job.pc = "next"
  /\ t \in job.todo
  /\ Head(t.root) \in online
  /\ job' = [job EXCEPT !.pc = "scan", !.todo = @ \ {t}, !.at = t,
               !.spared = IF t.id \in LocalRoot THEN {root[i] : i \in Libraries \ {t.id}} ELSE {},
               !.known = {f \in File : row[f].edited}]
  /\ absent' = File \ disk
  /\ unseen' = {f \in File : Head(f) \notin online} \cup broken
  /\ UNCHANGED <<root, takes, row, disk, broken, online, changes, creating, torn, late>>

Spared(f) == \E r \in job.spared : Covers(r, f) /\ Covers(job.at.root, r) /\ r # job.at.root

RowsOfAnyLibrary(i) == {f \in File : row[f] # NoRow}
RowsOf(i) == {f \in File : row[f].lib = i}

ListedOffline(t) == TRUE
Listed(t) == Head(t.root) \in online \/ t.id \in LocalRoot

\* A candidate becomes a comic when the library takes its format and, on a local
\* volume, where it is opened, it parses to one: an error of the archive is no
\* error of the sync. Of a file on a server the extension alone decides.
Yields(t, f) == FormatOf[f] \in t.takes /\ (t.id \in LocalRoot => f \notin broken)

\* The tree is listed and each candidate is parsed, or taken from its row when
\* that is up to date; one that has vanished is dropped, so that one moment
\* stands for the listing and the parsing. A local root that has vanished since
\* the probe reads as an empty tree; a server that does not answer the listing
\* is skipped, and one that does not answer a candidate fails the run (Abort).
\* Then the rows of this library are read and compared.
Scan ==
  LET t == job.at
      up == Head(t.root) \in online
      own == RowsOf(t.id) IN
  /\ job.pc = "scan"
  /\ Listed(t)
  /\ \E reused \in {job.known, {}} :
       job' = [job EXCEPT !.pc = "apply",
                 !.found = {f \in disk : up /\ Covers(t.root, f) /\ ~ Spared(f) /\ Yields(t, f)},
                 !.prior = own,
                 !.known = (IF t.id \in LocalRoot THEN reused ELSE {}) \cup {f \in own : row[f].edited}]
  /\ UNCHANGED <<root, row, creating, torn, late, env>>

ScanUnreachable ==
  /\ job.pc = "scan"
  /\ job.at.id \in RemoteRoot
  /\ Head(job.at.root) \notin online
  /\ job' = IF root[job.at.id] = None THEN Idle ELSE Continue(job.todo)
  /\ absent' = {} /\ unseen' = {}
  /\ UNCHANGED <<root, takes, row, creating, torn, late, disk, broken, online, changes>>

Removed == job.prior \ job.found
Added == job.found \ job.prior

\* A removed and an added resource with a fingerprint that only they have.
Pairs == {p \in Removed \X Added :
            /\ Last(p[1]) = Last(p[2])
            /\ \A h \in Removed : Last(h) = Last(p[1]) => h = p[1]
            /\ \A h \in Added : Last(h) = Last(p[1]) => h = p[2]}
Targets == {p[2] : p \in Pairs}
Origin(g) == CHOOSE f \in Removed : <<f, g>> \in Pairs

\* One transaction. Rekeys insert, so a row in the way fails it; the rest are upserts.
SyncedWithoutMerge(g) == [lib |-> job.at.id, edited |-> g \notin Targets /\ g \in job.known]
Synced(g) == [lib |-> job.at.id,
              edited |-> (IF g \in Targets THEN Origin(g) ELSE g) \in job.known]
Apply ==
  /\ job.pc = "apply"
  /\ \A g \in Targets : row[g] = NoRow
  /\ row' = [g \in File |-> IF g \in job.found THEN Synced(g)
                            ELSE IF g \in Removed THEN NoRow ELSE row[g]]
  /\ job' = [Idle EXCEPT !.pc = "record", !.todo = job.todo, !.at = job.at]
  /\ absent' = {} /\ unseen' = {}
  /\ UNCHANGED <<root, takes, creating, torn, late, disk, broken, online, changes>>

\* The success is recorded, which is an error when the library is gone.
Record ==
  /\ job.pc = "record"
  /\ job' = IF root[job.at.id] = None THEN Idle ELSE Continue(job.todo)
  /\ UNCHANGED <<root, row, creating, torn, late, env>>

\* The process dies: what is in memory is lost, the lock with it.
Crash ==
  /\ job # Idle \/ creating # {}
  /\ job' = Idle
  /\ creating' = {}
  /\ absent' = {} /\ unseen' = {}
  /\ UNCHANGED <<root, takes, row, torn, late, disk, broken, online, changes>>

-----------------------------------------------------------------------------
(* Files and volumes *)

\* What the current sync of a library may have missed since its probe.
Scanning == job.pc \in {"scan", "apply"}
Unchanged == UNCHANGED <<root, takes, row, creating, job, torn, late>>

FileRemoved(f) ==
  /\ changes < MaxChanges
  /\ f \in disk /\ Head(f) \in online
  /\ disk' = disk \ {f} /\ broken' = broken \ {f}
  /\ absent' = IF Scanning THEN absent \cup {f} ELSE absent
  /\ changes' = changes + 1
  /\ UNCHANGED <<online, unseen>> /\ Unchanged

FileAdded(f) ==
  /\ changes < MaxChanges
  /\ f \notin disk /\ Head(f) \in online
  /\ disk' = disk \cup {f}
  /\ changes' = changes + 1
  /\ UNCHANGED <<broken, online, absent, unseen>> /\ Unchanged

\* A file is cut off or damaged, or made whole again.
FileRewritten(f) ==
  /\ changes < MaxChanges
  /\ f \in disk /\ Head(f) \in online
  /\ broken' = IF f \in broken THEN broken \ {f} ELSE broken \cup {f}
  /\ unseen' = IF Scanning THEN unseen \cup broken' ELSE unseen
  /\ changes' = changes + 1
  /\ UNCHANGED <<disk, online, absent>> /\ Unchanged

GoesOffline(v) ==
  /\ changes < MaxChanges
  /\ v \in online
  /\ online' = online \ {v}
  /\ unseen' = IF Scanning THEN unseen \cup {f \in File : Head(f) = v} ELSE unseen
  /\ changes' = changes + 1
  /\ UNCHANGED <<disk, broken, absent>> /\ Unchanged

ComesOnline(v) ==
  /\ v \in Volume \ online
  /\ online' = online \cup {v}
  /\ UNCHANGED <<disk, broken, changes, absent, unseen>> /\ Unchanged

-----------------------------------------------------------------------------
Next ==
  \/ \E r \in LocalRoot : CheckLocal(r)
  \/ \E c \in creating : InsertLocal(c)
  \/ \E r \in RemoteRoot : CreateRemote(r)
  \/ \E i, r \in RemoteRoot : UpdateRemote(i, r)
  \/ \E i \in Root : DeleteLibrary(i)
  \/ \E i \in Root, F \in SUBSET Format : SetFormats(i, F)
  \/ \E f \in File : Edit(f)
  \/ \E i, r \in LocalRoot : StartRootUpdate(i, r)
  \/ FinishRootUpdate
  \/ StartSync \/ AbortSync
  \/ \E t \in job.todo : Skip(t) \/ Probe(t)
  \/ Scan \/ ScanUnreachable \/ Apply \/ Record
  \/ Crash
  \/ \E f \in File : FileRemoved(f) \/ FileAdded(f) \/ FileRewritten(f)
  \/ \E v \in Volume : GoesOffline(v) \/ ComesOnline(v)

Spec == Init /\ [][Next]_vars

-----------------------------------------------------------------------------
(* Properties *)

\* The variables have their types: a local library has a local root, and an
\* operation that works on a library names one.
TypeOK ==
  /\ root \in [Root -> Root \cup {None}]
  /\ \A i \in Root : root[i] \in LocalRoot => i \in LocalRoot
  /\ \A i \in LocalRoot : root[i] \in LocalRoot \cup {None}
  /\ takes \in [Root -> SUBSET Format]
  /\ row \in [File -> Row]
  /\ disk \subseteq File /\ broken \subseteq disk /\ online \subseteq Volume
  /\ changes \in 0 .. MaxChanges
  /\ creating \subseteq Creations
  /\ job \in Job
  /\ job.pc \notin {"idle", "next"} => job.at \in Target
  /\ job.pc = "rootUpdate" => job.at.id \in LocalRoot /\ job.at.root \in LocalRoot
  /\ absent \subseteq File /\ unseen \subseteq File
  /\ torn \subseteq Root /\ late \subseteq Root

\* No two local libraries have roots that are equal or nested (the rule of the
\* library form), unless one of the two was written after the other had
\* changed behind its check: the checks of create_local_library and
\* update_local_root take no common lock.
RootsDisjoint ==
  \A i, k \in LocalLibraries :
    i # k /\ Overlap(root[i], root[k]) => {i, k} \cap late # {}

\* A local library keeps a local root, and no two libraries share one: the
\* repointing of a remote library, the root of a local one and two creations
\* end in the same unique column.
RootsUnique ==
  \A i, k \in Libraries : root[i] = root[k] => i = k

\* Every comic belongs to a library that exists, unless that library was
\* deleted while a sync had it in hand: delete_library does not take the
\* write lock, and the sync then writes the comics back.
ComicsHaveLibrary ==
  \A f \in File : row[f] # NoRow => row[f].lib \in Libraries \cup torn

\* In the tree that is synced, and in no other library's that it left out.
Within(f) ==
  /\ Covers(job.at.root, f)
  /\ ~ \E r \in job.spared \ {job.at.root} : Covers(job.at.root, r) /\ Covers(r, f)

\* A sync removes a comic that its root still covers only when its library did
\* not take the format of its file at the start of the sync, or when, between the
\* probe of the root and the comparison, the file did not exist or, in a local
\* library, could not be seen or not be read: the comics of a server that stops
\* answering stay, at whatever moment of the sync it stops, and so do those of
\* its damaged files.
RemovesOnlyMissing ==
  [][\A f \in File :
       Apply /\ row[f].lib = job.at.id /\ row'[f] = NoRow
             /\ Within(f)
         => \/ FormatOf[f] \notin job.at.takes
            \/ f \in absent
            \/ job.at.id \in LocalRoot /\ f \in unseen]_vars

\* The comic lies in its own library's root, apart from the one that is synced.
Stays(f) ==
  /\ row[f].lib \in Libraries
  /\ Covers(root[row[f].lib], f)
  /\ ~ Overlap(root[row[f].lib], job.at.root)

\* A sync leaves the comics of the other libraries alone. It takes over only
\* a comic that lies outside the root of its own library (left behind by a
\* change of root) or whose library's root overlaps the one that is synced.
SyncKeepsToItsOwn ==
  [][\A f \in File :
       Apply /\ row[f] # NoRow /\ row[f].lib # job.at.id /\ row'[f] # row[f]
         => ~ Stays(f)]_vars

\* Edited metadata survives every step but the deletion of its library, the
\* removal of its comic by a sync that does not find it elsewhere, a sync that
\* had read the comics before the edit, and a take-over by another library. (A
\* change of root carries whole rows: RootUpdateKeepsComics.)
EditSurvives(f, g) == row'[g] # NoRow /\ row'[g].edited /\ Last(g) = Last(f)
EditsKept ==
  [][\A f \in File :
       row[f].edited /\ ~ FinishRootUpdate =>
         \/ row'[f].edited
         \/ \E g \in File : row[g] = NoRow /\ EditSurvives(f, g)
         \/ root[row[f].lib] # None /\ root'[row[f].lib] = None
         \/ Apply /\ row[f].lib = job.at.id /\ f \notin job.known
         \/ Apply /\ row[f].lib = job.at.id /\ row'[f] = NoRow /\ \A p \in Pairs : p[1] # f
         \/ Apply /\ row[f].lib # job.at.id /\ ~ Stays(f)]_vars

\* A change of a local root loses and merges no comic: those before and those
\* after it correspond one to one, with their metadata. The ones that move are
\* the library's own, and move to where a file of that name is (a comic that is
\* itself the root has no name below it).
Comics == {f \in File : row[f] # NoRow}
RootUpdateKeepsComics ==
  [][FinishRootUpdate =>
       \E to \in Bijection(Comics, Comics') :
         \A f \in Comics :
           /\ row'[to[f]] = row[f]
           /\ \/ to[f] = f
              \/ /\ row[f].lib = job.at.id
                 /\ to[f] \in disk
                 /\ Last(to[f]) = Last(f) \/ f \in Root]_vars
=============================================================================
