---------------------------- MODULE LibraryStore ----------------------------
(***************************************************************************)
(* The library database under its writers.  Library sync, Metadata refresh *)
(* and Comic trash / restore / purge hold the library write lock of        *)
(* library_write.rs; user edits of one comic, reading history and the      *)
(* page-count writeback of the reader do not, and interleave with them     *)
(* between any two transactions.  Files move and change underneath.        *)
(*                                                                         *)
(* A comic id is the hash of its path, so a comic is also the place where  *)
(* its file lies.  One Local library.  Of the metadata fields the model    *)
(* keeps one, the title, with its lock; every lockable field is merged and *)
(* written by the same rule, but the title alone is decoded with it.  The  *)
(* resource type, which the path fixes, is left out: a size stands for     *)
(* both in a fingerprint, and the places are those whose format category   *)
(* the library takes (LibraryRoots has the categories).  A file without    *)
(* pages parses to no comic.                                               *)
(***************************************************************************)
EXTENDS Integers, FiniteSets

CONSTANTS
    Comics, Sizes, Titles,
    Decoded,        \* decode_basic_html_entities, on Titles
    Blank,          \* a title of white space
    Resources,      \* the files that may exist
    Tasks,          \* calls of the locked operations
    Readers,        \* page-list loads, each followed by a writeback
    MaxWork, MaxDisk, MaxEdits, MaxReads, MaxCrashes,   \* bounds, see Bounds
    NoFile, NoRow, NoMeta, NoCopy, NoComic, NoTitle

Row == [size : Sizes, trashed : BOOLEAN]
Meta == [title : Titles, locked : BOOLEAN, pages : Nat \ {0}]
\* A ComicDto: what a read of the library or a parse of a file returns.
Copy == [size : Sizes, pages : Nat, title : Titles, locked : BOOLEAN]
Copies == [Comics -> Copy \cup {NoCopy}]

Step == {"idle", "scan", "planned", "applied", "refreshing", "merged", "purging", "erased"}
Closed == -1
Job == [at : Step, todo : SUBSET Comics, on : Comics \cup {NoComic},
        old : Copies, got : Copies, moves : SUBSET (Comics \X Comics),
        gone : SUBSET Comics]
Writeback == [at : {"idle", "parsed", "rowed"}, on : Comics \cup {NoComic},
              copy : Copy \cup {NoCopy}]
Kind == {"work", "disk", "edit", "read", "crash"}
Bounds == [k \in Kind |-> CASE k = "work" -> MaxWork [] k = "disk" -> MaxDisk
                            [] k = "edit" -> MaxEdits [] k = "read" -> MaxReads
                            [] OTHER -> MaxCrashes]

ASSUME StoreAssumption ==
    /\ Resources \subseteq [size : Sizes, pages : Nat, title : Titles]
    /\ Decoded \in [Titles -> Titles]
    /\ NoFile \notin Resources
    /\ NoRow \notin Row /\ NoMeta \notin Meta /\ NoCopy \notin Copy
    /\ NoComic \notin Comics /\ NoTitle \notin Titles
    /\ \A n \in {MaxWork, MaxDisk, MaxEdits, MaxReads, MaxCrashes} : n \in Nat

VARIABLES
    disk,       \* the file at each place
    rows,       \* table comics
    meta,       \* table comic_meta
    history,    \* table comic_reading_histories (no foreign key)
    reading,    \* the page count of each comic's open session, or Closed
    busy,       \* LIBRARY_WRITE_BUSY
    job,        \* the locked operations in progress
    wb,         \* the writebacks in progress
    quiet,      \* observed: syncs since whose start no file and no writeback moved
    home,       \* observed: where the file synced at each place lies now
    pinned,     \* observed: the title its user last fixed, while it is locked
    raced,      \* observed: comics edited while a writer held a copy of them, or moved
                \* to a place of which a writeback held one
    spent       \* what has been used of Bounds

db == <<rows, meta, history>>
observed == <<quiet, home, pinned, raced>>
vars == <<disk, rows, meta, history, reading, busy, job, wb,
          quiet, home, pinned, raced, spent>>

-----------------------------------------------------------------------------
\* A definition that precedes another and is used nowhere (MergedIgnoringLock
\* before Merged) is that one with a bug planted in it: a property has to notice
\* the exchange.

NoCopies == [c \in Comics |-> NoCopy]
IdleJob == [at |-> "idle", todo |-> {}, on |-> NoComic, old |-> NoCopies,
            got |-> NoCopies, moves |-> {}, gone |-> {}]
IdleWriteback == [at |-> "idle", on |-> NoComic, copy |-> NoCopy]

\* load_comics_ordered drops a comic that lacks either of its rows.
Existing == {c \in Comics : rows[c] # NoRow /\ meta[c] # NoMeta}
Loaded(c) == [size |-> rows[c].size, pages |-> meta[c].pages,
              title |-> meta[c].title, locked |-> meta[c].locked]
LoadedAll == [c \in Comics |-> IF c \in Existing THEN Loaded(c) ELSE NoCopy]

\* The file at c parses to a comic; parsed_to_comic of it.
Parses(c) == disk[c] # NoFile /\ disk[c].pages > 0
Parsed(c) == [size |-> disk[c].size, pages |-> disk[c].pages,
              title |-> Decoded[disk[c].title], locked |-> FALSE]

MergedIgnoringLock(scanned, existing, pages) ==
    [size |-> scanned.size, pages |-> pages,
     title |-> Decoded[IF scanned.title = Blank THEN existing.title ELSE scanned.title],
     locked |-> existing.locked]

\* merge_scan_with_existing: a locked field keeps its value, and so does one of
\* which the scan found nothing; either title is decoded (merge_title).  The locks
\* are those of the library, pages is what the caller's page rule chose.
Merged(scanned, existing, pages) ==
    [size |-> scanned.size, pages |-> pages,
     title |-> Decoded[IF existing.locked \/ scanned.title = Blank
                       THEN existing.title ELSE scanned.title],
     locked |-> existing.locked]

\* A merged copy of c is waiting to be written.
WritingBack(c) == \E w \in Readers : wb[w].at # "idle" /\ wb[w].on = c
Outstanding(c) ==
    \/ \E t \in Tasks :
         \/ /\ job[t].at = "planned"
            /\ job[t].got[c] # NoCopy \/ \E a \in Comics : <<c, a>> \in job[t].moves
         \/ job[t].at = "merged" /\ job[t].on = c
    \/ WritingBack(c)

Spend(k) ==
    /\ spent[k] < Bounds[k]
    /\ spent' = [spent EXCEPT ![k] = @ + 1]

\* Files on disk and a database that a sync has brought in step with them.
Init ==
    /\ disk \in [Comics -> {r \in Resources : r.pages > 0} \cup {NoFile}]
    /\ rows = [c \in Comics |-> IF disk[c] = NoFile THEN NoRow
                                ELSE [size |-> disk[c].size, trashed |-> FALSE]]
    /\ meta = [c \in Comics |-> IF disk[c] = NoFile THEN NoMeta
                                ELSE [title |-> Decoded[disk[c].title], locked |-> FALSE,
                                      pages |-> disk[c].pages]]
    /\ history = {}
    /\ reading = [c \in Comics |-> Closed]
    /\ busy = FALSE
    /\ job = [t \in Tasks |-> IdleJob]
    /\ wb = [w \in Readers |-> IdleWriteback]
    /\ quiet = {}
    /\ home = [c \in Comics |-> IF disk[c] = NoFile THEN NoComic ELSE c]
    /\ pinned = [c \in Comics |-> NoTitle]
    /\ raced = {}
    /\ spent = [k \in Kind |-> 0]

-----------------------------------------------------------------------------
\* The library write lock: fail-fast, so an operation starts only when it is
\* free, and held by the guard until the operation has returned.
AcquireUnchecked(t, j) ==
    /\ job[t].at = "idle"
    /\ busy' = TRUE
    /\ job' = [job EXCEPT ![t] = j]
    /\ Spend("work")
Acquire(t, j) ==
    /\ ~busy
    /\ job[t].at = "idle"
    /\ busy' = TRUE
    /\ job' = [job EXCEPT ![t] = j]
    /\ Spend("work")

Release(t) ==
    /\ busy' = FALSE
    /\ job' = [job EXCEPT ![t] = IdleJob]

Advance(t, j) ==
    /\ job' = [job EXCEPT ![t] = j]
    /\ UNCHANGED <<busy, spent>>

\* upsert_comics for one copy.  It leaves deleted_at alone; a copy without
\* pages is not written at all.
UpsertRowRevives(c, x) == [size |-> x.size, trashed |-> FALSE]
UpsertRow(c, x) == [size |-> x.size, trashed |-> rows[c] # NoRow /\ rows[c].trashed]
UpsertMeta(x) == [title |-> x.title, locked |-> x.locked, pages |-> x.pages]
Writes(x) == x # NoCopy /\ x.pages > 0

-----------------------------------------------------------------------------
\* Library sync.

StartSync(t) ==
    /\ Acquire(t, [IdleJob EXCEPT !.at = "scan", !.todo = Comics, !.old = LoadedAll])
    /\ quiet' = quiet \cup {t}
    /\ UNCHANGED <<disk, db, reading, wb, home, pinned, raced>>

\* refresh_resource_size on the comic that a scan reuses
ReusedAsIs(x, c) == x
Reused(x, c) == [x EXCEPT !.size = disk[c].size]

\* The scanner visits one place.  A file is parsed, and dropped if it parses to
\* no comic, or the comic read when the sync started is reused with the size
\* refreshed: the thumbnail's recorded modification time, which is outside this
\* model, decides.
ScanPath(t, c) ==
    LET j == job[t] IN
    /\ j.at = "scan" /\ c \in j.todo
    /\ \/ /\ ~Parses(c)
          /\ Advance(t, [j EXCEPT !.todo = @ \ {c}])
       \/ /\ Parses(c)
          /\ Advance(t, [j EXCEPT !.todo = @ \ {c}, !.got[c] = Parsed(c)])
       \/ /\ disk[c] # NoFile /\ j.old[c] # NoCopy
          /\ Advance(t, [j EXCEPT !.todo = @ \ {c}, !.got[c] = Reused(j.old[c], c)])
    /\ UNCHANGED <<disk, db, reading, wb, observed>>

\* detect_path_migration_pairs: fingerprints that occur once among the comics
\* whose file is gone and once among the files without a comic.
Fingerprint(x) == <<x.size, x.pages>>
MigrationPairs(removed, added, existing, scanned) ==
    {p \in removed \X added :
        /\ Fingerprint(existing[p[1]]) = Fingerprint(scanned[p[2]])
        /\ \A f \in removed : Fingerprint(existing[f]) = Fingerprint(existing[p[1]]) => f = p[1]
        /\ \A a \in added : Fingerprint(scanned[a]) = Fingerprint(scanned[p[2]]) => a = p[2]}

\* build_scan_replace_plan reads the library again, outside the transaction
\* that will apply the plan.
BuildPlan(t) ==
    LET j       == job[t]
        scanned == {c \in Comics : j.got[c] # NoCopy}
        removed == Existing \ scanned
        added   == scanned \ Existing
        pairs   == MigrationPairs(removed, added, LoadedAll, j.got)
        from(a) == CHOOSE f \in removed : <<f, a>> \in pairs
    IN  /\ j.at = "scan" /\ j.todo = {}
        /\ Advance(t, [IdleJob EXCEPT
              !.at = "planned",
              !.moves = pairs,
              !.gone = {c \in removed : \A a \in added : <<c, a>> \notin pairs},
              !.got = [c \in Comics |->
                  IF c \in scanned \cap Existing
                  THEN Merged(j.got[c], Loaded(c), meta[c].pages)
                  ELSE IF c \in added /\ \E f \in removed : <<f, c>> \in pairs
                  THEN Merged(j.got[c], Loaded(from(c)), j.got[c].pages)
                  ELSE j.got[c]]])
        /\ UNCHANGED <<disk, db, reading, wb, observed>>

\* A rekey inserts the row of its target and repoints the reading history:
\* either violates a primary key if the target is taken by now.
Blocked(j) ==
    \E p \in j.moves : \/ rows[p[2]] # NoRow
                       \/ p[1] \in history /\ p[2] \in history

\* apply_scan_replace_plan: rekeys, deletions and upserts in one transaction.
SourceForgotten(j, c) == c
Source(j, c) == IF \E f \in Comics : <<f, c>> \in j.moves
                THEN CHOOSE f \in Comics : <<f, c>> \in j.moves ELSE c
Left(j) == j.gone \cup {f \in Comics : \E a \in Comics : <<f, a>> \in j.moves}

\* A sync that ran undisturbed knows where every file is.
NewHome(t) ==
    IF t \in quiet
    THEN [c \in Comics |-> IF disk[c] = NoFile THEN NoComic ELSE c]
    ELSE home

ApplyPlan(t) ==
    LET j          == job[t]
        written(c) == Writes(j.got[c])
    IN  /\ j.at = "planned"
        /\ ~Blocked(j)
        /\ rows' = [c \in Comics |->
              IF written(c)
              THEN [UpsertRow(c, j.got[c]) EXCEPT
                       !.trashed = LET f == Source(j, c) IN rows[f] # NoRow /\ rows[f].trashed]
              ELSE IF c \in Left(j) THEN NoRow ELSE rows[c]]
        /\ meta' = [c \in Comics |->
              IF written(c) THEN UpsertMeta(j.got[c])
              ELSE IF c \in Left(j) THEN NoMeta ELSE meta[c]]
        /\ history' = {c \in Comics : \/ c \in history \ Left(j)
                                      \/ Source(j, c) # c /\ Source(j, c) \in history}
        /\ pinned' = [c \in Comics |-> IF c \in Left(j) THEN NoTitle ELSE pinned[Source(j, c)]]
        /\ raced' = {c \in Comics \ Left(j) : \/ Source(j, c) \in raced
                                              \/ Source(j, c) # c /\ WritingBack(c)}
        /\ home' = NewHome(t)
        /\ Advance(t, [IdleJob EXCEPT !.at = "applied"])
        /\ UNCHANGED <<disk, reading, wb, quiet>>

\* The transaction failed on a taken key and rolled back: the sync ends with an error.
ApplyRejected(t) ==
    /\ job[t].at = "planned" /\ Blocked(job[t])
    /\ Release(t)
    /\ UNCHANGED <<disk, db, reading, wb, observed, spent>>

\* Probe snapshot, sync record and reader sessions after the commit.
FinishSync(t) ==
    /\ job[t].at = "applied"
    /\ Release(t)
    /\ UNCHANGED <<disk, db, reading, wb, observed, spent>>

AbortLeakingLock(t) ==
    /\ job[t].at \in {"scan", "planned", "applied", "refreshing", "merged"}
    /\ job' = [job EXCEPT ![t] = IdleJob]
    /\ UNCHANGED <<disk, db, reading, busy, wb, observed, spent>>

\* A cancelled or failed operation returns; what it committed stays.
Abort(t) ==
    /\ job[t].at \in {"scan", "planned", "applied", "refreshing", "merged"}
    /\ Release(t)
    /\ UNCHANGED <<disk, db, reading, wb, observed, spent>>

-----------------------------------------------------------------------------
\* Metadata refresh of a comic, of a series' members or of a library.

StartRefresh(t, C) ==
    /\ Acquire(t, [IdleJob EXCEPT !.at = "refreshing", !.todo = C])
    /\ UNCHANGED <<disk, db, reading, wb, observed>>

\* Read the comic, then stat and parse its file, outside any transaction.
RefreshParse(t, c) ==
    LET j == job[t]
        x == Merged(Parsed(c), Loaded(c), disk[c].pages)
    IN  /\ j.at = "refreshing" /\ c \in j.todo
        /\ c \in Existing /\ Parses(c)
        /\ Advance(t, [j EXCEPT !.at = "merged", !.on = c, !.todo = @ \ {c}, !.got[c] = x])
        /\ UNCHANGED <<disk, db, reading, wb, observed>>

\* Missing comic, missing file or a resource that cannot be parsed: the next one.
RefreshSkip(t, c) ==
    LET j == job[t] IN
    /\ j.at = "refreshing" /\ c \in j.todo
    /\ Advance(t, [j EXCEPT !.todo = @ \ {c}])
    /\ UNCHANGED <<disk, db, reading, wb, observed>>

RefreshWrite(t) ==
    LET j == job[t] c == j.on x == j.got[c] IN
    /\ j.at = "merged"
    /\ rows' = [rows EXCEPT ![c] = UpsertRow(c, x)]
    /\ meta' = [meta EXCEPT ![c] = UpsertMeta(x)]
    /\ Advance(t, [IdleJob EXCEPT !.at = "refreshing", !.todo = j.todo])
    /\ UNCHANGED <<disk, history, reading, wb, observed>>

\* The write failed: of a series or a library, the next comic.
RefreshWriteFails(t) ==
    /\ job[t].at = "merged"
    /\ Advance(t, [IdleJob EXCEPT !.at = "refreshing", !.todo = job[t].todo])
    /\ UNCHANGED <<disk, db, reading, wb, observed>>

FinishRefresh(t) ==
    /\ job[t].at = "refreshing" /\ job[t].todo = {}
    /\ Release(t)
    /\ UNCHANGED <<disk, db, reading, wb, observed, spent>>

-----------------------------------------------------------------------------
\* Comic trash, restore and purge.  The first two are one locked transaction.

InTrash(c) == rows[c] # NoRow /\ rows[c].trashed

MarkUnlocked(C, deleted) ==
    /\ Spend("work")
    /\ rows' = [c \in Comics |->
          IF c \in C /\ rows[c] # NoRow THEN [rows[c] EXCEPT !.trashed = deleted] ELSE rows[c]]
    /\ UNCHANGED <<disk, meta, history, reading, busy, job, wb, observed>>
Mark(C, deleted) ==
    /\ ~busy
    /\ Spend("work")
    /\ rows' = [c \in Comics |->
          IF c \in C /\ rows[c] # NoRow THEN [rows[c] EXCEPT !.trashed = deleted] ELSE rows[c]]
    /\ UNCHANGED <<disk, meta, history, reading, busy, job, wb, observed>>

Trash(C) == Mark(C, TRUE)
Restore(C) == Mark(C, FALSE)

\* load_purge_targets reads the trash flag once, for all comics of the call.
StartPurge(t, C) ==
    /\ Acquire(t, [IdleJob EXCEPT !.at = "purging", !.todo = {c \in C : InTrash(c)}])
    /\ UNCHANGED <<disk, db, reading, wb, observed>>

\* purge_one: the file first, the rows in a transaction of their own.
PurgeErase(t, c) ==
    LET j == job[t] IN
    /\ j.at = "purging" /\ c \in j.todo
    /\ disk' = [disk EXCEPT ![c] = NoFile]
    /\ home' = [d \in Comics |-> IF home[d] = c THEN NoComic ELSE home[d]]
    /\ Advance(t, [j EXCEPT !.at = "erased", !.on = c, !.todo = @ \ {c}])
    /\ UNCHANGED <<db, reading, wb, quiet, pinned, raced>>

\* The file cannot be deleted: the comic stays in trash.
PurgeSkip(t, c) ==
    LET j == job[t] IN
    /\ j.at = "purging" /\ c \in j.todo /\ disk[c] # NoFile
    /\ Advance(t, [j EXCEPT !.todo = @ \ {c}])
    /\ UNCHANGED <<disk, db, reading, wb, observed>>

\* delete_comics_side_effects; comic_meta goes with its row.
PurgeDelete(t) ==
    LET j == job[t] c == j.on IN
    /\ j.at = "erased"
    /\ rows' = [rows EXCEPT ![c] = NoRow]
    /\ meta' = [meta EXCEPT ![c] = NoMeta]
    /\ history' = history \ {c}
    /\ pinned' = [pinned EXCEPT ![c] = NoTitle]
    /\ raced' = raced \ {c}
    /\ Advance(t, [j EXCEPT !.at = "purging", !.on = NoComic])
    /\ UNCHANGED <<disk, reading, wb, quiet, home>>

\* The transaction failed: the file is gone, the comic stays in trash.
PurgeDeleteFails(t) ==
    LET j == job[t] IN
    /\ j.at = "erased"
    /\ Advance(t, [j EXCEPT !.at = "purging", !.on = NoComic])
    /\ UNCHANGED <<disk, db, reading, wb, observed>>

FinishPurge(t) ==
    /\ job[t].at = "purging" /\ job[t].todo = {}
    /\ Release(t)
    /\ UNCHANGED <<disk, db, reading, wb, observed, spent>>

-----------------------------------------------------------------------------
\* The user, without the lock.

\* update_comic_user_meta: the title is decoded, and locked in the same transaction.
EditTitle(c, v) ==
    /\ meta[c] # NoMeta
    /\ Spend("edit")
    /\ meta' = [meta EXCEPT ![c] = [@ EXCEPT !.title = Decoded[v], !.locked = TRUE]]
    /\ pinned' = [pinned EXCEPT ![c] = Decoded[v]]
    /\ raced' = IF Outstanding(c) THEN raced \cup {c} ELSE raced \ {c}
    /\ UNCHANGED <<disk, rows, history, reading, busy, job, wb, quiet, home>>

\* set_comic_meta_locks
SetLock(c, b) ==
    /\ meta[c] # NoMeta
    /\ Spend("edit")
    /\ meta' = [meta EXCEPT ![c] = [@ EXCEPT !.locked = b]]
    /\ pinned' = [pinned EXCEPT ![c] = IF b THEN meta[c].title ELSE NoTitle]
    /\ raced' = IF Outstanding(c) THEN raced \cup {c} ELSE raced \ {c}
    /\ UNCHANGED <<disk, rows, history, reading, busy, job, wb, quiet, home>>

\* open_reader refuses a comic in trash; the screen then outlives its row.
OpenScreen(c) ==
    /\ c \in Existing /\ ~InTrash(c) /\ disk[c] # NoFile
    /\ reading[c] = Closed
    /\ Spend("read")
    /\ reading' = [reading EXCEPT ![c] = disk[c].pages]
    /\ UNCHANGED <<disk, db, busy, job, wb, observed>>

CloseScreen(c) ==
    /\ reading[c] # Closed
    /\ reading' = [reading EXCEPT ![c] = Closed]
    /\ UNCHANGED <<disk, db, busy, job, wb, observed, spent>>

\* record_reading upserts the history row, whether or not the comic exists.
RecordReading(c) ==
    /\ reading[c] # Closed
    /\ history' = history \cup {c}
    /\ UNCHANGED <<disk, rows, meta, reading, busy, job, wb, observed, spent>>

-----------------------------------------------------------------------------
\* writeback_after_open: the page list of the open session disagrees with the
\* page count of the library.  It reads the comic and parses the file that lies
\* there now; for a resource that parse_file does not handle (a directory, also
\* one that is gone) or that parses to nothing it keeps the comic and takes the
\* page count of the session.
WritebackParse(w, c) ==
    LET n     == reading[c]
        plain == Merged([Loaded(c) EXCEPT !.pages = n], Loaded(c), n)
        fresh == Merged(Parsed(c), Loaded(c), disk[c].pages)
    IN  /\ wb[w].at = "idle"
        /\ c \in Existing
        /\ n > 0 /\ meta[c].pages # n
        /\ \E x \in {plain} \cup (IF Parses(c) THEN {fresh} ELSE {}) :
             wb' = [wb EXCEPT ![w] = [at |-> "parsed", on |-> c, copy |-> x]]
        /\ UNCHANGED <<disk, db, reading, busy, job, observed, spent>>

\* upsert_comics on the bare connection: the row is committed by itself ...
WritebackRow(w) ==
    LET c == wb[w].on IN
    /\ wb[w].at = "parsed"
    /\ rows' = [rows EXCEPT ![c] = UpsertRow(c, wb[w].copy)]
    /\ wb' = [wb EXCEPT ![w] = [@ EXCEPT !.at = "rowed"]]
    /\ quiet' = {}
    /\ UNCHANGED <<disk, meta, history, reading, busy, job, home, pinned, raced, spent>>

\* ... and the metadata after it, unless the row is gone again.
WritebackMeta(w) ==
    LET c == wb[w].on IN
    /\ wb[w].at = "rowed"
    /\ meta' = IF rows[c] = NoRow THEN meta
               ELSE [meta EXCEPT ![c] = UpsertMeta(wb[w].copy)]
    /\ wb' = [wb EXCEPT ![w] = IdleWriteback]
    /\ quiet' = {}
    /\ UNCHANGED <<disk, rows, history, reading, busy, job, home, pinned, raced, spent>>

WritebackFails(w) ==
    /\ wb[w].at # "idle"
    /\ wb' = [wb EXCEPT ![w] = IdleWriteback]
    /\ UNCHANGED <<disk, db, reading, busy, job, observed, spent>>

-----------------------------------------------------------------------------
\* The disk and the process.

\* home after the file at c has gone to d (NoComic: it is gone)
Moved(c, d) == [x \in Comics |-> IF home[x] = c THEN d ELSE home[x]]

PutFile(c, r) ==
    /\ disk[c] # r
    /\ Spend("disk")
    /\ disk' = [disk EXCEPT ![c] = r]
    /\ home' = Moved(c, NoComic)
    /\ quiet' = {}
    /\ UNCHANGED <<db, reading, busy, job, wb, pinned, raced>>

MoveFile(c, d) ==
    /\ disk[c] # NoFile /\ disk[d] = NoFile
    /\ Spend("disk")
    /\ disk' = [disk EXCEPT ![c] = NoFile, ![d] = disk[c]]
    /\ home' = Moved(c, d)
    /\ quiet' = {}
    /\ UNCHANGED <<db, reading, busy, job, wb, pinned, raced>>

\* The process ends and starts again: only the disk and the database survive.
Crash ==
    /\ Spend("crash")
    /\ busy' = FALSE
    /\ job' = [t \in Tasks |-> IdleJob]
    /\ wb' = [w \in Readers |-> IdleWriteback]
    /\ reading' = [c \in Comics |-> Closed]
    /\ quiet' = {}
    /\ UNCHANGED <<disk, db, home, pinned, raced>>

-----------------------------------------------------------------------------
\* The steps of a locked operation that follow from its code alone.
Progress(t) ==
    \/ \E c \in Comics : ScanPath(t, c)
    \/ BuildPlan(t) \/ ApplyPlan(t) \/ ApplyRejected(t) \/ FinishSync(t)
    \/ \E c \in Comics : RefreshParse(t, c) \/ RefreshSkip(t, c)
    \/ RefreshWrite(t) \/ RefreshWriteFails(t) \/ FinishRefresh(t)
    \/ \E c \in Comics : PurgeErase(t, c) \/ PurgeSkip(t, c)
    \/ PurgeDelete(t) \/ PurgeDeleteFails(t) \/ FinishPurge(t)

Start(t) ==
    \/ StartSync(t)
    \/ \E C \in SUBSET Comics \ {{}} : StartRefresh(t, C) \/ StartPurge(t, C)

User(c) ==
    \/ \E v \in Titles : EditTitle(c, v)
    \/ \E b \in BOOLEAN : SetLock(c, b)
    \/ OpenScreen(c) \/ CloseScreen(c) \/ RecordReading(c)

WritebackStep(w) ==
    \/ \E c \in Comics : WritebackParse(w, c)
    \/ WritebackRow(w) \/ WritebackMeta(w) \/ WritebackFails(w)

Environment ==
    \/ \E c \in Comics, r \in Resources \cup {NoFile} : PutFile(c, r)
    \/ \E c, d \in Comics : MoveFile(c, d)
    \/ Crash

Next ==
    \/ \E t \in Tasks : Start(t) \/ Progress(t) \/ Abort(t)
    \/ \E C \in SUBSET Comics \ {{}} : Trash(C) \/ Restore(C)
    \/ \E c \in Comics : User(c)
    \/ \E w \in Readers : WritebackStep(w)
    \/ Environment

Spec == Init /\ [][Next]_vars

\* A locked operation runs to its end once it has started: its body awaits the
\* disk and the database only.  Nothing else is promised.
FairSpec == Spec /\ \A t \in Tasks : WF_vars(Progress(t))

-----------------------------------------------------------------------------
\* Properties.

\* Every variable has its type.
DatabaseTypeOK ==
    /\ disk \in [Comics -> Resources \cup {NoFile}]
    /\ rows \in [Comics -> Row \cup {NoRow}]
    /\ meta \in [Comics -> Meta \cup {NoMeta}]
    /\ history \in SUBSET Comics
TaskTypeOK ==
    /\ busy \in BOOLEAN
    /\ job \in [Tasks -> Job]
    /\ wb \in [Readers -> Writeback]
    /\ reading \in [Comics -> Nat \cup {Closed}]
ObservedTypeOK ==
    /\ quiet \in SUBSET Tasks
    /\ home \in [Comics -> Comics \cup {NoComic}]
    /\ pinned \in [Comics -> Titles \cup {NoTitle}]
    /\ raced \in SUBSET Comics
    /\ spent \in [Kind -> Nat]
TypeOK == DatabaseTypeOK /\ TaskTypeOK /\ ObservedTypeOK

\* The library write lock is held exactly while one operation is in progress,
\* whatever way the operation ends (success, error, cancellation, rollback).
SingleWriter ==
    /\ \A t, u \in Tasks : job[t].at # "idle" /\ job[u].at # "idle" => t = u
    /\ busy <=> \E t \in Tasks : job[t].at # "idle"

\* A purge reads the trash flags once and then deletes files one by one: each
\* comic it still has to delete, or whose file it has just deleted, is in trash.
PurgeTargetsInTrash ==
    \A t \in Tasks : job[t].at \in {"purging", "erased"} =>
        \A c \in job[t].todo \cup ({job[t].on} \ {NoComic}) : InTrash(c)

\* Nothing but a restore brings a comic out of trash: not a sync that finds its
\* file, a refresh or a writeback (ADR-0023).
TrashedUntilRestored ==
    [][\A c \in Comics : InTrash(c) /\ rows'[c] # NoRow /\ ~rows'[c].trashed
          => \E C \in SUBSET Comics : c \in C /\ Restore(C)]_vars

\* What a title can become by being decoded again and again, at first itself.
DecodedFrom(v) ==
    {x \in Titles : \A S \in SUBSET Titles :
        v \in S /\ (\A y \in S : Decoded[y] \in S) => x \in S}

\* A title its user fixed while no writer held a copy of the comic survives
\* every scan, refresh, writeback, migration and restart (ADR-0007), unless the
\* comic moved to where a writeback still holds a copy of an earlier one: it stays
\* locked and nothing of the file gets into it.  It stays as it was entered if it
\* holds no html entity; every merge decodes those of a locked title once more.
UnracedTitleKept ==
    \A c \in Comics : pinned[c] # NoTitle /\ c \notin raced =>
        /\ meta[c] # NoMeta
        /\ meta[c].title \in DecodedFrom(pinned[c]) /\ meta[c].locked

\* When nothing disturbed a sync from its start to its commit, the library has
\* exactly the comics whose files exist and parse to one, in the sizes they have.
SyncMirrorsDisk ==
    [][\A t \in quiet : job[t].at = "planned" /\ job'[t].at = "applied" =>
          \A c \in Comics :
             /\ c \in Existing' => disk[c] # NoFile
             /\ disk[c] # NoFile /\ disk[c].pages > 0
                  => c \in Existing' /\ rows'[c].size = disk[c].size]_vars

\* An undisturbed sync finds a moved file again: if the file synced at c lies at
\* d now, c is empty, d had no comic and the fingerprint is nobody else's, then
\* d takes over the trash flag, the lock and the reading history of c.
AloneWithFingerprint(c, d) ==
    /\ \A x \in Existing \ {c} : Fingerprint(Loaded(x)) # Fingerprint(Loaded(c))
    /\ \A x \in Comics \ {d} : disk[x] # NoFile => Fingerprint(Parsed(x)) # Fingerprint(Parsed(d))
MovedComicKept ==
    [][\A t \in quiet : job[t].at = "planned" /\ job'[t].at = "applied" =>
          \A c \in Existing, d \in Comics :
             /\ c # d /\ home[c] = d /\ disk[c] = NoFile /\ rows[d] = NoRow
             /\ Fingerprint(Loaded(c)) = Fingerprint(Parsed(d)) /\ AloneWithFingerprint(c, d)
             => /\ d \in Existing' /\ rows'[d].trashed = rows[c].trashed
                /\ c \notin raced => meta'[d].locked = meta[c].locked
                /\ c \in history => d \in history' /\ c \notin history']_vars

\* LIBRARY_WRITE_BUSY and the operations in progress implement an abstract lock:
\* one operation at a time, from its start to its end without another in between,
\* and the flag is down again after it succeeds, fails, is cancelled, is rolled
\* back or dies with the process.
Holders == {t \in Tasks : job[t].at # "idle"}
Lock == INSTANCE WriteLock WITH taken <- busy, holders <- Holders
LockImplemented == Lock!Spec

\* No operation keeps the lock for good, whatever goes wrong in it.
LockReleased == Lock!Released
=============================================================================
