# Verification of the Hentai Library core

TLA+ models of the stateful parts of the Rust core under `src/core/crates/core/src/`
(paths below are relative to it unless they start with `src/`), TLC
configurations that check them on small instances, and TLAPS proofs of what
matters most for every instance.

    tlc -workers 2 -config LibraryStore_purge.cfg MCLibraryStore
    tlapm LibraryStore_proofs.tla

## 1. The system

The app is a Flutter front end over a Rust core. The core keeps a SQLite database
of comics whose identity is the hash of their path, mirrors directories into it
(Library sync), serves pages to the reader and renders thumbnails. What makes it
hard is that almost everything runs concurrently and little of it shares a lock:

| Part | State it keeps | Operations | Interacts through | Module |
|---|---|---|---|---|
| Reader session store, `reader/manager.rs` | map id -> session with reference count, LRU list, behind one Mutex | open, ephemeral lease, release, close, clear | reading screen, thumbnails, sync and trash close sessions by force | ReaderSessions |
| Library write lock, `library_write.rs` | one flag | fail-fast acquire, release by guard | sync, refresh, trash, restore, purge, bulk patch, import, root update | WriteLock, LibraryStore |
| Library sync, `sync/` | rows of comics, metadata, series | scan, plan, apply in one transaction | files on disk, path migration, metadata merge | LibraryStore, LibraryRoots, FolderSeries |
| Path migration, `path_migration/` | none of its own | fingerprint pairing, rekey | part of the sync's transaction | LibraryStore, FolderSeries |
| Metadata locks, `metadata_lock/` | lock columns | merge of a scan with the library | sync, refresh, writeback | LibraryStore, MetadataBackup |
| Metadata refresh, `sync/refresh.rs` | none | parse, merge, write, comic by comic | write lock | LibraryStore |
| Trash and purge, `comic/trash.rs` | `comics.deleted_at`, files | trash, restore, purge | write lock, reader sessions | LibraryStore, ReaderSessions |
| User edits, `comic/write.rs` | metadata, locks | edit, lock | no lock, so that they go on during a sync | LibraryStore, MetadataBackup |
| Reading history, `history/` | history rows, without a foreign key | record, rekey, delete | the reading screen, migration | LibraryStore |
| First-open writeback, `reader/writeback.rs` | none | read, parse, upsert | no lock, no transaction | LibraryStore |
| Thumbnail queue and covers, `thumbnail/` | lanes, in-flight set, negative cache, waiters, progress; covers table | enqueue, batch, worker loop, generate, set from a page | tokio Notify, files | ThumbnailQueue |
| Page cache and prefetch, `reader/cache.rs`, `reader/prefetch.rs` | files by fingerprint, generation map | load, prefetch, evict, clear | reader sessions, the reading screen's windows | PageCache |
| Libraries and roots, `library/` | libraries | create, repoint, delete, move a root | sync, partly without its lock | LibraryRoots |
| Series, `series/`, `sync/series_rebuild.rs` | series, items with orders, locks | rebuild, rename, order | inside the sync; edits without the lock | FolderSeries |
| Named metadata, `named_facet/`, `author/` | dictionaries, names of comics, links | add, rename, merge, delete | sync, patch, import | MetadataBackup |
| Bulk patch, `comic/bulk_patch.rs` | names of many comics | patch, comic by comic | write lock | MetadataBackup |
| Metadata backup, `metadata_backup/` | a file | export, import | export without the lock | MetadataBackup |
| Author images, `author/platform_images.rs`, `image_cache.rs` | links, rows, files, a lock per author | schedule, refresh, evict, change of links | network | AuthorImages |
| Revision poller, `revision.rs`, `db.rs` | two connections, epoch, last number | poll, subscribe, open, shut down | every list of the app | RevisionPoller |
| Read session of the app, `src/app/lib/features/read_session/` | phases, timers | open with a timeout, exit, retry, switch of volumes, flush | reader sessions, page cache | ReadSession, PageCache |

`PROJECT.json` lists every part with its status, and every hazard with its line.

What correctness means for each of them: references are neither lost nor leaked;
at most one of the locked operations runs and its lock always comes back; a sync
ends with exactly the comics whose files exist, and does not touch those it could
not see or that are another library's; what a user fixed (a title, an order, a
name, a cover) stays until the user changes it; what is deleted stays deleted; a
moved file keeps its comic and a moved folder its series; queued work is done once,
and is done; what a screen shows catches up with the database; a picture belongs to
the file, or the link, it is shown for.

## 2. Modules

    ReaderSessions     <- MCReaderSessions      ReaderSessions_proofs
      ReadSession      <- MCReadSession           (EXTENDS ReaderSessions; proved there too)
    LibraryStore       <- MCLibraryStore        LibraryStore_proofs
      WriteLock          (abstract, implemented by LibraryStore)
    ThumbnailQueue     <- MCThumbnailQueue      ThumbnailQueue_proofs
    LibraryRoots       <- MCLibraryRoots        LibraryRoots_proofs
    PageCache          <- MCPageCache           PageCache_proofs
    AuthorImages       <- MCAuthorImages        AuthorImages_proofs
    RevisionPoller     <- MCRevisionPoller      SeriesAndRevisions_proofs
    FolderSeries       <- MCFolderSeries        SeriesAndRevisions_proofs
    MetadataBackup     <- MCMetadataBackup      MetadataBackup_proofs

An MC module gives the constants their values and the symmetry of the model values;
a proofs module extends its model and TLAPS. Variables marked "observed" or "history"
exist in no line of the code: they remember what a property speaks about and no guard
of a modelled operation reads them, except bounds. A definition that is used nowhere
and precedes another (`MergedIgnoringLock` before `Merged`) is that one with a bug
planted in it; `PROJECT.json` names the property that notices the exchange.

### ReaderSessions

`sessions`, `order` are the two fields of `SessionStore`, and one action is one
critical section of its Mutex. `acquire_reader_with` is `FirstLock` (reuse, refuse
a different path in use, or drop an idle session), then the backend is opened
outside the lock (`Fail` if it cannot be), then `SecondLock` repeats the test and
inserts with eviction. `open_reader` has the trash check in front (`CheckTrashed`),
which an unavailable database does not refuse (`DbMayFail`). `with_ephemeral_reader`
is `StartEphemeral`, the same acquisition, a body, and `Release` of whatever session
is then under the id. `Close`, `Clear`, `TrashCommit`/`TrashClose` remove sessions
whatever their count. Observed: `opens`, how many reading screens believe that they
hold the present session; `cut`, the leases whose session was dropped.

### ReadSession

The reading screen of the app over that store: its variables are added to those of
ReaderSessions and its steps take the store's actions with them, so that the composition is
one module. `opened` is `_openedPages` of `reader_session_service.dart`, `call` a future of
`_openPages`: `run` is what its call in the core is at, `wait` what the future still waits
for. A future that nobody awaits runs on, so `Timeout` gives the call up and leaves it
running, `CleansUp` and `CoreClose` are the close it sends after itself. `Enter`, `Visit`,
`Retry` and `OpenAside` (the boundary prompt, which opens the next volume ahead) ask for
opens. An exit is `StartExit`, the flush (`Flushed`, `FlushFails`), `Forgotten` (the pages go
before the core is awaited), `Closed`, then `Pop` or, when volumes are switched, `GoOn`.
`Others` are the leases, trash calls and syncs of ReaderSessions. History: `lost`, comics whose
session others took or a late close took from under a new open; `left`, sessions whose open
was given up, left or only made ahead.

### LibraryStore and WriteLock

The database (`rows`, `meta`, `history`), the `disk`, the flag `busy`, and for each
locked operation a record `job` with its local variables: the copy of the library
read at its start (`old`), what it scanned or merged (`got`), its plan (`moves`,
`gone`), what it has left (`todo`). One action is one transaction or one look at a
file. Sync: `StartSync`, `ScanPath` for each place, `BuildPlan` (reads the library
again), `ApplyPlan` or `ApplyRejected` (the single transaction), `FinishSync`;
`Abort` anywhere. Refresh: `StartRefresh`, then `RefreshParse`/`RefreshSkip` and
`RefreshWrite`/`RefreshWriteFails` for each comic, `FinishRefresh`. Purge:
`StartPurge` reads the trash flags, `PurgeErase`/`PurgeSkip` the file, `PurgeDelete`/
`PurgeDeleteFails` the rows. `Trash` and `Restore` are one locked transaction each.
Without the lock: `EditTitle`, `SetLock`, `RecordReading`, and the writeback in
three steps, its row and its metadata separately, as they are committed. The
environment puts, removes and moves files and ends the process (`Crash`: disk and
database stay, `busy` and everything in memory go).

A place and a comic are the same thing, since the id is the hash of the path. One
metadata field, the title, stands for all lockable scalar fields: `Merged` keeps a locked
one, and one of which the scan found nothing. Of the title it is more than that:
`merge_title` decodes the html entities of whichever title it keeps, the locked one too,
and so do parse, edit and import. The constant `Decoded` is that function on the titles of
the instance, where `&amp;lt;` becomes `&lt;` and then `<`. The resource type is fixed by
the path and left out of fingerprints.

`WriteLock` is what callers of `library_write.rs` rely on: a holder or none, and an
acquisition that fails without effect when there is one. `LibraryStore` implements it
under `Lock == INSTANCE WriteLock WITH taken <- busy, holders <- Holders`, where
`Holders` are the tasks inside a locked operation. The mapping is the point: `busy` is
one boolean, set by a compare-and-swap and reset by the drop of a guard on every way
out, and the crash has to map to releases.

### ThumbnailQueue

`lane`, `priorities`, `inFlight`, `negative`, `waiters`, `total`, `done` are
`QueueInner`. A worker is `Pop`, then `Check`, `Stat`, `Render`, `Store` of
`generate_for_comic_id` and `store_thumbnail_for_comic_with` (`GenerateFails` for an
error in any), `Finish`, `Answer`, `Chain`, `Nudge` of `process_one`; without work it is
`Park`. tokio's `Notify` is external and modelled from its use: `notify_waiters` wakes
who is parked and leaves nothing behind, `notify_one` wakes one or stores a permit. A
call is `Ask`, `Enqueue`, `NudgeAll`, and for a critical one `Register` and a wait that
`Answer` or `WaitTimesOut` ends. A sync's call is `EnqueueBatch`, `NudgeAll`. Files have
versions, a cover records the version that the stat saw (`of`) and what the picture
shows (`shows`).

### LibraryRoots

The libraries by the root they were created with (`root`: the id is its hash), the format
categories each takes (`takes`), comics with their library (`row`), files, those among them
that parse to no comic (`broken`), and volumes or servers that may be offline. The
creation of a local library is `CheckLocal` and `InsertLocal`, since nothing holds
between the two; `CreateRemote`, `UpdateRemote`, `DeleteLibrary`, `SetFormats` take no write lock.
`StartRootUpdate`/`FinishRootUpdate` are the move of a local root with its rekey. A
sync of one or all libraries reads the list once (`StartSync`), then for each `Skip`
or `Probe`, `Scan` or `ScanUnreachable`, `Apply`, `Record`. Listing and resolving are
one `Scan`, because what vanishes between them is treated alike. `Yields` is what
`resolve_scan_item` makes a comic of: a file of a format that the library takes and, on a
local volume, that parses (a listing of a server goes by the extension alone); whatever
else lies there loses its comic. `FileRewritten` damages a file or mends it. The snapshots of
resources that let a probe answer "unchanged" are left out. When an apply takes over
a comic that lies in no other root, the comic changes its library.

### PageCache

One comic with its reading screen. `cache` holds per fingerprint and page whose content
the file is; `gen` is `GENERATION_STORE`. A prefetch is `Warm` (the controller counts
the generation), `Begin` (sets it in the core), then per page `Check`, `Fetch`, `Write`
or `WriteFails`, and after the `Last` page `Evict`. A load has no generation. Leaving the
screen is `Leave`, `MarkClear` (cancels by `u64::MAX`), `RemoveTree`, which may leave some pages
(`MaxStuck`), as `clear_comic` is best effort. The `.partial` file of a write that was cut off
is left out: no page is served from it. The source file
changes, the session is dropped and opened, the process ends.

### AuthorImages

One author's links (`link`, with versions), `row` of `author_image_cache`, `file` of the
image cache, the images that the platforms show (`profile`), and the calls: adding a link,
which takes no lock; changing one (`StartUpdate` compares before it takes the author's
lock, `Update` after) and deleting one under the lock; the refresh as `Fetch`, `Check`,
`Compare`, `Recheck`, `Write`, `Record`. `Fail` is the `?` of any query, statement or file of a
refresh, or of a change before its commit: it ends the call. `DeleteAuthor` takes no lock.
Platforms are the environment (`Publish`). History: `unrecorded`, the links whose file was
written last by a refresh that ended, by a failure or with the process, before it recorded
it in `row`; `raced`, those whose url was changed by a call that had compared an older one.

### RevisionPoller

`main` and `spare` are the two connections, `epoch` the counter that tells version
connections apart. The poll loop is `Ask`, then `Adopt` (a baseline), `Notify` or `Void`;
the connections are replaced in two steps (`OpenMain`, `OpenSpare`/`OpenSpareFails`) and
dropped by `Shutdown`. A watch loop is `Subscribe`, `Read`, `Wake`, `Cancel`. tokio's
watch channel is external: a value and per receiver the value it has seen.

### FolderSeries

Volumes with their row's folder (`place`), their `item` and the `series` by folder, next
to the `disk`. `Scan` and `Apply` are the sync; `Apply` is the whole transaction: pairing
of moved files, series that move when all their members do (with the deferral of
occupied targets), rebuild of memberships, the fill of missing orders around locked
ones. `Purge` ends with the rebuild, or without it when that fails (`unbuilt`). The
user: `RenameSeries`, `SetNameLock`, `SetOrder`, `SetOrderLock`, and the drag of an order
in two steps, `AskOrder` and `WriteOrder`. Orders are integers with `Unit` for 1.0;
`Unit = 1` in the run means that halving a gap exhausts it at once. A purge counts as a
move. `set_series_items_order` is exported by the bridge, though no screen calls it now.

### MetadataBackup

The names of comics (two fields, tags and authors, for nine: tags, parodies and
characters share their code, and the scalar fields are merged as in LibraryStore), their
locks, the dictionaries, the links of authors, the root. `Patch` is the bulk patch: a
snapshot of all comics, then comic by comic with `PatchOneFails`; `Backups` are export,
read by read, and import, comic by comic, then names (`Abort` may leave some of them), then
per author a read of the links and their insertion. The code compares lists with their
order; here they are sets, so that a patch with several names may find the same names in
another order and write and lock them (`Reordered`). `User`, `Dictionary` and `Library` are
what goes on next to them. There is one library; an author is known by its name with its links on it, as no
operation here shows the row's number.


## 3. What the runs check

Every run passes. A property that TLAPS proves may be run as well, where the run shows
that the interesting case is reached; a `TypeOK` is not run where it is proved.

| Run | Instance | States | Properties |
|---|---|---|---|
| `ReaderSessions_safety` | 2 comics, 2 locations, 3 calls, cap 1, 2 screens per comic | 189 k | `NoIdleSession`, `StoreCoherent`, `PathPinnedWhileInUse` |
| `ReadSession_safety` | 2 comics, 2 calls, 2 exits, 3 visits, 1 lease, trash call or sync next to them | 1.9 M | `SessionsAreOwned`, `OpenedHasSession` |
| `LibraryStore_sync` | 2 comics, 2 operations, 1 change on disk, 1 edit, 1 reader, 4 titles | 2.9 M | `UnracedTitleKept`, `SyncMirrorsDisk`, `TrashedUntilRestored`, `MovedComicKept` |
| `LibraryStore_purge` | 2 comics, 2 tasks, 3 operations, 2 screens, 1 crash, fair | 355 k | `PurgeTargetsInTrash`, `LockImplemented`, `LockReleased` |
| `ThumbnailQueue_safety` | 2 comics, 2 workers, 2 callers with 2 calls, 1 change | 1.4 M | `QueueCoherent`, `CurrentCoverIsTrue`, `UserCoverKept`, `CountedWorkIsDone` |
| `ThumbnailQueue_drain` | 2 comics, 2 workers, 1 caller with 2 calls, fair | 156 k | `AwakeWorkerDrains` |
| `LibraryRoots_safety` | 2 libraries over nested local roots, or one local and one remote; formats and damaged files with one library; 2 changes, 1 edit | 1.9 M | `RootsDisjoint`, `ComicsHaveLibrary`, `RemovesOnlyMissing`, `EditsKept`, `RootUpdateKeepsComics`, `SyncKeepsToItsOwn` |
| `PageCache_safety` | 2 prefetches, 1 load, 2 versions, 2 generations, 2 visits, 1 page a removal leaves | 8.4 M | `LeftBehindBounded`, `AtMostOneMore`, `PagesOfTheirVersion` |
| `AuthorImages_safety` | 1 link, 2 urls, 2 images, 3 calls, 4 versions, 1 death, 1 change of a profile | 2.0 M | `ServedImageIsOfLink`, `RowNamesItsFile`, `OrphansAreExplained` |
| `RevisionPoller_lists` | 2 files, 2 lists, 2 commits, 2 openings, fair | 411 k | `NoLostChange`, `SentForCommitsOnly`, `ListsCatchUp` |
| `FolderSeries_safety` | 3 volumes, 3 folders, 2 moves, 2 edits | 448 k | `SeriesMirrorComics`, `LockedOrderKept`, `NameMovesAlong`, `OrderTakes` |
| `MetadataBackup_safety` | 2 comics, 2 tags, 1 author, 2 roots, 4 operations | 1.8 M | `PatchRevivesNothing`, `LinksOnce`, `PatchDoesWhatItSays`, `RoundTrip` |

What they show, and where the interesting case is:

- **ReaderSessions.** Three calls are enough for an acquisition, its rival and a lease or
  a trash call; a cap of 1 under two comics means that the store exceeds its cap. It
  follows from `NoIdleSession` that the replacement of idle sessions and the eviction
  loop never find anything to do: sessions go with their last reference.
- **ReadSession.** Two calls and two exits let an open be overtaken by the exit of its own
  screen and by the screen opened after it; the third visit is the return. Both properties
  say how far the app's bookkeeping by comic id can be trusted: `SessionsAreOwned` that a
  session which stays when the user is back in the library is of an open in `left`, and
  `OpenedHasSession` that a comic on the screen, or in `_openedPages`, has its session
  unless an exit in progress or `lost` explains it.
- **LibraryStore.** The two operations of the sync run are, for instance, a trash or a
  purge and the sync after it, or two syncs over a file that moves, while the reader's
  writeback and the edit fall anywhere between their steps. In the purge run two tasks
  and the one-step trash and restore compete for the lock; three operations let a trash,
  a purge and a restore follow one another, and two reading screens leave the history
  rows on which a migration is rejected, so that the lock is seen to come back from a
  rolled back transaction as well. `UnracedTitleKept` is the part of ADR-0007 that
  holds: `raced` collects the comics edited while a merged copy waited to be written, and
  those that a sync moves to a place whose earlier comic a writeback still has in hand. It
  says that the title stays locked and is the fixed one or what becomes of that by
  decoding (`DecodedFrom`), never one of the file.
- **ThumbnailQueue.** `AwakeWorkerDrains` needs its premise: a worker that popped nothing
  and has not yet called `notified()` (`thumbnail/queue.rs:141`) misses `notify_waiters`,
  and with both workers there a comic waits until the next call wakes them.
  `CountedWorkIsDone` says what `total` and `done` mean: only batches count in the one,
  every comic in the other.
- **LibraryRoots.** A root above, below or equal to another, a volume that goes after it
  was probed, a library deleted while a sync has it in hand. The run has two scenes on one
  set of paths, which the constraint `Scenes` of MCLibraryRoots keeps apart: nested local
  roots whose files can lie in both, and a local library beside a server with one root
  inside the other. Their full product would not be checked in a reasonable time; no
  property relates a local root to a remote one. Formats and damaged files come into both
  where there is one library, since they change what a library finds in its own tree
  and nothing about another's. `RemovesOnlyMissing` says for which files a comic goes: one
  that did not exist, of a format not taken, or, on a local volume, not seen or not
  readable at some moment of the sync. `late` and `torn` name the
  windows in which the code's own checks are out of date; the properties say that
  nothing happens outside of them.
- **PageCache.** Two visits make the generation of the second repeat that of the first;
  two versions make a fingerprint stale between the fetch and the write.
- **AuthorImages.** Two calls change the link while a third refreshes it; the third
  version exists so that a change can overtake another's comparison, and the fourth so that
  a further change can go back to the url of the row. Only with it is the exception of
  `ServedImageIsOfLink` reached: a row of one url, which an overtaken comparison has left on a
  link with another, a refresh that fails between the file and that row, and the way back.
- **RevisionPoller.** Reopening restarts the numbers of `data_version`. `missed` marks the
  list that a baseline has cost a change, and the property says that there is no other.
- **FolderSeries.** With three volumes a series has two members and one left over, and
  two can swap folders through the third; the first order a user types collides with
  the filled ones.
- **MetadataBackup.** `RoundTrip` is about what the model has, tags, authors, links and spare
  names; a title is decoded once more by an import (`comic/write.rs:133`), as by every
  other writer (section 5). `MaxSteps` bounds what happens together; four steps are an edit, a
  delete or a scan between two of an export, an import, a patch, and one more. Two tags
  are one that is patched and one that is renamed or merged into it.

### Bounds

All bounds are guards of the steps that start something (an operation, an edit, a change
of files, a crash); nothing that has started is bounded, so that every interleaving of
what has started is explored. `MaxVersion`, `MaxGen` and `MaxWrites` end counters that
the code never ends; `MaxStuck` is how many pages one removal may leave. `CHECK_DEADLOCK FALSE` where the system stops when its bounds are
spent: LibraryStore, PageCache, AuthorImages, MetadataBackup, and ThumbnailQueue, whose
workers besides really park.

### Fairness

- `LibraryStore!FairSpec`: weak fairness of `Progress(t)`, the steps of an operation that
  holds the lock. Its body awaits the disk and the database only and no other operation,
  so a runtime that schedules its task lets it go on. Nothing is promised for users,
  files or the start of operations.
- `ThumbnailQueue!FairSpec`: weak fairness of each worker and of each call, tasks of the
  same runtime; a parked worker has no step.
- `RevisionPoller!FairSpec`: weak fairness of the poll loop, which sleeps on a timer, and of
  the reading and waking of each watch loop. No commit and no opening has to happen.
  The second connection is opened right after the first in one call, which goes on by
  itself.

## 4. What is proved

With `tlapm`, for every value of the constants that satisfies the assumption named in
each module (null values differ from what they stand in for, bounds are naturals, the sets
that are counted are finite, orders are integers and folders are not names users give), so for any number of comics, calls, tasks, lists and crashes.
Each theorem rests on an inductive invariant, which TLC checked on the run's instance before
it was proved, since the property alone never is one:

`ReaderSessions_proofs`, the session store
- `SpecInv`: the invariant `Inv`, the types of store, calls and observations together with
  `NoIdleSession`. The conjunction is inductive: a release needs `ref >= 1` to leave either
  no session or one with a positive count, and an acquisition needs the arguments' types.
- `SpecNoIdleSession`, `SpecPathPinned`: the property follows from `Inv`; for the path, the
  only assignment of another path happens where `OtherPathInUse` is false, and with no
  idle session that means there is none.
- `SpecStoreCoherent`, `SpecTypeOK`: `Coherent` adds that the LRU list has each stored session
  once and that a lease is cut only while its body runs. `retain` and the eviction are a
  recursive function over the list; what it leaves is proved by the least length at which it
  would leave something else. The references are counted over `Callers`, hence
  `IsFiniteSet(Callers)` in the assumption.

`ReaderSessions_proofs`, the reading screen of the app
- `FlowImplementsSpec`: `FlowSpec => Spec`. Every step of ReadSession is a step of the store or
  leaves its variables, so all of the above holds below the app.
- `FlowSessionsAreOwned`: by `OpensOwned`, every open that a screen of the store still counts has
  someone who is going to close it (the screen, a call with a close of its own, an exit on its
  way) or is in `left`. With nothing under way only the latter remains, and by `Coherent` a
  session without opens has no reference.
- `FlowOpenedHasSession`: strengthened by what an exit that has forgotten its pages, closed, and
  not yet left may still find there (`ClosedIsLost`, `GoneIsLost`).
- `FlowSpecTypeOK`: with at most one owner of the screen among calls and exits (`Owned`).

`LibraryStore_proofs`
- `SpecType`: `TypeInv`, that is `TypeOK` with `Prepared`, which says what a job holds at each of
  its steps (a merged copy has pages, an erased comic is one, a writeback in progress
  has a copy). `TypeOK` alone is not inductive: `RefreshWrite` writes `got[on]`, which has to
  be a copy with pages for `meta` to keep its type.
- `SpecSingleWriter`: the flag is set exactly while one operation is inside; inductive given
  the types, one lemma for steps that stay within an operation and one for those that
  start or end one.
- `SpecLock`: the refinement, `Spec => Lock!Spec`. The initial states map to a free lock; a
  step that starts an operation maps to an acquisition, one that ends it or a crash to
  a release, by `SingleWriter`, and all others leave the mapped state as it is.
- `SpecPurgeTargets`: strengthened by the fact that the comic whose file has just been
  deleted is not among those still to delete; then `SingleWriter` excludes every other
  writer of the flag while a purge runs.
- `SpecTrashedUntilRestored`: an action property from the types and from the fact that
  a migration never overwrites an existing row (`Blocked`).
- `SpecTitles`, `SpecUnracedTitleKept`: a copy of a comic is harmless while its title is the
  one that was fixed, or the comic is in `raced`. `TitleInv` says this of every copy there is:
  the metadata (`MetaHasRow`), what a sync or refresh has merged (`JobsCarry`), what a
  writeback has read (`WritebacksCarry`). What makes it inductive is that a title is fixed
  either before a copy is made, which then carries it, or while one is held, which `raced`
  records. `PlanIsMade` says what a plan is: comics without a file and files without a comic,
  paired one to one by fingerprint. `SpecPlainTitleKept` follows: a fixed title without
  html entities stays as it is.
- `SpecMirror`, `SpecSyncMirrorsDisk`, `SpecMovedComicKept`: `SyncTrue` follows an undisturbed sync
  from its first look to its transaction (`ScanTrue`: what it has scanned lies on the disk;
  `PlanTrue`: the plan brings the library there), and `HomesTrue` says that the file last
  synced at a place is where `home` has it. Of every other step it is shown that it does
  not disturb such a sync, or ends its being undisturbed.

`ThumbnailQueue_proofs`
- `SpecTypeOK`: `Types` ties each worker's local variables to where it is.
- `SpecQueueCoherent`: `Coherent` is `Lanes` (as sets: who is queued is listed once, in the lane of
  its priority, and in no other) with `SingleFlight` (who is in flight has one worker and is not
  queued). A pop moves a comic from one to the other in one step; an enqueue looks at both.
- `SpecCurrentCoverIsTrue`, `SpecUserCoverKept`: `Covers` follows a picture through the worker:
  the version it was stated for is no later than the one rendered, which is no later than
  the present one, and whoever renders over a user's cover was rendering before it was set
  (`beaten`).
- `SpecCountedWorkIsDone`: a count of finite sets. A batch adds to `total` as many comics as
  become busy, which takes that a list without repetition has as many elements as its set.

`LibraryRoots_proofs`
- `TypeCorrect`, `UniqueRoots`.
- `ComicsOwned`: every comic has a library, with the strengthening that what a sync still has
  to do was a library when it read the list (`PendingKnown`), and is deleted only into `torn`.
- `LocalRootsDisjoint`: local roots are disjoint except for pairs of which one is in `late`.
- `SyncStaysInItsRoot`: from `PlanIsOwn`, that the plan of the current library names only
  places under its root.
- `RemovalsJustified`: `Watched` says that the history variables miss nothing while a sync scans,
  no missing, hidden or damaged file, and `RemovalsExcused` that what the scan did not find
  is in them or of a format that the library, as it was read, does not take.
- `EditsSurvive`: an action property over all writers of a comic's row, by one lemma on what a
  step may do to a row (`RowSteps`).
- `RootUpdatesKeepComics`: the rekey is injective on paths below the old root, and moves them
  outside of what the other roots hold, because the roots are distinct and the root that moves
  has no comic elsewhere; a chain of moves inside a root that is moved below itself is the
  case that needs care.

`SeriesAndRevisions_proofs`, the revision poller
- `SpecType`, `SpecNoLostChange`. The inductive invariant relates the poll loop's baseline, the
  reading in flight and what each list shows: between a commit and the notification
  some number still differs from the connection's, unless a baseline has swallowed it.
- `SpecSentForCommitsOnly`: by `Ordered`, a number that is compared with the baseline was read
  after it on the same connection, so that a different number is a later commit.

`PageCache_proofs`
- `SpecType`.
- `SpecAtMostOneMore`: an overtaken prefetch that has passed its check has written nothing since
  it was overtaken, and one that wrote after it stops at its next check; this needs that
  the number of a call in progress is not reused within a visit.
- `SpecPagesOfTheirVersion`: `Filed` keeps what a call in progress has in hand: content of the
  version under whose fingerprint it will be stored, or of one recorded in `mixed`.
- `SpecLeftBehindBounded`: `Left` counts. With the screen left and its clears done, the pages in
  the cache and the calls that have one still to write are together no more than the pages
  that the removal left and the calls that had one in hand then, since a call reads a page only
  from a session,
  which only an open screen has (`Held`).

`AuthorImages_proofs`
- `SpecTypeOK`: with the lock: the calls past the wait are the one that holds it.
- `SpecServedImageIsOfLink`, `SpecRowNamesItsFile`, `SpecOrphansAreExplained`: the inductive invariant
  `Kept` follows a refresh through its writes. After the recheck the link is as it was read or
  went with its author; what is written and not recorded is in the file; a recorded image is
  the file's unless the link is in `unrecorded`, and the urls of row and file agree unless it
  is in `raced` as well: a change of the url removes the row, except by a call that had
  compared the new url with an older one.

`MetadataBackup_proofs`
- `SpecType`, with the fact that a place without a comic has no names, locks or flags left.
- `SpecPatchRevivesNothing`: by `Attached`, the names of every comic are in their dictionary; the
  operations that take a name out of a dictionary hold the lock that the patch holds.
- `SpecLinksOnce`: by `ReadIsFresh`, what an import is about to insert was missing when read and
  still is, unless the user has touched the author since.
- `SpecPatchDoesWhatItSays`: `PatchTrue` follows the snapshot through the patch: a comic that
  is still to be patched, and that no one else changed, is as in the snapshot, so that what
  the operation makes of the snapshot it makes of the comic.
- `SpecRoundTrip`: four parts, one for each stage: what an export has read so far of comics that
  stayed as they were is what they have (`ExportTrue`), a finished backup has what they had
  (`BackupsTrue`), an import has given each comic that it does not still wait to write what the
  backup says, wherever the root is now (`ImportTrue`), and the links and spare names after
  these (`LinksTrue`, with `Attached`).

`SeriesAndRevisions_proofs`, the folder series (in one module with the former, with which
they share no variable)
- `SpecSeriesMirrorComics`, `SpecSeriesType`: `SeriesInv` adds to the two that a comic without a
  row has no item (`Rowless`) and what a draft holds (`DraftGood`). The rebuild makes comics,
  items and series agree from whatever it finds (`Rebuilt`, `RebuiltRows`), and no edit changes
  the folder of an item or makes a row of a series disappear.
- `SpecOrderTakes`: the orders rise when a draft is made. `LastKept` is a recursive function; its
  values are found by the least index at which they would differ (`LastKeptIs`), the kept
  orders rise (`AnchorsRise`), and between two neighbours the case of the division is
  `DivStep`: where a gap is at least as wide as the members it takes, each step of
  `gap * i \div n` is a rise. Neither a sync nor a purge in between can undo it, as they write no order
  that a draft does not overwrite.
- `SpecLockedOrderKept`: an order is remembered by the rebuild if the series its item is in at
  that moment has a comic; an item that was rekeyed is in the series of its own comic's new
  folder, which has one.
- `SpecNameMovesAlong`: the rounds of `Rekeyed` reach every pair. If one of them were left, its
  target is occupied by a series which waits, too, and so on for as many steps as there are
  folders; then one folder comes twice (the pigeonhole theorem of FiniteSetTheorems), and
  as no two series have one target, the chain closes at its beginning, in a circle.

Only model-checked are the liveness properties `LockReleased`, `AwakeWorkerDrains` and
`ListsCatchUp`: the prover takes no fairness (`ENABLED` is out of its reach). Every other
property of the runs is a theorem. Facts about recursive functions over a length, which a
proof by induction would give, are proved by the least counterexample (`LeastNat`); the
induction theorems of the library take an operator, which the backends cannot instantiate.

## 5. What the code does that a reader may not expect

The models take all these steps, and each property says what holds in spite of them.

- The end of a lease releases whatever session is under the id, which after a forced
  close may be a reading screen's (`reader/manager.rs:183`).
- An open that was checked before a trash finishes after it (`reader/manager.rs:200`).
- An edit during the parse of a refresh, or between plan and apply of a sync, is
  overwritten, lock and all (`sync/refresh.rs:84`).
- Every merge decodes the html entities of the title once more, also of a locked one
  (`metadata_lock/comic.rs:15`), and decoding is not idempotent: a title fixed as `&lt;` is
  `<` after the next sync, where ADR-0007 (line 28) has a locked field keep the value of the
  library. `UnracedTitleKept` excepts exactly this.
- The writeback brings a purged comic's row back, and commits the row before its
  metadata (`reader/writeback.rs:57`); the next undisturbed sync repairs the latter. One that
  is in flight when a sync moves another comic to its place overwrites the title of that.
- A history row under the target of a migration makes the sync's transaction fail, every
  time (`path_migration/persist.rs:204`).
- A generation in progress overwrites a cover the user sets meanwhile
  (`thumbnail/generate.rs:89`); `UserCoverKept` holds of all others.
- A volume that is unplugged after the probe scans as an empty directory and its comics
  are removed (`resource/access/local.rs:28`).
- A local file that is there but cannot be read as a comic, such as a damaged archive
  (`resource/parse.rs:146`), and any file of a format category that was switched off
  (`sync/scanner.rs:311`, `sync/scanner.rs:335`, `sync/remote.rs:135`), loses its comic at the
  next sync, with what the user edited; mending the file gives a new comic.
- A library deleted during its sync gets its comics back, without a library
  (`library/crud.rs:300`; GLOSSARY.md:108 has every comic owned by one).
- A prefetch can survive the clear of the cache when a later visit uses its number again
  (`reader/prefetch.rs:54`).
- The deletion of an author takes no refresh lock, other than the comment at
  `author/platform_images.rs:24` has it of changes to links (`author/mod.rs:274`); files
  may be left behind.
- A refresh of author images that fails between the file and the row leaves the new picture
  under the old row (`author/platform_images.rs:226`), until a later refresh records one.
- A drag into a gap that is used up fails to order (`series/repository.rs:361`), and a
  locked order goes with its series when that is dissolved and founded again
  (`sync/series_rebuild.rs:65`, in spite of the comment at line 76).
- A backup of the library omits names that only trashed comics have
  (`metadata_backup/export.rs:160`).
- A reading screen leaves its session in the core when its open timed out and succeeds
  later (`src/app/lib/features/read_session/application/reader_session_service.dart:167`), when it
  is left while it loads, and when the boundary prompt opened the next volume and the user
  turned back (`reader_controller_navigation.dart:144`). The close that an old call or a
  second exit sends can take the session of a screen opened since
  (`reader_session_service.dart:81`). A flush that fails ends the exit before the close.
- `add_author_link` does not test for a link that is there already; and a tag renamed to
  itself would be deleted, were the dialog not to refuse that.


## 6. Not modelled

- **Decoders and formats, WebDAV, the scraping of platforms, resource probes**: I/O and parsing
  without shared state. A parse or a listing is a record in the models, and may fail.
- **Catalog queries, pages, counts, previews**: they read one snapshot and keep nothing.
- **Schema migrations, snapshots of the database, logging, settings, the bridge and the view
  models**: generated code, steps that run once before anything else, or presentation.
- **Progress and presentation of the reading screen**: viewport, auto-play, and what a flush
  writes; nothing but the beginning and the end of a session calls one. Whether it fails
  is in ReadSession.
- **Data without interaction**: credentials and the order of libraries, history retention, rating
  and publication date.

SQLite is taken as serialisable transactions; a statement on a bare connection is a
transaction by itself. Opening a backend, parsing and rendering may fail at any time. A
refresh of a comic that is a directory always fails, since `parse_file_with` handles files
only; the model covers it as `RefreshSkip`.

The definitions stand for about an eighth of the implementation's lines. Generated code is
more than a quarter of these (`src/core/crates/flutter/src/frb_generated.rs`), and most of
the others are decoders, queries, conversions and tests within the files, where a model
would restate the code.

## 7. Plan

What is left, in this order:

1. An abstract specification of the thumbnail queue, a set of comics of which each is
   generated by at most one worker at a time, and leaves the set with a cover or an entry in
   the negative cache; ThumbnailQueue with its lanes, priorities and permits as an
   implementation of it. `QueueCoherent` is most of the invariant this needs.
2. The same for the page cache: per fingerprint a set of pages, with prefetch, load and clear.
3. The scalar fields next to the title in LibraryStore, if the merge of one of them should
   come to differ from the others.
