----------------------------- MODULE FolderSeries -----------------------------
(***************************************************************************)
(* The folder series of one library: how sync/series_rebuild.rs makes them *)
(* from the paths of the comics, how path migration carries a series to    *)
(* the folder its members moved to (path_migration/pairing.rs,             *)
(* persist.rs), and what a user may set meanwhile: names and orders, with  *)
(* their locks (series/write.rs, series/repository.rs).                    *)
(*                                                                         *)
(* A comic is known by its path, so a file that moves is a new comic; the  *)
(* sync pairs the two by their resource and rewrites the rows.  The model  *)
(* speaks of the volume, whose comic row lies in one folder at a time, and *)
(* of the folder, which is also the id of its series.  Volumes count in    *)
(* the natural order of their file names.                                  *)
(***************************************************************************)
EXTENDS Integers, Sequences, FiniteSets, SequencesExt

CONSTANTS
  MaxVolume, \* bound on the volumes, each with a resource of its own
  Folders,   \* folders under the root of the library
  Names,     \* names a user gives a series, other than those of folders
  Orders,    \* the sort orders a user types in
  Unit,      \* the sort order 1.0; the smallest difference of two orders is 1
  MaxMoves,  \* bound on the changes to the files
  MaxEdits   \* bound on the edits of the user

ASSUME FolderSeriesAssumption ==
  /\ MaxVolume \in Nat /\ IsFiniteSet(Folders) /\ Names \cap Folders = {}
  /\ Orders \subseteq Int /\ Unit \in Nat \ {0}
  /\ MaxMoves \in Nat /\ MaxEdits \in Nat

VARIABLES
  disk,    \* where each volume's file is, a set with at most one folder
  place,   \* comics: where each volume's row says it is
  item,    \* series_items: the series, the order and its lock of each volume
  series,  \* series: the name and its lock of each folder's row
  job,     \* the sync that holds the write lock: between its scan and its transaction
  draft,   \* set_series_items_order: between its read and its transaction
  moves,   \* changes to the files so far
  edits,   \* edits so far
  unbuilt  \* history: a purge ended without the rebuild, and no sync came since

seriesVars == <<disk, place, item, series, job, draft, moves, edits, unbuilt>>

Volumes == 1 .. MaxVolume
Spots == {{}} \cup {{f} : f \in Folders}
NoItem == [series |-> {}, order |-> 0, locked |-> FALSE]
NoSeries == [name |-> {}, locked |-> FALSE]
Idle == [pc |-> "idle", scan |-> [v \in Volumes |-> {}]]
NoDraft == [of |-> {}, asked |-> <<>>, orders |-> <<>>, tight |-> FALSE]

\* The types of the variables. A row of a series that nobody renamed has no
\* name of its own; orders are integers, as the column is.
SeriesTypeOK ==
  /\ disk \in [Volumes -> Spots] /\ place \in [Volumes -> Spots]
  /\ item \in [Volumes -> [series : Spots, order : Int, locked : BOOLEAN]]
  /\ series \in [Folders -> [name : SUBSET (Folders \cup Names), locked : BOOLEAN]]
  /\ job \in [pc : {"idle", "apply"}, scan : [Volumes -> Spots]]
  /\ draft \in [of : Spots, asked : Seq(Volumes), orders : Seq(Int), tight : BOOLEAN]
  /\ moves \in 0 .. MaxMoves /\ edits \in 0 .. MaxEdits /\ unbuilt \in BOOLEAN
  \* a name is only the user's while it is locked or was unlocked since
  /\ \A f \in Folders : series[f] = NoSeries \/ Cardinality(series[f].name) = 1

SeriesInit ==
  /\ disk \in [Volumes -> Spots]
  /\ place = [v \in Volumes |-> {}]
  /\ item = [v \in Volumes |-> NoItem]
  /\ series = [f \in Folders |-> NoSeries]
  /\ job = Idle
  /\ draft = NoDraft
  /\ moves = 0 /\ edits = 0 /\ unbuilt = FALSE

-----------------------------------------------------------------------------
(* The plan of a sync, computed from the rows and the scan.  A definition    *)
(* used nowhere that stands before another is that one with a bug in it:     *)
(* some property has to notice the exchange.                                 *)

Rows == {f \in Folders : series[f] # NoSeries}
Members(f) == {v \in Volumes : item[v].series = {f}}

\* Volumes whose row and file are in two folders: the pairs of comics.
Moved(scan) == {v \in Volumes : place[v] # {} /\ scan[v] # {} /\ scan[v] # place[v]}

\* Series whose members have all moved, and to one folder.
Candidates(scan) ==
  {p \in Rows \X Folders :
     /\ p[1] # p[2] /\ Members(p[1]) # {}
     /\ \A v \in Members(p[1]) : v \in Moved(scan) /\ scan[v] = {p[2]}}

\* Nobody else claims the folder, and its own series, if any, moves too.
Pairs(scan) ==
  {p \in Candidates(scan) :
     /\ \A q \in Candidates(scan) : q[2] = p[2] => q = p
     /\ p[2] \in Rows => \E q \in Candidates(scan) : q[1] = p[2]}

\* apply_series_rekeys: a pair waits until its target is free, and is given up
\* when a round frees none.
RekeyedOnce(scan) == {p \in Pairs(scan) : p[2] \notin Rows}
Rekeyed(scan) ==
  LET pairs == Pairs(scan)
      done[n \in 0 .. Cardinality(Folders)] ==
        IF n = 0 THEN {}
        ELSE LET freed == {p[1] : p \in done[n - 1]}
             IN {p \in pairs : p[2] \in Rows => p[2] \in freed}
  IN done[Cardinality(Folders)]

\* The folder whose row becomes that of folder g, a set with at most one.
Source(pairs, g) ==
  LET from == {p[1] : p \in {q \in pairs : q[2] = g}}
      gone == {p[1] : p \in pairs}
  IN IF from # {} THEN from ELSE {g} \cap (Rows \ gone)

\* An unlocked name follows the folder; the id of an item's series does, too.
Renamed(row, g) == IF row.locked THEN row ELSE [name |-> {g}, locked |-> FALSE]
SeriesAfter(pairs) ==
  [g \in Folders |->
     LET from == Source(pairs, g)
     IN IF from = {} THEN NoSeries
        ELSE LET f == CHOOSE f \in from : TRUE
             IN IF f = g THEN series[g] ELSE Renamed(series[f], g)]
ItemsAfter(pairs) ==
  [v \in Volumes |->
     IF \E p \in pairs : item[v].series = {p[1]}
     THEN [item[v] EXCEPT !.series = {(CHOOSE p \in pairs : item[v].series = {p[1]})[2]}]
     ELSE item[v]]

-----------------------------------------------------------------------------
(* rebuild_series_from_comics *)

\* Series without a comic are deleted first, and their items with them; then
\* the orders that are locked are remembered, and every item is made anew.
Active(p) == {f \in Folders : \E v \in Volumes : p[v] = {f}}
KeptOrders(p, items) == {v \in Volumes : items[v].locked /\ items[v].series \in {{f} : f \in Active(p)}}
RebuiltItemsForget(p, items) ==
  [v \in Volumes |->
     IF p[v] = {} THEN NoItem
     ELSE [series |-> p[v], order |-> Unit * Cardinality({w \in Volumes : p[w] = p[v] /\ w <= v}),
           locked |-> FALSE]]
RebuiltItems(p, items) ==
  [v \in Volumes |->
     IF p[v] = {} THEN NoItem
     ELSE IF v \in KeptOrders(p, items) THEN [items[v] EXCEPT !.series = p[v]]
     ELSE [series |-> p[v], order |-> Unit * Cardinality({w \in Volumes : p[w] = p[v] /\ w <= v}),
           locked |-> FALSE]]
RebuiltSeriesKnown(p, rows) ==
  [f \in Folders |-> IF f \notin Active(p) THEN NoSeries ELSE IF f \in Rows THEN Renamed(rows[f], f) ELSE NoSeries]
RebuiltSeries(p, rows) ==
  [f \in Folders |-> IF f \notin Active(p) THEN NoSeries ELSE Renamed(rows[f], f)]

-----------------------------------------------------------------------------
(* Sync and purge, under the write lock *)

\* The scan and the plan made of it; nothing else under the lock changes the
\* rows that the plan is made of.
Scan ==
  /\ job.pc = "idle"
  /\ job' = [pc |-> "apply", scan |-> disk]
  /\ UNCHANGED <<disk, place, item, series, draft, moves, edits, unbuilt>>

\* apply_scan_replace_plan, one transaction.
Apply ==
  LET pairs == Rekeyed(job.scan)
      items == [v \in Volumes |-> IF job.scan[v] = {} THEN NoItem ELSE ItemsAfter(pairs)[v]]
  IN /\ job.pc = "apply"
     /\ place' = job.scan
     /\ item' = RebuiltItems(job.scan, items)
     /\ series' = RebuiltSeries(job.scan, SeriesAfter(pairs))
     /\ job' = Idle
     /\ unbuilt' = FALSE
     /\ UNCHANGED <<disk, draft, moves, edits>>

Abort ==
  /\ job.pc = "apply"
  /\ job' = Idle
  /\ UNCHANGED <<disk, place, item, series, draft, moves, edits, unbuilt>>

\* purge_comics of one comic deletes its file; a rebuild that fails is only logged.
Purge(v) ==
  LET rest == [place EXCEPT ![v] = {}]
      items == [item EXCEPT ![v] = NoItem]
  IN /\ job.pc = "idle"
     /\ place[v] # {}
     /\ moves < MaxMoves
     /\ moves' = moves + 1
     /\ disk' = IF disk[v] = place[v] THEN [disk EXCEPT ![v] = {}] ELSE disk
     /\ place' = rest
     /\ \/ /\ item' = RebuiltItems(rest, items)
           /\ series' = RebuiltSeries(rest, series)
           /\ unbuilt' = FALSE
        \/ /\ item' = items
           /\ unbuilt' = TRUE
           /\ UNCHANGED series
     /\ UNCHANGED <<job, draft, edits>>

-----------------------------------------------------------------------------
(* The user, without the write lock *)

Edit == edits < MaxEdits /\ edits' = edits + 1

\* update_series_user_meta locks the name it writes; set_series_meta_locks.
RenameSeries(f, n) ==
  /\ series[f] # NoSeries
  /\ Edit
  /\ series' = [series EXCEPT ![f] = [name |-> {n}, locked |-> TRUE]]
  /\ UNCHANGED <<disk, place, item, job, draft, moves, unbuilt>>

SetNameLock(f, locked) ==
  /\ series[f] # NoSeries /\ series[f].locked # locked
  /\ Edit
  /\ series' = [series EXCEPT ![f].locked = locked]
  /\ UNCHANGED <<disk, place, item, job, draft, moves, unbuilt>>

\* update_series_item_sort_order and set_series_item_sort_order_locked.
SetOrder(v, order) ==
  /\ item[v] # NoItem
  /\ Edit
  /\ item' = [item EXCEPT ![v].order = order, ![v].locked = TRUE]
  /\ UNCHANGED <<disk, place, series, job, draft, moves, unbuilt>>

SetOrderLock(v, locked) ==
  /\ item[v] # NoItem /\ item[v].locked # locked
  /\ Edit
  /\ item' = [item EXCEPT ![v].locked = locked]
  /\ UNCHANGED <<disk, place, series, job, draft, moves, unbuilt>>

\* interpolate_reordered_values of the members in the order asked for.  From
\* left to right a locked order that exceeds the last one kept is kept.
LastKeptAny(asked) ==
  LET last[i \in 0 .. Len(asked)] ==
        IF i = 0 THEN 0 ELSE IF item[asked[i]].locked THEN i ELSE last[i - 1]
  IN last
LastKept(asked) ==
  LET last[i \in 0 .. Len(asked)] ==
        IF i = 0 THEN 0
        ELSE IF /\ item[asked[i]].locked
                /\ last[i - 1] # 0 => item[asked[i]].order > item[asked[last[i - 1]]].order
        THEN i ELSE last[i - 1]
  IN last

\* The others are spread between two that are kept, one apart beyond them.
Interpolated(asked) ==
  LET last == LastKept(asked)
      kept == {i \in DOMAIN asked : last[i] = i}
      order(i) == item[asked[i]].order
      left(i) == last[i]
      rights(i) == {j \in kept : j > i}
      right(i) == CHOOSE j \in rights(i) : \A k \in rights(i) : j <= k
  IN [i \in DOMAIN asked |->
        IF kept = {} THEN Unit * i
        ELSE IF i \in kept THEN order(i)
        ELSE IF left(i) = 0 THEN order(right(i)) - Unit * (right(i) - i)
        ELSE IF rights(i) = {} THEN order(left(i)) + Unit * (i - left(i))
        ELSE order(left(i)) + ((order(right(i)) - order(left(i))) * (i - left(i))) \div (right(i) - left(i))]

\* A gap is used up when it has no room for the members it is to take.
Tight(asked) ==
  LET kept == {i \in DOMAIN asked : LastKept(asked)[i] = i}
      gap(i, j) == item[asked[j]].order - item[asked[i]].order
  IN \E i, j \in kept :
       /\ i < j /\ (\A k \in kept : k <= i \/ j <= k)
       /\ 0 < gap(i, j) /\ gap(i, j) < j - i

\* set_series_items_order reads the members, and writes them later in one
\* transaction, those that are still members.
AskOrder(f, asked) ==
  /\ draft = NoDraft
  /\ Members(f) # {}
  /\ Edit
  /\ draft' = [of |-> {f}, asked |-> asked, orders |-> Interpolated(asked), tight |-> Tight(asked)]
  /\ UNCHANGED <<disk, place, item, series, job, moves, unbuilt>>

At(v) == CHOOSE i \in DOMAIN draft.asked : draft.asked[i] = v
WriteOrder ==
  /\ draft # NoDraft
  /\ item' = [v \in Volumes |->
                IF item[v].series = draft.of /\ v \in ToSet(draft.asked)
                THEN [item[v] EXCEPT !.order = draft.orders[At(v)], !.locked = TRUE]
                ELSE item[v]]
  /\ draft' = NoDraft
  /\ UNCHANGED <<disk, place, series, job, moves, edits, unbuilt>>

\* Files are added, moved and removed.
Change(v, spot) ==
  /\ moves < MaxMoves
  /\ disk[v] # spot
  /\ disk' = [disk EXCEPT ![v] = spot]
  /\ moves' = moves + 1
  /\ UNCHANGED <<place, item, series, job, draft, edits, unbuilt>>

SeriesNext ==
  \/ Scan \/ Apply \/ Abort
  \/ \E v \in Volumes : Purge(v)
  \/ \E f \in Folders, n \in Names : RenameSeries(f, n)
  \/ \E f \in Folders, locked \in BOOLEAN : SetNameLock(f, locked)
  \/ \E v \in Volumes, order \in Orders : SetOrder(v, order)
  \/ \E v \in Volumes, locked \in BOOLEAN : SetOrderLock(v, locked)
  \/ \E f \in Folders : \E asked \in SetToSeqs(Members(f)) : AskOrder(f, asked)
  \/ WriteOrder
  \/ \E v \in Volumes, spot \in Spots : Change(v, spot)

SeriesSpec == SeriesInit /\ [][SeriesNext]_seriesVars

-----------------------------------------------------------------------------
(* Properties *)

\* Every comic is in the series of its own folder, and that series is there,
\* however files moved and series were carried along.
ComicsInTheirSeries ==
  \A v \in Volumes :
    /\ item[v].series = place[v]
    /\ \A f \in place[v] : series[f] # NoSeries

\* No series is left without a comic, but by a purge whose rebuild failed.
NoEmptySeries == \A f \in Rows : Members(f) # {} \/ unbuilt

\* Series, their items and the comics describe the same folders, through
\* every order of syncs, moves, purges and edits.
SeriesMirrorComics == ComicsInTheirSeries /\ NoEmptySeries

\* A series that nobody is left in and that was not carried to another folder.
Dissolved(f) ==
  /\ Active(job.scan) \cap {f} = {}
  /\ \A p \in Rekeyed(job.scan) : p[1] # f

Synced == job.pc = "apply" /\ job'.pc = "idle" /\ place' = job.scan

\* ADR-0006: an order the user locked survives every sync, with its lock, also
\* when the file moves to another series; but it is lost when the series it
\* leaves is dissolved, as that deletes the item before it is remembered.
LockedOrderKept ==
  [][Synced => \A v \in Volumes :
       item[v].locked /\ job.scan[v] # {} =>
         \/ item'[v].locked /\ item'[v].order = item[v].order
         \/ \E f \in item[v].series : Dissolved(f)]_seriesVars

\* The folders a chain of moves starting at f leads through.
Heir(f, g) == f # g /\ Members(f) # {} /\ \A v \in Members(f) : job.scan[v] = {g}
Vacated(g) == g \in Rows => \E h \in Folders : Heir(g, h)
InCircle(f) ==
  \E n \in 1 .. Cardinality(Folders) : \E c \in [1 .. n -> Folders] :
    c[1] = f /\ \A i \in 1 .. n : Heir(c[i], c[(i % n) + 1])

\* ADR-0013: a series whose members have all moved to one folder keeps the name
\* its user gave it, when no two series moved to one folder and none to a folder
\* whose own series stayed; except where the folders changed places in a circle.
Carried(f, g) ==
  /\ Heir(f, g)
  /\ \A h, k \in Folders : Heir(h, k) => Vacated(k) /\ \A l \in Folders : Heir(l, k) => l = h
  /\ ~ InCircle(f)
NameMovesAlong ==
  [][Synced => \A f, g \in Folders : series[f].locked /\ Carried(f, g) => series'[g] = series[f]]_seriesVars

\* An order asked for is the order shown, of those that stayed, whatever synced
\* meanwhile; unless a gap between two locked orders was used up.
ShownBefore(m, n, v, w) == m < n \/ (m = n /\ v < w)
OrderTakes ==
  [][draft # NoDraft /\ draft' = NoDraft /\ ~ draft.tight =>
       \A i, j \in DOMAIN draft.asked :
         LET v == draft.asked[i]
             w == draft.asked[j]
         IN i < j /\ item[v].series = draft.of /\ item[w].series = draft.of =>
              ShownBefore(item'[v].order, item'[w].order, v, w)]_seriesVars
=============================================================================
