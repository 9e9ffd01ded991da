------------------------ MODULE LibraryStore_proofs ------------------------
(***************************************************************************)
(* Proofs about LibraryStore for every set of comics, files, operations    *)
(* and readers and every bound: the types, the exclusion of the library    *)
(* write lock and that it implements WriteLock, that a purge deletes only  *)
(* comics in trash and nothing but a restore brings a comic out of trash,  *)
(* that what users fixed is kept, and that an undisturbed sync brings the  *)
(* library in step with the disk, moved files included.                    *)
(***************************************************************************)
EXTENDS LibraryStore, TLAPS

-----------------------------------------------------------------------------
\* Types.

\* What the types leave open: an operation that is about to write or to delete
\* has a comic, and a copy that may be written has pages.
Prepared ==
    /\ \A t \in Tasks :
         /\ job[t].at = "erased" => job[t].on \in Comics
         /\ job[t].at = "merged" => /\ job[t].on \in Comics
                                    /\ job[t].got[job[t].on] \in Copy
                                    /\ job[t].got[job[t].on].pages > 0
    /\ \A w \in Readers : wb[w].at # "idle" => /\ wb[w].on \in Comics
                                               /\ wb[w].copy \in Copy
                                               /\ wb[w].copy.pages > 0

TypeInv == TypeOK /\ Prepared

\* The values of "nothing there" have the types they are used at.
LEMMA IdleType == IdleJob \in Job /\ IdleWriteback \in Writeback /\ NoCopies \in Copies
  BY DEF IdleJob, IdleWriteback, NoCopies, Job, Writeback, Copies, Step

\* The initial library has its types.
LEMMA InitType == Init => TypeInv
<1> SUFFICES ASSUME Init PROVE TypeInv
  OBVIOUS
<1>1. DatabaseTypeOK
  <2>1. \A c \in Comics : disk[c] # NoFile =>
          /\ disk[c] \in [size : Sizes, pages : Nat, title : Titles]
          /\ disk[c].pages \in Nat \ {0}
    BY StoreAssumption DEF Init
  <2>2. \A v \in Titles : Decoded[v] \in Titles
    BY StoreAssumption
  <2>3. QED
    BY <2>1, <2>2 DEF Init, DatabaseTypeOK, Row, Meta
<1>2. TaskTypeOK
  BY IdleType DEF Init, TaskTypeOK
<1>3. ObservedTypeOK
  BY DEF Init, ObservedTypeOK
<1>4. Prepared
  BY DEF Init, Prepared, IdleJob, IdleWriteback
<1>5. QED
  BY <1>1, <1>2, <1>3, <1>4 DEF TypeInv, TypeOK

\* Reading the library or a file yields copies.
LEMMA LoadedType ==
  ASSUME TypeInv, NEW c \in Existing
  PROVE  /\ rows[c] \in Row /\ meta[c] \in Meta
         /\ Loaded(c) \in Copy /\ Loaded(c).pages > 0 /\ c \in Comics
  BY DEF TypeInv, TypeOK, DatabaseTypeOK, Existing, Loaded, Copy, Row, Meta

\* A parse of a file yields a copy, with the size of the file.
LEMMA ParsedType ==
  ASSUME TypeInv, NEW c \in Comics, disk[c] # NoFile
  PROVE  /\ Parsed(c) \in Copy /\ disk[c].size \in Sizes /\ disk[c].pages \in Nat
<1>1. \A v \in Titles : Decoded[v] \in Titles
  BY StoreAssumption
<1>2. QED
  BY <1>1, StoreAssumption DEF TypeInv, TypeOK, DatabaseTypeOK, Parsed, Copy

\* Merging two copies yields one.
LEMMA MergedType ==
  ASSUME NEW x \in Copy, NEW y \in Copy, NEW n \in Nat
  PROVE  Merged(x, y, n) \in Copy /\ Merged(x, y, n).pages = n
<1>1. \A v \in Titles : Decoded[v] \in Titles
  BY StoreAssumption
<1>2. QED
  BY <1>1 DEF Merged, Copy

\* What upsert_comics writes for a copy with pages has the types of its tables.
LEMMA UpsertType ==
  ASSUME TypeInv, NEW c \in Comics, NEW x \in Copy
  PROVE  /\ UpsertRow(c, x) \in Row
         /\ x.pages > 0 => UpsertMeta(x) \in Meta
  BY DEF UpsertRow, UpsertMeta, Copy, Row, Meta, TypeInv, TypeOK, DatabaseTypeOK

\* Using up a bound keeps the type of the counters.
LEMMA SpendType ==
  ASSUME TypeInv, NEW k \in Kind, Spend(k)
  PROVE  spent' \in [Kind -> Nat]
  BY DEF Spend, TypeInv, TypeOK, ObservedTypeOK

\* A locked operation that starts, moves on or ends keeps the types of the
\* tasks when its new place in the code does.
Fit(j) == /\ j \in Job
          /\ j.at = "erased" => j.on \in Comics
          /\ j.at = "merged" => j.on \in Comics /\ j.got[j.on] \in Copy /\ j.got[j.on].pages > 0

\* A step that leaves one operation in a fitting job, and the writebacks alone,
\* keeps the types of the operations.
LEMMA TaskStep ==
  ASSUME TypeInv, NEW t \in Tasks, NEW j, Fit(j),
         job' = [job EXCEPT ![t] = j], busy' \in BOOLEAN, UNCHANGED <<wb, reading>>
  PROVE  TaskTypeOK' /\ Prepared'
  BY DEF TypeInv, TypeOK, TaskTypeOK, Prepared, Fit

\* So does a step that touches no operation and no writeback,
LEMMA TasksStay ==
  ASSUME TypeInv, UNCHANGED <<busy, job, wb>>, reading' \in [Comics -> Nat \cup {Closed}]
  PROVE  TaskTypeOK' /\ Prepared'
  BY DEF TypeInv, TypeOK, TaskTypeOK, Prepared

\* and one that moves a single writeback on, with a whole copy to write.
LEMMA WritebackStays ==
  ASSUME TypeInv, NEW w \in Readers, NEW x \in Writeback,
         x.at # "idle" => x.on \in Comics /\ x.copy \in Copy /\ x.copy.pages > 0,
         wb' = [wb EXCEPT ![w] = x], UNCHANGED <<busy, job, reading>>
  PROVE  TaskTypeOK' /\ Prepared'
  BY DEF TypeInv, TypeOK, TaskTypeOK, Prepared

\* An operation that has ended is a fitting job.
LEMMA IdleFits == Fit(IdleJob)
  BY IdleType DEF Fit, IdleJob

\* The steps of a library sync keep the types.
LEMMA ScanType ==
  ASSUME TypeInv, NEW t \in Tasks, NEW c \in Comics, ScanPath(t, c)
  PROVE  TypeInv'
<1> DEFINE j == job[t]
<1>1. j \in Job /\ j.at = "scan"
  BY DEF ScanPath, TypeInv, TypeOK, TaskTypeOK
<1>2. PICK x \in Copy \cup {NoCopy} :
        job' = [job EXCEPT ![t] = [j EXCEPT !.todo = @ \ {c}, !.got[c] = x]]
  <2>1. CASE ~Parses(c) /\ Advance(t, [j EXCEPT !.todo = @ \ {c}])
    <3>1. j.got[c] \in Copy \cup {NoCopy}
      BY <1>1 DEF Job, Copies
    <3>2. [j EXCEPT !.todo = @ \ {c}] = [j EXCEPT !.todo = @ \ {c}, !.got[c] = j.got[c]]
      BY <1>1 DEF Job, Copies
    <3>3. QED
      BY <2>1, <3>1, <3>2 DEF Advance
  <2>2. CASE Parses(c) /\ Advance(t, [j EXCEPT !.todo = @ \ {c}, !.got[c] = Parsed(c)])
    BY <2>2, ParsedType DEF Advance, Parses
  <2>3. CASE /\ disk[c] # NoFile /\ j.old[c] # NoCopy
             /\ Advance(t, [j EXCEPT !.todo = @ \ {c}, !.got[c] = Reused(j.old[c], c)])
    <3>1. Reused(j.old[c], c) \in Copy
      BY <1>1, <2>3, ParsedType DEF Reused, Copy, Job, Copies
    <3>2. QED
      BY <2>3, <3>1 DEF Advance
  <2>4. QED
    BY <2>1, <2>2, <2>3 DEF ScanPath
<1>3. Fit([j EXCEPT !.todo = @ \ {c}, !.got[c] = x])
  BY <1>1 DEF Fit, Job, Copies
<1>4. TaskTypeOK' /\ Prepared'
  <2>1. busy' \in BOOLEAN /\ UNCHANGED <<wb, reading>>
    BY DEF ScanPath, Advance, TypeInv, TypeOK, TaskTypeOK
  <2>2. QED
    BY <1>2, <1>3, <2>1, TaskStep
<1>5. DatabaseTypeOK' /\ ObservedTypeOK'
  BY DEF ScanPath, Advance, db, observed, TypeInv, TypeOK, DatabaseTypeOK, ObservedTypeOK
<1>6. QED
  BY <1>4, <1>5 DEF TypeInv, TypeOK

\* The plan of a sync holds whole copies and pairs of comics.
LEMMA BuildPlanType ==
  ASSUME TypeInv, NEW t \in Tasks, BuildPlan(t)
  PROVE  TypeInv'
<1> DEFINE j       == job[t]
           scanned == {c \in Comics : j.got[c] # NoCopy}
           removed == Existing \ scanned
           added   == scanned \ Existing
           pairs   == MigrationPairs(removed, added, LoadedAll, j.got)
           from(a) == CHOOSE f \in removed : <<f, a>> \in pairs
           got     == [c \in Comics |->
                  IF c \in scanned \cap Existing
                  THEN Merged(j.got[c], Loaded(c), meta[c].pages)
                  ELSE IF c \in added /\ \E f \in removed : <<f, c>> \in pairs
                  THEN Merged(j.got[c], Loaded(from(c)), j.got[c].pages)
                  ELSE j.got[c]]
           gone    == {c \in removed : \A a \in added : <<c, a>> \notin pairs}
           plan    == [IdleJob EXCEPT !.at = "planned", !.moves = pairs,
                                      !.gone = gone, !.got = got]
<1>1. job' = [job EXCEPT ![t] = plan]
  BY DEF BuildPlan, Advance
<1>2. \A c \in Comics : j.got[c] \in Copy \cup {NoCopy}
  BY DEF TypeInv, TypeOK, TaskTypeOK, Job, Copies
<1>3. got \in Copies
  <2> SUFFICES ASSUME NEW c \in Comics PROVE got[c] \in Copy \cup {NoCopy}
    BY DEF Copies
  <2>1. CASE c \in scanned \cap Existing
    <3>1. j.got[c] \in Copy
      BY <1>2, <2>1
    <3>2. Loaded(c) \in Copy /\ meta[c].pages \in Nat
      BY <2>1, LoadedType DEF Meta
    <3>3. got[c] = Merged(j.got[c], Loaded(c), meta[c].pages)
      BY <2>1
    <3> HIDE DEF got
    <3>4. QED
      BY <3>1, <3>2, <3>3, MergedType
  <2>2. CASE c \in added /\ \E f \in removed : <<f, c>> \in pairs
    <3>1. j.got[c] \in Copy /\ j.got[c].pages \in Nat
      BY <1>2, <2>2 DEF Copy
    <3>2. from(c) \in Existing
      <4> HIDE DEF pairs
      <4>1. QED
        BY <2>2
    <3>3. Loaded(from(c)) \in Copy
      <4> HIDE DEF from
      <4>1. QED
        BY <3>2, LoadedType
    <3>4. got[c] = Merged(j.got[c], Loaded(from(c)), j.got[c].pages)
      BY <2>2
    <3> HIDE DEF from, pairs, got
    <3>5. QED
      BY <3>1, <3>3, <3>4, MergedType
  <2>3. CASE got[c] = j.got[c]
    BY <1>2, <2>3
  <2>4. QED
    BY <2>1, <2>2, <2>3
<1>4. pairs \in SUBSET (Comics \X Comics) /\ gone \in SUBSET Comics
  BY DEF MigrationPairs, Existing
<1>5. plan \in Job /\ plan.at = "planned"
  <2> HIDE DEF pairs, gone, got
  <2>1. QED
    BY <1>3, <1>4, IdleType DEF IdleJob, Job, Step
<1>6. Fit(plan)
  <2> HIDE DEF plan
  <2>1. QED
    BY <1>5 DEF Fit
<1>7. TaskTypeOK' /\ Prepared'
  <2> HIDE DEF plan
  <2>1. busy' \in BOOLEAN /\ UNCHANGED <<wb, reading>>
    BY DEF BuildPlan, Advance, TypeInv, TypeOK, TaskTypeOK
  <2>2. QED
    BY <1>1, <1>6, <2>1, TaskStep
<1>8. DatabaseTypeOK' /\ ObservedTypeOK'
  BY DEF BuildPlan, Advance, db, observed, TypeInv, TypeOK, DatabaseTypeOK, ObservedTypeOK
<1>9. QED
  BY <1>7, <1>8 DEF TypeInv, TypeOK

\* Applying it writes rows and metadata of their types.
LEMMA ApplyPlanType ==
  ASSUME TypeInv, NEW t \in Tasks, ApplyPlan(t)
  PROVE  TypeInv'
<1> DEFINE j == job[t]
<1>1. j \in Job
  BY DEF TypeInv, TypeOK, TaskTypeOK
<1>2. \A c \in Comics : Source(j, c) \in Comics
  BY DEF Source
<1>3. \A c \in Comics : Writes(j.got[c]) => j.got[c] \in Copy /\ j.got[c].pages > 0
  BY <1>1 DEF Job, Copies, Writes
<1>4. rows' \in [Comics -> Row \cup {NoRow}]
  <2>1. \A c \in Comics : Writes(j.got[c]) => UpsertRow(c, j.got[c]) \in Row
    BY <1>3, UpsertType
  <2>2. \A c \in Comics : rows[c] \in Row => rows[c].trashed \in BOOLEAN
    BY DEF Row
  <2>3. rows \in [Comics -> Row \cup {NoRow}]
    BY DEF TypeInv, TypeOK, DatabaseTypeOK
  <2>4. \A c \in Comics : (rows[Source(j, c)] # NoRow /\ rows[Source(j, c)].trashed) \in BOOLEAN
    OBVIOUS
  <2>5. \A c \in Comics, b \in BOOLEAN : UpsertRow(c, j.got[c]) \in Row
           => [UpsertRow(c, j.got[c]) EXCEPT !.trashed = b] \in Row
    BY DEF Row
  <2>6. QED
    BY <2>1, <2>3, <2>4, <2>5 DEF ApplyPlan
<1>5. meta' \in [Comics -> Meta \cup {NoMeta}]
  BY <1>3, UpsertType DEF ApplyPlan, TypeInv, TypeOK, DatabaseTypeOK
<1>6. DatabaseTypeOK'
  BY <1>4, <1>5 DEF ApplyPlan, TypeInv, TypeOK, DatabaseTypeOK
<1>7. ObservedTypeOK'
  BY <1>2 DEF ApplyPlan, NewHome, Advance, TypeInv, TypeOK, ObservedTypeOK
<1>8. Fit([IdleJob EXCEPT !.at = "applied"])
  BY IdleType DEF Fit, IdleJob, Job, Step
<1>9. TaskTypeOK' /\ Prepared'
  <2>1. /\ busy' \in BOOLEAN /\ UNCHANGED <<wb, reading>>
        /\ job' = [job EXCEPT ![t] = [IdleJob EXCEPT !.at = "applied"]]
    BY DEF ApplyPlan, Advance, TypeInv, TypeOK, TaskTypeOK
  <2>2. QED
    BY <1>8, <2>1, TaskStep
<1>10. QED
  BY <1>6, <1>7, <1>9 DEF TypeInv, TypeOK

\* The steps of a metadata refresh keep the types.
LEMMA RefreshParseType ==
  ASSUME TypeInv, NEW t \in Tasks, NEW c \in Comics, RefreshParse(t, c)
  PROVE  TypeInv'
<1> DEFINE j == job[t]
           pages == disk[c].pages
           x == Merged(Parsed(c), Loaded(c), pages)
           next == [j EXCEPT !.at = "merged", !.on = c, !.todo = @ \ {c}, !.got[c] = x]
<1>1. j \in Job
  BY DEF TypeInv, TypeOK, TaskTypeOK
<1>2. c \in Existing /\ Parses(c) /\ disk[c] # NoFile /\ job' = [job EXCEPT ![t] = next]
  BY DEF RefreshParse, Advance, Parses
<1>3. pages \in Nat /\ pages > 0
  BY <1>2, ParsedType DEF Parses
<1>4. x \in Copy /\ x.pages > 0
  <2> HIDE DEF pages
  <2>1. Parsed(c) \in Copy /\ Loaded(c) \in Copy
    BY <1>2, ParsedType, LoadedType
  <2>2. QED
    BY <1>3, <2>1, MergedType
<1>5. Fit(next)
  <2> HIDE DEF x
  <2>1. QED
    BY <1>1, <1>4 DEF Fit, Job, Copies, Step
<1>6. TaskTypeOK' /\ Prepared'
  <2> HIDE DEF next
  <2>1. busy' \in BOOLEAN /\ UNCHANGED <<wb, reading>>
    BY DEF RefreshParse, Advance, TypeInv, TypeOK, TaskTypeOK
  <2>2. QED
    BY <1>2, <1>5, <2>1, TaskStep
<1>7. DatabaseTypeOK' /\ ObservedTypeOK'
  BY DEF RefreshParse, Advance, db, observed, TypeInv, TypeOK, DatabaseTypeOK, ObservedTypeOK
<1>8. QED
  BY <1>6, <1>7 DEF TypeInv, TypeOK

\* The write of a refresh, and its failure.
LEMMA RefreshWriteType ==
  ASSUME TypeInv, NEW t \in Tasks, RefreshWrite(t) \/ RefreshWriteFails(t)
  PROVE  TypeInv'
<1> DEFINE j == job[t] c == j.on x == j.got[c]
           next == [IdleJob EXCEPT !.at = "refreshing", !.todo = j.todo]
<1>1. j \in Job /\ c \in Comics /\ x \in Copy /\ x.pages > 0
  BY DEF RefreshWrite, RefreshWriteFails, TypeInv, TypeOK, TaskTypeOK, Prepared
<1>2. DatabaseTypeOK'
  <2>1. UpsertRow(c, x) \in Row /\ UpsertMeta(x) \in Meta
    BY <1>1, UpsertType
  <2>2. /\ \/ /\ rows' = [rows EXCEPT ![c] = UpsertRow(c, x)]
              /\ meta' = [meta EXCEPT ![c] = UpsertMeta(x)]
           \/ UNCHANGED <<rows, meta>>
        /\ UNCHANGED <<disk, history>>
    BY DEF RefreshWrite, RefreshWriteFails, db
  <2> HIDE DEF c, x
  <2>3. QED
    BY <2>1, <2>2 DEF TypeInv, TypeOK, DatabaseTypeOK
<1>3. Fit(next)
  BY <1>1, IdleType DEF Fit, IdleJob, Job, Step
<1>4. TaskTypeOK' /\ Prepared'
  <2>1. /\ busy' \in BOOLEAN /\ UNCHANGED <<wb, reading>>
        /\ job' = [job EXCEPT ![t] = next]
    BY DEF RefreshWrite, RefreshWriteFails, Advance, TypeInv, TypeOK, TaskTypeOK
  <2> HIDE DEF next
  <2>2. QED
    BY <1>3, <2>1, TaskStep
<1>5. ObservedTypeOK'
  BY DEF RefreshWrite, RefreshWriteFails, Advance, observed, TypeInv, TypeOK, ObservedTypeOK
<1>6. QED
  BY <1>2, <1>4, <1>5 DEF TypeInv, TypeOK

\* An operation that skips a comic or a file keeps the types.
LEMMA SkipType ==
  ASSUME TypeInv, NEW t \in Tasks, NEW c \in Comics,
         RefreshSkip(t, c) \/ PurgeSkip(t, c)
  PROVE  TypeInv'
<1> DEFINE next == [job[t] EXCEPT !.todo = @ \ {c}]
<1>1. job[t] \in Job /\ job[t].at \in {"refreshing", "purging"}
  BY DEF RefreshSkip, PurgeSkip, TypeInv, TypeOK, TaskTypeOK
<1>2. Fit(next)
  BY <1>1 DEF Fit, Job
<1>3. /\ job' = [job EXCEPT ![t] = next] /\ busy' \in BOOLEAN
      /\ UNCHANGED <<disk, db, reading, wb, observed, spent>>
  BY DEF RefreshSkip, PurgeSkip, Advance, TypeInv, TypeOK, TaskTypeOK
<1>4. TaskTypeOK' /\ Prepared'
  <2> HIDE DEF next
  <2>1. QED
    BY <1>2, <1>3, TaskStep
<1>5. DatabaseTypeOK' /\ ObservedTypeOK'
  BY <1>3 DEF db, observed, TypeInv, TypeOK, DatabaseTypeOK, ObservedTypeOK
<1>6. QED
  BY <1>4, <1>5 DEF TypeInv, TypeOK

\* The steps of a purge keep the types.
LEMMA PurgeEraseType ==
  ASSUME TypeInv, NEW t \in Tasks, NEW c \in Comics, PurgeErase(t, c)
  PROVE  TypeInv'
<1> DEFINE next == [job[t] EXCEPT !.at = "erased", !.on = c, !.todo = @ \ {c}]
<1>1. job[t] \in Job
  BY DEF TypeInv, TypeOK, TaskTypeOK
<1>2. Fit(next)
  BY <1>1 DEF Fit, Job, Step
<1>3. /\ job' = [job EXCEPT ![t] = next] /\ busy' \in BOOLEAN
      /\ UNCHANGED <<db, reading, wb, quiet, pinned, raced, spent>>
  BY DEF PurgeErase, Advance, TypeInv, TypeOK, TaskTypeOK
<1>4. TaskTypeOK' /\ Prepared'
  <2> HIDE DEF next
  <2>1. QED
    BY <1>2, <1>3, TaskStep
<1>5. DatabaseTypeOK' /\ ObservedTypeOK'
  BY <1>3 DEF PurgeErase, db, TypeInv, TypeOK, DatabaseTypeOK, ObservedTypeOK
<1>6. QED
  BY <1>4, <1>5 DEF TypeInv, TypeOK

\* The deletion of the rows of a purged comic, and its failure.
LEMMA PurgeDeleteType ==
  ASSUME TypeInv, NEW t \in Tasks, PurgeDelete(t) \/ PurgeDeleteFails(t)
  PROVE  TypeInv'
<1> DEFINE next == [job[t] EXCEPT !.at = "purging", !.on = NoComic]
<1>1. job[t] \in Job /\ job[t].on \in Comics
  BY DEF PurgeDelete, PurgeDeleteFails, TypeInv, TypeOK, TaskTypeOK, Prepared
<1>2. Fit(next)
  BY <1>1 DEF Fit, Job, Step
<1>3. /\ job' = [job EXCEPT ![t] = next] /\ busy' \in BOOLEAN
      /\ UNCHANGED <<disk, reading, wb, quiet, home, spent>>
  BY DEF PurgeDelete, PurgeDeleteFails, Advance, observed, TypeInv, TypeOK, TaskTypeOK
<1>4. TaskTypeOK' /\ Prepared'
  <2> HIDE DEF next
  <2>1. QED
    BY <1>2, <1>3, TaskStep
<1>5. DatabaseTypeOK' /\ ObservedTypeOK'
  BY <1>1, <1>3 DEF PurgeDelete, PurgeDeleteFails, db, observed,
                    TypeInv, TypeOK, DatabaseTypeOK, ObservedTypeOK
<1>6. QED
  BY <1>4, <1>5 DEF TypeInv, TypeOK

\* The start and the end of a locked operation keep the types.
LEMMA StartType ==
  ASSUME TypeInv, NEW t \in Tasks, Start(t)
  PROVE  TypeInv'
<1>1. \A C \in SUBSET Comics : {c \in C : InTrash(c)} \in SUBSET Comics
  OBVIOUS
<1>2. LoadedAll \in Copies
  BY LoadedType DEF LoadedAll, Copies
<1>3. PICK j : Acquire(t, j) /\ Fit(j)
  <2>1. CASE StartSync(t)
    <3>1. Fit([IdleJob EXCEPT !.at = "scan", !.todo = Comics, !.old = LoadedAll])
      BY <1>2, IdleType DEF Fit, IdleJob, Job, Step
    <3>2. QED
      BY <2>1, <3>1 DEF StartSync
  <2>2. ASSUME NEW C \in SUBSET Comics, StartRefresh(t, C)
        PROVE  \E j : Acquire(t, j) /\ Fit(j)
    <3>1. Fit([IdleJob EXCEPT !.at = "refreshing", !.todo = C])
      BY IdleType DEF Fit, IdleJob, Job, Step
    <3>2. QED
      BY <2>2, <3>1 DEF StartRefresh
  <2>3. ASSUME NEW C \in SUBSET Comics, StartPurge(t, C)
        PROVE  \E j : Acquire(t, j) /\ Fit(j)
    <3>1. Fit([IdleJob EXCEPT !.at = "purging", !.todo = {c \in C : InTrash(c)}])
      BY <1>1, IdleType DEF Fit, IdleJob, Job, Step
    <3>2. QED
      BY <2>3, <3>1 DEF StartPurge
  <2>4. QED
    BY <2>1, <2>2, <2>3 DEF Start
<1>4. TaskTypeOK' /\ Prepared'
  <2>1. UNCHANGED <<wb, reading>> /\ busy' \in BOOLEAN /\ job' = [job EXCEPT ![t] = j]
    BY <1>3 DEF Acquire, Start, StartSync, StartRefresh, StartPurge
  <2>2. QED
    BY <1>3, <2>1, TaskStep
<1>5. spent' \in [Kind -> Nat]
  BY <1>3, SpendType DEF Acquire, Kind
<1>6. QED
  BY <1>4, <1>5 DEF Start, StartSync, StartRefresh, StartPurge, db, observed,
                    TypeInv, TypeOK, DatabaseTypeOK, ObservedTypeOK

\* The end of an operation, by any of the ways out.
LEMMA ReleaseType ==
  ASSUME TypeInv, NEW t \in Tasks, Release(t),
         UNCHANGED <<disk, db, reading, wb, observed, spent>>
  PROVE  TypeInv'
<1>1. TaskTypeOK' /\ Prepared'
  BY IdleFits, TaskStep DEF Release
<1>2. QED
  BY <1>1 DEF db, observed, TypeInv, TypeOK, DatabaseTypeOK, ObservedTypeOK

\* Trash and restore, and what the user does to one comic, keep the types.
LEMMA MarkType ==
  ASSUME TypeInv, NEW C \in SUBSET Comics, Trash(C) \/ Restore(C)
  PROVE  TypeInv'
<1>1. PICK b \in BOOLEAN : Mark(C, b)
  BY DEF Trash, Restore
<1>2. rows' \in [Comics -> Row \cup {NoRow}]
  BY <1>1 DEF Mark, TypeInv, TypeOK, DatabaseTypeOK, Row
<1>3. spent' \in [Kind -> Nat]
  BY <1>1, SpendType DEF Mark, Kind
<1>4. TaskTypeOK' /\ Prepared'
  BY <1>1, TasksStay DEF Mark, TypeInv, TypeOK, TaskTypeOK
<1>5. QED
  BY <1>1, <1>2, <1>3, <1>4
  DEF Mark, observed, TypeInv, TypeOK, DatabaseTypeOK, ObservedTypeOK

\* What a user does without the lock.
LEMMA UserType ==
  ASSUME TypeInv, NEW c \in Comics, User(c)
  PROVE  TypeInv'
<1>0. \A v \in Titles : Decoded[v] \in Titles
  BY StoreAssumption
<1>1. TaskTypeOK' /\ Prepared'
  <2>1. OpenScreen(c) => disk[c].pages \in Nat
    BY ParsedType DEF OpenScreen
  <2>2. UNCHANGED <<busy, job, wb>> /\ reading' \in [Comics -> Nat \cup {Closed}]
    BY <2>1 DEF User, EditTitle, SetLock, OpenScreen, CloseScreen, RecordReading,
                TypeInv, TypeOK, TaskTypeOK
  <2>3. QED
    BY <2>2, TasksStay
<1>2. spent' \in [Kind -> Nat]
  BY SpendType DEF User, EditTitle, SetLock, OpenScreen, CloseScreen, RecordReading, Kind,
                   TypeInv, TypeOK, ObservedTypeOK
<1>3. meta' \in [Comics -> Meta \cup {NoMeta}]
  <2>1. ASSUME NEW v \in Titles, EditTitle(c, v)
        PROVE  meta' \in [Comics -> Meta \cup {NoMeta}]
    <3>1. [meta[c] EXCEPT !.title = Decoded[v], !.locked = TRUE] \in Meta
      BY <1>0, <2>1 DEF EditTitle, Meta, TypeInv, TypeOK, DatabaseTypeOK
    <3>2. QED
      BY <2>1, <3>1 DEF EditTitle, TypeInv, TypeOK, DatabaseTypeOK
  <2>2. ASSUME NEW b \in BOOLEAN, SetLock(c, b)
        PROVE  meta' \in [Comics -> Meta \cup {NoMeta}]
    <3>1. meta[c] \in Meta
      BY <2>2 DEF SetLock, TypeInv, TypeOK, DatabaseTypeOK
    <3>2. [meta[c] EXCEPT !.locked = b] \in Meta
      BY <3>1 DEF Meta
    <3>3. QED
      BY <2>2, <3>2 DEF SetLock, TypeInv, TypeOK, DatabaseTypeOK
  <2>3. ASSUME OpenScreen(c) \/ CloseScreen(c) \/ RecordReading(c)
        PROVE  meta' \in [Comics -> Meta \cup {NoMeta}]
    BY <2>3 DEF OpenScreen, CloseScreen, RecordReading, db, TypeInv, TypeOK, DatabaseTypeOK
  <2>4. QED
    BY <2>1, <2>2, <2>3 DEF User
<1>4. DatabaseTypeOK'
  BY <1>3 DEF User, EditTitle, SetLock, OpenScreen, CloseScreen, RecordReading, db,
              TypeInv, TypeOK, DatabaseTypeOK
<1>5. pinned' \in [Comics -> Titles \cup {NoTitle}]
  <2>1. meta[c] # NoMeta => meta[c].title \in Titles
    BY DEF Meta, TypeInv, TypeOK, DatabaseTypeOK
  <2>2. QED
    BY <1>0, <2>1 DEF User, EditTitle, SetLock, OpenScreen, CloseScreen, RecordReading, observed,
                      TypeInv, TypeOK, ObservedTypeOK
<1>6. ObservedTypeOK'
  BY <1>2, <1>5 DEF User, EditTitle, SetLock, OpenScreen, CloseScreen, RecordReading, observed,
                    TypeInv, TypeOK, ObservedTypeOK
<1>7. QED
  BY <1>1, <1>4, <1>6 DEF TypeInv, TypeOK

\* The steps of a writeback keep the types.
LEMMA WritebackParseType ==
  ASSUME TypeInv, NEW w \in Readers, NEW c \in Comics, WritebackParse(w, c)
  PROVE  TypeInv'
<1> DEFINE n == reading[c]
           plain == Merged([Loaded(c) EXCEPT !.pages = n], Loaded(c), n)
           fresh == Merged(Parsed(c), Loaded(c), disk[c].pages)
<1>1. c \in Existing /\ n \in Nat /\ n > 0
  BY DEF WritebackParse, TypeInv, TypeOK, TaskTypeOK, Closed
<1>2. Parses(c) => fresh \in Copy /\ fresh.pages > 0
  BY <1>1, ParsedType, LoadedType, MergedType DEF Parses
<1>3. plain \in Copy /\ plain.pages > 0
  <2>1. Loaded(c) \in Copy /\ [Loaded(c) EXCEPT !.pages = n] \in Copy
    BY <1>1, LoadedType DEF Copy
  <2>2. QED
    BY <1>1, <2>1, MergedType
<1>4. PICK x \in {plain} \cup (IF Parses(c) THEN {fresh} ELSE {}) :
        wb' = [wb EXCEPT ![w] = [at |-> "parsed", on |-> c, copy |-> x]]
  BY DEF WritebackParse
<1>5. x \in Copy /\ x.pages > 0
  BY <1>2, <1>3
<1>6. TaskTypeOK' /\ Prepared'
  <2>1. UNCHANGED <<busy, job, reading>>
    BY DEF WritebackParse
  <2>2. [at |-> "parsed", on |-> c, copy |-> x] \in Writeback
    BY <1>5 DEF Writeback
  <2> HIDE DEF plain, fresh
  <2>3. QED
    BY <1>4, <1>5, <2>1, <2>2, WritebackStays
<1>7. QED
  BY <1>6 DEF WritebackParse, db, observed, TypeInv, TypeOK, DatabaseTypeOK, ObservedTypeOK

\* The two writes of a writeback, and its failure.
LEMMA WritebackType ==
  ASSUME TypeInv, NEW w \in Readers, WritebackRow(w) \/ WritebackMeta(w) \/ WritebackFails(w)
  PROVE  TypeInv'
<1>1. wb[w] \in Writeback /\ wb[w].on \in Comics /\ wb[w].copy \in Copy /\ wb[w].copy.pages > 0
  BY DEF WritebackRow, WritebackMeta, WritebackFails, TypeInv, TypeOK, TaskTypeOK, Prepared
<1>2. UpsertRow(wb[w].on, wb[w].copy) \in Row /\ UpsertMeta(wb[w].copy) \in Meta
  BY <1>1, UpsertType
<1>3. DatabaseTypeOK' /\ ObservedTypeOK'
  BY <1>1, <1>2 DEF WritebackRow, WritebackMeta, WritebackFails, db, observed,
                    TypeInv, TypeOK, DatabaseTypeOK, ObservedTypeOK
<1>4. PICK x \in {[wb[w] EXCEPT !.at = "rowed"], IdleWriteback} :
        wb' = [wb EXCEPT ![w] = x] /\ UNCHANGED <<busy, job, reading>>
  BY DEF WritebackRow, WritebackMeta, WritebackFails
<1>5. x \in Writeback /\ (x.at # "idle" => x.on \in Comics /\ x.copy \in Copy /\ x.copy.pages > 0)
  BY <1>1, <1>4, IdleType DEF Writeback, IdleWriteback
<1>6. TaskTypeOK' /\ Prepared'
  BY <1>4, <1>5, WritebackStays
<1>7. QED
  BY <1>3, <1>6 DEF TypeInv, TypeOK

\* Files that come, go and move, and the end of the process, keep the types.
LEMMA EnvironmentType ==
  ASSUME TypeInv, Environment
  PROVE  TypeInv'
<1>1. CASE \/ \E c \in Comics, r \in Resources \cup {NoFile} : PutFile(c, r)
           \/ \E c, d \in Comics : MoveFile(c, d)
  <2>1. TaskTypeOK' /\ Prepared'
    BY <1>1, TasksStay DEF PutFile, MoveFile, TypeInv, TypeOK, TaskTypeOK
  <2>2. spent' \in [Kind -> Nat]
    BY <1>1, SpendType DEF PutFile, MoveFile, Kind
  <2>3. QED
    BY <1>1, <2>1, <2>2 DEF PutFile, MoveFile, Moved, db,
                            TypeInv, TypeOK, DatabaseTypeOK, ObservedTypeOK
<1>2. CASE Crash
  <2>1. TaskTypeOK' /\ Prepared'
    BY <1>2, IdleType DEF Crash, TaskTypeOK, Prepared, IdleJob, IdleWriteback
  <2>2. spent' \in [Kind -> Nat]
    BY <1>2, SpendType DEF Crash, Kind
  <2>3. QED
    BY <1>2, <2>1, <2>2 DEF Crash, db, TypeInv, TypeOK, DatabaseTypeOK, ObservedTypeOK
<1>3. QED
  BY <1>1, <1>2 DEF Environment

\* Every step keeps the types.
LEMMA NextType == TypeInv /\ [Next]_vars => TypeInv'
<1> SUFFICES ASSUME TypeInv, [Next]_vars PROVE TypeInv'
  OBVIOUS
<1>1. ASSUME NEW t \in Tasks, Progress(t) PROVE TypeInv'
  <2>1. CASE BuildPlan(t) \/ ApplyPlan(t) \/ RefreshWrite(t) \/ RefreshWriteFails(t)
    BY <2>1, BuildPlanType, ApplyPlanType, RefreshWriteType
  <2>2. CASE \E c \in Comics : \/ ScanPath(t, c) \/ RefreshParse(t, c) \/ RefreshSkip(t, c)
                               \/ PurgeErase(t, c) \/ PurgeSkip(t, c)
    BY <2>2, ScanType, RefreshParseType, SkipType, PurgeEraseType
  <2>3. CASE PurgeDelete(t) \/ PurgeDeleteFails(t)
    BY <2>3, PurgeDeleteType
  <2>4. CASE ApplyRejected(t) \/ FinishSync(t) \/ FinishRefresh(t) \/ FinishPurge(t)
    BY <2>4, ReleaseType DEF ApplyRejected, FinishSync, FinishRefresh, FinishPurge
  <2>5. QED
    BY <1>1, <2>1, <2>2, <2>3, <2>4 DEF Progress
<1>2. ASSUME NEW t \in Tasks, Abort(t) PROVE TypeInv'
  BY <1>2, ReleaseType DEF Abort
<1>3. ASSUME NEW w \in Readers, WritebackStep(w) PROVE TypeInv'
  BY <1>3, WritebackParseType, WritebackType DEF WritebackStep
<1>4. CASE UNCHANGED vars
  BY <1>4 DEF vars, TypeInv, TypeOK, DatabaseTypeOK, TaskTypeOK, ObservedTypeOK, Prepared
<1>5. QED
  BY <1>1, <1>2, <1>3, <1>4, StartType, MarkType, UserType, EnvironmentType DEF Next

\* The types hold throughout every behaviour.
THEOREM SpecType == Spec => []TypeInv
  BY InitType, NextType, PTL DEF Spec

-----------------------------------------------------------------------------
\* The library write lock.

\* What a step does to the lock and to who runs an operation: one task takes it,
\* gives it back or goes on, nothing changes, or the process dies.
Others(t) == \A u \in Tasks \ {t} : job'[u].at = job[u].at
Takes(t) == ~busy /\ busy' /\ job'[t].at # "idle" /\ Others(t)
Gives(t) == job[t].at # "idle" /\ ~busy' /\ job'[t].at = "idle" /\ Others(t)
GoesOn(t) == job[t].at # "idle" /\ busy' = busy /\ job'[t].at # "idle" /\ Others(t)
Dies == ~busy' /\ \A t \in Tasks : job'[t].at = "idle"
LockStep ==
    \/ \E t \in Tasks : Takes(t) \/ Gives(t) \/ GoesOn(t)
    \/ UNCHANGED <<busy, job>>
    \/ Dies

\* Every step of the library is one of those.
LEMMA NextLockStep == TypeInv /\ [Next]_vars => LockStep
<1> SUFFICES ASSUME TypeInv, [Next]_vars PROVE LockStep
  OBVIOUS
<1>0. (\A t \in Tasks : job[t] \in Job) /\ job \in [Tasks -> Job]
  BY DEF TypeInv, TypeOK, TaskTypeOK
<1>a. ASSUME NEW t \in Tasks, NEW j, job' = [job EXCEPT ![t] = j]
      PROVE  job'[t].at = j.at /\ Others(t)
  BY <1>0, <1>a DEF Others
<1>1. ASSUME NEW t \in Tasks, NEW j, Acquire(t, j), j.at # "idle" PROVE LockStep
  BY <1>1, <1>a DEF Acquire, LockStep, Takes
<1>2. ASSUME NEW t \in Tasks, Release(t), job[t].at # "idle" PROVE LockStep
  BY <1>2, <1>a DEF Release, IdleJob, LockStep, Gives
<1>3. ASSUME NEW t \in Tasks, NEW j, Advance(t, j), job[t].at # "idle", j.at # "idle"
      PROVE  LockStep
  BY <1>3, <1>a DEF Advance, LockStep, GoesOn
<1>4. ASSUME UNCHANGED <<busy, job>> PROVE LockStep
  BY <1>4 DEF LockStep
<1>5. ASSUME NEW t \in Tasks, Start(t) PROVE LockStep
  BY <1>1, <1>5 DEF Start, StartSync, StartRefresh, StartPurge, IdleJob
<1>6. ASSUME NEW t \in Tasks, Progress(t) PROVE LockStep
  <2>1. ASSUME NEW c \in Comics, ScanPath(t, c) PROVE LockStep
    <3>1. PICK j : Advance(t, j) /\ j.at = "scan" /\ job[t].at = "scan"
      BY <1>0, <2>1 DEF ScanPath, Job
    <3>2. QED
      BY <1>3, <3>1
  <2>2. CASE BuildPlan(t)
    <3>1. PICK m, g, x : /\ job[t].at = "scan"
                         /\ Advance(t, [IdleJob EXCEPT !.at = "planned", !.moves = m,
                                                       !.gone = g, !.got = x])
      BY <2>2 DEF BuildPlan
    <3>2. [IdleJob EXCEPT !.at = "planned", !.moves = m, !.gone = g, !.got = x].at = "planned"
      BY DEF IdleJob
    <3>3. QED
      BY <1>3, <3>1, <3>2
  <2>3. CASE ApplyPlan(t)
    <3>1. job[t].at = "planned" /\ Advance(t, [IdleJob EXCEPT !.at = "applied"])
      BY <2>3 DEF ApplyPlan
    <3>2. [IdleJob EXCEPT !.at = "applied"].at = "applied"
      BY DEF IdleJob
    <3>3. QED
      BY <1>3, <3>1, <3>2
  <2>4. ASSUME NEW c \in Comics, RefreshParse(t, c) PROVE LockStep
    <3>1. PICK x : /\ job[t].at = "refreshing"
                   /\ Advance(t, [job[t] EXCEPT !.at = "merged", !.on = c,
                                                !.todo = @ \ {c}, !.got[c] = x])
      BY <2>4 DEF RefreshParse
    <3>2. [job[t] EXCEPT !.at = "merged", !.on = c, !.todo = @ \ {c}, !.got[c] = x].at = "merged"
      BY <1>0 DEF Job
    <3>3. QED
      BY <1>3, <3>1, <3>2
  <2>5. ASSUME NEW c \in Comics, RefreshSkip(t, c) \/ PurgeSkip(t, c) PROVE LockStep
    <3>1. [job[t] EXCEPT !.todo = @ \ {c}].at = job[t].at
      BY <1>0 DEF Job
    <3>2. QED
      BY <1>3, <2>5, <3>1 DEF RefreshSkip, PurgeSkip
  <2>6. CASE RefreshWrite(t) \/ RefreshWriteFails(t)
    <3>1. /\ job[t].at = "merged"
          /\ Advance(t, [IdleJob EXCEPT !.at = "refreshing", !.todo = job[t].todo])
      BY <2>6 DEF RefreshWrite, RefreshWriteFails
    <3>2. [IdleJob EXCEPT !.at = "refreshing", !.todo = job[t].todo].at = "refreshing"
      BY DEF IdleJob
    <3>3. QED
      BY <1>3, <3>1, <3>2
  <2>7. ASSUME NEW c \in Comics, PurgeErase(t, c) PROVE LockStep
    <3>1. [job[t] EXCEPT !.at = "erased", !.on = c, !.todo = @ \ {c}].at = "erased"
      BY <1>0 DEF Job
    <3>2. QED
      BY <1>3, <2>7, <3>1 DEF PurgeErase
  <2>8. CASE PurgeDelete(t) \/ PurgeDeleteFails(t)
    <3>1. [job[t] EXCEPT !.at = "purging", !.on = NoComic].at = "purging"
      BY <1>0 DEF Job
    <3>2. QED
      BY <1>3, <2>8, <3>1 DEF PurgeDelete, PurgeDeleteFails
  <2>9. CASE ApplyRejected(t) \/ FinishSync(t) \/ FinishRefresh(t) \/ FinishPurge(t)
    BY <1>2, <2>9 DEF ApplyRejected, FinishSync, FinishRefresh, FinishPurge
  <2>10. QED
    BY <1>6, <2>1, <2>2, <2>3, <2>4, <2>5, <2>6, <2>7, <2>8, <2>9 DEF Progress
<1>7. ASSUME NEW t \in Tasks, Abort(t) PROVE LockStep
  BY <1>2, <1>7 DEF Abort
<1>8. ASSUME NEW C \in SUBSET Comics, Trash(C) \/ Restore(C) PROVE LockStep
  BY <1>4, <1>8 DEF Trash, Restore, Mark
<1>9. ASSUME NEW c \in Comics, User(c) PROVE LockStep
  BY <1>4, <1>9 DEF User, EditTitle, SetLock, OpenScreen, CloseScreen, RecordReading
<1>10. ASSUME NEW w \in Readers, WritebackStep(w) PROVE LockStep
  BY <1>4, <1>10 DEF WritebackStep, WritebackParse, WritebackRow, WritebackMeta, WritebackFails
<1>11. CASE Environment
  BY <1>4, <1>11 DEF Environment, PutFile, MoveFile, Crash, LockStep, Dies, IdleJob
<1>12. CASE UNCHANGED vars
  BY <1>4, <1>12 DEF vars
<1>13. QED
  BY <1>5, <1>6, <1>7, <1>8, <1>9, <1>10, <1>11, <1>12 DEF Next

\* The lock excludes: at most one sync, refresh or purge is in progress, and
\* LIBRARY_WRITE_BUSY is set exactly while one is.
LEMMA NextExclusion == TypeInv /\ SingleWriter /\ [Next]_vars => SingleWriter'
<1> SUFFICES ASSUME TypeInv, SingleWriter, LockStep PROVE SingleWriter'
  BY NextLockStep
<1>1. ASSUME NEW t \in Tasks, Takes(t) \/ GoesOn(t) PROVE SingleWriter'
  BY <1>1 DEF Takes, GoesOn, Others, SingleWriter, TypeInv, TypeOK, TaskTypeOK
<1>2. ASSUME NEW t \in Tasks, Gives(t) PROVE SingleWriter'
  BY <1>2 DEF Gives, Others, SingleWriter, TypeInv, TypeOK, TaskTypeOK
<1>3. CASE UNCHANGED <<busy, job>>
  BY <1>3 DEF SingleWriter
<1>4. CASE Dies
  BY <1>4 DEF Dies, SingleWriter
<1>5. QED
  BY <1>1, <1>2, <1>3, <1>4 DEF LockStep

\* One operation at most is at work in the section of the library write lock.
THEOREM SpecSingleWriter == Spec => []SingleWriter
<1>1. Init => SingleWriter
  BY DEF Init, SingleWriter, IdleJob
<1>2. QED
  BY <1>1, NextExclusion, SpecType, PTL DEF Spec

\* The flag and the operations in progress implement the abstract lock: every
\* step of the library takes it, gives it back or leaves it alone.
LEMMA NextImplements == TypeInv /\ SingleWriter /\ [Next]_vars => [Lock!Next]_(Lock!vars)
<1> SUFFICES ASSUME TypeInv, SingleWriter, LockStep PROVE Lock!Next \/ UNCHANGED Lock!vars
  BY NextLockStep
<1>0. busy \in BOOLEAN
  BY DEF TypeInv, TypeOK, TaskTypeOK
<1>1. ASSUME NEW t \in Tasks, Takes(t) PROVE Lock!Acquire(t)
  <2>1. Holders = {} /\ Holders' = {t}
    BY <1>1 DEF Takes, Others, Holders, SingleWriter
  <2>2. busy' = TRUE
    BY <1>1 DEF Takes, LockStep
  <2>3. QED
    BY <1>1, <2>1, <2>2 DEF Takes, Lock!Acquire
<1>2. ASSUME NEW t \in Tasks, Gives(t) PROVE Lock!Release(t)
  <2>1. Holders = {t} /\ Holders' = {}
    BY <1>2 DEF Gives, Others, Holders, SingleWriter
  <2>2. QED
    BY <1>2, <2>1 DEF Gives, Lock!Release
<1>3. ASSUME NEW t \in Tasks, GoesOn(t) PROVE UNCHANGED Lock!vars
  <2>1. Holders' = Holders
    BY <1>3 DEF GoesOn, Others, Holders
  <2>2. QED
    BY <1>3, <2>1 DEF GoesOn, Lock!vars
<1>4. CASE UNCHANGED <<busy, job>>
  BY <1>4 DEF Lock!vars, Holders
<1>5. CASE Dies
  <2>1. Holders' = {} /\ busy' = FALSE
    BY <1>5 DEF Dies, Holders
  <2>2. CASE \A t \in Tasks : job[t].at = "idle"
    BY <1>0, <2>1, <2>2 DEF Holders, SingleWriter, Lock!vars
  <2>3. ASSUME NEW t \in Tasks, job[t].at # "idle" PROVE Lock!Release(t)
    <3>1. Holders = {t}
      BY <2>3 DEF Holders, SingleWriter
    <3>2. QED
      BY <2>1, <3>1 DEF Lock!Release
  <2>4. QED
    BY <2>2, <2>3 DEF Lock!Next
<1>6. QED
  BY <1>1, <1>2, <1>3, <1>4, <1>5 DEF LockStep, Lock!Next

\* LibraryStore implements WriteLock, for any number of tasks and crashes.
THEOREM SpecLock == Spec => LockImplemented
<1>1. Init => Lock!Init
  BY DEF Init, IdleJob, Lock!Init, Holders
<1>2. QED
  BY <1>1, NextImplements, SpecType, SpecSingleWriter, PTL DEF Spec, LockImplemented, Lock!Spec

-----------------------------------------------------------------------------
\* Purge.

\* The inductive invariant: PurgeTargetsInTrash survives the deletion of a row
\* because the comic being deleted is no longer on the list.
PurgeInv ==
    /\ TypeInv /\ SingleWriter /\ PurgeTargetsInTrash
    /\ \A t \in Tasks : job[t].at = "erased" => job[t].on \notin job[t].todo

\* The part of PurgeInv that speaks of purges, and its proof for a step after
\* which no purge is in progress.
PurgeOK ==
    /\ PurgeTargetsInTrash
    /\ \A t \in Tasks : job[t].at = "erased" => job[t].on \notin job[t].todo

\* Without a purge in progress there is nothing to keep.
LEMMA NoPurge ==
  ASSUME \A t \in Tasks : job'[t].at \notin {"purging", "erased"}
  PROVE  PurgeOK'
  BY DEF PurgeOK, PurgeTargetsInTrash

\* A step of another operation: while it holds the lock, no purge runs.
LEMMA OtherOperation ==
  ASSUME PurgeInv, SingleWriter', NEW t \in Tasks, NEW j,
         job' = [job EXCEPT ![t] = j], j.at \notin {"purging", "erased"},
         ~busy \/ job[t].at # "idle"
  PROVE  PurgeOK'
<1>1. \A u \in Tasks : u # t => job'[u].at = "idle"
  BY DEF PurgeInv, SingleWriter, TypeInv, TypeOK, TaskTypeOK
<1>2. job'[t].at \notin {"purging", "erased"}
  BY DEF PurgeInv, TypeInv, TypeOK, TaskTypeOK
<1>3. QED
  BY <1>1, <1>2, NoPurge

\* A step that leaves the operations alone and every comic in trash there.
LEMMA OperationsStay ==
  ASSUME PurgeInv, job' = job, \A c \in Comics : InTrash(c) => InTrash(c)'
  PROVE  PurgeOK'
<1>1. \A t \in Tasks : job[t].todo \cup ({job[t].on} \ {NoComic}) \subseteq Comics
  BY DEF PurgeInv, TypeInv, TypeOK, TaskTypeOK, Job
<1>2. QED
  BY <1>1 DEF PurgeInv, PurgeOK, PurgeTargetsInTrash

\* Every step keeps what a purge relies on.
LEMMA NextPurge == PurgeInv /\ [Next]_vars => PurgeOK'
<1> SUFFICES ASSUME PurgeInv, [Next]_vars PROVE PurgeOK'
  OBVIOUS
<1>0. SingleWriter' /\ \A t \in Tasks : job[t] \in Job
  BY NextExclusion DEF PurgeInv, TypeInv, TypeOK, TaskTypeOK
<1>1. ASSUME NEW t \in Tasks, NEW j, Acquire(t, j), j.at \notin {"purging", "erased"}
      PROVE  PurgeOK'
  BY <1>0, <1>1, OtherOperation DEF Acquire
<1>2. ASSUME NEW t \in Tasks, Release(t) PROVE PurgeOK'
  <2>1. \A u \in Tasks : job'[u].at = "idle"
    BY <1>0, <1>2 DEF Release, SingleWriter
  <2>2. QED
    BY <2>1, NoPurge
<1>3. ASSUME NEW t \in Tasks, NEW j, Advance(t, j), job[t].at # "idle",
             j.at \notin {"purging", "erased"}
      PROVE  PurgeOK'
  BY <1>0, <1>3, OtherOperation DEF Advance
<1>4. ASSUME NEW t \in Tasks, NEW C \in SUBSET Comics, StartPurge(t, C) PROVE PurgeOK'
  <2> DEFINE j == [IdleJob EXCEPT !.at = "purging", !.todo = {c \in C : InTrash(c)}]
  <2>1. j.at = "purging" /\ j.todo = {c \in C : InTrash(c)} /\ j.on = NoComic
    BY DEF IdleJob
  <2>2. job' = [job EXCEPT ![t] = j] /\ ~busy /\ rows' = rows
    BY <1>4 DEF StartPurge, Acquire, db
  <2> HIDE DEF j
  <2>3. \A u \in Tasks : job'[u] = IF u = t THEN j ELSE job[u]
    BY <2>2 DEF PurgeInv, TypeInv, TypeOK, TaskTypeOK
  <2>4. \A u \in Tasks : u # t => job[u].at = "idle"
    BY <2>2 DEF PurgeInv, SingleWriter
  <2>5. QED
    BY <2>1, <2>2, <2>3, <2>4 DEF PurgeOK, PurgeTargetsInTrash, InTrash
<1>5. ASSUME NEW t \in Tasks, NEW c \in Comics, PurgeErase(t, c) \/ PurgeSkip(t, c)
      PROVE  PurgeOK'
  <2>1. PICK j : /\ job' = [job EXCEPT ![t] = j] /\ rows' = rows
                 /\ j.at \in {"purging", "erased"} /\ j.todo = job[t].todo \ {c}
                 /\ j.on \in {c, job[t].on} /\ (j.at = "erased" => j.on = c)
    <3>1. CASE PurgeErase(t, c)
      <4> DEFINE j == [job[t] EXCEPT !.at = "erased", !.on = c, !.todo = @ \ {c}]
      <4>1. j.at = "erased" /\ j.on = c /\ j.todo = job[t].todo \ {c}
        BY <1>0 DEF Job
      <4>2. job' = [job EXCEPT ![t] = j] /\ rows' = rows
        BY <3>1 DEF PurgeErase, Advance, db
      <4> HIDE DEF j
      <4>3. QED
        BY <4>1, <4>2
    <3>2. CASE PurgeSkip(t, c)
      <4> DEFINE j == [job[t] EXCEPT !.todo = @ \ {c}]
      <4>1. j.at = "purging" /\ j.on = job[t].on /\ j.todo = job[t].todo \ {c}
        BY <1>0, <3>2 DEF Job, PurgeSkip
      <4>2. job' = [job EXCEPT ![t] = j] /\ rows' = rows
        BY <3>2 DEF PurgeSkip, Advance, db
      <4> HIDE DEF j
      <4>3. QED
        BY <4>1, <4>2
    <3>3. QED
      BY <1>5, <3>1, <3>2
  <2>2. job[t].at = "purging" /\ c \in job[t].todo
    BY <1>5 DEF PurgeErase, PurgeSkip
  <2>3. \A u \in Tasks : job'[u] = IF u = t THEN j ELSE job[u]
    BY <2>1 DEF PurgeInv, TypeInv, TypeOK, TaskTypeOK
  <2>4. QED
    BY <2>1, <2>2, <2>3 DEF PurgeInv, PurgeOK, PurgeTargetsInTrash, InTrash
<1>6. ASSUME NEW t \in Tasks, PurgeDelete(t) \/ PurgeDeleteFails(t) PROVE PurgeOK'
  <2> DEFINE j == [job[t] EXCEPT !.at = "purging", !.on = NoComic]
  <2>1. job[t].at = "erased" /\ job' = [job EXCEPT ![t] = j]
    BY <1>6 DEF PurgeDelete, PurgeDeleteFails, Advance
  <2>2. j.at = "purging" /\ j.on = NoComic /\ j.todo = job[t].todo
    BY <1>0 DEF Job
  <2> HIDE DEF j
  <2>3. \A u \in Tasks : job'[u] = IF u = t THEN j ELSE job[u]
    BY <2>1 DEF PurgeInv, TypeInv, TypeOK, TaskTypeOK
  <2>4. \A u \in Tasks : u # t => job[u].at = "idle"
    BY <2>1 DEF PurgeInv, SingleWriter
  <2>5. \A d \in job[t].todo : d # job[t].on /\ d \in Comics /\ InTrash(d)
    BY <1>0, <2>1 DEF PurgeInv, PurgeTargetsInTrash, Job
  <2>6. \A d \in Comics : d # job[t].on => rows'[d] = rows[d]
    BY <1>6 DEF PurgeDelete, PurgeDeleteFails, db, PurgeInv, TypeInv, TypeOK, DatabaseTypeOK
  <2>7. QED
    BY <2>2, <2>3, <2>4, <2>5, <2>6 DEF PurgeOK, PurgeTargetsInTrash, InTrash
<1>7. ASSUME NEW t \in Tasks, Start(t) PROVE PurgeOK'
  <2>1. CASE StartSync(t)
    BY <1>1, <2>1 DEF StartSync, IdleJob
  <2>2. CASE \E C \in SUBSET Comics : StartRefresh(t, C)
    BY <1>1, <2>2 DEF StartRefresh, IdleJob
  <2>3. QED
    BY <1>4, <1>7, <2>1, <2>2 DEF Start
<1>8. ASSUME NEW t \in Tasks, Progress(t) PROVE PurgeOK'
  <2>1. CASE \E c \in Comics : ScanPath(t, c)
    <3>1. PICK j : Advance(t, j) /\ j.at = "scan" /\ job[t].at = "scan"
      BY <1>0, <2>1 DEF ScanPath, Job
    <3>2. QED
      BY <1>3, <3>1
  <2>2. CASE BuildPlan(t)
    <3>1. PICK m, g, x : /\ job[t].at = "scan"
                         /\ Advance(t, [IdleJob EXCEPT !.at = "planned", !.moves = m,
                                                       !.gone = g, !.got = x])
      BY <2>2 DEF BuildPlan
    <3>2. [IdleJob EXCEPT !.at = "planned", !.moves = m, !.gone = g, !.got = x].at = "planned"
      BY DEF IdleJob
    <3>3. QED
      BY <1>3, <3>1, <3>2
  <2>3. CASE ApplyPlan(t)
    <3>1. job[t].at = "planned" /\ Advance(t, [IdleJob EXCEPT !.at = "applied"])
      BY <2>3 DEF ApplyPlan
    <3>2. [IdleJob EXCEPT !.at = "applied"].at = "applied"
      BY DEF IdleJob
    <3>3. QED
      BY <1>3, <3>1, <3>2
  <2>4. ASSUME NEW c \in Comics, RefreshParse(t, c) \/ RefreshSkip(t, c) PROVE PurgeOK'
    <3>1. PICK x : /\ job[t].at = "refreshing"
                   /\ \/ Advance(t, [job[t] EXCEPT !.at = "merged", !.on = c,
                                                   !.todo = @ \ {c}, !.got[c] = x])
                      \/ Advance(t, [job[t] EXCEPT !.todo = @ \ {c}])
      BY <2>4 DEF RefreshParse, RefreshSkip
    <3>2. /\ [job[t] EXCEPT !.at = "merged", !.on = c, !.todo = @ \ {c}, !.got[c] = x].at = "merged"
          /\ [job[t] EXCEPT !.todo = @ \ {c}].at = "refreshing"
      BY <1>0, <3>1 DEF Job
    <3>3. QED
      BY <1>3, <3>1, <3>2
  <2>5. CASE RefreshWrite(t) \/ RefreshWriteFails(t)
    <3>1. /\ job[t].at = "merged"
          /\ Advance(t, [IdleJob EXCEPT !.at = "refreshing", !.todo = job[t].todo])
      BY <2>5 DEF RefreshWrite, RefreshWriteFails
    <3>2. [IdleJob EXCEPT !.at = "refreshing", !.todo = job[t].todo].at = "refreshing"
      BY DEF IdleJob
    <3>3. QED
      BY <1>3, <3>1, <3>2
  <2>6. CASE ApplyRejected(t) \/ FinishSync(t) \/ FinishRefresh(t) \/ FinishPurge(t)
    BY <1>2, <2>6 DEF ApplyRejected, FinishSync, FinishRefresh, FinishPurge
  <2>7. QED
    BY <1>5, <1>6, <1>8, <2>1, <2>2, <2>3, <2>4, <2>5, <2>6 DEF Progress
<1>9. ASSUME NEW t \in Tasks, Abort(t) PROVE PurgeOK'
  BY <1>2, <1>9 DEF Abort
<1>10. ASSUME NEW C \in SUBSET Comics, Trash(C) \/ Restore(C) PROVE PurgeOK'
  <2>1. \A t \in Tasks : job'[t].at = "idle"
    BY <1>10 DEF Trash, Restore, Mark, PurgeInv, SingleWriter
  <2>2. QED
    BY <2>1, NoPurge
<1>11. ASSUME NEW c \in Comics, User(c) PROVE PurgeOK'
  BY <1>11, OperationsStay
  DEF User, EditTitle, SetLock, OpenScreen, CloseScreen, RecordReading, db, InTrash
<1>12. ASSUME NEW w \in Readers, WritebackStep(w) PROVE PurgeOK'
  <2>1. \A c \in Comics : InTrash(c) => InTrash(c)'
    <3>1. CASE WritebackRow(w)
      <4>1. /\ wb[w].on \in Comics /\ UpsertRow(wb[w].on, wb[w].copy) \in Row
            /\ rows' = [rows EXCEPT ![wb[w].on] = UpsertRow(wb[w].on, wb[w].copy)]
        BY <3>1, UpsertType DEF WritebackRow, PurgeInv, TypeInv, Prepared
      <4>2. InTrash(wb[w].on) => UpsertRow(wb[w].on, wb[w].copy).trashed
        BY DEF UpsertRow, InTrash
      <4>3. QED
        BY <4>1, <4>2, StoreAssumption DEF InTrash, PurgeInv, TypeInv, TypeOK, DatabaseTypeOK
    <3>2. CASE rows' = rows
      BY <3>2 DEF InTrash
    <3>3. QED
      BY <1>12, <3>1, <3>2
      DEF WritebackStep, WritebackParse, WritebackMeta, WritebackFails, db
  <2>2. QED
    BY <1>12, <2>1, OperationsStay
    DEF WritebackStep, WritebackParse, WritebackRow, WritebackMeta, WritebackFails
<1>13. CASE Environment
  <2>1. CASE Crash
    BY <2>1, NoPurge DEF Crash, IdleJob
  <2>2. QED
    BY <1>13, <2>1, OperationsStay DEF Environment, PutFile, MoveFile, db, InTrash
<1>14. CASE UNCHANGED vars
  BY <1>14, OperationsStay DEF vars, InTrash
<1>15. QED
  BY <1>7, <1>8, <1>9, <1>10, <1>11, <1>12, <1>13, <1>14 DEF Next

\* A purge deletes only comics that are in trash at that moment: the flags it
\* read when it started cannot change before it is through.
THEOREM SpecPurgeTargets == Spec => []PurgeTargetsInTrash
<1>1. Init => PurgeOK
  BY DEF Init, PurgeOK, PurgeTargetsInTrash, IdleJob
<1>2. PurgeInv <=> TypeInv /\ SingleWriter /\ PurgeOK
  BY DEF PurgeInv, PurgeOK
<1>3. PurgeInv /\ [Next]_vars => PurgeOK'
  BY NextPurge
<1>4. Spec => []PurgeOK
  BY <1>1, <1>2, <1>3, SpecType, SpecSingleWriter, PTL DEF Spec
<1>5. PurgeOK => PurgeTargetsInTrash
  BY DEF PurgeOK
<1>6. QED
  BY <1>4, <1>5, PTL

-----------------------------------------------------------------------------
\* Trash.

\* Nothing but a restore brings a comic out of trash: an upsert keeps the flag
\* it finds, and a migration cannot land on a comic in trash because its
\* transaction is rejected when the target has a row.
THEOREM SpecTrashedUntilRestored == Spec => TrashedUntilRestored
<1> DEFINE Kept == \A c \in Comics : InTrash(c) /\ rows'[c] # NoRow /\ ~rows'[c].trashed
                     => \E C \in SUBSET Comics : c \in C /\ Restore(C)
<1>1. TypeInv /\ [Next]_vars => [Kept]_vars
  <2> SUFFICES ASSUME TypeInv, Next, NEW c \in Comics,
                      InTrash(c), rows'[c] # NoRow, ~rows'[c].trashed
               PROVE  \E C \in SUBSET Comics : c \in C /\ Restore(C)
    OBVIOUS
  <2>0. rows'[c] # rows[c]
    BY DEF InTrash
  <2>1. ASSUME NEW t \in Tasks, ApplyPlan(t) PROVE FALSE
    <3>1. ~\E f \in Comics : <<f, c>> \in job[t].moves
      BY <2>1 DEF ApplyPlan, Blocked, InTrash
    <3>2. Source(job[t], c) = c
      BY <3>1 DEF Source
    <3>3. CASE Writes(job[t].got[c])
      <4>1. job[t].got[c] \in Copy
        BY <3>3 DEF Writes, TypeInv, TypeOK, TaskTypeOK, Job, Copies
      <4>2. UpsertRow(c, job[t].got[c]) \in Row
        BY <4>1, UpsertType
      <4>3. rows'[c] = [UpsertRow(c, job[t].got[c]) EXCEPT
                          !.trashed = rows[c] # NoRow /\ rows[c].trashed]
        BY <2>1, <3>2, <3>3 DEF ApplyPlan
      <4>4. rows'[c].trashed = (rows[c] # NoRow /\ rows[c].trashed)
        BY <4>2, <4>3 DEF Row
      <4>5. QED
        BY <4>4 DEF InTrash
    <3>4. CASE ~Writes(job[t].got[c])
      BY <2>0, <2>1, <3>4 DEF ApplyPlan
    <3>5. QED
      BY <3>3, <3>4
  <2>2. ASSUME NEW x \in Copy, NEW d \in Comics, rows' = [rows EXCEPT ![d] = UpsertRow(d, x)]
        PROVE  FALSE
    <3>1. d = c
      BY <2>0, <2>2 DEF TypeInv, TypeOK, DatabaseTypeOK
    <3>2. rows'[c] = UpsertRow(c, x)
      BY <2>2, <3>1 DEF TypeInv, TypeOK, DatabaseTypeOK
    <3>3. UpsertRow(c, x).trashed
      BY DEF UpsertRow, InTrash
    <3>4. QED
      BY <3>2, <3>3
  <2>3. ASSUME NEW t \in Tasks, RefreshWrite(t) PROVE FALSE
    <3>1. job[t].on \in Comics /\ job[t].got[job[t].on] \in Copy
      BY <2>3 DEF RefreshWrite, TypeInv, Prepared
    <3>2. QED
      BY <2>2, <2>3, <3>1 DEF RefreshWrite
  <2>4. ASSUME NEW w \in Readers, WritebackRow(w) PROVE FALSE
    <3>1. wb[w].on \in Comics /\ wb[w].copy \in Copy
      BY <2>4 DEF WritebackRow, TypeInv, Prepared
    <3>2. QED
      BY <2>2, <2>4, <3>1 DEF WritebackRow
  <2>5. ASSUME NEW t \in Tasks, PurgeDelete(t) PROVE FALSE
    <3>1. job[t].on \in Comics
      BY <2>5 DEF PurgeDelete, TypeInv, Prepared
    <3>2. QED
      BY <2>0, <2>5, <3>1 DEF PurgeDelete, TypeInv, TypeOK, DatabaseTypeOK
  <2>6. ASSUME NEW C \in SUBSET Comics, Trash(C) PROVE FALSE
    <3>1. rows'[c] = IF c \in C THEN [rows[c] EXCEPT !.trashed = TRUE] ELSE rows[c]
      BY <2>6 DEF Trash, Mark, InTrash
    <3>2. rows[c] \in Row
      BY DEF InTrash, TypeInv, TypeOK, DatabaseTypeOK
    <3>3. QED
      BY <2>0, <3>1, <3>2 DEF Row
  <2>7. ASSUME NEW C \in SUBSET Comics, Restore(C) PROVE c \in C
    BY <2>0, <2>7 DEF Restore, Mark
  <2>8. ASSUME NEW t \in Tasks, Start(t) \/ Progress(t) \/ Abort(t) PROVE FALSE
    <3>1. CASE rows' = rows
      BY <2>0, <3>1
    <3>2. QED
      BY <2>1, <2>3, <2>5, <2>8, <3>1
      DEF Start, StartSync, StartRefresh, StartPurge, Progress, ScanPath, BuildPlan,
          ApplyRejected, FinishSync, RefreshParse, RefreshSkip, RefreshWriteFails, FinishRefresh,
          PurgeErase, PurgeSkip, PurgeDeleteFails, FinishPurge, Abort, db
  <2>9. ASSUME NEW d \in Comics, User(d) PROVE FALSE
    BY <2>0, <2>9 DEF User, EditTitle, SetLock, OpenScreen, CloseScreen, RecordReading, db
  <2>10. ASSUME NEW w \in Readers, WritebackStep(w) PROVE FALSE
    BY <2>0, <2>4, <2>10 DEF WritebackStep, WritebackParse, WritebackMeta, WritebackFails, db
  <2>11. CASE Environment
    BY <2>0, <2>11 DEF Environment, PutFile, MoveFile, Crash, db
  <2>12. QED
    BY <2>6, <2>7, <2>8, <2>9, <2>10, <2>11 DEF Next
<1>2. QED
  BY <1>1, SpecType, PTL DEF Spec, TrashedUntilRestored

-----------------------------------------------------------------------------
\* What the user fixed.

\* A comic with a title that its user fixed while no writer held a copy of it,
\* and a copy that has it, but for decoding.
Fixed(c) == pinned[c] # NoTitle /\ c \notin raced
Carries(x, c) == x.title \in DecodedFrom(pinned[c]) /\ x.locked

\* What a title may be decoded to: itself, and what it is decoded to once more.
LEMMA DecodedFromItself == ASSUME NEW v \in Titles PROVE v \in DecodedFrom(v)
  BY DEF DecodedFrom

LEMMA DecodedAgain ==
  ASSUME NEW v, NEW x \in DecodedFrom(v)
  PROVE  Decoded[x] \in DecodedFrom(v)
<1>1. x \in Titles /\ Decoded[x] \in Titles
  BY StoreAssumption DEF DecodedFrom
<1>2. ASSUME NEW S \in SUBSET Titles, v \in S, \A y \in S : Decoded[y] \in S
      PROVE  Decoded[x] \in S
  <2>1. x \in S
    BY <1>2 DEF DecodedFrom
  <2>2. QED
    BY <1>2, <2>1
<1>3. QED
  BY <1>1, <1>2 DEF DecodedFrom

\* A title without html entities stays what it is.
LEMMA PlainStays ==
  ASSUME NEW v \in Titles, Decoded[v] = v
  PROVE  DecodedFrom(v) = {v}
<1>1. {v} \in SUBSET Titles /\ v \in {v} /\ \A y \in {v} : Decoded[y] \in {v}
  OBVIOUS
<1>2. \A x \in DecodedFrom(v) : x \in {v}
  BY <1>1 DEF DecodedFrom
<1>3. QED
  BY <1>2, DecodedFromItself

\* A comic's metadata goes with its row.
MetaHasRow == \A c \in Comics : meta[c] # NoMeta => rows[c] # NoRow

\* A plan writes at most one comic to a place, and none that loses its title.
MovesOne(j) ==
    \A p \in j.moves : /\ Writes(j.got[p[2]])
                       /\ \A q \in j.moves : q[2] = p[2] => q[1] = p[1]
PlanCarries(j) ==
    /\ \A c \in Comics : Fixed(c) /\ j.got[c] # NoCopy /\ Source(j, c) = c => Carries(j.got[c], c)
    /\ \A p \in j.moves : Fixed(p[1]) => Carries(j.got[p[2]], p[1])
JobCarries(t) ==
    /\ job[t].at = "planned" => MovesOne(job[t]) /\ PlanCarries(job[t])
    /\ job[t].at = "merged" /\ Fixed(job[t].on) => Carries(job[t].got[job[t].on], job[t].on)
WritebackCarries(w) == wb[w].at # "idle" /\ Fixed(wb[w].on) => Carries(wb[w].copy, wb[w].on)
JobsCarry == \A t \in Tasks : JobCarries(t)
WritebacksCarry == \A w \in Readers : WritebackCarries(w)
TitleInv == MetaHasRow /\ UnracedTitleKept /\ JobsCarry /\ WritebacksCarry

\* What BuildPlan makes of a scan and of the library it reads: pairs of a comic
\* whose file is gone and a file without a comic, one to one by fingerprint, and
\* for every file the copy to write.
Matches(f, d, scan) ==
    /\ Fingerprint(Loaded(f)) = Fingerprint(scan[d])
    /\ \A x \in Existing : scan[x] = NoCopy /\ Fingerprint(Loaded(x)) = Fingerprint(Loaded(f)) => x = f
    /\ \A x \in Comics \ Existing :
         scan[x] # NoCopy /\ Fingerprint(scan[x]) = Fingerprint(scan[d]) => x = d
PlanMade(j, scan) ==
    /\ j.at = "planned"
    /\ \A p \in j.moves :
         /\ p = <<p[1], p[2]>>
         /\ p[1] \in Existing /\ scan[p[1]] = NoCopy
         /\ p[2] \in Comics \ Existing /\ scan[p[2]] # NoCopy
         /\ Fingerprint(Loaded(p[1])) = Fingerprint(scan[p[2]])
         /\ \A q \in j.moves : q[2] = p[2] => q[1] = p[1]
         /\ j.got[p[2]] = Merged(scan[p[2]], Loaded(p[1]), scan[p[2]].pages)
    /\ \A f \in Existing, d \in Comics \ Existing :
         scan[f] = NoCopy /\ scan[d] # NoCopy /\ Matches(f, d, scan) => <<f, d>> \in j.moves
    /\ \A c \in Comics :
         /\ c \in Existing /\ scan[c] # NoCopy => j.got[c] = Merged(scan[c], Loaded(c), meta[c].pages)
         /\ c \notin Existing /\ (\A p \in j.moves : p[2] # c) => j.got[c] = scan[c]
         /\ scan[c] = NoCopy => j.got[c] = NoCopy
         /\ c \in Existing /\ scan[c] = NoCopy => c \in Left(j)

LEMMA PlanIsMade ==
  ASSUME TypeInv, NEW t \in Tasks, BuildPlan(t)
  PROVE  PlanMade(job'[t], job[t].got)
<1> DEFINE scan    == job[t].got
           scanned == {c \in Comics : scan[c] # NoCopy}
           removed == Existing \ scanned
           added   == scanned \ Existing
           pairs   == MigrationPairs(removed, added, LoadedAll, scan)
           from(a) == CHOOSE f \in removed : <<f, a>> \in pairs
           got     == [c \in Comics |->
                  IF c \in scanned \cap Existing
                  THEN Merged(scan[c], Loaded(c), meta[c].pages)
                  ELSE IF c \in added /\ \E f \in removed : <<f, c>> \in pairs
                  THEN Merged(scan[c], Loaded(from(c)), scan[c].pages)
                  ELSE scan[c]]
           gone    == {c \in removed : \A a \in added : <<c, a>> \notin pairs}
           plan    == [IdleJob EXCEPT !.at = "planned", !.moves = pairs,
                                      !.gone = gone, !.got = got]
<1>1. job' = [job EXCEPT ![t] = plan]
  BY DEF BuildPlan, Advance
<1>2. plan.at = "planned" /\ plan.moves = pairs /\ plan.gone = gone /\ plan.got = got
  BY DEF IdleJob
<1>3. job'[t] = plan
  BY <1>1 DEF TypeInv, TypeOK, TaskTypeOK
<1> HIDE DEF plan
<1>4. PICK k : k = job'[t]
  OBVIOUS
<1>5. k.at = "planned" /\ k.moves = pairs /\ k.gone = gone /\ k.got = got
  BY <1>2, <1>3, <1>4
<1>6. \A c \in Existing : LoadedAll[c] = Loaded(c)
  BY DEF LoadedAll, Existing
<1>7. /\ removed \subseteq Existing /\ added \subseteq Comics \ Existing /\ Existing \subseteq Comics
      /\ \A c \in Comics : /\ c \in removed <=> c \in Existing /\ scan[c] = NoCopy
                           /\ c \in added <=> c \notin Existing /\ scan[c] # NoCopy
  BY DEF Existing
<1>8. \A f, a : <<f, a>> \in pairs <=>
        /\ f \in removed /\ a \in added
        /\ Fingerprint(LoadedAll[f]) = Fingerprint(scan[a])
        /\ \A x \in removed : Fingerprint(LoadedAll[x]) = Fingerprint(LoadedAll[f]) => x = f
        /\ \A x \in added : Fingerprint(scan[x]) = Fingerprint(scan[a]) => x = a
  BY DEF MigrationPairs
<1>9. \A p \in pairs : p = <<p[1], p[2]>>
  BY DEF MigrationPairs
<1> HIDE DEF pairs, got, gone
<1>10. \A f, g, a : <<f, a>> \in pairs /\ <<g, a>> \in pairs => f = g
  BY <1>8
<1>11. \A f, a : <<f, a>> \in pairs => from(a) = f
  BY <1>7, <1>8, <1>10
<1>12. \A c \in Comics : (\E f \in removed : <<f, c>> \in pairs) <=> (\E p \in pairs : p[2] = c)
  <2>1. \A p \in pairs : p[1] \in removed
    BY <1>8, <1>9
  <2>2. QED
    BY <1>9, <2>1
<1>13. ASSUME NEW p \in pairs
       PROVE  /\ p = <<p[1], p[2]>>
              /\ p[1] \in Existing /\ scan[p[1]] = NoCopy
              /\ p[2] \in Comics \ Existing /\ scan[p[2]] # NoCopy
              /\ Fingerprint(Loaded(p[1])) = Fingerprint(scan[p[2]])
              /\ \A q \in pairs : q[2] = p[2] => q[1] = p[1]
              /\ got[p[2]] = Merged(scan[p[2]], Loaded(p[1]), scan[p[2]].pages)
  <2>1. p = <<p[1], p[2]>>
    BY <1>9
  <2>2. PICK f, a : f = p[1] /\ a = p[2] /\ p = <<f, a>>
    BY <2>1
  <2>3. f \in removed /\ a \in added /\ Fingerprint(LoadedAll[f]) = Fingerprint(scan[a])
    BY <1>8, <2>2
  <2>4. \A q \in pairs : q[2] = a => q[1] = f
    BY <1>9, <1>10, <2>2
  <2>5. got[a] = Merged(scan[a], Loaded(f), scan[a].pages)
    <3>1. from(a) = f
      BY <1>11, <2>2
    <3>2. a \in Comics /\ a \notin scanned \cap Existing /\ (\E x \in removed : <<x, a>> \in pairs)
      BY <1>7, <2>2, <2>3
    <3> HIDE DEF from
    <3>3. QED
      BY <2>3, <3>1, <3>2 DEF got
  <2>6. QED
    BY <1>6, <1>7, <2>2, <2>3, <2>4, <2>5
<1>14. ASSUME NEW f \in Existing, NEW d \in Comics \ Existing,
              scan[f] = NoCopy, scan[d] # NoCopy, Matches(f, d, scan)
       PROVE  <<f, d>> \in pairs
  <2>1. f \in removed /\ d \in added
    BY <1>7, <1>14
  <2>2. QED
    BY <1>6, <1>7, <1>8, <1>14, <2>1 DEF Matches
<1>15. ASSUME NEW c \in Comics
       PROVE  /\ c \in Existing /\ scan[c] # NoCopy => got[c] = Merged(scan[c], Loaded(c), meta[c].pages)
              /\ c \notin Existing /\ (\A p \in pairs : p[2] # c) => got[c] = scan[c]
              /\ scan[c] = NoCopy => got[c] = NoCopy
              /\ c \in Existing /\ scan[c] = NoCopy => c \in Left(k)
  <2>1. c \in Existing /\ scan[c] # NoCopy => got[c] = Merged(scan[c], Loaded(c), meta[c].pages)
    BY DEF got
  <2>2. c \notin Existing /\ (\A p \in pairs : p[2] # c) => got[c] = scan[c]
    BY <1>12 DEF got
  <2>3. scan[c] = NoCopy => got[c] = NoCopy
    BY DEF got
  <2>4. ASSUME c \in Existing, scan[c] = NoCopy PROVE c \in Left(k)
    <3>1. c \in removed
      BY <2>4
    <3>2. c \in gone \/ \E a \in added : <<c, a>> \in pairs
      BY <3>1 DEF gone
    <3>3. QED
      BY <1>5, <3>2, <1>7 DEF Left
  <2>5. QED
    BY <2>1, <2>2, <2>3, <2>4
<1>16. QED
  <2>1. PlanMade(k, scan)
    BY <1>5, <1>13, <1>14, <1>15 DEF PlanMade
  <2>2. QED
    BY <1>4, <2>1

\* A step that makes no copy, and fixes a title only while nobody holds one.
HeldSteady ==
    /\ \A t \in Tasks : job'[t] = job[t] \/ job'[t].at \notin {"planned", "merged"}
    /\ \A w \in Readers : \/ wb'[w].at = "idle"
                          \/ wb[w].at # "idle" /\ wb'[w].on = wb[w].on /\ wb'[w].copy = wb[w].copy
    /\ \A c \in Comics : Fixed(c)' /\ Outstanding(c) => Fixed(c) /\ pinned'[c] = pinned[c]

LEMMA CopiesStay ==
  ASSUME TypeInv, TitleInv, HeldSteady
  PROVE  JobsCarry' /\ WritebacksCarry'
<1>1. ASSUME NEW t \in Tasks PROVE JobCarries(t)'
  <2>1. CASE job'[t].at \notin {"planned", "merged"}
    BY <2>1 DEF JobCarries
  <2>2. CASE job'[t] = job[t]
    <3>1. PICK j : j = job[t]
      OBVIOUS
    <3>2. j \in Job
      BY <3>1 DEF TypeInv, TypeOK, TaskTypeOK
    <3>3. CASE j.at = "planned"
      <4>1. MovesOne(j) /\ PlanCarries(j)
        BY <3>1, <3>3 DEF TitleInv, JobsCarry, JobCarries
      <4>2. \A c \in Comics : j.got[c] # NoCopy => Outstanding(c)
        BY <3>1, <3>3 DEF Outstanding
      <4>3. \A p \in j.moves : p[1] \in Comics /\ p[2] \in Comics /\ Outstanding(p[1])
        <5>1. \A p \in j.moves : p[1] \in Comics /\ p[2] \in Comics /\ p = <<p[1], p[2]>>
          BY <3>2 DEF Job
        <5>2. QED
          BY <3>1, <3>3, <5>1 DEF Outstanding
      <4>4. \A c \in Comics : Fixed(c)' /\ j.got[c] # NoCopy /\ Source(j, c) = c
               => j.got[c].title \in DecodedFrom(pinned'[c]) /\ j.got[c].locked
        BY <4>1, <4>2 DEF HeldSteady, PlanCarries, Carries
      <4>5. \A p \in j.moves : Fixed(p[1])'
               => j.got[p[2]].title \in DecodedFrom(pinned'[p[1]]) /\ j.got[p[2]].locked
        BY <4>1, <4>3 DEF HeldSteady, PlanCarries, Carries
      <4>6. PlanCarries(job[t])'
        BY <2>2, <3>1, <4>4, <4>5 DEF PlanCarries, Carries, Source, Fixed
      <4>7. MovesOne(job[t])'
        BY <2>2, <3>1, <4>1 DEF MovesOne, Writes
      <4>8. QED
        BY <2>2, <3>1, <3>3, <4>6, <4>7 DEF JobCarries
    <3>4. CASE j.at = "merged"
      <4>1. j.on \in Comics /\ Outstanding(j.on)
        BY <3>1, <3>4 DEF TypeInv, Prepared, Outstanding
      <4>2. Fixed(j.on) => Carries(j.got[j.on], j.on)
        BY <3>1, <3>4 DEF TitleInv, JobsCarry, JobCarries
      <4>3. pinned'[j.on] # NoTitle /\ j.on \notin raced' =>
              j.got[j.on].title \in DecodedFrom(pinned'[j.on]) /\ j.got[j.on].locked
        BY <4>1, <4>2 DEF HeldSteady, Carries, Fixed
      <4>4. QED
        BY <2>2, <3>1, <3>4, <4>3 DEF JobCarries, Fixed, Carries
    <3>5. QED
      BY <2>2, <3>1, <3>3, <3>4 DEF JobCarries
  <2>3. QED
    BY <2>1, <2>2 DEF HeldSteady
<1>2. ASSUME NEW w \in Readers PROVE WritebackCarries(w)'
  <2>1. CASE wb'[w].at = "idle"
    BY <2>1 DEF WritebackCarries
  <2>2. CASE wb[w].at # "idle" /\ wb'[w].on = wb[w].on /\ wb'[w].copy = wb[w].copy
    <3>1. PICK c : c = wb[w].on
      OBVIOUS
    <3>2. c \in Comics /\ Outstanding(c)
      BY <2>2, <3>1 DEF TypeInv, Prepared, Outstanding, WritingBack
    <3>3. Fixed(c) => Carries(wb[w].copy, c)
      BY <2>2, <3>1 DEF TitleInv, WritebacksCarry, WritebackCarries
    <3>4. pinned'[c] # NoTitle /\ c \notin raced' =>
            wb[w].copy.title \in DecodedFrom(pinned'[c]) /\ wb[w].copy.locked
      BY <3>2, <3>3 DEF HeldSteady, Carries, Fixed
    <3>5. QED
      BY <2>2, <3>1, <3>4 DEF WritebackCarries, Fixed, Carries
  <2>3. QED
    BY <2>1, <2>2 DEF HeldSteady
<1>3. QED
  BY <1>1, <1>2 DEF JobsCarry, WritebacksCarry

\* The titles themselves.
Titled == MetaHasRow /\ UnracedTitleKept

\* A step that leaves metadata and observations alone and deletes no row.
LEMMA TitlesStay ==
  ASSUME TitleInv, UNCHANGED <<meta, pinned, raced>>,
         \A c \in Comics : rows[c] # NoRow => rows'[c] # NoRow
  PROVE  Titled'
  BY DEF TitleInv, Titled, MetaHasRow, UnracedTitleKept

\* A write of one comic's row and metadata, with a copy that has its title.
LEMMA TitleWritten ==
  ASSUME TypeInv, TitleInv, NEW c \in Comics, NEW x \in Copy, x.pages > 0,
         Fixed(c) => Carries(x, c),
         rows'[c] # NoRow, \A d \in Comics : rows[d] # NoRow => rows'[d] # NoRow,
         meta' = [meta EXCEPT ![c] = UpsertMeta(x)], UNCHANGED <<pinned, raced>>
  PROVE  Titled'
<1>1. UpsertMeta(x) \in Meta
  BY UpsertType
<1>2. \A d \in Comics : meta'[d] = IF d = c THEN UpsertMeta(x) ELSE meta[d]
  BY DEF TypeInv, TypeOK, DatabaseTypeOK
<1>3. UpsertMeta(x).title = x.title /\ UpsertMeta(x).locked = x.locked /\ UpsertMeta(x) # NoMeta
  BY <1>1, StoreAssumption DEF UpsertMeta
<1>4. MetaHasRow'
  BY <1>2 DEF TitleInv, MetaHasRow
<1>5. UnracedTitleKept'
  BY <1>2, <1>3 DEF TitleInv, UnracedTitleKept, Fixed, Carries
<1>6. QED
  BY <1>4, <1>5 DEF Titled

\* A merge of a locked comic keeps its title.
LEMMA MergeCarries ==
  ASSUME TypeInv, TitleInv, NEW c \in Comics, Fixed(c), NEW x, NEW n
  PROVE  c \in Existing /\ Carries(Loaded(c), c) /\ Carries(Merged(x, Loaded(c), n), c)
<1>1. /\ meta[c] # NoMeta /\ meta[c].title \in DecodedFrom(pinned[c])
      /\ meta[c].locked /\ rows[c] # NoRow
  BY DEF TitleInv, UnracedTitleKept, MetaHasRow, Fixed
<1>2. Decoded[meta[c].title] \in DecodedFrom(pinned[c])
  BY <1>1, DecodedAgain
<1>3. c \in Existing /\ Loaded(c).title = meta[c].title /\ Loaded(c).locked = meta[c].locked
  BY <1>1 DEF Existing, Loaded
<1>4. PICK y : y = Loaded(c)
  OBVIOUS
<1>5. Merged(x, y, n).title = Decoded[y.title] /\ Merged(x, y, n).locked
  BY <1>1, <1>3, <1>4 DEF Merged
<1>6. QED
  BY <1>1, <1>2, <1>3, <1>4, <1>5 DEF Carries

\* The steps that write or make copies, one by one.
LEMMA RefreshTitles ==
  ASSUME TypeInv, TitleInv, NEW t \in Tasks, RefreshWrite(t)
  PROVE  Titled' /\ HeldSteady
<1>1. PICK c, x : c = job[t].on /\ x = job[t].got[job[t].on]
  OBVIOUS
<1>2. c \in Comics /\ x \in Copy /\ x.pages > 0
  BY <1>1 DEF RefreshWrite, TypeInv, Prepared
<1>3. Fixed(c) => Carries(x, c)
  BY <1>1 DEF RefreshWrite, TitleInv, JobsCarry, JobCarries
<1>4. /\ rows' = [rows EXCEPT ![c] = UpsertRow(c, x)]
      /\ meta' = [meta EXCEPT ![c] = UpsertMeta(x)]
      /\ UNCHANGED <<pinned, raced, wb>>
      /\ job' = [job EXCEPT ![t] = [IdleJob EXCEPT !.at = "refreshing", !.todo = job[t].todo]]
  BY <1>1 DEF RefreshWrite, Advance, observed
<1>5. /\ UpsertRow(c, x) # NoRow
      /\ \A d \in Comics : rows'[d] = IF d = c THEN UpsertRow(c, x) ELSE rows[d]
  BY <1>2, <1>4, UpsertType, StoreAssumption DEF TypeInv, TypeOK, DatabaseTypeOK
<1>6. Titled'
  <2>1. rows'[c] # NoRow /\ \A d \in Comics : rows[d] # NoRow => rows'[d] # NoRow
    BY <1>2, <1>5
  <2>2. meta' = [meta EXCEPT ![c] = UpsertMeta(x)] /\ UNCHANGED <<pinned, raced>>
    BY <1>4
  <2>3. QED
    BY <1>2, <1>3, <2>1, <2>2, TitleWritten
<1>7. \A u \in Tasks : job'[u] = job[u] \/ job'[u].at = "refreshing"
  <2>1. [IdleJob EXCEPT !.at = "refreshing", !.todo = job[t].todo].at = "refreshing"
    BY DEF IdleJob
  <2>2. QED
    BY <1>4, <2>1 DEF TypeInv, TypeOK, TaskTypeOK
<1>8. HeldSteady
  BY <1>4, <1>7 DEF HeldSteady, Fixed
<1>9. QED
  BY <1>6, <1>8

\* A refresh that has merged a comic: the new copy has the title.
LEMMA ParseTitles ==
  ASSUME TypeInv, TitleInv, NEW t \in Tasks, NEW c \in Comics, RefreshParse(t, c)
  PROVE  Titled' /\ JobsCarry' /\ WritebacksCarry'
<1> DEFINE x == Merged(Parsed(c), Loaded(c), disk[c].pages)
           next == [job[t] EXCEPT !.at = "merged", !.on = c, !.todo = @ \ {c}, !.got[c] = x]
<1>1. /\ job' = [job EXCEPT ![t] = next]
      /\ UNCHANGED <<rows, meta, pinned, raced, wb>>
  BY DEF RefreshParse, Advance, db, observed
<1>2. Fixed(c) => Carries(x, c)
  BY MergeCarries
<1>3. next.at = "merged" /\ next.on = c /\ next.got[c] = x
  <2> HIDE DEF x
  <2>1. QED
    BY DEF TypeInv, TypeOK, TaskTypeOK, Job, Copies
<1> HIDE DEF next, x
<1>4. \A u \in Tasks : job'[u] = IF u = t THEN next ELSE job[u]
  BY <1>1 DEF TypeInv, TypeOK, TaskTypeOK
<1>5. JobsCarry'
  <2> SUFFICES ASSUME NEW u \in Tasks PROVE JobCarries(u)'
    BY DEF JobsCarry
  <2>1. CASE u = t
    BY <1>1, <1>2, <1>3, <1>4, <2>1 DEF JobCarries, Fixed, Carries
  <2>2. CASE u # t
    <3>1. job'[u] = job[u] /\ JobCarries(u)
      BY <1>4, <2>2 DEF TitleInv, JobsCarry
    <3>2. QED
      BY <1>1, <3>1 DEF JobCarries, MovesOne, Writes, PlanCarries, Source, Fixed, Carries
  <2>3. QED
    BY <2>1, <2>2
<1>6. WritebacksCarry'
  BY <1>1 DEF TitleInv, WritebacksCarry, WritebackCarries, Fixed, Carries
<1>7. QED
  BY <1>1, <1>5, <1>6, TitlesStay

\* A plan that has been made: every copy has the title of the comic it is for.
LEMMA PlanTitles ==
  ASSUME TypeInv, TitleInv, NEW t \in Tasks, BuildPlan(t)
  PROVE  Titled' /\ JobsCarry' /\ WritebacksCarry'
<1>1. PICK j, scan : j = job'[t] /\ scan = job[t].got
  OBVIOUS
<1>2. PlanMade(j, scan)
  BY <1>1, PlanIsMade
<1>3. /\ \A u \in Tasks : u # t => job'[u] = job[u]
      /\ UNCHANGED <<rows, meta, pinned, raced, wb>>
  BY DEF BuildPlan, Advance, db, observed, TypeInv, TypeOK, TaskTypeOK
<1>4. \A c \in Comics : scan[c] \in Copy \cup {NoCopy}
  BY <1>1 DEF TypeInv, TypeOK, TaskTypeOK, Job, Copies
<1>5. MovesOne(j)
  <2> SUFFICES ASSUME NEW p \in j.moves PROVE Writes(j.got[p[2]])
    BY <1>2 DEF MovesOne, PlanMade
  <2>1. PICK f, d : f = p[1] /\ d = p[2]
    OBVIOUS
  <2>2. /\ f \in Existing /\ d \in Comics /\ scan[d] # NoCopy
        /\ Fingerprint(Loaded(f)) = Fingerprint(scan[d])
        /\ j.got[d] = Merged(scan[d], Loaded(f), scan[d].pages)
    BY <1>2, <2>1 DEF PlanMade
  <2>3. scan[d] \in Copy /\ scan[d].pages \in Nat
    BY <1>4, <2>2 DEF Copy
  <2>4. Loaded(f) \in Copy /\ Loaded(f).pages > 0
    BY <2>2, LoadedType
  <2>5. scan[d].pages = Loaded(f).pages
    BY <2>2 DEF Fingerprint
  <2>6. j.got[d] \in Copy /\ j.got[d].pages = scan[d].pages
    <3>1. PICK x, y, n : x = scan[d] /\ y = Loaded(f) /\ n = scan[d].pages
      OBVIOUS
    <3>2. x \in Copy /\ y \in Copy /\ n \in Nat /\ j.got[d] = Merged(x, y, n)
      BY <2>2, <2>3, <2>4, <3>1
    <3>3. j.got[d] \in Copy /\ j.got[d].pages = n
      BY <3>2, MergedType
    <3>4. QED
      BY <3>1, <3>3
  <2>7. QED
    BY <2>1, <2>4, <2>5, <2>6, StoreAssumption DEF Writes
<1>6. PlanCarries(j)
  <2>1. ASSUME NEW c \in Comics, Fixed(c), j.got[c] # NoCopy, Source(j, c) = c
        PROVE  Carries(j.got[c], c)
    <3>1. c \in Existing
      BY <2>1, MergeCarries
    <3>2. scan[c] # NoCopy
      BY <1>2, <2>1 DEF PlanMade
    <3>3. j.got[c] = Merged(scan[c], Loaded(c), meta[c].pages)
      BY <1>2, <3>1, <3>2 DEF PlanMade
    <3>4. QED
      BY <2>1, <3>3, MergeCarries
  <2>2. ASSUME NEW p \in j.moves, Fixed(p[1]) PROVE Carries(j.got[p[2]], p[1])
    <3>1. p[1] \in Existing /\ j.got[p[2]] = Merged(scan[p[2]], Loaded(p[1]), scan[p[2]].pages)
      BY <1>2 DEF PlanMade
    <3>2. PICK f : f = p[1]
      OBVIOUS
    <3>3. f \in Comics
      BY <3>1, <3>2 DEF Existing
    <3>4. QED
      BY <2>2, <3>1, <3>2, <3>3, MergeCarries
  <2>3. QED
    BY <2>1, <2>2 DEF PlanCarries
<1>7. JobsCarry'
  <2> SUFFICES ASSUME NEW u \in Tasks PROVE JobCarries(u)'
    BY DEF JobsCarry
  <2>1. CASE u = t
    <3>1. MovesOne(job[t])' /\ PlanCarries(job[t])'
      BY <1>1, <1>3, <1>5, <1>6 DEF MovesOne, Writes, PlanCarries, Source, Fixed, Carries
    <3>2. job'[t].at = "planned"
      BY <1>1, <1>2 DEF PlanMade
    <3>3. QED
      BY <2>1, <3>1, <3>2 DEF JobCarries
  <2>2. CASE u # t
    <3>1. job'[u] = job[u] /\ JobCarries(u)
      BY <1>3, <2>2 DEF TitleInv, JobsCarry
    <3>2. QED
      BY <1>3, <3>1 DEF JobCarries, MovesOne, Writes, PlanCarries, Source, Fixed, Carries
  <2>3. QED
    BY <2>1, <2>2
<1>8. WritebacksCarry'
  BY <1>3 DEF TitleInv, WritebacksCarry, WritebackCarries, Fixed, Carries
<1>9. QED
  BY <1>3, <1>7, <1>8, TitlesStay

\* The plan that is applied: a comic that moves takes its title along.
LEMMA ApplyTitles ==
  ASSUME TypeInv, TitleInv, SingleWriter, NEW t \in Tasks, ApplyPlan(t)
  PROVE  Titled' /\ JobsCarry' /\ WritebacksCarry'
<1>1. PICK j : j = job[t]
  OBVIOUS
<1>2. /\ j \in Job /\ j.at = "planned" /\ MovesOne(j) /\ PlanCarries(j)
      /\ \A p \in j.moves : p = <<p[1], p[2]>> /\ p[1] \in Comics /\ p[2] \in Comics
  BY <1>1 DEF ApplyPlan, TypeInv, TypeOK, TaskTypeOK, TitleInv, JobsCarry, JobCarries, Job
<1>3. /\ \A p \in j.moves : rows[p[2]] = NoRow
      /\ \A c \in Comics :
           /\ rows'[c] = IF Writes(j.got[c])
                         THEN [UpsertRow(c, j.got[c]) EXCEPT
                                !.trashed = rows[Source(j, c)] # NoRow /\ rows[Source(j, c)].trashed]
                         ELSE IF c \in Left(j) THEN NoRow ELSE rows[c]
           /\ meta'[c] = IF Writes(j.got[c]) THEN UpsertMeta(j.got[c])
                         ELSE IF c \in Left(j) THEN NoMeta ELSE meta[c]
           /\ pinned'[c] = IF c \in Left(j) THEN NoTitle ELSE pinned[Source(j, c)]
           /\ c \in raced' <=> /\ c \notin Left(j)
                               /\ Source(j, c) \in raced \/ (Source(j, c) # c /\ WritingBack(c))
      /\ wb' = wb
  BY <1>1 DEF ApplyPlan, Blocked
<1>4. \A c \in Comics : \/ Source(j, c) = c
                        \/ Source(j, c) \in Comics /\ <<Source(j, c), c>> \in j.moves
  BY DEF Source
<1>5. \A c \in Comics : Writes(j.got[c]) =>
         /\ j.got[c] \in Copy /\ j.got[c] # NoCopy
         /\ UpsertMeta(j.got[c]) # NoMeta
         /\ UpsertMeta(j.got[c]).title = j.got[c].title
         /\ UpsertMeta(j.got[c]).locked = j.got[c].locked
  <2>1. \A c \in Comics : Writes(j.got[c]) => j.got[c] \in Copy /\ j.got[c] # NoCopy /\ j.got[c].pages > 0
    BY <1>2 DEF Writes, Job, Copies
  <2>2. \A c \in Comics : Writes(j.got[c]) => UpsertMeta(j.got[c]) \in Meta
    BY <2>1, UpsertType
  <2>3. QED
    BY <2>1, <2>2, StoreAssumption DEF UpsertMeta
<1>6. MetaHasRow'
  <2> SUFFICES ASSUME NEW c \in Comics, meta'[c] # NoMeta PROVE rows'[c] # NoRow
    BY DEF MetaHasRow
  <2>1. CASE Writes(j.got[c])
    <3>1. UpsertRow(c, j.got[c]) \in Row
      BY <1>5, <2>1, UpsertType
    <3>2. \A b \in BOOLEAN : [UpsertRow(c, j.got[c]) EXCEPT !.trashed = b] \in Row
      BY <3>1 DEF Row
    <3>3. (rows[Source(j, c)] # NoRow /\ rows[Source(j, c)].trashed) \in BOOLEAN
      <4>1. Source(j, c) \in Comics
        BY <1>4
      <4>2. rows[Source(j, c)] \in Row \cup {NoRow}
        BY <4>1 DEF TypeInv, TypeOK, DatabaseTypeOK
      <4>3. QED
        BY <4>2 DEF Row
    <3>4. PICK b \in BOOLEAN : b = (rows[Source(j, c)] # NoRow /\ rows[Source(j, c)].trashed)
      BY <3>3
    <3>5. rows'[c] = [UpsertRow(c, j.got[c]) EXCEPT !.trashed = b]
      BY <1>3, <2>1, <3>4
    <3>6. QED
      BY <3>2, <3>5, StoreAssumption
  <2>2. CASE ~ Writes(j.got[c])
    BY <1>3, <2>2 DEF TitleInv, MetaHasRow
  <2>3. QED
    BY <2>1, <2>2
<1>7. ASSUME NEW c \in Comics, pinned'[c] # NoTitle, c \notin raced'
      PROVE  /\ c \notin Left(j)
             /\ Fixed(Source(j, c)) /\ pinned'[c] = pinned[Source(j, c)]
             /\ Source(j, c) # c => ~ WritingBack(c)
  BY <1>3, <1>7 DEF Fixed
<1>8. UnracedTitleKept'
  <2> SUFFICES ASSUME NEW c \in Comics, pinned'[c] # NoTitle, c \notin raced'
               PROVE  meta'[c] # NoMeta /\ meta'[c].title \in DecodedFrom(pinned'[c]) /\ meta'[c].locked
    BY DEF UnracedTitleKept
  <2>1. /\ c \notin Left(j) /\ Fixed(Source(j, c)) /\ pinned'[c] = pinned[Source(j, c)]
    BY <1>7
  <2>2. CASE Source(j, c) = c /\ Writes(j.got[c])
    <3>1. Carries(j.got[c], c)
      BY <1>2, <1>5, <2>1, <2>2 DEF PlanCarries
    <3>2. QED
      BY <1>3, <1>5, <2>1, <2>2, <3>1 DEF Carries
  <2>3. CASE Source(j, c) = c /\ ~ Writes(j.got[c])
    BY <1>3, <2>1, <2>3 DEF TitleInv, UnracedTitleKept, Fixed
  <2>4. CASE <<Source(j, c), c>> \in j.moves
    <3>1. PICK f : f = Source(j, c)
      OBVIOUS
    <3>2. <<f, c>> \in j.moves /\ <<f, c>>[1] = f /\ <<f, c>>[2] = c
      BY <2>4, <3>1
    <3>3. Writes(j.got[c]) /\ Carries(j.got[c], f)
      BY <1>2, <2>1, <3>1, <3>2 DEF MovesOne, PlanCarries
    <3>4. QED
      BY <1>3, <1>5, <2>1, <3>1, <3>3 DEF Carries
  <2>5. QED
    BY <1>4, <2>2, <2>3, <2>4
<1>9. \A u \in Tasks : job'[u].at \in {"idle", "applied"}
  <2>1. job' = [job EXCEPT ![t] = [IdleJob EXCEPT !.at = "applied"]]
    BY DEF ApplyPlan, Advance
  <2>2. [IdleJob EXCEPT !.at = "applied"].at = "applied"
    BY DEF IdleJob
  <2>3. \A u \in Tasks : u # t => job[u].at = "idle"
    BY <1>1, <1>2 DEF SingleWriter
  <2>4. QED
    BY <2>1, <2>2, <2>3 DEF TypeInv, TypeOK, TaskTypeOK
<1>10. JobsCarry'
  BY <1>9 DEF JobsCarry, JobCarries
<1>11. WritebacksCarry'
  <2> SUFFICES ASSUME NEW w \in Readers, wb[w].at # "idle",
                      pinned'[wb[w].on] # NoTitle, wb[w].on \notin raced'
               PROVE  wb[w].copy.title \in DecodedFrom(pinned'[wb[w].on]) /\ wb[w].copy.locked
    BY <1>3 DEF WritebacksCarry, WritebackCarries, Fixed, Carries
  <2>1. PICK c \in Comics : c = wb[w].on
    BY DEF TypeInv, Prepared
  <2>2. WritingBack(c)
    BY <2>1 DEF WritingBack
  <2>3. Source(j, c) = c /\ Fixed(c) /\ pinned'[c] = pinned[c]
    BY <1>7, <2>1, <2>2
  <2>4. QED
    BY <2>1, <2>3 DEF TitleInv, WritebacksCarry, WritebackCarries, Carries
<1>12. QED
  BY <1>6, <1>8, <1>10, <1>11 DEF Titled

\* An edit fixes the title of a comic; if a copy is held, the comic has raced.
LEMMA EditTitles ==
  ASSUME TypeInv, TitleInv, NEW c \in Comics,
         (\E v \in Titles : EditTitle(c, v)) \/ (\E b \in BOOLEAN : SetLock(c, b))
  PROVE  Titled' /\ HeldSteady
<1>1. PICK v, b : /\ meta' = [meta EXCEPT ![c] = [@ EXCEPT !.title = v, !.locked = b]]
                  /\ pinned' = [pinned EXCEPT ![c] = IF b THEN v ELSE NoTitle]
                  /\ v \in Titles /\ b \in BOOLEAN
  <2>1. meta[c] \in Meta
    BY DEF EditTitle, SetLock, TypeInv, TypeOK, DatabaseTypeOK
  <2>2. ASSUME NEW w \in Titles, EditTitle(c, w)
        PROVE  /\ meta' = [meta EXCEPT ![c] = [@ EXCEPT !.title = Decoded[w], !.locked = TRUE]]
               /\ pinned' = [pinned EXCEPT ![c] = Decoded[w]]
               /\ Decoded[w] \in Titles
    BY <2>2, StoreAssumption DEF EditTitle
  <2>3. ASSUME NEW l \in BOOLEAN, SetLock(c, l)
        PROVE  /\ meta' = [meta EXCEPT ![c] = [@ EXCEPT !.title = meta[c].title, !.locked = l]]
               /\ pinned' = [pinned EXCEPT ![c] = IF l THEN meta[c].title ELSE NoTitle]
               /\ meta[c].title \in Titles
    <3>1. [meta[c] EXCEPT !.locked = l] = [meta[c] EXCEPT !.title = meta[c].title, !.locked = l]
      BY <2>1 DEF Meta
    <3>2. QED
      BY <2>1, <2>3, <3>1 DEF SetLock, Meta
  <2>4. QED
    BY <2>2, <2>3
<1>2. meta[c] \in Meta /\ UNCHANGED <<rows, job, wb>>
      /\ raced' = IF Outstanding(c) THEN raced \cup {c} ELSE raced \ {c}
  BY DEF EditTitle, SetLock, TypeInv, TypeOK, DatabaseTypeOK
<1>3. PICK m : m = [meta[c] EXCEPT !.title = v, !.locked = b]
  OBVIOUS
<1>4. m \in Meta /\ m.title = v /\ m.locked = b /\ m # NoMeta
  BY <1>1, <1>2, <1>3, StoreAssumption DEF Meta
<1>5. \A d \in Comics : /\ meta'[d] = IF d = c THEN m ELSE meta[d]
                        /\ pinned'[d] = IF d = c THEN (IF b THEN v ELSE NoTitle) ELSE pinned[d]
                        /\ d # c => (d \in raced' <=> d \in raced)
  BY <1>1, <1>2, <1>3 DEF TypeInv, TypeOK, DatabaseTypeOK, ObservedTypeOK
<1>6. meta[c] # NoMeta
  BY <1>2, StoreAssumption
<1>7. MetaHasRow'
  BY <1>2, <1>5, <1>6 DEF TitleInv, MetaHasRow
<1>8. UnracedTitleKept'
  <2> SUFFICES ASSUME NEW d \in Comics, pinned'[d] # NoTitle, d \notin raced'
               PROVE  meta'[d] # NoMeta /\ meta'[d].title \in DecodedFrom(pinned'[d]) /\ meta'[d].locked
    BY DEF UnracedTitleKept
  <2>1. CASE d = c
    BY <1>1, <1>4, <1>5, <2>1, DecodedFromItself
  <2>2. CASE d # c
    BY <1>5, <2>2 DEF TitleInv, UnracedTitleKept
  <2>3. QED
    BY <2>1, <2>2
<1>9. HeldSteady
  <2>1. \A d \in Comics : Fixed(d)' /\ Outstanding(d) => Fixed(d) /\ pinned'[d] = pinned[d]
    <3> SUFFICES ASSUME NEW d \in Comics, pinned'[d] # NoTitle, d \notin raced', Outstanding(d)
                 PROVE  Fixed(d) /\ pinned'[d] = pinned[d]
      BY DEF Fixed
    <3>1. d # c
      BY <1>2
    <3>2. QED
      BY <1>5, <3>1 DEF Fixed
  <2>2. QED
    BY <1>2, <2>1 DEF HeldSteady, Fixed
<1>10. QED
  BY <1>7, <1>8, <1>9 DEF Titled

\* A purged comic has no title to keep.
LEMMA PurgeTitles ==
  ASSUME TypeInv, TitleInv, NEW t \in Tasks, PurgeDelete(t)
  PROVE  Titled' /\ HeldSteady
<1>1. PICK c \in Comics : c = job[t].on
  BY DEF PurgeDelete, TypeInv, Prepared
<1>2. \A d \in Comics : /\ rows'[d] = IF d = c THEN NoRow ELSE rows[d]
                        /\ meta'[d] = IF d = c THEN NoMeta ELSE meta[d]
                        /\ pinned'[d] = IF d = c THEN NoTitle ELSE pinned[d]
                        /\ d # c => (d \in raced' <=> d \in raced)
  BY <1>1 DEF PurgeDelete, TypeInv, TypeOK, DatabaseTypeOK, ObservedTypeOK
<1>3. Titled'
  <2>1. MetaHasRow'
    BY <1>2 DEF TitleInv, MetaHasRow
  <2>2. UnracedTitleKept'
    BY <1>2 DEF TitleInv, UnracedTitleKept
  <2>3. QED
    BY <2>1, <2>2 DEF Titled
<1>4. \A u \in Tasks : job'[u] = job[u] \/ job'[u].at = "purging"
  <2>1. [job[t] EXCEPT !.at = "purging", !.on = NoComic].at = "purging"
    BY DEF TypeInv, TypeOK, TaskTypeOK, Job
  <2>2. job' = [job EXCEPT ![t] = [job[t] EXCEPT !.at = "purging", !.on = NoComic]] /\ wb' = wb
    BY DEF PurgeDelete, Advance
  <2>3. QED
    BY <2>1, <2>2 DEF TypeInv, TypeOK, TaskTypeOK
<1>5. HeldSteady
  <2>1. \A d \in Comics : Fixed(d)' => Fixed(d) /\ pinned'[d] = pinned[d]
    BY <1>2 DEF Fixed
  <2>2. wb' = wb
    BY DEF PurgeDelete
  <2>3. QED
    BY <1>4, <2>1, <2>2 DEF HeldSteady
<1>6. QED
  BY <1>3, <1>5

\* The writeback reads the title before it writes it.
LEMMA WritebackTitles ==
  ASSUME TypeInv, TitleInv, NEW w \in Readers, WritebackStep(w)
  PROVE  Titled' /\ JobsCarry' /\ WritebacksCarry'
<1>1. UNCHANGED <<job, pinned, raced>>
  BY DEF WritebackStep, WritebackParse, WritebackRow, WritebackMeta, WritebackFails, observed
<1>2. JobsCarry'
  <2> SUFFICES ASSUME NEW u \in Tasks PROVE JobCarries(u)'
    BY DEF JobsCarry
  <2>1. JobCarries(u)
    BY DEF TitleInv, JobsCarry
  <2>2. QED
    BY <1>1, <2>1 DEF JobCarries, MovesOne, Writes, PlanCarries, Source, Fixed, Carries
<1>3. ASSUME NEW c \in Comics, WritebackParse(w, c) PROVE Titled' /\ WritebacksCarry'
  <2>1. PICK scan, n : wb' = [wb EXCEPT ![w] =
                           [at |-> "parsed", on |-> c, copy |-> Merged(scan, Loaded(c), n)]]
    <3> DEFINE At(x) == wb' = [wb EXCEPT ![w] = [at |-> "parsed", on |-> c, copy |-> x]]
    <3>1. \/ At(Merged([Loaded(c) EXCEPT !.pages = reading[c]], Loaded(c), reading[c]))
          \/ At(Merged(Parsed(c), Loaded(c), disk[c].pages))
      BY <1>3, Zenon DEF WritebackParse
    <3>2. QED
      BY <3>1, Zenon
  <2>a. PICK x : x = Merged(scan, Loaded(c), n)
    OBVIOUS
  <2>2. Fixed(c) => Carries(x, c)
    BY <2>a, MergeCarries
  <2>3. Titled'
    BY <1>1, <1>3, TitlesStay DEF WritebackParse, db
  <2>4. \A u \in Readers : wb'[u] = IF u = w THEN [at |-> "parsed", on |-> c, copy |-> x] ELSE wb[u]
    BY <2>1, <2>a DEF TypeInv, TypeOK, TaskTypeOK
  <2>5. WritebacksCarry'
    <3> SUFFICES ASSUME NEW u \in Readers PROVE WritebackCarries(u)'
      BY DEF WritebacksCarry
    <3>1. CASE u = w
      BY <1>1, <2>2, <2>4, <3>1 DEF WritebackCarries, Fixed, Carries
    <3>2. CASE u # w
      BY <1>1, <2>4, <3>2 DEF TitleInv, WritebacksCarry, WritebackCarries, Fixed, Carries
    <3>3. QED
      BY <3>1, <3>2
  <2>6. QED
    BY <2>3, <2>5
<1>4. ASSUME WritebackRow(w) \/ WritebackMeta(w) \/ WritebackFails(w) PROVE WritebacksCarry'
  <2>1. \A u \in Readers : \/ wb'[u].at = "idle"
                           \/ wb[u].at # "idle" /\ wb'[u].on = wb[u].on /\ wb'[u].copy = wb[u].copy
    <3>1. PICK y : wb' = [wb EXCEPT ![w] = y] /\ (y = IdleWriteback
                            \/ (wb[w].at = "parsed" /\ y = [wb[w] EXCEPT !.at = "rowed"]))
      BY <1>4 DEF WritebackRow, WritebackMeta, WritebackFails
    <3>2. \A u \in Readers : wb'[u] = IF u = w THEN y ELSE wb[u]
      BY <3>1 DEF TypeInv, TypeOK, TaskTypeOK
    <3>3. y.at = "idle" \/ (wb[w].at # "idle" /\ y.on = wb[w].on /\ y.copy = wb[w].copy)
      BY <3>1 DEF IdleWriteback, TypeInv, TypeOK, TaskTypeOK, Writeback
    <3>4. QED
      BY <3>2, <3>3
  <2>2. QED
    BY <1>1, <2>1 DEF TitleInv, WritebacksCarry, WritebackCarries, Fixed, Carries
<1>5. ASSUME WritebackRow(w) PROVE Titled'
  <2>1. wb[w].on \in Comics /\ wb[w].copy \in Copy
    BY <1>5 DEF WritebackRow, TypeInv, Prepared
  <2>2. UpsertRow(wb[w].on, wb[w].copy) # NoRow
    BY <2>1, UpsertType, StoreAssumption
  <2>3. \A c \in Comics : rows[c] # NoRow => rows'[c] # NoRow
    BY <1>5, <2>1, <2>2 DEF WritebackRow, TypeInv, TypeOK, DatabaseTypeOK
  <2>4. QED
    BY <1>1, <1>5, <2>3, TitlesStay DEF WritebackRow
<1>6. ASSUME WritebackMeta(w) PROVE Titled'
  <2>1. CASE rows[wb[w].on] = NoRow
    BY <1>1, <1>6, <2>1, TitlesStay DEF WritebackMeta
  <2>2. CASE rows[wb[w].on] # NoRow
    <3>1. PICK c \in Comics, x \in Copy : c = wb[w].on /\ x = wb[w].copy /\ x.pages > 0
      BY <1>6 DEF WritebackMeta, TypeInv, Prepared
    <3>2. Fixed(c) => Carries(x, c)
      BY <1>6, <3>1 DEF WritebackMeta, TitleInv, WritebacksCarry, WritebackCarries
    <3>3. rows'[c] # NoRow /\ \A d \in Comics : rows[d] # NoRow => rows'[d] # NoRow
      BY <1>6, <2>2, <3>1 DEF WritebackMeta
    <3>4. meta' = [meta EXCEPT ![c] = UpsertMeta(x)] /\ UNCHANGED <<pinned, raced>>
      BY <1>1, <1>6, <2>2, <3>1 DEF WritebackMeta
    <3>5. QED
      BY <3>1, <3>2, <3>3, <3>4, TitleWritten
  <2>3. QED
    BY <2>1, <2>2
<1>7. ASSUME WritebackFails(w) PROVE Titled'
  BY <1>1, <1>7, TitlesStay DEF WritebackFails, db
<1>8. QED
  BY <1>2, <1>3, <1>4, <1>5, <1>6, <1>7 DEF WritebackStep

\* Every step keeps the titles, and what the copies in memory need.
LEMMA NextTitles == TypeInv /\ SingleWriter /\ TitleInv /\ [Next]_vars => TitleInv'
<1> SUFFICES ASSUME TypeInv, SingleWriter, TitleInv, [Next]_vars PROVE TitleInv'
  OBVIOUS
<1>0. job \in [Tasks -> Job] /\ \A t \in Tasks : job[t] \in Job
  BY DEF TypeInv, TypeOK, TaskTypeOK
<1>1. ASSUME Titled', JobsCarry', WritebacksCarry' PROVE TitleInv'
  BY <1>1 DEF TitleInv, Titled
<1>2. ASSUME Titled', HeldSteady PROVE TitleInv'
  BY <1>1, <1>2, CopiesStay
\* A step of an operation that writes nothing and merges nothing.
<1>3. ASSUME NEW t \in Tasks, NEW j, j.at \notin {"planned", "merged"},
             job' = [job EXCEPT ![t] = j], UNCHANGED <<rows, meta, pinned, raced, wb>>
      PROVE  TitleInv'
  <2>1. \A u \in Tasks : job'[u] = job[u] \/ job'[u].at \notin {"planned", "merged"}
    BY <1>0, <1>3
  <2>2. HeldSteady
    BY <1>3, <2>1 DEF HeldSteady, Fixed
  <2>3. QED
    BY <1>2, <1>3, <2>2, TitlesStay
<1>4. ASSUME NEW t \in Tasks, Release(t), UNCHANGED <<rows, meta, pinned, raced, wb>>
      PROVE  TitleInv'
  BY <1>3, <1>4 DEF Release, IdleJob
<1>5. ASSUME NEW t \in Tasks, Start(t) PROVE TitleInv'
  <2>1. CASE StartSync(t)
    <3>1. [IdleJob EXCEPT !.at = "scan", !.todo = Comics, !.old = LoadedAll].at = "scan"
      BY DEF IdleJob
    <3>2. QED
      BY <1>3, <2>1, <3>1 DEF StartSync, Acquire, db
  <2>2. ASSUME NEW C \in SUBSET Comics, StartRefresh(t, C) PROVE TitleInv'
    <3>1. [IdleJob EXCEPT !.at = "refreshing", !.todo = C].at = "refreshing"
      BY DEF IdleJob
    <3>2. QED
      BY <1>3, <2>2, <3>1 DEF StartRefresh, Acquire, db, observed
  <2>3. ASSUME NEW C \in SUBSET Comics, StartPurge(t, C) PROVE TitleInv'
    <3>1. [IdleJob EXCEPT !.at = "purging", !.todo = {c \in C : InTrash(c)}].at = "purging"
      BY DEF IdleJob
    <3>2. QED
      BY <1>3, <2>3, <3>1 DEF StartPurge, Acquire, db, observed
  <2>4. QED
    BY <1>5, <2>1, <2>2, <2>3 DEF Start
<1>6. ASSUME NEW t \in Tasks, Progress(t) PROVE TitleInv'
  <2>1. ASSUME NEW c \in Comics, ScanPath(t, c) PROVE TitleInv'
    <3>1. PICK j : Advance(t, j) /\ j.at = "scan"
      <4>1. \A x : /\ [job[t] EXCEPT !.todo = @ \ {c}].at = "scan"
                   /\ [job[t] EXCEPT !.todo = @ \ {c}, !.got[c] = x].at = "scan"
        BY <1>0, <2>1 DEF ScanPath, Job
      <4>2. QED
        BY <2>1, <4>1 DEF ScanPath
    <3>2. QED
      BY <1>3, <2>1, <3>1 DEF ScanPath, Advance, db, observed
  <2>2. CASE BuildPlan(t)
    BY <1>1, <2>2, PlanTitles
  <2>3. CASE ApplyPlan(t)
    BY <1>1, <2>3, ApplyTitles
  <2>4. ASSUME NEW c \in Comics, RefreshParse(t, c) PROVE TitleInv'
    BY <1>1, <2>4, ParseTitles
  <2>5. ASSUME NEW c \in Comics, RefreshSkip(t, c) PROVE TitleInv'
    <3>1. PICK j : Advance(t, j) /\ j.at = "refreshing"
      BY <1>0, <2>5 DEF RefreshSkip, Job
    <3>2. QED
      BY <1>3, <2>5, <3>1 DEF RefreshSkip, Advance, db, observed
  <2>6. CASE RefreshWrite(t)
    BY <1>2, <2>6, RefreshTitles
  <2>7. CASE RefreshWriteFails(t)
    <3>1. [IdleJob EXCEPT !.at = "refreshing", !.todo = job[t].todo].at = "refreshing"
      BY DEF IdleJob
    <3>2. QED
      BY <1>3, <2>7, <3>1 DEF RefreshWriteFails, Advance, db, observed
  <2>8. CASE ApplyRejected(t) \/ FinishSync(t) \/ FinishRefresh(t) \/ FinishPurge(t)
    BY <1>4, <2>8 DEF ApplyRejected, FinishSync, FinishRefresh, FinishPurge, db, observed
  <2>9. ASSUME NEW c \in Comics, PurgeErase(t, c) \/ PurgeSkip(t, c) PROVE TitleInv'
    <3>1. PICK j : Advance(t, j) /\ j.at \in {"erased", "purging"}
      <4>1. [job[t] EXCEPT !.at = "erased", !.on = c, !.todo = @ \ {c}].at = "erased"
        BY <1>0 DEF Job
      <4>2. job[t].at = "purging" => [job[t] EXCEPT !.todo = @ \ {c}].at = "purging"
        BY <1>0 DEF Job
      <4>3. QED
        BY <2>9, <4>1, <4>2 DEF PurgeErase, PurgeSkip
    <3>2. QED
      BY <1>3, <2>9, <3>1 DEF PurgeErase, PurgeSkip, Advance, db, observed
  <2>10. CASE PurgeDelete(t)
    BY <1>2, <2>10, PurgeTitles
  <2>11. CASE PurgeDeleteFails(t)
    <3>1. [job[t] EXCEPT !.at = "purging", !.on = NoComic].at = "purging"
      BY <1>0 DEF Job
    <3>2. QED
      BY <1>3, <2>11, <3>1 DEF PurgeDeleteFails, Advance, db, observed
  <2>12. QED
    BY <1>6, <2>1, <2>2, <2>3, <2>4, <2>5, <2>6, <2>7, <2>8, <2>9, <2>10, <2>11 DEF Progress
<1>7. ASSUME NEW t \in Tasks, Abort(t) PROVE TitleInv'
  BY <1>4, <1>7 DEF Abort, db, observed
<1>8. ASSUME NEW C \in SUBSET Comics, Trash(C) \/ Restore(C) PROVE TitleInv'
  <2>1. /\ UNCHANGED <<meta, pinned, raced, job, wb>>
        /\ \A c \in Comics : rows'[c] = rows[c] \/ \E b \in BOOLEAN :
             rows[c] # NoRow /\ rows'[c] = [rows[c] EXCEPT !.trashed = b]
    BY <1>8 DEF Trash, Restore, Mark, observed
  <2>2. \A c \in Comics, b \in BOOLEAN : rows[c] # NoRow => [rows[c] EXCEPT !.trashed = b] \in Row
    BY DEF TypeInv, TypeOK, DatabaseTypeOK, Row
  <2>3. Titled'
    <3>1. NoRow \notin Row
      BY StoreAssumption
    <3>2. \A c \in Comics : rows[c] # NoRow => rows'[c] # NoRow
      BY <2>1, <2>2, <3>1
    <3>3. QED
      BY <2>1, <3>2, TitlesStay
  <2>4. HeldSteady
    BY <2>1 DEF HeldSteady, Fixed
  <2>5. QED
    BY <1>2, <2>3, <2>4
<1>9. ASSUME UNCHANGED <<rows, meta, pinned, raced, job, wb>> PROVE TitleInv'
  BY <1>2, <1>9, TitlesStay DEF HeldSteady, Fixed
<1>10. ASSUME NEW c \in Comics, User(c) PROVE TitleInv'
  <2>1. CASE OpenScreen(c) \/ CloseScreen(c) \/ RecordReading(c)
    BY <1>9, <2>1 DEF OpenScreen, CloseScreen, RecordReading, db, observed
  <2>2. QED
    BY <1>2, <1>10, <2>1, EditTitles DEF User
<1>11. ASSUME NEW w \in Readers, WritebackStep(w) PROVE TitleInv'
  BY <1>1, <1>11, WritebackTitles
<1>12. CASE Environment
  <2>1. CASE Crash
    <3>1. /\ UNCHANGED <<rows, meta, pinned, raced>>
          /\ \A t \in Tasks : job'[t].at = "idle"
          /\ \A w \in Readers : wb'[w].at = "idle"
      BY <2>1 DEF Crash, IdleJob, IdleWriteback, db
    <3>2. HeldSteady
      BY <3>1 DEF HeldSteady, Fixed
    <3>3. QED
      BY <1>2, <3>1, <3>2, TitlesStay
  <2>2. QED
    BY <1>9, <1>12, <2>1 DEF Environment, PutFile, MoveFile, db
<1>13. CASE UNCHANGED vars
  BY <1>9, <1>13 DEF vars
<1>14. QED
  BY <1>5, <1>6, <1>7, <1>8, <1>10, <1>11, <1>12, <1>13 DEF Next

\* The copies that are out carry the titles their users fixed.
THEOREM SpecTitles == Spec => []TitleInv
<1>1. Init => TitleInv
  <2> SUFFICES ASSUME Init PROVE TitleInv
    OBVIOUS
  <2>1. /\ \A t \in Tasks : job[t].at = "idle"
        /\ \A w \in Readers : wb[w].at = "idle"
        /\ \A c \in Comics : pinned[c] = NoTitle
    BY DEF Init, IdleJob, IdleWriteback
  <2>2. JobsCarry /\ WritebacksCarry /\ UnracedTitleKept
    BY <2>1 DEF JobsCarry, JobCarries, WritebacksCarry, WritebackCarries, UnracedTitleKept
  <2>3. MetaHasRow
    <3>1. ASSUME NEW c \in Comics, meta[c] # NoMeta PROVE rows[c] # NoRow
      <4>1. disk[c] # NoFile
        BY <3>1 DEF Init
      <4>2. rows[c] = [size |-> disk[c].size, trashed |-> FALSE]
        BY <4>1 DEF Init
      <4>3. rows[c] \in Row
        BY <4>1, <4>2, StoreAssumption DEF Init, Row
      <4>4. QED
        BY <4>3, StoreAssumption
    <3>2. QED
      BY <3>1 DEF MetaHasRow
  <2>4. QED
    BY <2>2, <2>3 DEF TitleInv
<1>2. QED
  BY <1>1, NextTitles, SpecType, SpecSingleWriter, PTL DEF Spec

\* A title its user fixed while nobody held a copy of the comic survives every
\* scan, refresh, writeback, migration and restart, but for being decoded.
THEOREM SpecUnracedTitleKept == Spec => []UnracedTitleKept
<1>1. TitleInv => UnracedTitleKept
  BY DEF TitleInv
<1>2. QED
  BY <1>1, SpecTitles, PTL

\* Such a title stays as it was entered when it holds no html entity.
PlainTitleKept ==
    \A c \in Comics : /\ pinned[c] # NoTitle /\ c \notin raced
                      /\ Decoded[pinned[c]] = pinned[c]
                      => meta[c].title = pinned[c]
THEOREM SpecPlainTitleKept == Spec => []PlainTitleKept
<1>1. TypeInv /\ UnracedTitleKept => PlainTitleKept
  <2> SUFFICES ASSUME TypeInv, UnracedTitleKept, NEW c \in Comics, pinned[c] # NoTitle,
                      c \notin raced, Decoded[pinned[c]] = pinned[c]
               PROVE  meta[c].title = pinned[c]
    BY DEF PlainTitleKept
  <2>1. pinned[c] \in Titles
    BY DEF TypeInv, TypeOK, ObservedTypeOK
  <2>2. meta[c].title \in DecodedFrom(pinned[c])
    BY DEF UnracedTitleKept
  <2>3. QED
    BY <2>1, <2>2, PlainStays
<1>2. QED
  BY <1>1, SpecType, SpecUnracedTitleKept, PTL

-----------------------------------------------------------------------------
\* What an undisturbed sync does.

\* What an undisturbed sync has scanned is what lies on disk ...
ScanTrue(j) ==
    /\ \A c \in Comics : j.old[c] # NoCopy <=> c \in Existing
    /\ \A c \in j.todo : j.got[c] = NoCopy
    /\ \A c \in Comics \ j.todo :
         /\ Parses(c) => j.got[c] # NoCopy
         /\ j.got[c] # NoCopy => /\ disk[c] # NoFile /\ j.got[c].size = disk[c].size
                                 /\ c \notin Existing => Parses(c) /\ j.got[c] = Parsed(c)
\* ... and what it has planned brings the library there, its moved comics included.
PlanTrue(j) ==
    /\ \A c \in Comics :
         /\ Parses(c) => j.got[c] # NoCopy
         /\ j.got[c] # NoCopy => /\ disk[c] # NoFile /\ j.got[c].size = disk[c].size
                                 /\ j.got[c].pages > 0
         /\ c \in Existing /\ disk[c] = NoFile => c \in Left(j)
    /\ \A c \in Existing, d \in Comics \ Existing :
         /\ disk[c] = NoFile /\ disk[d] # NoFile
         /\ Fingerprint(Loaded(c)) = Fingerprint(Parsed(d)) /\ AloneWithFingerprint(c, d)
         => <<c, d>> \in j.moves
    /\ \A p \in j.moves : /\ p[1] # p[2]
                          /\ p[1] \notin raced => j.got[p[2]].locked = meta[p[1]].locked
SyncTrue ==
    \A t \in quiet : /\ job[t].at = "scan" => ScanTrue(job[t])
                     /\ job[t].at = "planned" => PlanTrue(job[t])
\* The file that was synced at a place lies where home says.
HomesTrue == \A c \in Comics : home[c] # NoComic => disk[home[c]] # NoFile

\* A step that starts no sync and disturbs none: it leaves the files, which comics
\* there are and their fingerprints alone, and the locks of those that move.
Undisturbed ==
    /\ UNCHANGED disk
    /\ Existing' = Existing
    /\ \A c \in Existing : Fingerprint(Loaded(c))' = Fingerprint(Loaded(c))
    /\ quiet' \subseteq quiet
    /\ \A t \in quiet' : job'[t] = job[t] \/ job'[t].at \notin {"scan", "planned"}
    /\ \A c \in Comics : c \notin raced' /\ Outstanding(c) =>
         c \notin raced /\ meta'[c].locked = meta[c].locked

LEMMA SyncStays ==
  ASSUME TypeInv, SyncTrue, Undisturbed
  PROVE  SyncTrue'
<1>1. ASSUME NEW t \in quiet', job'[t].at \in {"scan", "planned"}
      PROVE  /\ job'[t].at = "scan" => ScanTrue(job[t])'
             /\ job'[t].at = "planned" => PlanTrue(job[t])'
  <2>1. PICK j : j = job[t] /\ job'[t] = j
    BY <1>1 DEF Undisturbed
  <2>2. /\ t \in quiet /\ t \in Tasks
    BY DEF Undisturbed, TypeInv, TypeOK, ObservedTypeOK
  <2>3. j \in Job
    BY <2>1, <2>2 DEF TypeInv, TypeOK, TaskTypeOK
  <2>4. /\ disk' = disk /\ Existing' = Existing /\ Existing \subseteq Comics
        /\ \A c \in Existing : Fingerprint(Loaded(c))' = Fingerprint(Loaded(c))
        /\ \A c \in Comics : Parsed(c)' = Parsed(c) /\ (Parses(c)' <=> Parses(c))
    BY DEF Undisturbed, Existing, Parsed, Parses
  <2>5. CASE j.at = "scan"
    <3>1. ScanTrue(j)
      BY <2>1, <2>2, <2>5 DEF SyncTrue
    <3>2. ScanTrue(job[t])'
      BY <2>1, <2>4, <3>1 DEF ScanTrue
    <3>3. QED
      BY <2>1, <2>5, <3>2
  <2>6. CASE j.at = "planned"
    <3>1. PlanTrue(j)
      BY <2>1, <2>2, <2>6 DEF SyncTrue
    <3>2. \A c \in Existing, d \in Comics \ Existing :
            AloneWithFingerprint(c, d)' => AloneWithFingerprint(c, d)
      BY <2>4 DEF AloneWithFingerprint
    <3>3. \A c \in Existing, d \in Comics \ Existing :
            Fingerprint(Loaded(c))' = Fingerprint(Parsed(d))' => Fingerprint(Loaded(c)) = Fingerprint(Parsed(d))
      BY <2>4 DEF Fingerprint
    <3>4. \A p \in j.moves : p[1] # p[2]
            /\ (p[1] \notin raced' => j.got[p[2]].locked = meta'[p[1]].locked)
      <4> SUFFICES ASSUME NEW p \in j.moves
                   PROVE  p[1] # p[2]
                          /\ (p[1] \notin raced' => j.got[p[2]].locked = meta'[p[1]].locked)
        OBVIOUS
      <4>1. p = <<p[1], p[2]>> /\ p[1] \in Comics /\ p[2] \in Comics
        BY <2>3 DEF Job
      <4>2. Outstanding(p[1])
        BY <2>1, <2>2, <2>6, <4>1 DEF Outstanding
      <4>3. QED
        BY <3>1, <4>1, <4>2 DEF PlanTrue, Undisturbed
    <3>5. \A c \in Existing, d \in Comics \ Existing :
            /\ disk[c] = NoFile /\ disk[d] # NoFile
            /\ Fingerprint(Loaded(c))' = Fingerprint(Parsed(d))' /\ AloneWithFingerprint(c, d)'
            => <<c, d>> \in j.moves
      BY <3>1, <3>2, <3>3 DEF PlanTrue
    <3>6. \A c \in Comics :
            /\ Parses(c) => j.got[c] # NoCopy
            /\ j.got[c] # NoCopy => /\ disk[c] # NoFile /\ j.got[c].size = disk[c].size
                                    /\ j.got[c].pages > 0
            /\ c \in Existing /\ disk[c] = NoFile => c \in Left(j)
      BY <3>1 DEF PlanTrue
    <3>7. PlanTrue(job[t])'
      BY <2>1, <2>4, <3>4, <3>5, <3>6 DEF PlanTrue, Left
    <3>8. QED
      BY <2>1, <2>6, <3>7
  <2>7. QED
    BY <1>1, <2>1, <2>5, <2>6
<1>2. QED
  BY <1>1 DEF SyncTrue

\* With no sync under way there is nothing to keep.
LEMMA NoSync ==
  ASSUME \A t \in quiet' : job'[t].at \notin {"scan", "planned"}
  PROVE  SyncTrue'
  BY DEF SyncTrue

\* While another operation holds the lock, no sync is.
LEMMA OtherThanSync ==
  ASSUME TypeInv, SingleWriter, SingleWriter', quiet' \subseteq Tasks, NEW t \in Tasks, NEW j,
         job' = [job EXCEPT ![t] = j], j.at \notin {"scan", "planned"},
         j.at # "idle" \/ job[t].at # "idle"
  PROVE  SyncTrue'
<1>1. \A u \in Tasks : job'[u] = IF u = t THEN j ELSE job[u]
  BY DEF TypeInv, TypeOK, TaskTypeOK
<1>2. \A u \in Tasks : u # t => job'[u].at = "idle"
  BY <1>1 DEF SingleWriter
<1>3. QED
  BY <1>1, <1>2, NoSync

\* A sync that starts has seen nothing yet.
LEMMA StartSyncTrue ==
  ASSUME TypeInv, SingleWriter, NEW t \in Tasks, StartSync(t)
  PROVE  SyncTrue'
<1> DEFINE j == [IdleJob EXCEPT !.at = "scan", !.todo = Comics, !.old = LoadedAll]
<1>1. /\ ~busy /\ job' = [job EXCEPT ![t] = j]
      /\ UNCHANGED <<disk, rows, meta>>
  BY DEF StartSync, Acquire, db
<1>2. j.at = "scan" /\ j.todo = Comics /\ j.old = LoadedAll /\ j.got = NoCopies
  BY DEF IdleJob
<1> HIDE DEF j
<1>3. \A u \in Tasks : job'[u] = IF u = t THEN j ELSE job[u]
  BY <1>1 DEF TypeInv, TypeOK, TaskTypeOK
<1>4. \A u \in Tasks : job[u].at = "idle"
  BY <1>1 DEF SingleWriter
<1>5. \A c \in Comics : LoadedAll[c] # NoCopy <=> c \in Existing
  <2>1. \A c \in Existing : Loaded(c) \in Copy
    BY LoadedType
  <2>2. QED
    BY <2>1, StoreAssumption DEF LoadedAll
<1>6. Existing' = Existing
  BY <1>1 DEF Existing
<1>7. job'[t] = j
  BY <1>3
<1>8. ScanTrue(job[t])'
  BY <1>2, <1>5, <1>6, <1>7 DEF ScanTrue, NoCopies
<1>9. quiet' \subseteq Tasks
  BY DEF StartSync, TypeInv, TypeOK, ObservedTypeOK
<1>10. \A u \in Tasks : u # t => job'[u].at = "idle"
  BY <1>3, <1>4
<1>11. job'[t].at = "scan"
  BY <1>2, <1>7
<1>12. QED
  BY <1>8, <1>9, <1>10, <1>11 DEF SyncTrue

\* A sync that visits a place has seen what is there.
LEMMA ScanPathTrue ==
  ASSUME TypeInv, SingleWriter, SyncTrue, NEW t \in Tasks, NEW c \in Comics, ScanPath(t, c)
  PROVE  SyncTrue'
<1>1. PICK j : j = job[t]
  OBVIOUS
<1>2. /\ j \in Job /\ j.at = "scan" /\ c \in j.todo
      /\ UNCHANGED <<disk, rows, meta, quiet>>
  BY <1>1 DEF ScanPath, TypeInv, TypeOK, TaskTypeOK, db, observed
<1>3. PICK x : /\ job' = [job EXCEPT ![t] = [j EXCEPT !.todo = @ \ {c}, !.got[c] = x]]
               /\ \/ ~Parses(c) /\ x = j.got[c]
                  \/ Parses(c) /\ x = Parsed(c)
                  \/ disk[c] # NoFile /\ x = Reused(j.old[c], c) /\ j.old[c] # NoCopy
  <2>1. [j EXCEPT !.todo = @ \ {c}] = [j EXCEPT !.todo = @ \ {c}, !.got[c] = j.got[c]]
    BY <1>2 DEF Job, Copies
  <2>2. QED
    BY <1>1, <2>1 DEF ScanPath, Advance
<1>4. PICK k : k = [j EXCEPT !.todo = @ \ {c}, !.got[c] = x]
  OBVIOUS
<1>5. /\ k.at = "scan" /\ k.todo = j.todo \ {c} /\ k.old = j.old
      /\ \A d \in Comics : k.got[d] = IF d = c THEN x ELSE j.got[d]
  BY <1>2, <1>4 DEF Job, Copies
<1>6. \A u \in Tasks : job'[u] = IF u = t THEN k ELSE job[u]
  BY <1>1, <1>3, <1>4 DEF TypeInv, TypeOK, TaskTypeOK
<1>7. \A u \in Tasks : u # t => job'[u].at = "idle"
  BY <1>1, <1>2, <1>6 DEF SingleWriter
<1>8. ASSUME t \in quiet PROVE ScanTrue(k)
  <2>1. ScanTrue(j)
    BY <1>1, <1>2, <1>8 DEF SyncTrue
  <2>2. j.got[c] = NoCopy
    BY <1>2, <2>1 DEF ScanTrue
  <2>3. /\ Parses(c) => x # NoCopy
        /\ x # NoCopy => /\ disk[c] # NoFile /\ x.size = disk[c].size
                         /\ c \notin Existing => Parses(c) /\ x = Parsed(c)
    <3>1. CASE ~Parses(c) /\ x = j.got[c]
      BY <2>2, <3>1
    <3>2. CASE Parses(c) /\ x = Parsed(c)
      <4>1. Parsed(c) \in Copy /\ Parsed(c).size = disk[c].size /\ disk[c] # NoFile
        BY <3>2, ParsedType DEF Parsed, Parses
      <4>2. QED
        BY <3>2, <4>1, StoreAssumption
    <3>3. CASE disk[c] # NoFile /\ x = Reused(j.old[c], c) /\ j.old[c] # NoCopy
      <4>1. c \in Existing
        BY <2>1, <3>3 DEF ScanTrue
      <4>2. j.old[c] \in Copy /\ disk[c].size \in Sizes
        BY <1>2, <3>3, ParsedType DEF Job, Copies
      <4>3. x \in Copy /\ x.size = disk[c].size
        BY <3>3, <4>2 DEF Reused, Copy
      <4>4. QED
        BY <3>3, <4>1, <4>3, StoreAssumption
    <3>4. QED
      BY <1>3, <3>1, <3>2, <3>3
  <2>4. j.todo \subseteq Comics
    BY <1>2 DEF Job
  <2>5. QED
    BY <1>5, <2>1, <2>3, <2>4 DEF ScanTrue
<1>9. t \in quiet => ScanTrue(job[t])'
  <2>1. Existing' = Existing /\ \A d \in Comics : Parsed(d)' = Parsed(d) /\ (Parses(d)' <=> Parses(d))
    BY <1>2 DEF Existing, Parsed, Parses
  <2>2. job'[t] = k /\ disk' = disk
    BY <1>2, <1>6
  <2>3. QED
    BY <1>8, <2>1, <2>2 DEF ScanTrue
<1>10. job'[t].at = "scan" /\ quiet' = quiet /\ quiet \subseteq Tasks
  BY <1>2, <1>5, <1>6 DEF TypeInv, TypeOK, ObservedTypeOK
<1>11. QED
  BY <1>7, <1>9, <1>10 DEF SyncTrue

\* The plan of an undisturbed sync brings the library to where the files are.
LEMMA BuildPlanTrue ==
  ASSUME TypeInv, SingleWriter, SyncTrue, NEW t \in Tasks, BuildPlan(t)
  PROVE  SyncTrue'
<1>1. PICK j, scan : j = job'[t] /\ scan = job[t].got
  OBVIOUS
<1>2. PlanMade(j, scan) /\ j.at = "planned"
  BY <1>1, PlanIsMade DEF PlanMade
<1>3. /\ job[t].at = "scan" /\ job[t].todo = {}
      /\ \A u \in Tasks : u # t => job'[u] = job[u]
      /\ UNCHANGED <<disk, rows, meta, quiet, raced>>
  BY DEF BuildPlan, Advance, db, observed, TypeInv, TypeOK, TaskTypeOK
<1>4. \A u \in Tasks : u # t => job'[u].at = "idle"
  BY <1>3 DEF SingleWriter
<1>5. \A c \in Comics : scan[c] \in Copy \cup {NoCopy}
  BY <1>1 DEF TypeInv, TypeOK, TaskTypeOK, Job, Copies
<1>6. ASSUME t \in quiet PROVE PlanTrue(j)
  <2>1. \A c \in Comics :
          /\ Parses(c) => scan[c] # NoCopy
          /\ scan[c] # NoCopy => /\ disk[c] # NoFile /\ scan[c].size = disk[c].size
                                 /\ c \notin Existing => Parses(c) /\ scan[c] = Parsed(c)
    BY <1>1, <1>3, <1>6 DEF SyncTrue, ScanTrue
  <2>2. ASSUME NEW c \in Comics, scan[c] # NoCopy
        PROVE  /\ j.got[c] \in Copy /\ j.got[c].size = scan[c].size
               /\ j.got[c].pages > 0
    <3>1. scan[c] \in Copy /\ scan[c].pages \in Nat
      BY <1>5, <2>2 DEF Copy
    <3>2. CASE c \in Existing
      <4>1. j.got[c] = Merged(scan[c], Loaded(c), meta[c].pages)
        BY <1>2, <2>2, <3>2 DEF PlanMade
      <4>2. PICK y, n : y = Loaded(c) /\ n = meta[c].pages
        OBVIOUS
      <4>3. y \in Copy /\ n \in Nat /\ n > 0
        BY <3>2, <4>2, LoadedType DEF Meta
      <4>4. Merged(scan[c], y, n) \in Copy /\ Merged(scan[c], y, n).pages = n
        BY <3>1, <4>3, MergedType
      <4>5. Merged(scan[c], y, n).size = scan[c].size
        BY DEF Merged
      <4>6. QED
        BY <4>1, <4>2, <4>3, <4>4, <4>5
    <3>3. CASE c \notin Existing /\ \E p \in j.moves : p[2] = c
      <4>1. PICK f \in Existing : j.got[c] = Merged(scan[c], Loaded(f), scan[c].pages)
        BY <1>2, <3>3 DEF PlanMade
      <4>2. PICK y, n : y = Loaded(f) /\ n = scan[c].pages
        OBVIOUS
      <4>3. y \in Copy /\ n \in Nat
        BY <3>1, <4>2, LoadedType
      <4>4. Merged(scan[c], y, n) \in Copy /\ Merged(scan[c], y, n).pages = n
        BY <3>1, <4>3, MergedType
      <4>5. Merged(scan[c], y, n).size = scan[c].size
        BY DEF Merged
      <4>6. scan[c].pages > 0
        <5>1. Parses(c) /\ scan[c] = Parsed(c)
          BY <2>1, <2>2, <3>3
        <5>2. QED
          BY <5>1 DEF Parsed, Parses
      <4>7. QED
        BY <4>1, <4>2, <4>4, <4>5, <4>6
    <3>4. CASE c \notin Existing /\ \A p \in j.moves : p[2] # c
      <4>1. j.got[c] = scan[c]
        BY <1>2, <3>4 DEF PlanMade
      <4>2. scan[c].pages > 0
        <5>1. Parses(c) /\ scan[c] = Parsed(c)
          BY <2>1, <2>2, <3>4
        <5>2. QED
          BY <5>1 DEF Parsed, Parses
      <4>3. QED
        BY <3>1, <4>1, <4>2
    <3>5. QED
      BY <3>2, <3>3, <3>4
  <2>3. \A c \in Comics :
          /\ Parses(c) => j.got[c] # NoCopy
          /\ j.got[c] # NoCopy => /\ disk[c] # NoFile /\ j.got[c].size = disk[c].size
                                  /\ j.got[c].pages > 0
          /\ c \in Existing /\ disk[c] = NoFile => c \in Left(j)
    <3> SUFFICES ASSUME NEW c \in Comics
                 PROVE  /\ Parses(c) => j.got[c] # NoCopy
                        /\ j.got[c] # NoCopy => /\ disk[c] # NoFile /\ j.got[c].size = disk[c].size
                                                /\ j.got[c].pages > 0
                        /\ c \in Existing /\ disk[c] = NoFile => c \in Left(j)
      OBVIOUS
    <3>1. CASE scan[c] = NoCopy
      BY <1>2, <2>1, <3>1 DEF PlanMade
    <3>2. CASE scan[c] # NoCopy
      BY <2>1, <2>2, <3>2, StoreAssumption
    <3>3. QED
      BY <3>1, <3>2
  <2>4. ASSUME NEW c \in Existing, NEW d \in Comics \ Existing, disk[c] = NoFile, disk[d] # NoFile,
               Fingerprint(Loaded(c)) = Fingerprint(Parsed(d)), AloneWithFingerprint(c, d)
        PROVE  <<c, d>> \in j.moves
    <3>a. Parses(d)
      <4>1. Loaded(c).pages > 0 /\ Loaded(c).pages = Parsed(d).pages
        BY <2>4, LoadedType DEF Fingerprint
      <4>2. QED
        BY <2>4, <4>1 DEF Parsed, Parses
    <3>1. scan[c] = NoCopy /\ scan[d] # NoCopy /\ scan[d] = Parsed(d) /\ c \in Comics
      BY <2>1, <2>4, <3>a DEF Existing
    <3>2. Matches(c, d, scan)
      <4>1. \A x \in Existing : Fingerprint(Loaded(x)) = Fingerprint(Loaded(c)) => x = c
        BY <2>4 DEF AloneWithFingerprint
      <4>2. \A x \in Comics \ Existing :
              scan[x] # NoCopy /\ Fingerprint(scan[x]) = Fingerprint(scan[d]) => x = d
        BY <2>1, <2>4, <3>1 DEF AloneWithFingerprint
      <4>3. QED
        BY <2>4, <3>1, <4>1, <4>2 DEF Matches
    <3>3. QED
      BY <1>2, <3>1, <3>2 DEF PlanMade
  <2>5. ASSUME NEW p \in j.moves
        PROVE  p[1] # p[2] /\ j.got[p[2]].locked = meta[p[1]].locked
    <3>1. /\ p[1] \in Existing /\ p[2] \notin Existing
          /\ j.got[p[2]] = Merged(scan[p[2]], Loaded(p[1]), scan[p[2]].pages)
      BY <1>2 DEF PlanMade
    <3>2. \A x, n, y : Merged(x, y, n).locked = y.locked
      BY DEF Merged
    <3>3. Loaded(p[1]).locked = meta[p[1]].locked
      BY DEF Loaded
    <3>4. QED
      BY <3>1, <3>2, <3>3
  <2>6. QED
    BY <2>3, <2>4, <2>5 DEF PlanTrue
<1>7. t \in quiet => PlanTrue(job[t])'
  <2>1. /\ Existing' = Existing
        /\ \A c \in Comics : Parsed(c)' = Parsed(c) /\ (Parses(c)' <=> Parses(c))
        /\ \A c \in Comics : Loaded(c)' = Loaded(c)
    BY <1>3 DEF Existing, Parsed, Parses, Loaded
  <2>2. \A c \in Existing, d \in Comics : AloneWithFingerprint(c, d)' <=> AloneWithFingerprint(c, d)
    BY <1>3, <2>1 DEF AloneWithFingerprint, Fingerprint, Existing
  <2>3. \A c \in Comics : /\ Fingerprint(Loaded(c))' = Fingerprint(Loaded(c))
                          /\ Fingerprint(Parsed(c))' = Fingerprint(Parsed(c))
    BY <2>1 DEF Fingerprint
  <2>4. job'[t] = j /\ disk' = disk /\ meta' = meta /\ raced' = raced /\ Existing \subseteq Comics
    BY <1>1, <1>3 DEF Existing
  <2>5. QED
    BY <1>6, <2>1, <2>2, <2>3, <2>4 DEF PlanTrue, Left
<1>8. job'[t].at = "planned" /\ quiet' = quiet /\ quiet \subseteq Tasks
  BY <1>1, <1>2, <1>3 DEF TypeInv, TypeOK, ObservedTypeOK
<1>9. QED
  BY <1>4, <1>7, <1>8 DEF SyncTrue

\* What its user does to one comic keeps the promises of the copies that are out.
LEMMA EditUndisturbed ==
  ASSUME TypeInv, NEW c \in Comics, User(c)
  PROVE  Undisturbed
<1>1. CASE OpenScreen(c) \/ CloseScreen(c) \/ RecordReading(c)
  <2>1. UNCHANGED <<disk, rows, meta, job, quiet, raced>>
    BY <1>1 DEF OpenScreen, CloseScreen, RecordReading, db, observed
  <2>2. QED
    BY <2>1 DEF Undisturbed, Existing, Loaded, Fingerprint
<1>2. ASSUME NEW m \in Meta, meta[c] # NoMeta, m.pages = meta[c].pages,
             meta' = [meta EXCEPT ![c] = m],
             raced' = IF Outstanding(c) THEN raced \cup {c} ELSE raced \ {c},
             UNCHANGED <<disk, rows, job, quiet>>
      PROVE  Undisturbed
  <2>1. \A d \in Comics : meta'[d] = IF d = c THEN m ELSE meta[d]
    BY <1>2 DEF TypeInv, TypeOK, DatabaseTypeOK
  <2>2. m # NoMeta
    BY StoreAssumption
  <2>3. Existing' = Existing
    BY <1>2, <2>1, <2>2 DEF Existing
  <2>4. \A d \in Comics : meta'[d].pages = meta[d].pages
    BY <1>2, <2>1
  <2>5. \A d \in Existing : Fingerprint(Loaded(d))' = Fingerprint(Loaded(d))
    BY <1>2, <2>4 DEF Fingerprint, Loaded, Existing
  <2>6. \A d \in Comics : d \notin raced' /\ Outstanding(d) =>
          d \notin raced /\ meta'[d].locked = meta[d].locked
    BY <1>2, <2>1
  <2>7. QED
    BY <1>2, <2>3, <2>5, <2>6 DEF Undisturbed
<1>3. ASSUME NEW v \in Titles, EditTitle(c, v) PROVE Undisturbed
  <2>1. meta[c] # NoMeta /\ meta[c] \in Meta
    BY <1>3 DEF EditTitle, TypeInv, TypeOK, DatabaseTypeOK
  <2>2. PICK m : m = [meta[c] EXCEPT !.title = Decoded[v], !.locked = TRUE]
    OBVIOUS
  <2>3. m \in Meta /\ m.pages = meta[c].pages
    BY <2>1, <2>2, StoreAssumption DEF Meta
  <2>4. QED
    BY <1>2, <1>3, <2>1, <2>2, <2>3 DEF EditTitle
<1>4. ASSUME NEW b \in BOOLEAN, SetLock(c, b) PROVE Undisturbed
  <2>1. meta[c] # NoMeta /\ meta[c] \in Meta
    BY <1>4 DEF SetLock, TypeInv, TypeOK, DatabaseTypeOK
  <2>2. PICK m : m = [meta[c] EXCEPT !.locked = b]
    OBVIOUS
  <2>3. m \in Meta /\ m.pages = meta[c].pages
    BY <2>1, <2>2 DEF Meta
  <2>4. QED
    BY <1>2, <1>4, <2>1, <2>2, <2>3 DEF SetLock
<1>5. QED
  BY <1>1, <1>3, <1>4 DEF User

\* Every step keeps what an undisturbed sync knows.
LEMMA NextSync == TypeInv /\ SingleWriter /\ SyncTrue /\ [Next]_vars => SyncTrue'
<1> SUFFICES ASSUME TypeInv, SingleWriter, SyncTrue, [Next]_vars PROVE SyncTrue'
  OBVIOUS
<1>0. /\ SingleWriter' /\ quiet \subseteq Tasks
      /\ \A t \in Tasks : job[t] \in Job
  BY NextExclusion DEF TypeInv, TypeOK, TaskTypeOK, ObservedTypeOK
<1>1. ASSUME NEW t \in Tasks, NEW j, Acquire(t, j), j.at \notin {"idle", "scan", "planned"},
             quiet' = quiet
      PROVE  SyncTrue'
  BY <1>0, <1>1, OtherThanSync DEF Acquire
<1>2. ASSUME NEW t \in Tasks, Release(t), job[t].at # "idle", quiet' = quiet
      PROVE  SyncTrue'
  <2>1. IdleJob.at = "idle"
    BY DEF IdleJob
  <2>2. QED
    BY <1>0, <1>2, <2>1, OtherThanSync DEF Release
<1>3. ASSUME NEW t \in Tasks, NEW j, Advance(t, j), j.at \notin {"idle", "scan", "planned"},
             quiet' = quiet
      PROVE  SyncTrue'
  BY <1>0, <1>3, OtherThanSync DEF Advance
<1>4. ASSUME NEW t \in Tasks, Start(t) PROVE SyncTrue'
  <2>1. CASE StartSync(t)
    BY <2>1, StartSyncTrue
  <2>2. ASSUME NEW C \in SUBSET Comics, StartRefresh(t, C) PROVE SyncTrue'
    <3>1. [IdleJob EXCEPT !.at = "refreshing", !.todo = C].at = "refreshing"
      BY DEF IdleJob
    <3>2. QED
      BY <1>1, <2>2, <3>1 DEF StartRefresh, observed
  <2>3. ASSUME NEW C \in SUBSET Comics, StartPurge(t, C) PROVE SyncTrue'
    <3>1. [IdleJob EXCEPT !.at = "purging", !.todo = {c \in C : InTrash(c)}].at = "purging"
      BY DEF IdleJob
    <3>2. QED
      BY <1>1, <2>3, <3>1 DEF StartPurge, observed
  <2>4. QED
    BY <1>4, <2>1, <2>2, <2>3 DEF Start
<1>5. ASSUME NEW t \in Tasks, Progress(t) PROVE SyncTrue'
  <2>1. ASSUME NEW c \in Comics, ScanPath(t, c) PROVE SyncTrue'
    BY <2>1, ScanPathTrue
  <2>2. CASE BuildPlan(t)
    BY <2>2, BuildPlanTrue
  <2>3. CASE ApplyPlan(t)
    <3>1. [IdleJob EXCEPT !.at = "applied"].at = "applied"
      BY DEF IdleJob
    <3>2. QED
      BY <1>3, <2>3, <3>1 DEF ApplyPlan
  <2>4. ASSUME NEW c \in Comics, RefreshParse(t, c) PROVE SyncTrue'
    <3>1. PICK x : Advance(t, [job[t] EXCEPT !.at = "merged", !.on = c,
                                             !.todo = @ \ {c}, !.got[c] = x])
      BY <2>4 DEF RefreshParse
    <3>2. [job[t] EXCEPT !.at = "merged", !.on = c, !.todo = @ \ {c}, !.got[c] = x].at = "merged"
      BY <1>0 DEF Job
    <3>3. QED
      BY <1>3, <2>4, <3>1, <3>2 DEF RefreshParse, observed
  <2>5. ASSUME NEW c \in Comics, RefreshSkip(t, c) \/ PurgeSkip(t, c) PROVE SyncTrue'
    <3>1. /\ [job[t] EXCEPT !.todo = @ \ {c}].at = job[t].at
          /\ job[t].at \in {"refreshing", "purging"}
      BY <1>0, <2>5 DEF Job, RefreshSkip, PurgeSkip
    <3>2. QED
      BY <1>3, <2>5, <3>1 DEF RefreshSkip, PurgeSkip, observed
  <2>6. CASE RefreshWrite(t) \/ RefreshWriteFails(t)
    <3>1. [IdleJob EXCEPT !.at = "refreshing", !.todo = job[t].todo].at = "refreshing"
      BY DEF IdleJob
    <3>2. QED
      BY <1>3, <2>6, <3>1 DEF RefreshWrite, RefreshWriteFails, observed
  <2>7. ASSUME NEW c \in Comics, PurgeErase(t, c) PROVE SyncTrue'
    <3>1. [job[t] EXCEPT !.at = "erased", !.on = c, !.todo = @ \ {c}].at = "erased"
      BY <1>0 DEF Job
    <3>2. QED
      BY <1>3, <2>7, <3>1 DEF PurgeErase
  <2>8. CASE PurgeDelete(t) \/ PurgeDeleteFails(t)
    <3>1. [job[t] EXCEPT !.at = "purging", !.on = NoComic].at = "purging"
      BY <1>0 DEF Job
    <3>2. QED
      BY <1>3, <2>8, <3>1 DEF PurgeDelete, PurgeDeleteFails, observed
  <2>9. CASE ApplyRejected(t) \/ FinishSync(t) \/ FinishRefresh(t) \/ FinishPurge(t)
    BY <1>2, <2>9 DEF ApplyRejected, FinishSync, FinishRefresh, FinishPurge, observed
  <2>10. QED
    BY <1>5, <2>1, <2>2, <2>3, <2>4, <2>5, <2>6, <2>7, <2>8, <2>9 DEF Progress
<1>6. ASSUME NEW t \in Tasks, Abort(t) PROVE SyncTrue'
  BY <1>2, <1>6 DEF Abort, observed
<1>7. ASSUME NEW C \in SUBSET Comics, Trash(C) \/ Restore(C) PROVE SyncTrue'
  <2>1. \A t \in Tasks : job'[t].at = "idle"
    BY <1>7 DEF Trash, Restore, Mark, SingleWriter
  <2>2. quiet' \subseteq Tasks
    BY <1>0, <1>7 DEF Trash, Restore, Mark, observed
  <2>3. QED
    BY <2>1, <2>2, NoSync
<1>8. ASSUME NEW c \in Comics, User(c) PROVE SyncTrue'
  BY <1>8, EditUndisturbed, SyncStays
<1>9. ASSUME UNCHANGED <<disk, rows, meta, job, quiet, raced>> PROVE SyncTrue'
  <2>1. Undisturbed
    BY <1>9 DEF Undisturbed, Existing, Loaded, Fingerprint
  <2>2. QED
    BY <2>1, SyncStays
<1>10. ASSUME quiet' = {} PROVE SyncTrue'
  BY <1>10, NoSync
<1>11. ASSUME NEW w \in Readers, WritebackStep(w) PROVE SyncTrue'
  BY <1>9, <1>10, <1>11
  DEF WritebackStep, WritebackParse, WritebackRow, WritebackMeta, WritebackFails, db, observed
<1>12. CASE Environment
  BY <1>10, <1>12 DEF Environment, PutFile, MoveFile, Crash
<1>13. CASE UNCHANGED vars
  BY <1>9, <1>13 DEF vars
<1>14. QED
  BY <1>4, <1>5, <1>6, <1>7, <1>8, <1>11, <1>12, <1>13 DEF Next

\* Every step keeps home at places that have a file.
LEMMA NextHomes == TypeInv /\ HomesTrue /\ [Next]_vars => HomesTrue'
<1> SUFFICES ASSUME TypeInv, HomesTrue, [Next]_vars PROVE HomesTrue'
  OBVIOUS
<1>0. /\ disk \in [Comics -> Resources \cup {NoFile}]
      /\ home \in [Comics -> Comics \cup {NoComic}]
  BY DEF TypeInv, TypeOK, DatabaseTypeOK, ObservedTypeOK
<1>1. ASSUME UNCHANGED <<disk, home>> PROVE HomesTrue'
  BY <1>1 DEF HomesTrue
<1>2. ASSUME NEW c \in Comics, NEW x, disk' = [disk EXCEPT ![c] = x],
             home' = [d \in Comics |-> IF home[d] = c THEN NoComic ELSE home[d]]
      PROVE  HomesTrue'
  BY <1>0, <1>2 DEF HomesTrue
<1>3. ASSUME NEW t \in Tasks, ApplyPlan(t) PROVE HomesTrue'
  BY <1>3 DEF ApplyPlan, NewHome, HomesTrue
<1>4. ASSUME NEW c \in Comics, NEW d \in Comics, MoveFile(c, d) PROVE HomesTrue'
  <2>1. /\ c # d /\ disk[c] # NoFile /\ disk[d] = NoFile
        /\ \A x \in Comics : disk'[x] = IF x = d THEN disk[c] ELSE IF x = c THEN NoFile ELSE disk[x]
        /\ \A x \in Comics : home'[x] = IF home[x] = c THEN d ELSE home[x]
    BY <1>0, <1>4 DEF MoveFile, Moved
  <2>2. QED
    BY <1>0, <2>1 DEF HomesTrue
<1>5. ASSUME NEW t \in Tasks, Start(t) \/ Progress(t) \/ Abort(t) PROVE HomesTrue'
  BY <1>1, <1>2, <1>3, <1>5
  DEF Start, StartSync, StartRefresh, StartPurge, Progress, ScanPath, BuildPlan,
      ApplyRejected, FinishSync, RefreshParse, RefreshSkip, RefreshWrite, RefreshWriteFails,
      FinishRefresh, PurgeErase, PurgeSkip, PurgeDelete, PurgeDeleteFails, FinishPurge, Abort,
      observed
<1>6. ASSUME NEW C \in SUBSET Comics, Trash(C) \/ Restore(C) PROVE HomesTrue'
  BY <1>1, <1>6 DEF Trash, Restore, Mark, observed
<1>7. ASSUME NEW c \in Comics, User(c) PROVE HomesTrue'
  BY <1>1, <1>7 DEF User, EditTitle, SetLock, OpenScreen, CloseScreen, RecordReading, observed
<1>8. ASSUME NEW w \in Readers, WritebackStep(w) PROVE HomesTrue'
  BY <1>1, <1>8
  DEF WritebackStep, WritebackParse, WritebackRow, WritebackMeta, WritebackFails, observed
<1>9. CASE Environment
  BY <1>1, <1>2, <1>4, <1>9 DEF Environment, PutFile, Moved, Crash
<1>10. CASE UNCHANGED vars
  BY <1>1, <1>10 DEF vars
<1>11. QED
  BY <1>5, <1>6, <1>7, <1>8, <1>9, <1>10 DEF Next

\* A sync that has just committed was about to apply its plan.
LEMMA AppliedStep ==
  ASSUME TypeInv, Next, NEW t \in Tasks, job[t].at = "planned", job'[t].at = "applied"
  PROVE  ApplyPlan(t)
<1> SUFFICES ASSUME ~ApplyPlan(t) PROVE FALSE
  OBVIOUS
<1>0. (\A u \in Tasks : job[u] \in Job) /\ job \in [Tasks -> Job]
  BY DEF TypeInv, TypeOK, TaskTypeOK
<1>1. ASSUME NEW u \in Tasks, NEW j, job' = [job EXCEPT ![u] = j], j.at # "applied" \/ u # t
      PROVE  FALSE
  BY <1>0, <1>1
<1>2. ASSUME NEW u \in Tasks, Release(u) PROVE FALSE
  BY <1>1, <1>2 DEF Release, IdleJob
<1>3. ASSUME NEW u \in Tasks, Start(u) PROVE FALSE
  <2>1. PICK j : Acquire(u, j)
    BY <1>3 DEF Start, StartSync, StartRefresh, StartPurge
  <2>2. job[u].at = "idle" /\ job' = [job EXCEPT ![u] = j]
    BY <2>1 DEF Acquire
  <2>3. QED
    BY <1>1, <2>2
<1>4. ASSUME NEW u \in Tasks, Progress(u) PROVE FALSE
  <2>1. CASE BuildPlan(u)
    <3>1. job[u].at = "scan"
      BY <2>1 DEF BuildPlan
    <3>2. PICK j : job' = [job EXCEPT ![u] = j]
      BY <2>1 DEF BuildPlan, Advance
    <3>3. QED
      BY <1>1, <3>1, <3>2
  <2>2. CASE ApplyPlan(u)
    <3>1. PICK j : job' = [job EXCEPT ![u] = j]
      BY <2>2 DEF ApplyPlan, Advance
    <3>2. QED
      BY <1>1, <2>2, <3>1
  <2>3. CASE ApplyRejected(u) \/ FinishSync(u) \/ FinishRefresh(u) \/ FinishPurge(u)
    BY <1>2, <2>3 DEF ApplyRejected, FinishSync, FinishRefresh, FinishPurge
  <2>4. CASE \/ \E c \in Comics : \/ ScanPath(u, c) \/ RefreshParse(u, c) \/ RefreshSkip(u, c)
                                  \/ PurgeErase(u, c) \/ PurgeSkip(u, c)
             \/ RefreshWrite(u) \/ RefreshWriteFails(u) \/ PurgeDelete(u) \/ PurgeDeleteFails(u)
    <3>1. job[u].at # "planned"
      BY <2>4 DEF ScanPath, RefreshParse, RefreshSkip, PurgeErase, PurgeSkip, RefreshWrite,
                  RefreshWriteFails, PurgeDelete, PurgeDeleteFails
    <3>2. PICK j : job' = [job EXCEPT ![u] = j]
      BY <2>4 DEF ScanPath, RefreshParse, RefreshSkip, PurgeErase, PurgeSkip, RefreshWrite,
                  RefreshWriteFails, PurgeDelete, PurgeDeleteFails, Advance
    <3>3. QED
      BY <1>1, <3>1, <3>2
  <2>5. QED
    BY <1>4, <2>1, <2>2, <2>3, <2>4 DEF Progress
<1>5. ASSUME NEW u \in Tasks, Abort(u) PROVE FALSE
  BY <1>2, <1>5 DEF Abort
<1>6. job' # job
  OBVIOUS
<1>7. ASSUME NEW C \in SUBSET Comics, Trash(C) \/ Restore(C) PROVE FALSE
  BY <1>6, <1>7 DEF Trash, Restore, Mark
<1>8. ASSUME NEW c \in Comics, User(c) PROVE FALSE
  BY <1>6, <1>8 DEF User, EditTitle, SetLock, OpenScreen, CloseScreen, RecordReading
<1>9. ASSUME NEW w \in Readers, WritebackStep(w) PROVE FALSE
  BY <1>6, <1>9 DEF WritebackStep, WritebackParse, WritebackRow, WritebackMeta, WritebackFails
<1>10. CASE Environment
  BY <1>6, <1>10 DEF Environment, PutFile, MoveFile, Crash, IdleJob
<1>11. QED
  BY <1>3, <1>4, <1>5, <1>7, <1>8, <1>9, <1>10 DEF Next

\* What a commit writes to a place for which its plan has a copy with pages, and
\* what it leaves at one for which it has none.
LEMMA Committed ==
  ASSUME TypeInv, NEW t \in Tasks, ApplyPlan(t), NEW c \in Comics
  PROVE  /\ Writes(job[t].got[c]) =>
              /\ c \in Existing'
              /\ rows'[c].size = job[t].got[c].size
              /\ rows'[c].trashed = (/\ rows[Source(job[t], c)] # NoRow
                                     /\ rows[Source(job[t], c)].trashed)
              /\ meta'[c].locked = job[t].got[c].locked
         /\ job[t].got[c] = NoCopy /\ (c \in Existing => c \in Left(job[t])) => c \notin Existing'
<1>1. PICK j, f, x : j = job[t] /\ f = Source(j, c) /\ x = j.got[c]
  OBVIOUS
<1>2. j \in Job /\ x \in Copy \cup {NoCopy} /\ f \in Comics
  <2>1. j \in Job
    BY <1>1 DEF TypeInv, TypeOK, TaskTypeOK
  <2>2. x \in Copy \cup {NoCopy}
    BY <1>1, <2>1 DEF Job, Copies
  <2>3. f \in Comics
    BY <1>1 DEF Source
  <2>4. QED
    BY <2>1, <2>2, <2>3
<1>3. ASSUME Writes(x)
      PROVE  /\ c \in Existing'
             /\ rows'[c].size = x.size
             /\ rows'[c].trashed = (rows[f] # NoRow /\ rows[f].trashed)
             /\ meta'[c].locked = x.locked
  <2>1. x \in Copy /\ x.pages > 0
    BY <1>2, <1>3 DEF Writes
  <2>2. PICK r : r = UpsertRow(c, x)
    OBVIOUS
  <2>3. r \in Row /\ r.size = x.size /\ UpsertMeta(x) \in Meta
    BY <2>1, <2>2, UpsertType DEF UpsertRow
  <2>4. /\ rows'[c] = [r EXCEPT !.trashed = rows[f] # NoRow /\ rows[f].trashed]
        /\ meta'[c] = UpsertMeta(x)
    BY <1>1, <1>3, <2>2 DEF ApplyPlan
  <2>5. (rows[f] # NoRow /\ rows[f].trashed) \in BOOLEAN
    OBVIOUS
  <2>6. PICK b \in BOOLEAN : b = (rows[f] # NoRow /\ rows[f].trashed)
    BY <2>5
  <2>7. rows'[c] = [r EXCEPT !.trashed = b]
    BY <2>4, <2>6
  <2>8. rows'[c] \in Row /\ rows'[c].size = x.size /\ rows'[c].trashed = b
    BY <2>3, <2>7 DEF Row
  <2>9. meta'[c] \in Meta /\ meta'[c].locked = x.locked
    BY <2>3, <2>4 DEF UpsertMeta
  <2>10. c \in Existing'
    BY <2>8, <2>9, StoreAssumption DEF Existing
  <2>11. QED
    BY <2>6, <2>8, <2>9, <2>10
<1>4. ASSUME x = NoCopy, c \in Existing => c \in Left(j) PROVE c \notin Existing'
  <2>1. /\ rows'[c] = IF c \in Left(j) THEN NoRow ELSE rows[c]
        /\ meta'[c] = IF c \in Left(j) THEN NoMeta ELSE meta[c]
    BY <1>1, <1>4 DEF ApplyPlan, Writes
  <2>2. QED
    BY <1>4, <2>1 DEF Existing
<1>5. QED
  BY <1>1, <1>3, <1>4

\* The invariants the two promises of an undisturbed sync rest on.
THEOREM SpecMirror == Spec => [](SyncTrue /\ HomesTrue)
<1>1. Init => SyncTrue /\ HomesTrue
  BY DEF Init, SyncTrue, HomesTrue
<1>2. QED
  BY <1>1, NextSync, NextHomes, SpecType, SpecSingleWriter, PTL DEF Spec

\* When nothing disturbed a sync from its start to its commit, the library has
\* exactly the comics whose files exist, in the sizes they have.
THEOREM SpecSyncMirrorsDisk == Spec => SyncMirrorsDisk
<1> DEFINE Mirrored(t, c) == /\ c \in Existing' => disk[c] # NoFile
                             /\ disk[c] # NoFile /\ disk[c].pages > 0
                                  => c \in Existing' /\ rows'[c].size = disk[c].size
           Mirrors == \A t \in quiet : job[t].at = "planned" /\ job'[t].at = "applied" =>
                        \A c \in Comics : Mirrored(t, c)
<1>1. TypeInv /\ SyncTrue /\ [Next]_vars => [Mirrors]_vars
  <2> SUFFICES ASSUME TypeInv, SyncTrue, Next, NEW t \in quiet,
                      job[t].at = "planned", job'[t].at = "applied", NEW c \in Comics
               PROVE  Mirrored(t, c)
    OBVIOUS
  <2>1. t \in Tasks
    BY DEF TypeInv, TypeOK, ObservedTypeOK
  <2>2. ApplyPlan(t)
    BY <2>1, AppliedStep
  <2>3. PlanTrue(job[t])
    BY DEF SyncTrue
  <2>4. /\ Writes(job[t].got[c]) => c \in Existing' /\ rows'[c].size = job[t].got[c].size
        /\ job[t].got[c] = NoCopy /\ (c \in Existing => c \in Left(job[t])) => c \notin Existing'
    BY <2>1, <2>2, Committed
  <2>5. QED
    BY <2>3, <2>4 DEF PlanTrue, Writes, Parses
<1>2. QED
  BY <1>1, SpecType, SpecMirror, PTL DEF Spec, SyncMirrorsDisk

\* An undisturbed sync finds a moved file again: its comic keeps trash flag, lock
\* and reading history at the new place.
THEOREM SpecMovedComicKept == Spec => MovedComicKept
<1> DEFINE Moves(t, c, d) ==
             /\ c # d /\ home[c] = d /\ disk[c] = NoFile /\ rows[d] = NoRow
             /\ Fingerprint(Loaded(c)) = Fingerprint(Parsed(d)) /\ AloneWithFingerprint(c, d)
           Found(t, c, d) ==
             /\ d \in Existing' /\ rows'[d].trashed = rows[c].trashed
             /\ c \notin raced => meta'[d].locked = meta[c].locked
             /\ c \in history => d \in history' /\ c \notin history'
           Kept == \A t \in quiet : job[t].at = "planned" /\ job'[t].at = "applied" =>
                     \A c \in Existing, d \in Comics : Moves(t, c, d) => Found(t, c, d)
<1>1. TypeInv /\ SyncTrue /\ HomesTrue /\ TitleInv /\ [Next]_vars => [Kept]_vars
  <2> SUFFICES ASSUME TypeInv, SyncTrue, HomesTrue, TitleInv, Next, NEW t \in quiet,
                      job[t].at = "planned", job'[t].at = "applied",
                      NEW c \in Existing, NEW d \in Comics, Moves(t, c, d)
               PROVE  Found(t, c, d)
    OBVIOUS
  <2>1. t \in Tasks /\ c \in Comics /\ rows[c] \in Row /\ rows[c] # NoRow
    BY LoadedType DEF TypeInv, TypeOK, ObservedTypeOK, Existing
  <2>2. PICK j : j = job[t]
    OBVIOUS
  <2>3. ApplyPlan(t) /\ PlanTrue(j) /\ MovesOne(j)
    BY <2>1, <2>2, AppliedStep DEF SyncTrue, TitleInv, JobsCarry, JobCarries
  <2>4. disk[d] # NoFile /\ d \notin Existing
    BY <2>1, StoreAssumption DEF HomesTrue, Existing
  <2>5. <<c, d>> \in j.moves
    BY <2>3, <2>4 DEF PlanTrue
  <2>6. Source(j, d) = c
    <3>1. \A f \in Comics : <<f, d>> \in j.moves => f = c
      BY <2>3, <2>5 DEF MovesOne
    <3>2. QED
      BY <2>1, <2>5, <3>1 DEF Source
  <2>7. Writes(j.got[d])
    BY <2>3, <2>5 DEF MovesOne
  <2>8. /\ d \in Existing' /\ rows'[d].trashed = rows[c].trashed
        /\ meta'[d].locked = j.got[d].locked
    <3>1. rows'[d].trashed = (rows[c] # NoRow /\ rows[c].trashed)
      <4>1. ApplyPlan(t) /\ Writes(job[t].got[d]) /\ Source(job[t], d) = c
        BY <2>2, <2>3, <2>6, <2>7
      <4>2. Writes(job[t].got[d]) =>
              rows'[d].trashed = (/\ rows[Source(job[t], d)] # NoRow
                                  /\ rows[Source(job[t], d)].trashed)
        BY <2>1, <4>1, Committed
      <4>3. QED
        BY <4>1, <4>2
    <3>2. rows[c].trashed \in BOOLEAN
      BY <2>1 DEF Row
    <3>3. d \in Existing' /\ meta'[d].locked = j.got[d].locked
      BY <2>1, <2>2, <2>3, <2>7, Committed
    <3>4. QED
      BY <2>1, <3>1, <3>2, <3>3
  <2>9. c \notin raced => j.got[d].locked = meta[c].locked
    BY <2>3, <2>5 DEF PlanTrue
  <2>10. c \in history => d \in history' /\ c \notin history'
    <3>1. c \in Left(j)
      BY <2>1, <2>5 DEF Left
    <3>2. \A f \in Comics : <<f, c>> \notin j.moves
      BY <2>1, <2>2, <2>3 DEF ApplyPlan, Blocked
    <3>3. Source(j, c) = c
      BY <3>2 DEF Source
    <3>4. history' = {x \in Comics : \/ x \in history \ Left(j)
                                     \/ Source(j, x) # x /\ Source(j, x) \in history}
      BY <2>2, <2>3 DEF ApplyPlan
    <3>5. QED
      BY <2>6, <3>1, <3>3, <3>4
  <2>11. QED
    BY <2>8, <2>9, <2>10
<1>2. Spec => []TitleInv
  BY SpecTitles
<1>3. QED
  BY <1>1, <1>2, SpecType, SpecMirror, PTL DEF Spec, MovedComicKept
=============================================================================
