------------------------ MODULE LibraryRoots_proofs -------------------------
(***************************************************************************)
(* Proofs about LibraryRoots for all sets of roots and files and all       *)
(* bounds: the types, that no two libraries share a root, that local roots *)
(* are disjoint up to a race between two checks, that every comic has a    *)
(* library up to a deletion during its sync, that a sync changes comics of *)
(* its root only and removes none that it could have seen, that it keeps   *)
(* what the user edited, and that a change of a root loses no comic.       *)
(***************************************************************************)
EXTENDS LibraryRoots, TLAPS

\* A path is never the empty one that stands for "no root".
LEMMA PathsNotNone == None \notin Root
  BY RootsAssumption DEF Root, None

\* A root that is no library's gets written: the types stay.
LEMMA SetRootType ==
  ASSUME TypeOK, NEW i \in Root, NEW r \in Root \cup {None},
         i \in LocalRoot => r \in LocalRoot \cup {None},
         r \in LocalRoot => i \in LocalRoot,
         root' = [root EXCEPT ![i] = r]
  PROVE  /\ root' \in [Root -> Root \cup {None}]
         /\ \A k \in Root : root'[k] \in LocalRoot => k \in LocalRoot
         /\ \A k \in LocalRoot : root'[k] \in LocalRoot \cup {None}
  BY DEF TypeOK, Root

\* What a sync or an update remembers of the local roots.
LEMMA RootsOfType == TypeOK => RootsOf \subseteq LocalRoot \X LocalRoot
  BY PathsNotNone DEF TypeOK, RootsOf, LocalLibraries, Libraries, Root

LEMMA RootsOfMember ==
  \A k \in LocalLibraries : \E p \in RootsOf : p[1] = k /\ p[2] = root[k]
<1> SUFFICES ASSUME NEW k \in LocalLibraries
             PROVE  \E p \in RootsOf : p[1] = k /\ p[2] = root[k]
  OBVIOUS
<1>1. <<k, root[k]>> \in RootsOf
  BY DEF RootsOf
<1>2. QED
  BY <1>1

LEMMA IdleType == Idle \in Job /\ Idle.pc = "idle"
  BY DEF Idle, Job

LEMMA ContinueType ==
  ASSUME NEW todo \in SUBSET Target
  PROVE  Continue(todo) \in Job /\ Continue(todo).pc \in {"idle", "next"}
  BY IdleType DEF Continue, Job, Idle

LEMMA NoRowType == NoRow \in Row
  BY DEF Row

\* What a scan finds.
Listing ==
  {f \in disk : Head(job.at.root) \in online /\ Covers(job.at.root, f) /\ ~ Spared(f) /\ Yields(job.at, f)}

\* The types hold in every state.
THEOREM TypeCorrect == Spec => []TypeOK
<1>1. Init => TypeOK
  <2> SUFFICES ASSUME Init PROVE TypeOK
    OBVIOUS
  <2>1. root \in [Root -> Root \cup {None}] /\ \A i \in Root : root[i] = None
    BY DEF Init
  <2>2. \A i \in Root : root[i] \notin LocalRoot
    BY <2>1, PathsNotNone DEF Root
  <2>3. row \in [File -> Row]
    BY NoRowType DEF Init
  <2>4. job = Idle /\ job \in Job /\ job.pc = "idle"
    BY IdleType DEF Init, Idle
  <2>5. changes \in 0 .. MaxChanges
    BY RootsAssumption DEF Init
  <2>6. QED
    BY <2>1, <2>2, <2>3, <2>4, <2>5 DEF Init, TypeOK, Root
<1>2. TypeOK /\ [Next]_vars => TypeOK'
  <2> SUFFICES ASSUME TypeOK, [Next]_vars PROVE TypeOK'
    OBVIOUS
  <2> USE PathsNotNone
  <2>1. ASSUME NEW r \in LocalRoot, CheckLocal(r) PROVE TypeOK'
    <3>1. [root |-> r, saw |-> RootsOf] \in Creations
      BY RootsOfType DEF Creations
    <3>2. QED
      BY <2>1, <3>1 DEF CheckLocal, TypeOK, env
  <2>2. ASSUME NEW c \in creating, InsertLocal(c) PROVE TypeOK'
    <3>1. c.root \in LocalRoot /\ c.root \in Root
      BY DEF TypeOK, Creations, Root
    <3>2. CASE root' = [root EXCEPT ![c.root] = c.root]
      <4>1. /\ root' \in [Root -> Root \cup {None}]
            /\ \A k \in Root : root'[k] \in LocalRoot => k \in LocalRoot
            /\ \A k \in LocalRoot : root'[k] \in LocalRoot \cup {None}
        BY <3>1, <3>2, SetRootType
      <4>2. QED
        BY <2>2, <3>1, <4>1 DEF InsertLocal, TypeOK, env
    <3>3. CASE root' = root
      BY <2>2, <3>1, <3>3 DEF InsertLocal, TypeOK, env
    <3>4. QED
      BY <2>2, <3>2, <3>3 DEF InsertLocal
  <2>3. ASSUME NEW r \in RemoteRoot, CreateRemote(r) PROVE TypeOK'
    <3>1. r \in Root /\ r \notin LocalRoot
      BY RootsAssumption DEF Root
    <3>2. /\ root' \in [Root -> Root \cup {None}]
          /\ \A k \in Root : root'[k] \in LocalRoot => k \in LocalRoot
          /\ \A k \in LocalRoot : root'[k] \in LocalRoot \cup {None}
      BY <2>3, <3>1, SetRootType DEF CreateRemote
    <3>3. QED
      BY <2>3, <3>2 DEF CreateRemote, TypeOK, env
  <2>4. ASSUME NEW i \in RemoteRoot, NEW r \in RemoteRoot, UpdateRemote(i, r) PROVE TypeOK'
    <3>1. r \in Root /\ i \in Root /\ i \notin LocalRoot /\ r \notin LocalRoot
      BY RootsAssumption DEF Root
    <3>2. /\ root' \in [Root -> Root \cup {None}]
          /\ \A k \in Root : root'[k] \in LocalRoot => k \in LocalRoot
          /\ \A k \in LocalRoot : root'[k] \in LocalRoot \cup {None}
      BY <2>4, <3>1, SetRootType DEF UpdateRemote
    <3>3. QED
      BY <2>4, <3>2 DEF UpdateRemote, TypeOK, env
  <2>5. ASSUME NEW i \in Root, DeleteLibrary(i) PROVE TypeOK'
    <3>1. /\ root' \in [Root -> Root \cup {None}]
          /\ \A k \in Root : root'[k] \in LocalRoot => k \in LocalRoot
          /\ \A k \in LocalRoot : root'[k] \in LocalRoot \cup {None}
      <4>1. None \notin LocalRoot
        BY DEF Root
      <4>2. QED
        BY <2>5, <4>1, SetRootType DEF DeleteLibrary
    <3>2. row' \in [File -> Row]
      BY <2>5, NoRowType DEF DeleteLibrary, WithoutLibrary, TypeOK
    <3>3. torn' \subseteq Root /\ late' \subseteq Root
      BY <2>5 DEF DeleteLibrary, TypeOK
    <3>4. takes' \in [Root -> SUBSET Format]
      BY <2>5 DEF DeleteLibrary, TypeOK
    <3>5. QED
      BY <2>5, <3>1, <3>2, <3>3, <3>4 DEF DeleteLibrary, TypeOK
  <2>6. ASSUME NEW f \in File, Edit(f) PROVE TypeOK'
    <3>1. row[f] \in [lib : Root, edited : BOOLEAN]
      BY <2>6 DEF Edit, TypeOK, Row
    <3>2. row' \in [File -> Row]
      BY <2>6, <3>1 DEF Edit, TypeOK, Row
    <3>3. QED
      BY <2>6, <3>2 DEF Edit, TypeOK, env
  <2>7. ASSUME NEW i \in LocalRoot, NEW r \in LocalRoot, StartRootUpdate(i, r) PROVE TypeOK'
    <3> DEFINE t == [NoTarget EXCEPT !.id = i, !.root = r]
    <3>1. t \in Target /\ t.id = i /\ t.root = r
      BY DEF NoTarget, Target, Root
    <3> HIDE DEF t
    <3>2. job' \in Job /\ job'.pc = "rootUpdate" /\ job'.at = t
      <4>1. RootsOf \in SUBSET (LocalRoot \X LocalRoot)
        BY RootsOfType
      <4>2. job' = [Idle EXCEPT !.pc = "rootUpdate", !.at = t,
                                !.was = RootsOf, !.migrate = Head(r) \in online]
        BY <2>7 DEF StartRootUpdate, t
      <4>3. (Head(r) \in online) \in BOOLEAN
        OBVIOUS
      <4>4. QED
        BY <3>1, <4>1, <4>2, <4>3 DEF Job, Idle
    <3>3. QED
      BY <2>7, <3>1, <3>2 DEF StartRootUpdate, TypeOK, env
  <2>8. ASSUME FinishRootUpdate PROVE TypeOK'
    <3>1. job.at.id \in LocalRoot /\ job.at.root \in LocalRoot /\ job.at.id \in Root
      BY <2>8 DEF FinishRootUpdate, TypeOK, Root
    <3>2. job' \in Job /\ job'.pc = "idle"
      BY <2>8, IdleType DEF FinishRootUpdate
    <3>3. CASE UNCHANGED <<root, row, late>>
      BY <2>8, <3>2, <3>3 DEF FinishRootUpdate, TypeOK, env
    <3>4. CASE ~ UNCHANGED <<root, row, late>>
      <4>1. root' = [root EXCEPT ![job.at.id] = job.at.root]
        BY <2>8, <3>4 DEF FinishRootUpdate
      <4>2. /\ root' \in [Root -> Root \cup {None}]
            /\ \A k \in Root : root'[k] \in LocalRoot => k \in LocalRoot
            /\ \A k \in LocalRoot : root'[k] \in LocalRoot \cup {None}
        BY <3>1, <4>1, SetRootType DEF Root
      <4>3. row' \in [File -> Row]
        <5>1. PICK M \in SUBSET File : \E from : row' = Rekeyed(M, from, job.at.root)
          BY <2>8, <3>4 DEF FinishRootUpdate, RootMoves
        <5>2. PICK from : row' = Rekeyed(M, from, job.at.root)
          BY <5>1
        <5>3. ASSUME NEW g \in File PROVE Rekeyed(M, from, job.at.root)[g] \in Row
          BY NoRowType DEF TypeOK, Rekeyed
        <5>4. QED
          BY <5>2, <5>3 DEF Rekeyed
      <4>4. late' \subseteq Root
        BY <2>8, <3>1, <3>4 DEF FinishRootUpdate, TypeOK
      <4>5. QED
        BY <2>8, <3>2, <4>2, <4>3, <4>4 DEF FinishRootUpdate, TypeOK, env
    <3>5. QED
      BY <3>3, <3>4
  <2>9. ASSUME StartSync PROVE TypeOK'
    <3>1. PICK ids \in {{i} : i \in Libraries} \cup {Libraries} :
            job' = [Idle EXCEPT !.pc = "next",
                                !.todo = {[id |-> i, root |-> root[i], takes |-> takes[i]] : i \in ids}]
      BY <2>9 DEF StartSync
    <3>2. {[id |-> i, root |-> root[i], takes |-> takes[i]] : i \in ids} \subseteq Target
      BY DEF Target, TypeOK, Libraries
    <3>3. job' \in Job /\ job'.pc = "next"
      BY <3>1, <3>2, IdleType DEF Job, Idle
    <3>4. QED
      BY <2>9, <3>3 DEF StartSync, TypeOK, env
  <2>10. ASSUME AbortSync \/ Crash PROVE TypeOK'
    <3>1. job' \in Job /\ job'.pc = "idle"
      BY <2>10, IdleType DEF AbortSync, Crash
    <3>2. QED
      BY <2>10, <3>1 DEF AbortSync, Crash, TypeOK
  <2>11. ASSUME NEW t \in job.todo, Skip(t) PROVE TypeOK'
    <3>1. job' \in Job /\ job'.pc \in {"idle", "next"}
      <4>1. job.todo \ {t} \subseteq Target
        BY DEF TypeOK, Job
      <4>2. QED
        BY <2>11, <4>1, IdleType, ContinueType DEF Skip
    <3>2. QED
      BY <2>11, <3>1 DEF Skip, TypeOK, env
  <2>12. ASSUME NEW t \in job.todo, Probe(t) PROVE TypeOK'
    <3>1. t \in Target
      BY DEF TypeOK, Job
    <3>2. {root[i] : i \in Libraries \ {t.id}} \subseteq Root
      BY DEF TypeOK, Libraries
    <3>3. job' \in Job /\ job'.pc = "scan" /\ job'.at = t
      BY <2>12, <3>1, <3>2 DEF Probe, TypeOK, Job
    <3>4. QED
      BY <2>12, <3>1, <3>3 DEF Probe, TypeOK
  <2>13. ASSUME Scan PROVE TypeOK'
    <3>1. job' \in Job /\ job'.pc = "apply" /\ job'.at = job.at
      <4>1. Listing \subseteq File
        BY DEF TypeOK, Listing
      <4>2. QED
        <5>0. job.known \in SUBSET File /\ {} \in SUBSET File
          BY DEF TypeOK, Job
        <5>1. PICK reused \in SUBSET File :
                job' = [job EXCEPT !.pc = "apply",
                          !.found = Listing,
                          !.prior = {f \in File : row[f].lib = job.at.id},
                          !.known = (IF job.at.id \in LocalRoot THEN reused ELSE {})
                                    \cup {f \in {h \in File : row[h].lib = job.at.id} : row[f].edited}]
          BY <2>13, <5>0 DEF Scan, RowsOf, Listing
        <5>2. (IF job.at.id \in LocalRoot THEN reused ELSE {})
                 \cup {f \in {h \in File : row[h].lib = job.at.id} : row[f].edited} \subseteq File
          OBVIOUS
        <5>3. QED
          BY <4>1, <5>1, <5>2 DEF TypeOK, Job
    <3>2. QED
      BY <2>13, <3>1 DEF Scan, TypeOK, env
  <2>14. ASSUME ScanUnreachable PROVE TypeOK'
    <3>1. job' \in Job /\ job'.pc \in {"idle", "next"}
      BY <2>14, IdleType, ContinueType DEF ScanUnreachable, TypeOK, Job
    <3>2. QED
      BY <2>14, <3>1 DEF ScanUnreachable, TypeOK
  <2>15. ASSUME Apply PROVE TypeOK'
    <3>1. job.at \in Target
      BY <2>15 DEF Apply, TypeOK
    <3>2. job' \in Job /\ job'.pc = "record" /\ job'.at = job.at
      BY <2>15, <3>1 DEF Apply, TypeOK, Job, Idle
    <3>3. ASSUME NEW g \in File PROVE Synced(g) \in Row
      <4>1. ((IF g \in Targets THEN Origin(g) ELSE g) \in job.known) \in BOOLEAN
        OBVIOUS
      <4>2. job.at.id \in Root
        BY <3>1 DEF Target
      <4>3. QED
        BY <4>1, <4>2 DEF Synced, Row
    <3>4. row' \in [File -> Row]
      BY <2>15, <3>3, NoRowType DEF Apply, TypeOK
    <3>5. QED
      BY <2>15, <3>1, <3>2, <3>4 DEF Apply, TypeOK
  <2>16. ASSUME Record PROVE TypeOK'
    <3>1. job' \in Job /\ job'.pc \in {"idle", "next"}
      BY <2>16, IdleType, ContinueType DEF Record, TypeOK, Job
    <3>2. QED
      BY <2>16, <3>1 DEF Record, TypeOK, env
  <2>17. ASSUME NEW f \in File, FileRemoved(f) \/ FileAdded(f) \/ FileRewritten(f) PROVE TypeOK'
    <3>1. changes' \in 0 .. MaxChanges
      BY <2>17, RootsAssumption DEF FileRemoved, FileAdded, FileRewritten, TypeOK
    <3>2. disk' \subseteq File /\ broken' \subseteq disk' /\ absent' \subseteq File /\ unseen' \subseteq File
      BY <2>17 DEF FileRemoved, FileAdded, FileRewritten, TypeOK
    <3>3. QED
      BY <2>17, <3>1, <3>2 DEF FileRemoved, FileAdded, FileRewritten, TypeOK, Unchanged
  <2>18. ASSUME NEW v \in Volume, GoesOffline(v) \/ ComesOnline(v) PROVE TypeOK'
    BY <2>18, RootsAssumption DEF GoesOffline, ComesOnline, TypeOK, Unchanged
  <2>19. CASE UNCHANGED vars
    BY <2>19 DEF vars, TypeOK
  <2>20. ASSUME NEW i \in Root, NEW F \in SUBSET Format, SetFormats(i, F) PROVE TypeOK'
    <3>1. takes' \in [Root -> SUBSET Format] /\ changes' \in 0 .. MaxChanges
      BY <2>20, RootsAssumption DEF SetFormats, TypeOK
    <3>2. QED
      BY <2>20, <3>1 DEF SetFormats, TypeOK
  <2>21. QED
    BY <2>1, <2>2, <2>3, <2>4, <2>5, <2>6, <2>7, <2>8, <2>9, <2>10, <2>11, <2>12, <2>13, <2>14,
       <2>15, <2>16, <2>17, <2>18, <2>19, <2>20 DEF Next
<1>3. QED
  BY <1>1, <1>2, PTL DEF Spec
-----------------------------------------------------------------------------
\* One step of root_path: the unique column keeps roots apart.
LEMMA SetUnique ==
  ASSUME TypeOK, RootsUnique, NEW i \in Root, NEW r,
         \A k \in Root \ {i} : root[k] # r,
         root' = [root EXCEPT ![i] = r]
  PROVE  RootsUnique'
  BY DEF TypeOK, RootsUnique, Libraries

\* No two libraries ever share a root, whoever creates, repoints or moves them.
THEOREM UniqueRoots == Spec => []RootsUnique
<1>1. Init => RootsUnique
  BY DEF Init, RootsUnique, Libraries
<1>2. TypeOK /\ RootsUnique /\ [Next]_vars => RootsUnique'
  <2> SUFFICES ASSUME TypeOK, RootsUnique, [Next]_vars PROVE RootsUnique'
    OBVIOUS
  <2>0. ASSUME UNCHANGED root PROVE RootsUnique'
    BY <2>0 DEF RootsUnique, Libraries
  <2>1. ASSUME NEW c \in creating, InsertLocal(c) PROVE RootsUnique'
    <3>1. c.root \in Root
      BY DEF TypeOK, Creations, Root
    <3>2. CASE root[c.root] = None /\ \A i \in Root : root[i] # c.root
      BY <2>1, <3>1, <3>2, SetUnique DEF InsertLocal, Free
    <3>3. CASE ~ (root[c.root] = None /\ \A i \in Root : root[i] # c.root)
      BY <2>0, <2>1, <3>3 DEF InsertLocal, Free
    <3>4. QED
      BY <3>2, <3>3
  <2>2. ASSUME NEW r \in RemoteRoot, CreateRemote(r) PROVE RootsUnique'
    BY <2>2, SetUnique DEF CreateRemote, Root
  <2>3. ASSUME NEW i \in RemoteRoot, NEW r \in RemoteRoot, UpdateRemote(i, r) PROVE RootsUnique'
    BY <2>3, SetUnique DEF UpdateRemote, Root
  <2>4. ASSUME NEW i \in Root, DeleteLibrary(i) PROVE RootsUnique'
    BY <2>4 DEF DeleteLibrary, RootsUnique, Libraries, TypeOK
  <2>5. ASSUME FinishRootUpdate PROVE RootsUnique'
    <3>1. job.at.id \in Root
      BY <2>5 DEF FinishRootUpdate, TypeOK, Root
    <3>2. CASE UNCHANGED root
      BY <2>0, <3>2
    <3>3. CASE ~ UNCHANGED root
      <4>1. /\ \A k \in Root \ {job.at.id} : root[k] # job.at.root
            /\ root' = [root EXCEPT ![job.at.id] = job.at.root]
        BY <2>5, <3>3 DEF FinishRootUpdate
      <4>2. QED
        BY <3>1, <4>1, SetUnique
    <3>4. QED
      BY <3>2, <3>3
  <2>6. ASSUME Next, ~ FinishRootUpdate,
               ~ \E c \in creating : InsertLocal(c),
               ~ \E r \in RemoteRoot : CreateRemote(r),
               ~ \E i, r \in RemoteRoot : UpdateRemote(i, r),
               ~ \E i \in Root : DeleteLibrary(i)
        PROVE  UNCHANGED root
    BY <2>6 DEF Next, CheckLocal, SetFormats, Edit, StartRootUpdate, StartSync, AbortSync, Skip, Probe,
                Scan, ScanUnreachable, Apply, Record, Crash, FileRemoved, FileAdded, FileRewritten,
                GoesOffline, ComesOnline, Unchanged
  <2>7. QED
    BY <2>0, <2>1, <2>2, <2>3, <2>4, <2>5, <2>6 DEF vars
<1>3. QED
  BY <1>1, <1>2, TypeCorrect, PTL DEF Spec

-----------------------------------------------------------------------------
\* What makes ComicsHaveLibrary inductive: the libraries a sync has in hand
\* exist too, or are known to have been deleted under it.
PendingKnown == Pending \ {None} \subseteq Libraries \cup torn
Owned == ComicsHaveLibrary /\ PendingKnown

\* When libraries are only added, and rows and the job bring no new library,
\* nothing is orphaned.
LEMMA OwnedStays ==
  ASSUME Owned, Libraries \subseteq Libraries', torn \subseteq torn',
         Pending' \subseteq Pending \cup {None} \cup Libraries,
         \A f \in File : row'[f] # NoRow => row'[f].lib \in {row[g].lib : g \in {h \in File : row[h] # NoRow}}
                                                           \cup (Pending \ {None})
  PROVE  Owned'
  BY DEF Owned, ComicsHaveLibrary, PendingKnown

\* Deleting a library takes its comics along, unless a sync has it in hand;
\* what that sync then writes is the only orphan there can be.
THEOREM ComicsOwned == Spec => []ComicsHaveLibrary
<1>1. Init => Owned
  BY DEF Init, Owned, ComicsHaveLibrary, PendingKnown, Pending, Idle, NoTarget
<1>2. TypeOK /\ Owned /\ [Next]_vars => Owned'
  <2> SUFFICES ASSUME TypeOK, Owned, [Next]_vars PROVE Owned'
    OBVIOUS
  <2> DEFINE Owners == {row[g].lib : g \in {h \in File : row[h] # NoRow}}
  <2>0. ASSUME UNCHANGED <<row, torn>>, Libraries \subseteq Libraries',
               Pending' \subseteq Pending \cup {None} \cup Libraries PROVE Owned'
    BY <2>0, OwnedStays
  <2>1. ASSUME UNCHANGED <<row, torn, job>>, Libraries \subseteq Libraries' PROVE Owned'
    BY <2>0, <2>1 DEF Pending
  <2>2. ASSUME UNCHANGED <<row, torn, root>>, job'.at \in {job.at, NoTarget} \cup job.todo,
               job'.todo \subseteq job.todo
        PROVE  Owned'
    <3>1. Pending' \subseteq Pending \cup {None}
      BY <2>2 DEF Pending, NoTarget
    <3>2. QED
      BY <2>0, <2>2, <3>1 DEF Libraries
  <2>3. ASSUME NEW todo \in SUBSET job.todo
        PROVE  Continue(todo).at = NoTarget /\ Continue(todo).todo \subseteq job.todo
               /\ Idle.at = NoTarget /\ Idle.todo \subseteq job.todo
    BY DEF Continue, Idle
  <2>4. ASSUME NEW r \in LocalRoot, CheckLocal(r) PROVE Owned'
    BY <2>1, <2>4 DEF CheckLocal, Libraries
  <2>5. ASSUME NEW c \in creating, InsertLocal(c) PROVE Owned'
    <3>1. c.root \in Root
      BY DEF TypeOK, Creations, Root
    <3>2. Libraries \subseteq Libraries'
      BY <2>5, <3>1, PathsNotNone DEF InsertLocal, Libraries, TypeOK
    <3>3. QED
      BY <2>1, <2>5, <3>2 DEF InsertLocal
  <2>6. ASSUME NEW r \in RemoteRoot, CreateRemote(r) PROVE Owned'
    <3>1. Libraries \subseteq Libraries'
      BY <2>6, PathsNotNone DEF CreateRemote, Libraries, TypeOK, Root
    <3>2. QED
      BY <2>1, <2>6, <3>1 DEF CreateRemote
  <2>7. ASSUME NEW i \in RemoteRoot, NEW r \in RemoteRoot, UpdateRemote(i, r) PROVE Owned'
    <3>1. Libraries \subseteq Libraries'
      BY <2>7, PathsNotNone DEF UpdateRemote, Libraries, TypeOK, Root
    <3>2. QED
      BY <2>1, <2>7, <3>1 DEF UpdateRemote
  <2>8. ASSUME NEW i \in Root, DeleteLibrary(i) PROVE Owned'
    <3>1. Libraries' = Libraries \ {i}
      BY <2>8, PathsNotNone DEF DeleteLibrary, Libraries, TypeOK
    <3>2. \A f \in File : row'[f] # NoRow => row'[f] = row[f] /\ row[f].lib # i
      BY <2>8 DEF DeleteLibrary, WithoutLibrary
    <3>3. torn \ {i} \subseteq torn' /\ (i \in Pending => i \in torn') /\ Pending' = Pending
      BY <2>8 DEF DeleteLibrary, Pending
    <3>4. QED
      BY <3>1, <3>2, <3>3 DEF Owned, ComicsHaveLibrary, PendingKnown
  <2>9. ASSUME NEW f \in File, Edit(f) PROVE Owned'
    <3>1. \A g \in File : row'[g] # NoRow => row[g] # NoRow /\ row'[g].lib = row[g].lib
      BY <2>9 DEF Edit, TypeOK, Row
    <3>2. QED
      BY <2>9, <3>1 DEF Edit, Owned, ComicsHaveLibrary, PendingKnown, Pending, Libraries
  <2>10. ASSUME NEW i \in LocalRoot, NEW r \in LocalRoot, StartRootUpdate(i, r) PROVE Owned'
    <3>1. job'.todo = {} /\ job'.at.id = i /\ i \in Libraries
      BY <2>10 DEF StartRootUpdate, Idle, LocalLibraries, NoTarget
    <3>2. Pending' \subseteq Pending \cup {None} \cup Libraries
      BY <3>1 DEF Pending
    <3>3. QED
      BY <2>0, <2>10, <3>2 DEF StartRootUpdate, Libraries
  <2>11. ASSUME FinishRootUpdate PROVE Owned'
    <3>1. job'.todo \subseteq job.todo /\ job'.at = NoTarget
      BY <2>3, <2>11 DEF FinishRootUpdate
    <3>2. Pending' \subseteq Pending \cup {None}
      BY <3>1 DEF Pending, NoTarget
    <3>3. CASE UNCHANGED <<root, row, late>>
      BY <2>0, <2>11, <3>2, <3>3 DEF FinishRootUpdate, Libraries
    <3>4. CASE ~ UNCHANGED <<root, row, late>>
      <4>1. job.at.id \in Root /\ job.at.root \in Root
        BY <2>11 DEF FinishRootUpdate, TypeOK, Root
      <4>2. root' = [root EXCEPT ![job.at.id] = job.at.root] /\ torn' = torn
        BY <2>11, <3>4 DEF FinishRootUpdate
      <4>3. Libraries \subseteq Libraries'
        BY <4>1, <4>2, PathsNotNone DEF Libraries, TypeOK
      <4>4. PICK M \in SUBSET File : \E from : row' = Rekeyed(M, from, job.at.root)
        BY <2>11, <3>4 DEF FinishRootUpdate, RootMoves
      <4>5. \A f \in File : row'[f] # NoRow => \E g \in File : row'[f] = row[g]
        BY <4>4 DEF Rekeyed
      <4>6. QED
        BY <3>2, <4>2, <4>3, <4>5, OwnedStays
    <3>5. QED
      BY <3>3, <3>4
  <2>12. ASSUME StartSync PROVE Owned'
    <3>1. PICK ids \in {{i} : i \in Libraries} \cup {Libraries} :
            job' = [Idle EXCEPT !.pc = "next",
                                !.todo = {[id |-> i, root |-> root[i], takes |-> takes[i]] : i \in ids}]
      BY <2>12 DEF StartSync
    <3>2. job'.at = NoTarget
          /\ job'.todo = {[id |-> i, root |-> root[i], takes |-> takes[i]] : i \in ids}
      BY <3>1 DEF Idle
    <3>3. Pending' \subseteq Libraries \cup {None}
      BY <3>2 DEF Pending, NoTarget
    <3>4. QED
      BY <2>0, <2>12, <3>3 DEF StartSync, Libraries
  <2>13. ASSUME AbortSync \/ Crash PROVE Owned'
    BY <2>2, <2>3, <2>13 DEF AbortSync, Crash
  <2>14. ASSUME NEW t \in job.todo, Skip(t) PROVE Owned'
    BY <2>2, <2>3, <2>14 DEF Skip
  <2>15. ASSUME NEW t \in job.todo, Probe(t) PROVE Owned'
    <3>1. job'.at = t /\ job'.todo \subseteq job.todo
      BY <2>15 DEF Probe, TypeOK, Job
    <3>2. QED
      BY <2>2, <2>15, <3>1 DEF Probe
  <2>16. ASSUME Scan PROVE Owned'
    <3>1. job'.at = job.at /\ job'.todo \subseteq job.todo
      BY <2>16 DEF Scan, TypeOK, Job
    <3>2. QED
      BY <2>2, <2>16, <3>1 DEF Scan
  <2>17. ASSUME ScanUnreachable \/ Record PROVE Owned'
    BY <2>2, <2>3, <2>17 DEF ScanUnreachable, Record
  <2>18. ASSUME Apply PROVE Owned'
    <3>1. job'.at = job.at /\ job'.todo = job.todo
      BY <2>18 DEF Apply, Idle
    <3>2. job.at \in Target
      BY <2>18 DEF Apply, TypeOK
    <3>3. job.at.id \in Pending \ {None}
      BY <3>2, PathsNotNone DEF Pending, Target
    <3>4. \A f \in File : row'[f] # NoRow => row'[f].lib = job.at.id \/ row'[f] = row[f]
      BY <2>18 DEF Apply, Synced
    <3>5. UNCHANGED <<torn, root>>
      BY <2>18 DEF Apply
    <3>6. QED
      BY <3>1, <3>3, <3>4, <3>5 DEF Owned, ComicsHaveLibrary, PendingKnown, Pending, Libraries
  <2>19. ASSUME NEW f \in File, FileRemoved(f) \/ FileAdded(f) \/ FileRewritten(f) PROVE Owned'
    BY <2>1, <2>19 DEF FileRemoved, FileAdded, FileRewritten, Unchanged, Libraries
  <2>20. ASSUME NEW v \in Volume, GoesOffline(v) \/ ComesOnline(v) PROVE Owned'
    BY <2>1, <2>20 DEF GoesOffline, ComesOnline, Unchanged, Libraries
  <2>21. ASSUME NEW i \in Root, NEW F \in SUBSET Format, SetFormats(i, F) PROVE Owned'
    BY <2>1, <2>21 DEF SetFormats, Libraries
  <2>22. CASE UNCHANGED vars
    BY <2>1, <2>22 DEF vars, Libraries
  <2>23. QED
    BY <2>4, <2>5, <2>6, <2>7, <2>8, <2>9, <2>10, <2>11, <2>12, <2>13, <2>14, <2>15, <2>16,
       <2>17, <2>18, <2>19, <2>20, <2>21, <2>22 DEF Next
<1>3. QED
  BY <1>1, <1>2, TypeCorrect, PTL DEF Spec, Owned
-----------------------------------------------------------------------------
\* What makes RootsDisjoint inductive: a creation and an update of a root had
\* no overlap with the roots that they saw.
CreationsChecked == \A c \in creating : \A p \in c.saw : ~ Overlap(c.root, p[2])
UpdateChecked ==
  job.pc = "rootUpdate" =>
    \A p \in job.was : p[1] # job.at.id => ~ Overlap(job.at.root, p[2])
Disjoint == RootsDisjoint /\ CreationsChecked /\ UpdateChecked

LEMMA OverlapSymmetric == \A r, s : Overlap(r, s) <=> Overlap(s, r)
  BY DEF Overlap

\* A root that overlaps none of the others can be written.
LEMMA DisjointWrite ==
  ASSUME TypeOK, RootsDisjoint, NEW i \in LocalRoot, NEW r \in LocalRoot,
         root' = [root EXCEPT ![i] = r], late \ {i} \subseteq late',
         \/ i \in late'
         \/ \A k \in LocalLibraries \ {i} : ~ Overlap(r, root[k])
  PROVE  RootsDisjoint'
<1> SUFFICES ASSUME NEW k \in LocalLibraries', NEW l \in LocalLibraries', k # l,
                    Overlap(root'[k], root'[l])
             PROVE  {k, l} \cap late' # {}
  BY DEF RootsDisjoint
<1>1. k \in Root /\ l \in Root /\ k \in LocalRoot /\ l \in LocalRoot /\ i \in Root
  BY DEF LocalLibraries, Libraries, Root
<1>2. root'[i] = r /\ \A m \in Root \ {i} : root'[m] = root[m]
  BY <1>1 DEF TypeOK
<1>3. \A m \in {k, l} \ {i} : m \in LocalLibraries
  BY <1>1, <1>2 DEF LocalLibraries, Libraries
<1>4. CASE i \notin {k, l}
  <2>1. {k, l} \cap late # {}
    BY <1>1, <1>2, <1>3, <1>4 DEF RootsDisjoint
  <2>2. QED
    BY <1>4, <2>1
<1>5. CASE i \in {k, l}
  BY <1>1, <1>2, <1>3, <1>5, OverlapSymmetric
<1>6. QED
  BY <1>4, <1>5

\* Local roots stay disjoint, except where one was written on the strength of
\* a check that another write had overtaken.
THEOREM LocalRootsDisjoint == Spec => []RootsDisjoint
<1>1. Init => Disjoint
  BY DEF Init, Disjoint, RootsDisjoint, CreationsChecked, UpdateChecked, Idle, LocalLibraries, Libraries
<1>2. TypeOK /\ Disjoint /\ [Next]_vars => Disjoint'
  <2> SUFFICES ASSUME TypeOK, Disjoint, [Next]_vars PROVE Disjoint'
    OBVIOUS
  <2>1. ASSUME UNCHANGED <<root, late, creating>>, job' = job \/ job'.pc # "rootUpdate"
        PROVE  Disjoint'
    <3>1. RootsDisjoint' /\ CreationsChecked'
      BY <2>1 DEF Disjoint, RootsDisjoint, CreationsChecked, LocalLibraries, Libraries
    <3>2. UpdateChecked'
      BY <2>1 DEF Disjoint, UpdateChecked
    <3>3. QED
      BY <3>1, <3>2 DEF Disjoint
  <2>2. ASSUME NEW r \in LocalRoot, CheckLocal(r) PROVE Disjoint'
    <3>1. \A p \in RootsOf : ~ Overlap(r, p[2])
      <4>1. \A i \in LocalLibraries : i # None
        BY PathsNotNone DEF LocalLibraries, Libraries
      <4>2. QED
        BY <2>2, <4>1 DEF CheckLocal, Nested, RootsOf
    <3>2. CreationsChecked'
      BY <2>2, <3>1 DEF CheckLocal, Disjoint, CreationsChecked
    <3>3. QED
      BY <2>2, <3>2 DEF CheckLocal, Disjoint, RootsDisjoint, UpdateChecked, LocalLibraries, Libraries
  <2>3. ASSUME NEW c \in creating, InsertLocal(c) PROVE Disjoint'
    <3>1. c.root \in LocalRoot /\ \A p \in c.saw : ~ Overlap(c.root, p[2])
      BY DEF TypeOK, Creations, Disjoint, CreationsChecked
    <3>2. CreationsChecked' /\ UpdateChecked'
      BY <2>3 DEF InsertLocal, Disjoint, CreationsChecked, UpdateChecked
    <3>3. CASE root[c.root] = None /\ \A i \in Root : root[i] # c.root
      <4>1. root' = [root EXCEPT ![c.root] = c.root]
        BY <2>3, <3>3 DEF InsertLocal, Free
      <4>2. late \ {c.root} \subseteq late'
        BY <2>3, <3>3 DEF InsertLocal, Free
      <4>3. CASE RootsOf # c.saw
        <5>1. c.root \in late'
          BY <2>3, <3>3, <4>3 DEF InsertLocal, Free
        <5>2. QED
          BY <3>1, <3>2, <4>1, <4>2, <5>1, DisjointWrite DEF Disjoint
      <4>4. CASE RootsOf = c.saw
        <5>1. \A k \in LocalLibraries \ {c.root} : ~ Overlap(c.root, root[k])
          BY <3>1, <4>4, RootsOfMember
        <5>2. QED
          BY <3>1, <3>2, <4>1, <4>2, <5>1, DisjointWrite DEF Disjoint
      <4>5. QED
        BY <4>3, <4>4
    <3>4. CASE ~ (root[c.root] = None /\ \A i \in Root : root[i] # c.root)
      <4>1. UNCHANGED <<root, late>>
        BY <2>3, <3>4 DEF InsertLocal, Free
      <4>2. QED
        BY <3>2, <4>1 DEF Disjoint, RootsDisjoint, LocalLibraries, Libraries
    <3>5. QED
      BY <3>3, <3>4
  <2>4. ASSUME NEW i \in RemoteRoot, NEW r \in RemoteRoot, CreateRemote(r) \/ UpdateRemote(i, r)
        PROVE  Disjoint'
    <3>1. \A k \in LocalRoot : root'[k] = root[k]
      BY <2>4, RootsAssumption DEF CreateRemote, UpdateRemote, TypeOK, Root
    <3>2. UNCHANGED <<late, creating, job>>
      BY <2>4 DEF CreateRemote, UpdateRemote
    <3>3. LocalLibraries' = LocalLibraries
      BY <3>1 DEF LocalLibraries, Libraries
    <3>4. RootsDisjoint'
      BY <3>1, <3>2, <3>3 DEF Disjoint, RootsDisjoint, LocalLibraries
    <3>5. QED
      BY <3>2, <3>4 DEF Disjoint, CreationsChecked, UpdateChecked
  <2>5. ASSUME NEW i \in Root, DeleteLibrary(i) PROVE Disjoint'
    <3>1. \A k \in LocalLibraries' : k \in LocalLibraries /\ k # i /\ root'[k] = root[k]
      BY <2>5 DEF DeleteLibrary, LocalLibraries, Libraries, TypeOK
    <3>2. late' = late \ {i} /\ UNCHANGED <<creating, job>>
      BY <2>5 DEF DeleteLibrary
    <3>3. RootsDisjoint'
      BY <3>1, <3>2 DEF Disjoint, RootsDisjoint
    <3>4. QED
      BY <3>2, <3>3 DEF Disjoint, CreationsChecked, UpdateChecked
  <2>6. ASSUME NEW i \in LocalRoot, NEW r \in LocalRoot, StartRootUpdate(i, r) PROVE Disjoint'
    <3>1. job'.at.id = i /\ job'.at.root = r /\ job'.was = RootsOf
      BY <2>6 DEF StartRootUpdate, Idle, NoTarget
    <3>2. \A p \in RootsOf : p[1] # i => ~ Overlap(r, p[2])
      BY <2>6 DEF StartRootUpdate, Nested, RootsOf
    <3>3. UpdateChecked'
      BY <3>1, <3>2 DEF UpdateChecked
    <3>4. UNCHANGED <<root, late, creating>>
      BY <2>6 DEF StartRootUpdate
    <3>5. QED
      BY <3>3, <3>4 DEF Disjoint, RootsDisjoint, CreationsChecked, LocalLibraries, Libraries
  <2>7. ASSUME FinishRootUpdate PROVE Disjoint'
    <3>1. /\ job.at.id \in LocalRoot /\ job.at.root \in LocalRoot
          /\ \A p \in job.was : p[1] # job.at.id => ~ Overlap(job.at.root, p[2])
      BY <2>7 DEF FinishRootUpdate, TypeOK, Disjoint, UpdateChecked
    <3>2. job'.pc = "idle" /\ creating' = creating
      BY <2>7, IdleType DEF FinishRootUpdate
    <3>3. CASE UNCHANGED <<root, row, late>>
      BY <2>1, <3>2, <3>3
    <3>4. CASE ~ UNCHANGED <<root, row, late>>
      <4>1. /\ root' = [root EXCEPT ![job.at.id] = job.at.root]
            /\ late' = IF RootsOf # job.was THEN late \cup {job.at.id} ELSE late \ {job.at.id}
        BY <2>7, <3>4 DEF FinishRootUpdate
      <4>2. ASSUME RootsOf # job.was PROVE RootsDisjoint'
        <5>1. late' = late \cup {job.at.id}
          BY <4>1, <4>2
        <5>2. QED
          BY <3>1, <4>1, <5>1, DisjointWrite DEF Disjoint
      <4>3. ASSUME RootsOf = job.was PROVE RootsDisjoint'
        <5>1. \A k \in LocalLibraries \ {job.at.id} : ~ Overlap(job.at.root, root[k])
          BY <3>1, <4>3, RootsOfMember
        <5>2. late' = late \ {job.at.id}
          BY <4>1, <4>3
        <5>3. QED
          BY <3>1, <4>1, <5>1, <5>2, DisjointWrite DEF Disjoint
      <4>4. RootsDisjoint'
        BY <4>2, <4>3
      <4>5. QED
        BY <3>2, <4>4 DEF Disjoint, CreationsChecked, UpdateChecked
    <3>5. QED
      BY <3>3, <3>4
  <2>8. ASSUME StartSync PROVE Disjoint'
    BY <2>1, <2>8 DEF StartSync, Idle
  <2>9. ASSUME AbortSync \/ Scan \/ ScanUnreachable \/ Apply \/ Record PROVE Disjoint'
    <3>1. Idle.pc # "rootUpdate" /\ \A todo : Continue(todo).pc # "rootUpdate"
      BY DEF Idle, Continue
    <3>2. job'.pc # "rootUpdate"
      BY <2>9, <3>1 DEF AbortSync, Scan, ScanUnreachable, Apply, Record, Idle, TypeOK, Job
    <3>3. QED
      BY <2>1, <2>9, <3>2 DEF AbortSync, Scan, ScanUnreachable, Apply, Record
  <2>10. ASSUME NEW t \in job.todo, Skip(t) \/ Probe(t) PROVE Disjoint'
    <3>1. Idle.pc # "rootUpdate" /\ \A todo : Continue(todo).pc # "rootUpdate"
      BY DEF Idle, Continue
    <3>2. job'.pc # "rootUpdate"
      BY <2>10, <3>1 DEF Skip, Probe, TypeOK, Job
    <3>3. QED
      BY <2>1, <2>10, <3>2 DEF Skip, Probe
  <2>11. ASSUME Crash PROVE Disjoint'
    BY <2>11, IdleType DEF Crash, Disjoint, RootsDisjoint, CreationsChecked, UpdateChecked,
                 LocalLibraries, Libraries
  <2>12. ASSUME NEW f \in File, Edit(f) \/ FileRemoved(f) \/ FileAdded(f) \/ FileRewritten(f)
         PROVE  Disjoint'
    BY <2>1, <2>12 DEF Edit, FileRemoved, FileAdded, FileRewritten, Unchanged
  <2>13. ASSUME NEW v \in Volume, GoesOffline(v) \/ ComesOnline(v) PROVE Disjoint'
    BY <2>1, <2>13 DEF GoesOffline, ComesOnline, Unchanged
  <2>14. ASSUME NEW i \in Root, NEW F \in SUBSET Format, SetFormats(i, F) PROVE Disjoint'
    BY <2>1, <2>14 DEF SetFormats
  <2>15. CASE UNCHANGED vars
    BY <2>1, <2>15 DEF vars
  <2>16. QED
    BY <2>2, <2>3, <2>4, <2>5, <2>6, <2>7, <2>8, <2>9, <2>10, <2>11, <2>12, <2>13, <2>14, <2>15 DEF Next
<1>3. QED
  BY <1>1, <1>2, TypeCorrect, PTL DEF Spec, Disjoint
-----------------------------------------------------------------------------
\* Of two prefixes of a path, one is a prefix of the other.
LEMMA PrefixesOverlap ==
  ASSUME NEW f \in Seq(STRING), NEW r \in Seq(STRING), NEW s \in Seq(STRING),
         IsPrefix(r, f), IsPrefix(s, f)
  PROVE  Overlap(r, s)
<1>1. ASSUME NEW a \in Seq(STRING), NEW b \in Seq(STRING), IsPrefix(a, f), IsPrefix(b, f),
             Len(a) <= Len(b)
      PROVE  IsPrefix(a, b)
  <2>1. \A i \in 1 .. Len(a) : SubSeq(b, 1, Len(a))[i] = SubSeq(f, 1, Len(a))[i]
    BY <1>1 DEF IsPrefix
  <2>2. /\ SubSeq(b, 1, Len(a)) \in Seq(STRING) /\ Len(SubSeq(b, 1, Len(a))) = Len(a)
        /\ SubSeq(f, 1, Len(a)) \in Seq(STRING) /\ Len(SubSeq(f, 1, Len(a))) = Len(a)
    BY <1>1 DEF IsPrefix
  <2>3. SubSeq(b, 1, Len(a)) = SubSeq(f, 1, Len(a))
    BY <2>1, <2>2
  <2>4. QED
    BY <1>1, <2>3 DEF IsPrefix
<1>2. Len(r) <= Len(s) \/ Len(s) <= Len(r)
  OBVIOUS
<1>3. QED
  BY <1>1, <1>2 DEF Overlap

\* What a sync is about to write lies below its root, and what it is about to
\* remove was its library's and has not become another's.
PlanIsOwn ==
  job.pc = "apply" =>
    /\ \A f \in job.found : Covers(job.at.root, f)
    /\ \A f \in job.prior : row[f] = NoRow \/ row[f].lib = job.at.id

LEMMA PlanStays ==
  ASSUME PlanIsOwn, TypeOK, job' = job,
         \A f \in File : row'[f] = NoRow \/ (row[f] # NoRow /\ row'[f].lib = row[f].lib)
  PROVE  PlanIsOwn'
  BY DEF PlanIsOwn, TypeOK, Job

\* The plan of a sync is its own in every state.
LEMMA SpecPlanIsOwn == Spec => []PlanIsOwn
<1>1. Init => PlanIsOwn
  BY IdleType DEF Init, PlanIsOwn
<1>2. TypeOK /\ PlanIsOwn /\ [Next]_vars => PlanIsOwn'
  <2> SUFFICES ASSUME TypeOK, PlanIsOwn, [Next]_vars PROVE PlanIsOwn'
    OBVIOUS
  <2>0. \A f \in File : row[f] = NoRow \/ (row[f] # NoRow /\ row[f].lib = row[f].lib)
    OBVIOUS
  <2>1. ASSUME UNCHANGED <<row, job>> PROVE PlanIsOwn'
    BY <2>0, <2>1, PlanStays
  <2>2. ASSUME job'.pc # "apply" PROVE PlanIsOwn'
    BY <2>2 DEF PlanIsOwn
  <2>3. Idle.pc # "apply" /\ \A todo : Continue(todo).pc # "apply"
    BY DEF Idle, Continue
  <2>4. ASSUME NEW i \in Root, DeleteLibrary(i) PROVE PlanIsOwn'
    <3>1. \A f \in File : row'[f] = NoRow \/ (row[f] # NoRow /\ row'[f].lib = row[f].lib)
      BY <2>4 DEF DeleteLibrary, WithoutLibrary
    <3>2. QED
      BY <2>4, <3>1, PlanStays DEF DeleteLibrary
  <2>5. ASSUME NEW f \in File, Edit(f) PROVE PlanIsOwn'
    <3>1. \A g \in File : row'[g] = NoRow \/ (row[g] # NoRow /\ row'[g].lib = row[g].lib)
      BY <2>5 DEF Edit, TypeOK, Row
    <3>2. QED
      BY <2>5, <3>1, PlanStays DEF Edit
  <2>6. ASSUME NEW i \in LocalRoot, NEW r \in LocalRoot, StartRootUpdate(i, r) PROVE PlanIsOwn'
    BY <2>2, <2>6 DEF StartRootUpdate, Idle
  <2>7. ASSUME FinishRootUpdate \/ StartSync \/ AbortSync \/ Crash \/ ScanUnreachable \/ Apply \/ Record
        PROVE  PlanIsOwn'
    BY <2>2, <2>3, <2>7 DEF FinishRootUpdate, StartSync, AbortSync, Crash, ScanUnreachable, Apply,
                            Record, Idle
  <2>8. ASSUME NEW t \in job.todo, Skip(t) \/ Probe(t) PROVE PlanIsOwn'
    BY <2>2, <2>3, <2>8 DEF Skip, Probe, TypeOK, Job
  <2>9. ASSUME Scan PROVE PlanIsOwn'
    <3>1. /\ job'.at = job.at
          /\ job'.prior = {f \in File : row[f].lib = job.at.id}
          /\ \A f \in job'.found : Covers(job.at.root, f)
      BY <2>9 DEF Scan, RowsOf, TypeOK, Job
    <3>2. QED
      BY <2>9, <3>1 DEF Scan, PlanIsOwn
  <2>10. CASE UNCHANGED vars
    BY <2>1, <2>10 DEF vars
  <2>11. QED
    BY <2>1, <2>4, <2>5, <2>6, <2>7, <2>8, <2>9, <2>10
    DEF Next, CheckLocal, InsertLocal, CreateRemote, UpdateRemote, SetFormats, FileRemoved, FileAdded,
        FileRewritten, GoesOffline, ComesOnline, Unchanged
<1>3. QED
  BY <1>1, <1>2, TypeCorrect, PTL DEF Spec

\* A sync leaves every comic alone that lies in the root of another library
\* apart from its own.
THEOREM SyncStaysInItsRoot == Spec => SyncKeepsToItsOwn
<1>1. TypeOK /\ PlanIsOwn /\ [Next]_vars =>
        (\A f \in File :
           Apply /\ row[f] # NoRow /\ row[f].lib # job.at.id /\ row'[f] # row[f] => ~ Stays(f))
  <2> SUFFICES ASSUME TypeOK, PlanIsOwn, NEW f \in File, Apply, row[f] # NoRow,
                      row[f].lib # job.at.id, row'[f] # row[f], Stays(f)
               PROVE  FALSE
    OBVIOUS
  <2>1. f \in job.found \/ f \in Removed
    BY DEF Apply, TypeOK
  <2>2. f \in job.found
    BY <2>1 DEF Removed, PlanIsOwn, Apply
  <2>3. Covers(job.at.root, f) /\ Covers(root[row[f].lib], f)
    BY <2>2 DEF PlanIsOwn, Apply, Stays
  <2>4. f \in Seq(STRING) /\ job.at.root \in Seq(STRING) /\ root[row[f].lib] \in Seq(STRING)
    <3>1. job.at.root \in Root /\ row[f].lib \in Root /\ root[row[f].lib] \in Root
      BY DEF Apply, TypeOK, Target, Stays, Libraries
    <3>2. QED
      BY <3>1, RootsAssumption DEF Root
  <2>5. QED
    BY <2>3, <2>4, PrefixesOverlap DEF Covers, Stays
<1>2. QED
  BY <1>1, SpecPlanIsOwn, TypeCorrect, PTL DEF Spec, SyncKeepsToItsOwn
-----------------------------------------------------------------------------
\* A path below a root begins as the root does.
LEMMA HeadOfPrefix ==
  ASSUME NEW r \in Seq(STRING), NEW f \in Seq(STRING), r # <<>>, IsPrefix(r, f)
  PROVE  Head(f) = Head(r)
<1>1. Len(r) \in Nat /\ Len(f) \in Nat /\ Len(r) >= 1 /\ Len(r) <= Len(f)
  BY DEF IsPrefix
<1>2. SubSeq(r, 1, Len(r))[1] = r[1] /\ SubSeq(f, 1, Len(r))[1] = f[1]
  BY <1>1
<1>3. QED
  BY <1>1, <1>2 DEF IsPrefix

\* The history variables miss nothing, and what a sync is about to remove was
\* missing at a moment that they remember.
Watched ==
  job.pc = "scan" => /\ File \ disk \subseteq absent
                     /\ {f \in File : Head(f) \notin online} \cup broken \subseteq unseen
Excused(f) == \/ FormatOf[f] \notin job.at.takes
              \/ f \in absent
              \/ job.at.id \in LocalRoot /\ f \in unseen
RemovalsExcused ==
  job.pc = "apply" => \A f \in job.prior \ job.found : Within(f) => Excused(f)
Justified == Watched /\ RemovalsExcused

LEMMA JustifiedStays ==
  ASSUME TypeOK, Justified, job' = job,
         absent \subseteq absent', unseen \subseteq unseen',
         job.pc = "scan" => /\ (File \ disk') \ (File \ disk) \subseteq absent'
                            /\ \A f \in File : Head(f) \in online /\ Head(f) \notin online' => f \in unseen'
                            /\ broken' \ broken \subseteq unseen'
  PROVE  Justified'
<1>1. Watched'
  BY DEF Justified, Watched
<1>2. RemovalsExcused'
  BY DEF Justified, RemovalsExcused, Excused, Within
<1>3. QED
  BY <1>1, <1>2 DEF Justified

\* The comparison: a comic that its library still covers and that the listing
\* has not found was not on the disk, of a format that the library does not
\* take, or, in a local library, damaged or on a volume that was away.
LEMMA ScanJustified ==
  ASSUME TypeOK, Justified, Scan
  PROVE  Justified'
<1>1. /\ job.pc = "scan" /\ job.at \in Target /\ Listed(job.at)
  BY DEF Scan, TypeOK
<1>2. /\ job'.pc = "apply" /\ job'.at = job.at /\ job'.spared = job.spared
      /\ job'.prior = {f \in File : row[f].lib = job.at.id}
      /\ job'.found = Listing
  BY DEF Scan, RowsOf, Listing, TypeOK, Job
<1>3. UNCHANGED <<absent, unseen>>
  BY DEF Scan, env
<1>4. ASSUME NEW f \in job'.prior \ job'.found, Within(f)'
      PROVE  Excused(f)'
  <2>1. f \in File /\ Covers(job.at.root, f) /\ ~ Spared(f)
    BY <1>2, <1>4 DEF Within, Spared
  <2>2. CASE f \notin disk
    BY <1>1, <1>3, <2>1, <2>2 DEF Justified, Watched, Excused
  <2>3. CASE Head(job.at.root) \notin online
    <3>1. job.at.id \in LocalRoot
      BY <1>1, <2>3 DEF Listed
    <3>2. job.at.root \in Seq(STRING) /\ job.at.root # <<>> /\ f \in Seq(STRING)
      BY <1>1, <2>1, RootsAssumption DEF Target, Root
    <3>3. Head(f) \notin online
      BY <2>1, <2>3, <3>2, HeadOfPrefix DEF Covers
    <3>4. QED
      BY <1>1, <1>2, <1>3, <2>1, <3>1, <3>3 DEF Justified, Watched, Excused
  <2>4. CASE ~ Yields(job.at, f)
    BY <1>1, <1>2, <1>3, <2>1, <2>4 DEF Yields, Justified, Watched, Excused
  <2>5. QED
    BY <1>2, <1>4, <2>1, <2>2, <2>3, <2>4 DEF Listing
<1>5. QED
  BY <1>2, <1>4 DEF Justified, Watched, RemovalsExcused

\* A sync never removes the comic of a file that it could have seen: below the
\* root that it syncs, it removes what is of a format its library did not take,
\* and what did not exist, or was out of reach or damaged in a local library, at
\* some moment between its probe and its comparison.
THEOREM RemovalsJustified == Spec => RemovesOnlyMissing
<1>1. Init => Justified
  BY IdleType DEF Init, Justified, Watched, RemovalsExcused
<1>2. TypeOK /\ Justified /\ [Next]_vars => Justified'
  <2> SUFFICES ASSUME TypeOK, Justified, [Next]_vars PROVE Justified'
    OBVIOUS
  <2>1. ASSUME UNCHANGED <<job, disk, broken, online, absent, unseen>> PROVE Justified'
    BY <2>1, JustifiedStays
  <2>2. ASSUME job'.pc \notin {"scan", "apply"} PROVE Justified'
    BY <2>2 DEF Justified, Watched, RemovalsExcused
  <2>3. /\ Idle.pc \notin {"scan", "apply"}
        /\ \A todo : Continue(todo).pc \notin {"scan", "apply"}
    BY DEF Idle, Continue
  <2>4. ASSUME NEW i \in LocalRoot, NEW r \in LocalRoot, StartRootUpdate(i, r) PROVE Justified'
    BY <2>2, <2>4 DEF StartRootUpdate, Idle
  <2>5. ASSUME StartSync \/ Apply PROVE Justified'
    BY <2>2, <2>5 DEF StartSync, Apply, Idle
  <2>6. ASSUME FinishRootUpdate \/ AbortSync \/ Crash \/ ScanUnreachable \/ Record PROVE Justified'
    BY <2>2, <2>3, <2>6 DEF FinishRootUpdate, AbortSync, Crash, ScanUnreachable, Record
  <2>7. ASSUME NEW t \in job.todo, Skip(t) PROVE Justified'
    BY <2>2, <2>3, <2>7 DEF Skip
  <2>8. ASSUME NEW t \in job.todo, Probe(t) PROVE Justified'
    <3>1. job'.pc = "scan"
      BY <2>8 DEF Probe, TypeOK, Job
    <3>2. QED
      BY <2>8, <3>1 DEF Probe, Justified, Watched, RemovalsExcused
  <2>9. ASSUME Scan PROVE Justified'
    BY <2>9, ScanJustified
  <2>10. ASSUME NEW f \in File, FileRemoved(f) PROVE Justified'
    BY <2>10, JustifiedStays DEF FileRemoved, Unchanged, Scanning
  <2>11. ASSUME NEW f \in File, FileAdded(f) PROVE Justified'
    BY <2>11, JustifiedStays DEF FileAdded, Unchanged
  <2>12. ASSUME NEW v \in Volume, GoesOffline(v) PROVE Justified'
    BY <2>12, JustifiedStays DEF GoesOffline, Unchanged, Scanning
  <2>13. ASSUME NEW v \in Volume, ComesOnline(v) PROVE Justified'
    BY <2>13, JustifiedStays DEF ComesOnline, Unchanged
  <2>14. ASSUME NEW f \in File, FileRewritten(f) PROVE Justified'
    BY <2>14, JustifiedStays DEF FileRewritten, Unchanged, Scanning
  <2>15. CASE UNCHANGED vars
    BY <2>1, <2>15 DEF vars
  <2>16. QED
    BY <2>1, <2>4, <2>5, <2>6, <2>7, <2>8, <2>9, <2>10, <2>11, <2>12, <2>13, <2>14, <2>15
    DEF Next, CheckLocal, InsertLocal, CreateRemote, UpdateRemote, DeleteLibrary, SetFormats, Edit, env
<1>3. TypeOK /\ Justified =>
        \A f \in File : Apply /\ row[f].lib = job.at.id /\ row'[f] = NoRow /\ Within(f)
                        => \/ FormatOf[f] \notin job.at.takes
                           \/ f \in absent
                           \/ job.at.id \in LocalRoot /\ f \in unseen
  <2> SUFFICES ASSUME TypeOK, Justified, NEW f \in File,
                      Apply, row[f].lib = job.at.id, row'[f] = NoRow, Within(f)
               PROVE  Excused(f)
    BY DEF Excused
  <2>1. job.pc = "apply" /\ job.at.id # None
    BY PathsNotNone DEF Apply, TypeOK, Target
  <2>2. Synced(f) # NoRow /\ row[f] # NoRow
    BY <2>1 DEF Synced, NoRow
  <2>3. f \in job.prior \ job.found
    BY <2>2 DEF Apply, Removed, TypeOK
  <2>4. QED
    BY <2>1, <2>3 DEF Justified, RemovalsExcused
<1>4. QED
  BY <1>1, <1>2, <1>3, TypeCorrect, PTL DEF Spec, RemovesOnlyMissing
-----------------------------------------------------------------------------
\* Pairing is a matching: the row that a target takes over is the removed one
\* of its pair.
LEMMA PairOrigin ==
  ASSUME NEW f, NEW g, <<f, g>> \in Pairs
  PROVE  /\ g \in Targets /\ Origin(g) = f
         /\ f \in Removed /\ g \in Added /\ Last(f) = Last(g)
<1>1. f \in Removed /\ g \in Added /\ Last(f) = Last(g)
  BY DEF Pairs
<1>2. g \in Targets
  BY DEF Targets
<1>3. ASSUME NEW h \in Removed, <<h, g>> \in Pairs PROVE h = f
  <2>1. Last(h) = Last(g) /\ \A k \in Removed : Last(k) = Last(h) => k = h
    BY <1>3 DEF Pairs
  <2>2. QED
    BY <1>1, <2>1
<1>4. Origin(g) = f
  BY <1>1, <1>3 DEF Origin
<1>5. QED
  BY <1>1, <1>2, <1>4

\* A row that is written is edited when the sync had read it so.
LEMMA SyncedEdited ==
  ASSUME NEW g
  PROVE  /\ g \in Targets => (Synced(g).edited <=> Origin(g) \in job.known)
         /\ g \notin Targets => (Synced(g).edited <=> g \in job.known)
<1> DEFINE o == IF g \in Targets THEN Origin(g) ELSE g
<1>1. Synced(g) = [lib |-> job.at.id, edited |-> o \in job.known]
  BY DEF Synced
<1>2. CASE o \in job.known
  <2>1. (o \in job.known) = TRUE
    BY <1>2
  <2>2. Synced(g) = [lib |-> job.at.id, edited |-> TRUE]
    BY <1>1, <2>1
  <2>3. QED
    BY <1>2, <2>2
<1>3. CASE o \notin job.known
  <2>1. (o \in job.known) = FALSE
    BY <1>3
  <2>2. Synced(g) = [lib |-> job.at.id, edited |-> FALSE]
    BY <1>1, <2>1
  <2>3. QED
    BY <1>3, <2>2
<1>4. QED
  BY <1>2, <1>3

\* What the transaction of a sync does to an edited comic.
LEMMA ApplyKeepsEdits ==
  ASSUME TypeOK, PlanIsOwn, Apply, NEW f \in File, row[f].edited
  PROVE  \/ row'[f].edited
         \/ \E g \in File : row[g] = NoRow /\ EditSurvives(f, g)
         \/ f \notin job.known /\ row'[f] # row[f]
         \/ row[f].lib = job.at.id /\ row'[f] = NoRow /\ \A p \in Pairs : p[1] # f
<1>1. /\ row[f] # NoRow /\ job.pc = "apply"
      /\ job.found \subseteq File /\ job.prior \subseteq File
  BY DEF NoRow, Apply, TypeOK, Job
<1>2. \A g \in File : row'[g] = IF g \in job.found THEN Synced(g)
                               ELSE IF g \in Removed THEN NoRow ELSE row[g]
  BY DEF Apply
<1>3. CASE f \in job.found
  <2>1. f \notin Targets
    BY <1>1 DEF Apply
  <2>2. row'[f] = Synced(f)
    BY <1>2, <1>3
  <2>3. Synced(f).edited <=> f \in job.known
    BY <2>1, SyncedEdited
  <2>4. CASE f \in job.known
    BY <2>2, <2>3, <2>4
  <2>5. CASE f \notin job.known
    <3>1. ~ row'[f].edited
      BY <2>2, <2>3, <2>5
    <3>2. QED
      BY <2>5, <3>1
  <2>6. QED
    BY <2>4, <2>5
<1>4. CASE f \in Removed
  <2>1. f \notin job.found /\ row[f].lib = job.at.id
    BY <1>1, <1>4 DEF Removed, PlanIsOwn
  <2>2. row'[f] = NoRow
    BY <1>2, <1>4, <2>1
  <2>3. CASE \A p \in Pairs : p[1] # f
    BY <2>1, <2>2, <2>3
  <2>4. CASE ~ \A p \in Pairs : p[1] # f
    <3>0. PICK p \in Pairs : p[1] = f
      BY <2>4
    <3>1. PICK g : <<f, g>> \in Pairs
      <4>1. p = <<p[1], p[2]>>
        BY DEF Pairs
      <4>2. QED
        BY <3>0, <4>1
    <3>2. g \in Targets /\ Origin(g) = f /\ Last(g) = Last(f) /\ g \in job.found /\ g \in File
      BY <1>1, <3>1, PairOrigin DEF Added
    <3>3. row[g] = NoRow
      BY <3>2 DEF Apply
    <3>4. row'[g] = Synced(g)
      BY <1>2, <3>2
    <3>5. CASE f \in job.known
      <4>1. Synced(g).edited /\ ~ NoRow.edited
        BY <3>2, <3>5, SyncedEdited DEF NoRow
      <4>2. row'[g].edited /\ row'[g] # NoRow
        BY <3>4, <4>1
      <4>3. QED
        BY <3>2, <3>3, <4>2 DEF EditSurvives
    <3>6. CASE f \notin job.known
      BY <1>1, <2>2, <3>6
    <3>7. QED
      BY <3>5, <3>6
  <2>5. QED
    BY <2>3, <2>4
<1>5. CASE f \notin job.found /\ f \notin Removed
  BY <1>2, <1>5
<1>6. QED
  BY <1>3, <1>4, <1>5

\* Only these steps change a comic.
LEMMA RowSteps ==
  ASSUME [Next]_vars
  PROVE  \/ UNCHANGED row
         \/ \E i \in Root : DeleteLibrary(i)
         \/ \E f \in File : Edit(f)
         \/ FinishRootUpdate
         \/ Apply
  BY DEF Next, vars, CheckLocal, InsertLocal, CreateRemote, UpdateRemote, StartRootUpdate, StartSync,
         SetFormats, AbortSync, Skip, Probe, Scan, ScanUnreachable, Record, Crash, FileRemoved, FileAdded,
         FileRewritten, GoesOffline, ComesOnline, Unchanged

\* An edit that the user made is undone only by the deletion of its library,
\* by a sync that had read the comics before it or finds the file nowhere, and
\* by a library whose root took the comic over.
THEOREM EditsSurvive == Spec => EditsKept
<1> DEFINE Kept(f) == row[f].edited /\ ~ FinishRootUpdate =>
         \/ row'[f].edited
         \/ \E g \in File : row[g] = NoRow /\ EditSurvives(f, g)
         \/ root[row[f].lib] # None /\ root'[row[f].lib] = None
         \/ Apply /\ row[f].lib = job.at.id /\ f \notin job.known
         \/ Apply /\ row[f].lib = job.at.id /\ row'[f] = NoRow /\ \A p \in Pairs : p[1] # f
         \/ Apply /\ row[f].lib # job.at.id /\ ~ Stays(f)
<1>1. TypeOK /\ PlanIsOwn /\ [Next]_vars /\
        (\A f \in File :
           Apply /\ row[f] # NoRow /\ row[f].lib # job.at.id /\ row'[f] # row[f] => ~ Stays(f))
        => \A f \in File : Kept(f)
  <2> SUFFICES ASSUME TypeOK, PlanIsOwn, [Next]_vars, NEW f \in File,
                      Apply /\ row[f] # NoRow /\ row[f].lib # job.at.id /\ row'[f] # row[f] => ~ Stays(f),
                      row[f].edited, ~ FinishRootUpdate
               PROVE  Kept(f)
    OBVIOUS
  <2>1. CASE UNCHANGED row
    BY <2>1
  <2>2. ASSUME NEW i \in Root, DeleteLibrary(i) PROVE Kept(f)
    <3>1. CASE row[f].lib = i
      <4>1. root[i] # None /\ root'[i] = None
        BY <2>2 DEF DeleteLibrary, Libraries, TypeOK
      <4>2. QED
        BY <3>1, <4>1
    <3>2. CASE row[f].lib # i
      BY <2>2, <3>2 DEF DeleteLibrary, WithoutLibrary
    <3>3. QED
      BY <3>1, <3>2
  <2>3. ASSUME NEW g \in File, Edit(g) PROVE Kept(f)
    <3>1. row' = [row EXCEPT ![g] = [row[g] EXCEPT !.edited = TRUE]]
      BY <2>3 DEF Edit
    <3>2. row[g] \in [lib : Root, edited : BOOLEAN]
      BY <2>3 DEF Edit, TypeOK, Row
    <3>3. CASE f = g
      BY <3>1, <3>2, <3>3 DEF TypeOK
    <3>4. CASE f # g
      BY <3>1, <3>4 DEF TypeOK
    <3>5. QED
      BY <3>3, <3>4
  <2>4. ASSUME Apply PROVE Kept(f)
    <3>1. row[f] # NoRow
      BY DEF NoRow
    <3>2. CASE f \notin job.known /\ row'[f] # row[f]
      BY <2>4, <3>1, <3>2
    <3>3. QED
      BY <2>4, <3>2, ApplyKeepsEdits
  <2>5. QED
    BY <2>1, <2>2, <2>3, <2>4, RowSteps
<1>2. QED
  BY <1>1, SpecPlanIsOwn, SyncStaysInItsRoot, TypeCorrect, PTL DEF Spec, SyncKeepsToItsOwn, EditsKept
-----------------------------------------------------------------------------
\* What moving a path from one root to another does to its names.
LEMMA MovedAt ==
  ASSUME NEW from \in Seq(STRING), NEW to \in Seq(STRING), NEW f \in Seq(STRING), IsPrefix(from, f)
  PROVE  /\ Moved(f, from, to) \in Seq(STRING)
         /\ Len(Moved(f, from, to)) = Len(to) + (Len(f) - Len(from))
         /\ \A k \in 1 .. Len(f) - Len(from) : Moved(f, from, to)[Len(to) + k] = f[Len(from) + k]
<1>1. Len(from) \in Nat /\ Len(to) \in Nat /\ Len(f) \in Nat /\ Len(from) <= Len(f)
  BY DEF IsPrefix
<1> DEFINE tail == SubSeq(f, Len(from) + 1, Len(f))
<1>2. tail \in Seq(STRING) /\ Len(tail) = Len(f) - Len(from)
  BY <1>1
<1>3. \A k \in 1 .. Len(f) - Len(from) : tail[k] = f[Len(from) + k]
  BY <1>1
<1>4. Moved(f, from, to) = to \o tail
  BY DEF Moved
<1> HIDE DEF tail
<1>5. /\ to \o tail \in Seq(STRING)
      /\ Len(to \o tail) = Len(to) + Len(tail)
      /\ \A k \in 1 .. Len(tail) : (to \o tail)[Len(to) + k] = tail[k]
  <2>1. to \o tail \in Seq(STRING) /\ Len(to \o tail) = Len(to) + Len(tail)
    BY <1>1, <1>2
  <2>2. ASSUME NEW k \in 1 .. Len(tail) PROVE (to \o tail)[Len(to) + k] = tail[k]
    <3>1. PICK j : j = Len(to) + k
      OBVIOUS
    <3>2. j \in 1 .. Len(to) + Len(tail) /\ j > Len(to) /\ j - Len(to) = k
      BY <1>1, <1>2, <3>1
    <3>3. (to \o tail)[j] = tail[j - Len(to)]
      BY <1>1, <1>2, <3>2
    <3>4. QED
      BY <3>1, <3>2, <3>3
  <2>3. QED
    BY <2>1, <2>2
<1>6. QED
  BY <1>2, <1>3, <1>4, <1>5

LEMMA PrefixAt ==
  ASSUME NEW from \in Seq(STRING), NEW f \in Seq(STRING), IsPrefix(from, f)
  PROVE  Len(from) <= Len(f) /\ \A k \in 1 .. Len(from) : f[k] = from[k]
<1>1. Len(from) \in Nat /\ Len(f) \in Nat /\ Len(from) <= Len(f)
  BY DEF IsPrefix
<1>2. ASSUME NEW k \in 1 .. Len(from)
      PROVE  SubSeq(from, 1, Len(from))[k] = from[k] /\ SubSeq(f, 1, Len(from))[k] = f[k]
  BY <1>1
<1>3. QED
  BY <1>1, <1>2 DEF IsPrefix

\* No two paths move to the same one.
LEMMA MovedInjective ==
  ASSUME NEW from \in Seq(STRING), NEW to \in Seq(STRING),
         NEW f \in Seq(STRING), NEW g \in Seq(STRING), IsPrefix(from, f), IsPrefix(from, g),
         Moved(f, from, to) = Moved(g, from, to)
  PROVE  f = g
<1>1. Len(from) \in Nat /\ Len(to) \in Nat /\ Len(f) \in Nat /\ Len(g) \in Nat
  OBVIOUS
<1>2. Len(f) = Len(g)
  BY <1>1, MovedAt
<1>3. ASSUME NEW k \in 1 .. Len(f) PROVE f[k] = g[k]
  <2>1. CASE k <= Len(from)
    BY <1>1, <2>1, PrefixAt
  <2>2. CASE k > Len(from)
    <3>1. PICK j : j = k - Len(from)
      OBVIOUS
    <3>2. /\ j \in 1 .. Len(f) - Len(from) /\ j \in 1 .. Len(g) - Len(from)
          /\ Len(from) + j = k
      BY <1>1, <1>2, <2>2, <3>1
    <3>3. Moved(f, from, to)[Len(to) + j] = f[Len(from) + j]
      <4>1. \A i \in 1 .. Len(f) - Len(from) : Moved(f, from, to)[Len(to) + i] = f[Len(from) + i]
        BY MovedAt
      <4>2. QED
        BY <3>2, <4>1, Zenon
    <3>4. Moved(g, from, to)[Len(to) + j] = g[Len(from) + j]
      <4>1. \A i \in 1 .. Len(g) - Len(from) : Moved(g, from, to)[Len(to) + i] = g[Len(from) + i]
        BY MovedAt
      <4>2. QED
        BY <3>2, <4>1, Zenon
    <3>5. QED
      BY <3>2, <3>3, <3>4
  <2>3. QED
    BY <1>1, <2>1, <2>2
<1>4. QED
  BY <1>2, <1>3

\* A path below the root keeps its name.
LEMMA MovedName ==
  ASSUME NEW from \in Seq(STRING), NEW to \in Seq(STRING), NEW f \in Seq(STRING),
         IsPrefix(from, f), f # from
  PROVE  Last(Moved(f, from, to)) = Last(f)
<1>1. Len(from) \in Nat /\ Len(to) \in Nat /\ Len(f) \in Nat /\ Len(from) <= Len(f)
  BY PrefixAt
<1>2. Len(from) # Len(f)
  <2>1. ASSUME Len(from) = Len(f) PROVE f = from
    BY <2>1, PrefixAt
  <2>2. QED
    BY <2>1
<1>3. PICK j : j = Len(f) - Len(from)
  OBVIOUS
<1>4. j \in 1 .. Len(f) - Len(from) /\ Len(from) + j = Len(f)
  BY <1>1, <1>2, <1>3
<1>5. Moved(f, from, to)[Len(to) + j] = f[Len(from) + j]
  <2>1. \A i \in 1 .. Len(f) - Len(from) : Moved(f, from, to)[Len(to) + i] = f[Len(from) + i]
    BY MovedAt
  <2>2. QED
    BY <1>4, <2>1, Zenon
<1>6. Len(Moved(f, from, to)) = Len(to) + j
  BY <1>3, MovedAt
<1>7. QED
  BY <1>4, <1>5, <1>6 DEF Last

\* The comics that move and those that stay, one to one.
Relocation(to, lib) ==
  \A f \in Comics :
    /\ row'[to[f]] = row[f]
    /\ to[f] = f \/ (row[f].lib = lib /\ to[f] \in disk /\ (Last(to[f]) = Last(f) \/ f \in Root))

LEMMA RekeyedRelocates ==
  ASSUME TypeOK, NEW i \in Root, NEW from \in Root, NEW to \in Root,
         NEW M \in SUBSET RootMoves(i, from, to),
         row' = Rekeyed(M, from, to),
         \A f \in M : row[Moved(f, from, to)] # NoRow => Moved(f, from, to) \in M
  PROVE  \E b \in Bijection(Comics, Comics') : Relocation(b, i)
<1> DEFINE b == [f \in Comics |-> IF f \in M THEN Moved(f, from, to) ELSE f]
           Here(g) == {f \in M : Moved(f, from, to) = g}
<1>1. /\ from \in Seq(STRING) /\ to \in Seq(STRING)
      /\ \A f \in File : f \in Seq(STRING)
  BY RootsAssumption DEF Root
<1>2. ASSUME NEW f \in M
      PROVE  /\ f \in File /\ row[f].lib = i /\ IsPrefix(from, f) /\ f \in Comics
             /\ Moved(f, from, to) \in disk /\ Moved(f, from, to) \in File /\ Moved(f, from, to) # f
  <2>1. /\ f \in File /\ row[f].lib = i /\ Covers(from, f) /\ Moved(f, from, to) \in disk \ {f}
    BY DEF RootMoves
  <2>2. row[f] # NoRow
    BY <2>1, PathsNotNone DEF NoRow
  <2>3. QED
    BY <2>1, <2>2 DEF Covers, Comics, TypeOK
<1>3. \A f, g \in M : Moved(f, from, to) = Moved(g, from, to) => f = g
  BY <1>1, <1>2, MovedInjective
<1>4. \A f \in M : Here(Moved(f, from, to)) = {f}
  BY <1>3
<1>5. ASSUME NEW f \in M PROVE row'[Moved(f, from, to)] = row[f]
  <2>1. Moved(f, from, to) \in File /\ Here(Moved(f, from, to)) = {f}
    BY <1>2, <1>4
  <2>2. row'[Moved(f, from, to)] = row[CHOOSE h \in Here(Moved(f, from, to)) : TRUE]
    BY <2>1 DEF Rekeyed
  <2>3. QED
    BY <2>1, <2>2
<1>6. ASSUME NEW f \in Comics, f \notin M PROVE row'[f] = row[f] /\ Here(f) = {}
  <2>1. Here(f) = {}
    BY <1>6 DEF Comics
  <2>2. f \in File
    BY DEF Comics
  <2>3. QED
    BY <1>6, <2>1, <2>2 DEF Rekeyed
<1>7. ASSUME NEW f \in Comics
      PROVE  /\ b[f] = IF f \in M THEN Moved(f, from, to) ELSE f
             /\ b[f] \in File /\ row'[b[f]] = row[f] /\ b[f] \in Comics'
  <2>1. b[f] \in File /\ row'[b[f]] = row[f]
    BY <1>2, <1>5, <1>6 DEF Comics
  <2>2. QED
    BY <2>1 DEF Comics
<1>8. ASSUME NEW f \in Comics, NEW g \in Comics, b[f] = b[g] PROVE f = g
  <2>1. CASE f \in M /\ g \in M
    BY <1>3, <1>7, <1>8, <2>1
  <2>2. CASE f \in M /\ g \notin M
    BY <1>6, <1>7, <1>8, <2>2
  <2>3. CASE f \notin M /\ g \in M
    BY <1>6, <1>7, <1>8, <2>3
  <2>4. CASE f \notin M /\ g \notin M
    BY <1>7, <1>8, <2>4
  <2>5. QED
    BY <2>1, <2>2, <2>3, <2>4
<1>9. ASSUME NEW g \in Comics' PROVE \E f \in Comics : b[f] = g
  <2>1. g \in File /\ row'[g] # NoRow
    BY DEF Comics
  <2>2. CASE Here(g) # {}
    <3>1. PICK f \in M : Moved(f, from, to) = g
      BY <2>2
    <3>2. QED
      BY <1>2, <1>7, <3>1
  <2>3. CASE Here(g) = {}
    <3>1. g \notin M /\ row'[g] = row[g]
      BY <2>1, <2>3 DEF Rekeyed
    <3>2. g \in Comics
      BY <2>1, <3>1 DEF Comics
    <3>3. QED
      BY <1>7, <3>1, <3>2
  <2>4. QED
    BY <2>2, <2>3
<1>10. b \in [Comics -> Comics'] /\ DOMAIN b = Comics
  BY <1>7
<1>11. ASSUME NEW f \in M PROVE Last(Moved(f, from, to)) = Last(f) \/ f \in Root
  BY <1>1, <1>2, MovedName
<1>12. Relocation(b, i)
  BY <1>2, <1>7, <1>11 DEF Relocation
<1> HIDE DEF b
<1>13. b \in Bijection(Comics, Comics')
  BY <1>8, <1>9, <1>10 DEF Bijection, Injection, Surjection, IsInjective
<1>14. QED
  BY <1>12, <1>13

\* Nothing moves.
LEMMA NothingRelocates ==
  ASSUME UNCHANGED row, NEW i
  PROVE  \E b \in Bijection(Comics, Comics') : Relocation(b, i)
<1> DEFINE b == [f \in Comics |-> f]
<1>1. Comics' = Comics
  BY DEF Comics
<1>2. b \in Bijection(Comics, Comics')
  BY <1>1 DEF Bijection, Injection, Surjection, IsInjective
<1>3. Relocation(b, i)
  BY DEF Relocation
<1>4. QED
  BY <1>2, <1>3

\* An update of a root knows the root that it leaves.
LeavesARoot == job.pc = "rootUpdate" => \E p \in job.was : p[1] = job.at.id

LEMMA SpecLeavesARoot == Spec => []LeavesARoot
<1>1. Init => LeavesARoot
  BY IdleType DEF Init, LeavesARoot
<1>2. TypeOK /\ LeavesARoot /\ [Next]_vars => LeavesARoot'
  <2> SUFFICES ASSUME TypeOK, LeavesARoot, [Next]_vars PROVE LeavesARoot'
    OBVIOUS
  <2>1. ASSUME job' = job \/ job'.pc # "rootUpdate" PROVE LeavesARoot'
    BY <2>1 DEF LeavesARoot
  <2>2. Idle.pc # "rootUpdate" /\ \A todo : Continue(todo).pc # "rootUpdate"
    BY DEF Idle, Continue
  <2>3. ASSUME NEW i \in LocalRoot, NEW r \in LocalRoot, StartRootUpdate(i, r) PROVE LeavesARoot'
    <3>1. job'.at.id = i /\ job'.was = RootsOf /\ i \in LocalLibraries
      BY <2>3 DEF StartRootUpdate, Idle, NoTarget
    <3>2. QED
      BY <3>1, RootsOfMember DEF LeavesARoot
  <2>4. ASSUME FinishRootUpdate \/ AbortSync \/ Crash \/ ScanUnreachable \/ Record PROVE LeavesARoot'
    BY <2>1, <2>2, <2>4 DEF FinishRootUpdate, AbortSync, Crash, ScanUnreachable, Record
  <2>5. ASSUME NEW t \in job.todo, Skip(t) \/ Probe(t) PROVE LeavesARoot'
    BY <2>1, <2>2, <2>5 DEF Skip, Probe, TypeOK, Job
  <2>6. ASSUME StartSync \/ Scan \/ Apply PROVE LeavesARoot'
    BY <2>1, <2>6 DEF StartSync, Scan, Apply, Idle, TypeOK, Job
  <2>7. CASE UNCHANGED vars
    BY <2>1, <2>7 DEF vars
  <2>8. QED
    BY <2>1, <2>3, <2>4, <2>5, <2>6, <2>7
    DEF Next, CheckLocal, InsertLocal, CreateRemote, UpdateRemote, DeleteLibrary, SetFormats, Edit,
        FileRemoved, FileAdded, FileRewritten, GoesOffline, ComesOnline, Unchanged
<1>3. QED
  BY <1>1, <1>2, TypeCorrect, PTL DEF Spec

\* A change of a local root loses and merges no comic, and moves only its own.
THEOREM RootUpdatesKeepComics == Spec => RootUpdateKeepsComics
<1>1. TypeOK /\ LeavesARoot /\ FinishRootUpdate
        => \E b \in Bijection(Comics, Comics') : Relocation(b, job.at.id)
  <2> SUFFICES ASSUME TypeOK, LeavesARoot, FinishRootUpdate
               PROVE  \E b \in Bijection(Comics, Comics') : Relocation(b, job.at.id)
    OBVIOUS
  <2>1. /\ job.pc = "rootUpdate" /\ job \in Job
        /\ job.at.id \in Root /\ job.at.root \in Root
    BY DEF FinishRootUpdate, TypeOK, Root
  <2>2. (CHOOSE p \in job.was : p[1] = job.at.id)[2] \in Root
    <3>1. (CHOOSE p \in job.was : p[1] = job.at.id) \in job.was
      BY <2>1 DEF LeavesARoot
    <3>2. job.was \subseteq LocalRoot \X LocalRoot
      BY <2>1 DEF Job
    <3>3. QED
      BY <3>1, <3>2 DEF Root
  <2>3. PICK from \in Root : from = (CHOOSE p \in job.was : p[1] = job.at.id)[2]
    BY <2>2
  <2>4. PICK to \in Root : to = job.at.root
    BY <2>1
  <2>5. PICK M : M = IF job.migrate THEN RootMoves(job.at.id, from, to) ELSE {}
    OBVIOUS
  <2>6. \/ UNCHANGED row
        \/ /\ \A f \in M : row[Moved(f, from, to)] # NoRow => Moved(f, from, to) \in M
           /\ row' = Rekeyed(M, from, to)
    BY <2>3, <2>4, <2>5 DEF FinishRootUpdate
  <2>7. M \in SUBSET RootMoves(job.at.id, from, to)
    BY <2>5
  <2>8. QED
    BY <2>1, <2>6, <2>7, NothingRelocates, RekeyedRelocates
<1>2. TypeOK /\ LeavesARoot =>
        (FinishRootUpdate =>
           \E to \in Bijection(Comics, Comics') :
             \A f \in Comics :
               /\ row'[to[f]] = row[f]
               /\ \/ to[f] = f
                  \/ /\ row[f].lib = job.at.id
                     /\ to[f] \in disk
                     /\ Last(to[f]) = Last(f) \/ f \in Root)
  BY <1>1 DEF Relocation
<1>3. QED
  BY <1>2, SpecLeavesARoot, TypeCorrect, PTL DEF Spec, RootUpdateKeepsComics
=============================================================================
