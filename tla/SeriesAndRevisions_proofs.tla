---------------------- MODULE SeriesAndRevisions_proofs ----------------------
(***************************************************************************)
(* Proofs about two components that share no variable; each theorem is     *)
(* about one of them, for any constants.                                   *)
(*                                                                         *)
(* FolderSeries: that comics, items and series agree, whatever moves and   *)
(* whoever edits; that a locked order survives a sync; that the order      *)
(* asked for is the order shown; that a locked name moves along with its   *)
(* series.                                                                 *)
(*                                                                         *)
(* RevisionPoller: the types, that no commit is lost to a list that waits, *)
(* except one that a baseline has swallowed, and that a list reloads only  *)
(* for a commit it did not show or for a new connection.                   *)
(***************************************************************************)
EXTENDS FolderSeries, RevisionPoller, FiniteSetTheorems, WellFoundedInduction, TLAPS

-----------------------------------------------------------------------------
(* The least number of a set, and recursive functions *)

LEMMA LeastNat ==
  ASSUME NEW T, T \subseteq Nat, T # {}
  PROVE  \E n \in T : \A m \in T : n <= m
<1>1. ASSUME NEW R, \A m, n \in Nat : m < n => <<m, n>> \in R,
             \E n \in T : \A m \in T : <<m, n>> \notin R
      PROVE  \E n \in T : \A m \in T : n <= m
  <2>1. PICK n \in T : \A m \in T : <<m, n>> \notin R
    BY <1>1
  <2>2. ASSUME NEW m \in T PROVE n <= m
    <3>1. m \in Nat /\ n \in Nat
      OBVIOUS
    <3>2. ~ (m < n)
      BY <1>1, <2>1, <3>1
    <3>3. QED
      BY <3>1, <3>2
  <2>3. QED
    BY <2>2
<1>2. \A m, n \in Nat : m < n => <<m, n>> \in OpToRel(<, Nat)
  BY Zenon DEF OpToRel
<1>3. \E n \in T : \A m \in T : <<m, n>> \notin OpToRel(<, Nat)
  BY NatLessThanWellFounded, WFMin
<1>4. QED
  BY <1>1, <1>2, <1>3, Zenon

\* A first value and a step, given as a function, determine a function on 0 .. n.
Recurs(f, a, G, n) == f[0] = a /\ \A i \in 1 .. n : f[i] = G[<<i, f[i - 1]>>]

LEMMA Recursion ==
  ASSUME NEW N \in Nat, NEW V, NEW a \in V, NEW G, \A i \in 1 .. N : \A x \in V : G[<<i, x>>] \in V
  PROVE  \E f \in [0 .. N -> V] : Recurs(f, a, G, N)
<1> DEFINE T == {n \in 0 .. N : ~ \E f \in [0 .. n -> V] : Recurs(f, a, G, n)}
<1> SUFFICES ASSUME T # {} PROVE FALSE
  <2>1. T = {} => N \notin T
    OBVIOUS
  <2>2. N \in 0 .. N
    OBVIOUS
  <2>3. N \notin T => \E f \in [0 .. N -> V] : Recurs(f, a, G, N)
    BY <2>2
  <2> HIDE DEF T
  <2>4. QED
    BY <2>1, <2>3
<1>1. PICK n \in T : \A m \in T : n <= m
  <2>1. T \subseteq Nat
    OBVIOUS
  <2> HIDE DEF T
  <2>2. QED
    BY <2>1, LeastNat
<1>2. n # 0
  <2>1. [i \in 0 .. 0 |-> a] \in [0 .. 0 -> V] /\ Recurs([i \in 0 .. 0 |-> a], a, G, 0)
    BY DEF Recurs
  <2>2. QED
    BY <2>1
<1>3. n \in 1 .. N /\ n - 1 \in 0 .. N /\ n - 1 \notin T
  BY <1>1, <1>2
<1>4. PICK f \in [0 .. n - 1 -> V] : Recurs(f, a, G, n - 1)
  BY <1>3
<1> DEFINE g == [i \in 0 .. n |-> IF i < n THEN f[i] ELSE G[<<n, f[n - 1]>>]]
<1>5. \A i \in 0 .. n - 1 : g[i] = f[i]
  BY <1>3
<1>6. g[n] = G[<<n, f[n - 1]>>]
  BY <1>3
<1>7. g \in [0 .. n -> V]
  <2>1. f[n - 1] \in V /\ G[<<n, f[n - 1]>>] \in V
    BY <1>3, <1>4
  <2>2. \A i \in 0 .. n : i < n => f[i] \in V
    BY <1>3, <1>4
  <2>3. QED
    BY <2>1, <2>2
<1> HIDE DEF g
<1>8. Recurs(g, a, G, n)
  <2>1. g[0] = a
    BY <1>3, <1>4, <1>5 DEF Recurs
  <2>2. ASSUME NEW i \in 1 .. n PROVE g[i] = G[<<i, g[i - 1]>>]
    <3>1. g[i - 1] = f[i - 1]
      BY <1>3, <1>5
    <3>2. CASE i = n
      BY <1>6, <3>1, <3>2
    <3>3. CASE i # n
      <4>1. i \in 1 .. n - 1 /\ i \in 0 .. n - 1
        BY <1>3, <3>3
      <4>2. QED
        BY <1>4, <1>5, <3>1, <4>1 DEF Recurs
    <3>4. QED
      BY <3>2, <3>3
  <2>3. QED
    BY <2>1, <2>2 DEF Recurs
<1>9. QED
  BY <1>1, <1>7, <1>8

-----------------------------------------------------------------------------
(* Folder series: finite sets and types *)

LEMMA SeriesAssumed ==
  /\ MaxVolume \in Nat /\ Unit \in Nat /\ Unit > 0 /\ Orders \subseteq Int
  /\ IsFiniteSet(Folders) /\ Cardinality(Folders) \in Nat
  /\ \A S \in SUBSET Volumes : IsFiniteSet(S) /\ Cardinality(S) \in Nat
<1>1. MaxVolume \in Nat /\ Unit \in Nat /\ Unit > 0 /\ Orders \subseteq Int /\ IsFiniteSet(Folders)
  BY FolderSeriesAssumption
<1>2. IsFiniteSet(Volumes)
  BY <1>1, FS_Interval DEF Volumes
<1>3. \A S \in SUBSET Volumes : IsFiniteSet(S)
  BY <1>2, FS_Subset
<1>4. QED
  BY <1>1, <1>3, FS_CardinalityType

Item == [series : Spots, order : Int, locked : BOOLEAN]
SeriesRow == [name : SUBSET (Folders \cup Names), locked : BOOLEAN]
Named(row) == row = NoSeries \/ Cardinality(row.name) = 1

LEMMA NoneTyped ==
  /\ NoItem \in Item /\ NoItem.series = {} /\ ~ NoItem.locked
  /\ NoSeries \in SeriesRow /\ ~ NoSeries.locked
  /\ {} \in Spots
BY DEF NoItem, Item, NoSeries, SeriesRow, Spots

\* A row that follows its folder stays one, and is there.
LEMMA RenamedRow ==
  ASSUME NEW row \in SeriesRow, Named(row), NEW g \in Folders
  PROVE  /\ Renamed(row, g) \in SeriesRow /\ Named(Renamed(row, g)) /\ Renamed(row, g) # NoSeries
         /\ row.locked => Renamed(row, g) = row
<1>1. CASE row.locked
  BY <1>1 DEF Renamed, NoSeries
<1>2. CASE ~ row.locked
  <2>1. Renamed(row, g) = [name |-> {g}, locked |-> FALSE]
    BY <1>2 DEF Renamed
  <2>2. Cardinality({g}) = 1
    BY FS_Singleton
  <2>3. Renamed(row, g).name # NoSeries.name
    BY <2>1 DEF NoSeries
  <2>4. QED
    BY <1>2, <2>1, <2>2, <2>3 DEF SeriesRow, Named
<1>3. QED
  BY <1>1, <1>2

-----------------------------------------------------------------------------
(* The series that move *)

\* The rounds in which occupied targets get free.
Round(pairs, done) == {p \in pairs : p[2] \in Rows => p[2] \in {q[1] : q \in done}}

LEMMA Rounds ==
  ASSUME NEW scan
  PROVE  \E d \in [0 .. Cardinality(Folders) -> SUBSET Pairs(scan)] :
           /\ d[0] = {}
           /\ \A n \in 1 .. Cardinality(Folders) : d[n] = Round(Pairs(scan), d[n - 1])
           /\ Rekeyed(scan) = d[Cardinality(Folders)]
<1> DEFINE N == Cardinality(Folders)
           P == Pairs(scan)
           V == SUBSET P
           Body(f) == [n \in 0 .. N |->
                         IF n = 0 THEN {}
                         ELSE LET freed == {p[1] : p \in f[n - 1]}
                              IN {p \in P : p[2] \in Rows => p[2] \in freed}]
           F == CHOOSE f : f = Body(f)
           G == [z \in (1 .. N) \X V |-> Round(P, z[2])]
<1>1. Rekeyed(scan) = F[N]
  BY DEF Rekeyed
<1>2. N \in Nat
  BY SeriesAssumed
<1> HIDE DEF P, N
<1>3. \A S : Round(P, S) \in V
  BY DEF Round
<1>4. \A i \in 1 .. N : \A x \in V : G[<<i, x>>] = Round(P, x)
  OBVIOUS
<1> HIDE DEF G, V
<1>5. {} \in V
  BY DEF V
<1>6. PICK g \in [0 .. N -> V] : Recurs(g, {}, G, N)
  <2>1. \A i \in 1 .. N : \A x \in V : G[<<i, x>>] \in V
    BY <1>3, <1>4
  <2>2. QED
    BY <1>2, <1>5, <2>1, Recursion
<1>7. g[0] = {} /\ \A n \in 1 .. N : g[n] = Round(P, g[n - 1])
  <2>1. \A n \in 1 .. N : n - 1 \in 0 .. N
    BY <1>2
  <2>2. QED
    BY <1>4, <1>6, <2>1 DEF Recurs
<1>8. g = Body(g)
  <2>1. \A n \in 0 .. N : n # 0 => n \in 1 .. N
    BY <1>2
  <2>2. \A n \in 0 .. N : g[n] = Body(g)[n]
    BY <1>7, <2>1 DEF Round
  <2>3. g = [n \in 0 .. N |-> g[n]]
    BY <1>6
  <2>4. Body(g) = [n \in 0 .. N |-> Body(g)[n]]
    OBVIOUS
  <2> HIDE DEF Body
  <2>5. QED
    BY <2>2, <2>3, <2>4
<1>9. F = Body(F)
  BY <1>8
<1> HIDE DEF F
<1>10. F[0] = {} /\ \A n \in 1 .. N : F[n] = Round(P, F[n - 1])
  <2>1. F[0] = {}
    BY <1>2, <1>9
  <2>2. ASSUME NEW n \in 1 .. N PROVE F[n] = Round(P, F[n - 1])
    <3>1. n \in 0 .. N /\ n # 0
      BY <1>2
    <3>2. F[n] = Body(F)[n]
      BY <1>9
    <3>3. QED
      BY <3>1, <3>2 DEF Round
  <2>3. QED
    BY <2>1, <2>2
<1>11. F \in [0 .. N -> V]
  <2>1. \A n \in 0 .. N : n # 0 => n \in 1 .. N
    BY <1>2
  <2>2. \A n \in 0 .. N : F[n] \in V
    BY <1>3, <1>5, <1>10, <2>1
  <2>3. F = [n \in 0 .. N |-> F[n]]
    BY <1>9
  <2> HIDE DEF Body
  <2>4. QED
    BY <2>2, <2>3
<1>12. QED
  BY <1>1, <1>10, <1>11 DEF P, N, V

LEMMA RekeyedArePairs ==
  ASSUME NEW scan, NEW p \in Rekeyed(scan)
  PROVE  /\ p \in Pairs(scan) /\ p \in Candidates(scan)
         /\ p[1] \in Rows /\ p[1] \in Folders /\ p[2] \in Folders
         /\ Members(p[1]) # {} /\ \A v \in Members(p[1]) : scan[v] = {p[2]}
<1>1. p \in Pairs(scan)
  BY Rounds, SeriesAssumed
<1>2. QED
  BY <1>1 DEF Pairs, Candidates, Rows

\* What the rows of the series are after the pairs have moved.
LEMMA SeriesAfterType ==
  ASSUME SeriesTypeOK, NEW scan
  PROVE  /\ SeriesAfter(Rekeyed(scan)) \in [Folders -> SeriesRow]
         /\ \A g \in Folders : Named(SeriesAfter(Rekeyed(scan))[g])
<1> DEFINE pairs == Rekeyed(scan)
<1>1. ASSUME NEW g \in Folders
      PROVE  SeriesAfter(pairs)[g] \in SeriesRow /\ Named(SeriesAfter(pairs)[g])
  <2> DEFINE from == Source(pairs, g)
             f == CHOOSE h \in from : TRUE
  <2>1. from \subseteq Folders
    BY RekeyedArePairs DEF Source
  <2>2. SeriesAfter(pairs)[g] = IF from = {} THEN NoSeries
                                ELSE IF f = g THEN series[g] ELSE Renamed(series[f], g)
    BY DEF SeriesAfter
  <2>3. from # {} => f \in Folders
    BY <2>1
  <2> HIDE DEF from, f, pairs
  <2>4. \A h \in Folders : series[h] \in SeriesRow /\ Named(series[h])
    BY DEF SeriesTypeOK, SeriesRow, Named
  <2>5. from # {} => Renamed(series[f], g) \in SeriesRow /\ Named(Renamed(series[f], g))
    BY <2>3, <2>4, RenamedRow
  <2>6. QED
    BY <2>2, <2>4, <2>5, NoneTyped DEF Named
<1>2. SeriesAfter(pairs) = [g \in Folders |-> SeriesAfter(pairs)[g]]
  BY DEF SeriesAfter
<1> HIDE DEF pairs
<1>3. QED
  BY <1>1, <1>2 DEF pairs

\* An item that is moved along with its series keeps its order and its lock.
LEMMA ItemsAfterFields ==
  ASSUME SeriesTypeOK, NEW pairs, \A p \in pairs : p[2] \in Folders, NEW v \in Volumes
  PROVE  /\ ItemsAfter(pairs)[v] \in Item
         /\ ItemsAfter(pairs)[v].order = item[v].order
         /\ ItemsAfter(pairs)[v].locked = item[v].locked
         /\ (\A p \in pairs : item[v].series # {p[1]}) => ItemsAfter(pairs)[v] = item[v]
         /\ (\E p \in pairs : item[v].series = {p[1]}) =>
              \E p \in pairs : item[v].series = {p[1]} /\ ItemsAfter(pairs)[v].series = {p[2]}
<1>1. item[v] \in Item
  BY DEF SeriesTypeOK, Item
<1> DEFINE p == CHOOSE q \in pairs : item[v].series = {q[1]}
<1>3. CASE \E q \in pairs : item[v].series = {q[1]}
  <2>1. p \in pairs /\ item[v].series = {p[1]}
    BY <1>3
  <2>2. ItemsAfter(pairs)[v] = [item[v] EXCEPT !.series = {p[2]}]
    BY <1>3 DEF ItemsAfter
  <2> HIDE DEF p
  <2>3. {p[2]} \in Spots
    BY <2>1 DEF Spots
  <2>4. /\ ItemsAfter(pairs)[v] \in Item
        /\ ItemsAfter(pairs)[v].order = item[v].order
        /\ ItemsAfter(pairs)[v].locked = item[v].locked
        /\ ItemsAfter(pairs)[v].series = {p[2]}
    BY <1>1, <2>2, <2>3 DEF Item
  <2>5. QED
    BY <1>3, <2>1, <2>4
<1>4. CASE \A q \in pairs : item[v].series # {q[1]}
  <2>1. ItemsAfter(pairs)[v] = item[v]
    BY <1>4 DEF ItemsAfter
  <2>2. QED
    BY <1>1, <1>4, <2>1
<1>5. QED
  BY <1>3, <1>4

-----------------------------------------------------------------------------
(* The rebuild *)

\* Whatever the items and rows were, the rebuild makes one item for each comic, in
\* the series of its folder, and one series for each folder with a comic.
LEMMA Rebuilt ==
  ASSUME NEW p \in [Volumes -> Spots], NEW items \in [Volumes -> Item]
  PROVE  /\ RebuiltItems(p, items) \in [Volumes -> Item]
         /\ \A v \in Volumes : /\ RebuiltItems(p, items)[v].series = p[v]
                               /\ p[v] = {} => RebuiltItems(p, items)[v] = NoItem
                               /\ p[v] # {} /\ v \in KeptOrders(p, items) =>
                                    /\ RebuiltItems(p, items)[v].locked
                                    /\ RebuiltItems(p, items)[v].order = items[v].order
<1>1. ASSUME NEW v \in Volumes
      PROVE  /\ RebuiltItems(p, items)[v] \in Item
             /\ RebuiltItems(p, items)[v].series = p[v]
             /\ p[v] = {} => RebuiltItems(p, items)[v] = NoItem
             /\ p[v] # {} /\ v \in KeptOrders(p, items) =>
                  RebuiltItems(p, items)[v].locked /\ RebuiltItems(p, items)[v].order = items[v].order
  <2>1. CASE p[v] = {}
    <3>1. RebuiltItems(p, items)[v] = NoItem
      BY <2>1 DEF RebuiltItems
    <3>2. QED
      BY <2>1, <3>1, NoneTyped
  <2>2. CASE p[v] # {} /\ v \in KeptOrders(p, items)
    <3>1. items[v].locked
      BY <2>2 DEF KeptOrders
    <3>2. RebuiltItems(p, items)[v] = [items[v] EXCEPT !.series = p[v]]
      BY <2>2 DEF RebuiltItems
    <3>3. items[v] \in Item /\ p[v] \in Spots
      OBVIOUS
    <3>4. /\ [items[v] EXCEPT !.series = p[v]] \in Item
          /\ [items[v] EXCEPT !.series = p[v]].series = p[v]
          /\ [items[v] EXCEPT !.series = p[v]].order = items[v].order
          /\ [items[v] EXCEPT !.series = p[v]].locked = items[v].locked
      BY <3>3 DEF Item
    <3>5. QED
      BY <2>2, <3>1, <3>2, <3>4
  <2>3. CASE p[v] # {} /\ v \notin KeptOrders(p, items)
    <3> DEFINE before == {w \in Volumes : p[w] = p[v] /\ w <= v}
    <3>1. RebuiltItems(p, items)[v] = [series |-> p[v], order |-> Unit * Cardinality(before), locked |-> FALSE]
      BY <2>3 DEF RebuiltItems
    <3>2. Cardinality(before) \in Nat
      BY SeriesAssumed
    <3> HIDE DEF before
    <3>3. Unit * Cardinality(before) \in Int
      BY <3>2, SeriesAssumed
    <3>4. QED
      BY <2>3, <3>1, <3>3 DEF Item
  <2>4. QED
    BY <2>1, <2>2, <2>3
<1>2. RebuiltItems(p, items) = [v \in Volumes |-> RebuiltItems(p, items)[v]]
  BY DEF RebuiltItems
<1>3. QED
  BY <1>1, <1>2

LEMMA RebuiltRows ==
  ASSUME NEW p \in [Volumes -> Spots], NEW rows \in [Folders -> SeriesRow], \A f \in Folders : Named(rows[f])
  PROVE  /\ RebuiltSeries(p, rows) \in [Folders -> SeriesRow]
         /\ \A f \in Folders : /\ Named(RebuiltSeries(p, rows)[f])
                               /\ RebuiltSeries(p, rows)[f] # NoSeries <=> f \in Active(p)
                               /\ f \in Active(p) /\ rows[f].locked => RebuiltSeries(p, rows)[f] = rows[f]
<1>1. ASSUME NEW f \in Folders
      PROVE  /\ RebuiltSeries(p, rows)[f] \in SeriesRow /\ Named(RebuiltSeries(p, rows)[f])
             /\ RebuiltSeries(p, rows)[f] # NoSeries <=> f \in Active(p)
             /\ f \in Active(p) /\ rows[f].locked => RebuiltSeries(p, rows)[f] = rows[f]
  <2>1. RebuiltSeries(p, rows)[f] = IF f \notin Active(p) THEN NoSeries ELSE Renamed(rows[f], f)
    BY DEF RebuiltSeries
  <2>2. /\ Renamed(rows[f], f) \in SeriesRow /\ Named(Renamed(rows[f], f)) /\ Renamed(rows[f], f) # NoSeries
        /\ rows[f].locked => Renamed(rows[f], f) = rows[f]
    BY RenamedRow
  <2>3. QED
    BY <2>1, <2>2, NoneTyped DEF Named
<1>2. RebuiltSeries(p, rows) = [f \in Folders |-> RebuiltSeries(p, rows)[f]]
  BY DEF RebuiltSeries
<1>3. QED
  BY <1>1, <1>2

\* Comics, items and series agree after a rebuild.
LEMMA RebuiltMirror ==
  ASSUME NEW p \in [Volumes -> Spots],
         place' = p, \A v \in Volumes : item'[v].series = p[v],
         \A f \in Folders : series'[f] # NoSeries <=> f \in Active(p)
  PROVE  SeriesMirrorComics'
<1>1. ComicsInTheirSeries'
  <2>1. \A v \in Volumes : \A f \in p[v] : f \in Folders /\ p[v] = {f}
    BY DEF Spots
  <2>2. \A v \in Volumes : \A f \in p[v] : f \in Active(p)
    BY <2>1 DEF Active
  <2>3. QED
    BY <2>1, <2>2 DEF ComicsInTheirSeries
<1>2. NoEmptySeries'
  <2>1. ASSUME NEW f \in Folders, series'[f] # NoSeries PROVE Members(f)' # {}
    <3>1. PICK v \in Volumes : p[v] = {f}
      BY <2>1 DEF Active
    <3>2. QED
      BY <3>1 DEF Members
  <2>2. QED
    BY <2>1 DEF NoEmptySeries, Rows
<1>3. QED
  BY <1>1, <1>2 DEF SeriesMirrorComics

-----------------------------------------------------------------------------
(* The order that is asked for *)

OrderAt(asked, i) == item[asked[i]].order
KeepsOrder(asked, i, k) == item[asked[i]].locked /\ (k # 0 => OrderAt(asked, i) > OrderAt(asked, k))
Anchors(asked) == {i \in DOMAIN asked : LastKept(asked)[i] = i}

LEMMA AskedType ==
  ASSUME SeriesTypeOK, NEW asked \in Seq(Volumes)
  PROVE  /\ Len(asked) \in Nat /\ DOMAIN asked = 1 .. Len(asked)
         /\ \A i \in DOMAIN asked : OrderAt(asked, i) \in Int
<1>1. \A i \in DOMAIN asked : asked[i] \in Volumes
  OBVIOUS
<1>2. QED
  BY <1>1 DEF OrderAt, SeriesTypeOK

\* The recursion of LastKept.
LEMMA LastKeptIs ==
  ASSUME SeriesTypeOK, NEW asked \in Seq(Volumes), NEW N, N = Len(asked), NEW L, L = LastKept(asked)
  PROVE  /\ L \in [0 .. N -> 0 .. N] /\ L[0] = 0
         /\ \A i \in 1 .. N : L[i] = IF KeepsOrder(asked, i, L[i - 1]) THEN i ELSE L[i - 1]
<1> DEFINE Body(f) == [i \in 0 .. N |->
                         IF i = 0 THEN 0
                         ELSE IF /\ item[asked[i]].locked
                                 /\ f[i - 1] # 0 => item[asked[i]].order > item[asked[f[i - 1]]].order
                         THEN i ELSE f[i - 1]]
           G == [z \in (1 .. N) \X (0 .. N) |-> IF KeepsOrder(asked, z[1], z[2]) THEN z[1] ELSE z[2]]
           F == CHOOSE f : f = Body(f)
<1>0. N \in Nat
  OBVIOUS
<1>1. L = F
  BY DEF LastKept
<1>2. \A i \in 1 .. N : \A x \in 0 .. N : G[<<i, x>>] = (IF KeepsOrder(asked, i, x) THEN i ELSE x)
  OBVIOUS
<1> HIDE DEF G
<1>3. \A i \in 1 .. N : \A x \in 0 .. N : G[<<i, x>>] \in 0 .. N
  <2>1. ASSUME NEW i \in 1 .. N, NEW x \in 0 .. N PROVE G[<<i, x>>] \in 0 .. N
    <3>1. G[<<i, x>>] = i \/ G[<<i, x>>] = x
      BY <1>2
    <3>2. i \in 0 .. N
      BY <1>0
    <3>3. QED
      BY <3>1, <3>2
  <2>2. QED
    BY <2>1
<1>4. 0 \in 0 .. N
  BY <1>0
<1>5. PICK g \in [0 .. N -> 0 .. N] : Recurs(g, 0, G, N)
  BY <1>0, <1>3, <1>4, Recursion
<1>6. g[0] = 0 /\ \A i \in 1 .. N : g[i] = IF KeepsOrder(asked, i, g[i - 1]) THEN i ELSE g[i - 1]
  <2>1. \A n \in 1 .. N : n - 1 \in 0 .. N
    BY <1>0
  <2>2. QED
    BY <1>2, <1>5, <2>1 DEF Recurs
<1>7. g = Body(g)
  <2>1. \A n \in 0 .. N : n # 0 => n \in 1 .. N
    BY <1>0
  <2>2. \A n \in 0 .. N : g[n] = Body(g)[n]
    BY <1>6, <2>1 DEF KeepsOrder, OrderAt
  <2>3. g = [n \in 0 .. N |-> g[n]]
    BY <1>5
  <2>4. Body(g) = [n \in 0 .. N |-> Body(g)[n]]
    OBVIOUS
  <2> HIDE DEF Body
  <2>5. QED
    BY <2>2, <2>3, <2>4
<1>8. L = Body(L)
  <2>1. F = Body(F)
    BY <1>7
  <2> HIDE DEF F
  <2>2. QED
    BY <1>1, <2>1
<1> HIDE DEF F
<1>9. L[0] = 0 /\ \A i \in 1 .. N : L[i] = IF KeepsOrder(asked, i, L[i - 1]) THEN i ELSE L[i - 1]
  <2>1. L[0] = 0
    BY <1>0, <1>8
  <2>2. ASSUME NEW i \in 1 .. N PROVE L[i] = IF KeepsOrder(asked, i, L[i - 1]) THEN i ELSE L[i - 1]
    <3>1. i \in 0 .. N /\ i # 0
      BY <1>0
    <3>2. L[i] = Body(L)[i]
      BY <1>8
    <3>3. QED
      BY <3>1, <3>2 DEF KeepsOrder, OrderAt
  <2>3. QED
    BY <2>1, <2>2
<1>10. L \in [0 .. N -> 0 .. N]
  <2> DEFINE T == {n \in 0 .. N : L[n] \notin 0 .. N}
  <2>1. T = {}
    <3> SUFFICES ASSUME T # {} PROVE FALSE
      OBVIOUS
    <3>1. PICK n \in T : \A m \in T : n <= m
      <4>1. T \subseteq Nat
        OBVIOUS
      <4> HIDE DEF T
      <4>2. QED
        BY <4>1, LeastNat
    <3>2. n # 0
      BY <1>0, <1>9
    <3>3. n - 1 \in 0 .. N /\ n - 1 \notin T /\ n \in 1 .. N
      BY <1>0, <3>1, <3>2
    <3>4. L[n - 1] \in 0 .. N
      BY <3>3
    <3>5. L[n] \in 0 .. N
      BY <1>0, <1>9, <3>3, <3>4
    <3>6. QED
      BY <3>5
  <2>2. L = [n \in 0 .. N |-> L[n]]
    BY <1>8
  <2> HIDE DEF Body
  <2>3. QED
    BY <2>1, <2>2
<1>11. QED
  BY <1>9, <1>10

\* What is known of the orders that are kept, up to the i-th member asked for.
AnchorsUpTo(asked, L, i) ==
  /\ L[i] \in 0 .. i /\ L[L[i]] = L[i]
  /\ \A k \in 1 .. i : L[k] = k => k <= L[i]
  /\ \A k, l \in 1 .. i : L[k] = k /\ L[l] = l /\ k < l => OrderAt(asked, k) < OrderAt(asked, l)

LEMMA AnchorsRise ==
  ASSUME SeriesTypeOK, NEW asked \in Seq(Volumes), NEW N, N = Len(asked), NEW L, L = LastKept(asked)
  PROVE  \A i \in 0 .. N : AnchorsUpTo(asked, L, i)
<1>0. /\ N \in Nat /\ DOMAIN asked = 1 .. N
      /\ \A i \in 1 .. N : OrderAt(asked, i) \in Int
  BY AskedType
<1>1. /\ L \in [0 .. N -> 0 .. N] /\ L[0] = 0
      /\ \A i \in 1 .. N : L[i] = IF KeepsOrder(asked, i, L[i - 1]) THEN i ELSE L[i - 1]
  BY LastKeptIs
<1> DEFINE T == {n \in 0 .. N : ~ AnchorsUpTo(asked, L, n)}
<1> SUFFICES ASSUME T # {} PROVE FALSE
  OBVIOUS
<1>2. PICK n \in T : \A m \in T : n <= m
  <2>1. T \subseteq Nat
    OBVIOUS
  <2> HIDE DEF T
  <2>2. QED
    BY <2>1, LeastNat
<1>3. n # 0
  <2>1. AnchorsUpTo(asked, L, 0)
    BY <1>1 DEF AnchorsUpTo
  <2>2. QED
    BY <2>1
<1>4. n \in 1 .. N /\ n - 1 \in 0 .. N /\ n - 1 \notin T
  BY <1>0, <1>2, <1>3
<1> DEFINE p == L[n - 1]
<1>5. AnchorsUpTo(asked, L, n - 1)
  BY <1>4
<1> HIDE DEF T
<1>6. /\ p \in 0 .. n - 1 /\ L[p] = p
      /\ \A k \in 1 .. n - 1 : L[k] = k => k <= p
      /\ \A k, l \in 1 .. n - 1 : L[k] = k /\ L[l] = l /\ k < l => OrderAt(asked, k) < OrderAt(asked, l)
  BY <1>5 DEF AnchorsUpTo
<1>7. L[n] = IF KeepsOrder(asked, n, p) THEN n ELSE p
  BY <1>1, <1>4
<1>8. \A k \in 1 .. n : k = n \/ k \in 1 .. n - 1
  BY <1>4
<1> HIDE DEF p
<1>9. AnchorsUpTo(asked, L, n)
  <2>1. CASE KeepsOrder(asked, n, p)
    <3>1. L[n] = n
      BY <1>7, <2>1
    <3>2. ASSUME NEW k \in 1 .. n, NEW l \in 1 .. n, L[k] = k, L[l] = l, k < l
          PROVE  OrderAt(asked, k) < OrderAt(asked, l)
      <4>1. CASE l # n
        BY <1>4, <1>6, <1>8, <3>2, <4>1
      <4>2. CASE l = n
        <5>1. k \in 1 .. n - 1 /\ k <= p /\ p \in 1 .. n - 1
          BY <1>4, <1>6, <3>2, <4>2
        <5>2. OrderAt(asked, p) < OrderAt(asked, n)
          BY <1>0, <1>4, <2>1, <5>1 DEF KeepsOrder
        <5>3. k = p \/ OrderAt(asked, k) < OrderAt(asked, p)
          BY <1>4, <1>6, <3>2, <5>1
        <5>4. k \in 1 .. N /\ p \in 1 .. N
          BY <1>4, <5>1
        <5>5. QED
          BY <1>0, <1>4, <4>2, <5>2, <5>3, <5>4
      <4>3. QED
        BY <4>1, <4>2
    <3>3. QED
      BY <1>4, <3>1, <3>2 DEF AnchorsUpTo
  <2>2. CASE ~ KeepsOrder(asked, n, p)
    <3>1. L[n] = p /\ p # n
      BY <1>4, <1>6, <1>7, <2>2
    <3>2. \A k \in 1 .. n : L[k] = k => k \in 1 .. n - 1
      BY <1>8, <3>1
    <3>3. QED
      BY <1>4, <1>6, <3>1, <3>2 DEF AnchorsUpTo
  <2>3. QED
    BY <2>1, <2>2
<1>10. QED
  BY <1>2, <1>9 DEF T

-----------------------------------------------------------------------------
(* Spreading orders over a gap *)

LEMMA DivIs ==
  ASSUME NEW x \in Int, NEW n \in Int, n > 0
  PROVE  /\ x \div n \in Int
         /\ n * (x \div n) <= x /\ x < n * (x \div n) + n
OBVIOUS

LEMMA TimesMonotone ==
  ASSUME NEW n \in Int, n > 0, NEW a \in Int, NEW b \in Int, a <= b
  PROVE  n * a <= n * b
<1>1. n * (b - a) >= 0
  OBVIOUS
<1>2. n * (b - a) = n * b - n * a
  OBVIOUS
<1>3. n * a \in Int /\ n * b \in Int
  OBVIOUS
<1>4. QED
  BY <1>1, <1>2, <1>3

\* Where there is room, each member gets an order above that of the one before it.
LEMMA DivStep ==
  ASSUME NEW g \in Int, NEW n \in Int, n > 0, g >= n, NEW a \in Int
  PROVE  (g * a) \div n < (g * (a + 1)) \div n
<1> DEFINE x == g * a
           y == g * (a + 1)
           q == x \div n
           r == y \div n
<1>1. x \in Int /\ y \in Int /\ y = x + g
  OBVIOUS
<1> HIDE DEF x, y
<1>2. q \in Int /\ n * q <= x
  BY <1>1, DivIs
<1>3. r \in Int /\ y < n * r + n
  BY <1>1, DivIs
<1> HIDE DEF q, r
<1>4. ASSUME r <= q PROVE FALSE
  <2>1. n * r <= n * q
    BY <1>2, <1>3, <1>4, TimesMonotone
  <2>2. n * r \in Int /\ n * q \in Int
    BY <1>2, <1>3
  <2>3. QED
    BY <1>1, <1>2, <1>3, <2>1, <2>2
<1>5. QED
  BY <1>2, <1>3, <1>4 DEF q, r, x, y

\* The last of them stays below the end of the gap.
LEMMA DivLast ==
  ASSUME NEW g \in Int, NEW n \in Int, n > 0, g >= n
  PROVE  (g * (n - 1)) \div n < g
<1> DEFINE x == g * (n - 1)
           q == x \div n
<1>1. x \in Int /\ x = n * g - g
  OBVIOUS
<1> HIDE DEF x
<1>2. q \in Int /\ n * q <= x
  BY <1>1, DivIs
<1> HIDE DEF q
<1>3. ASSUME g <= q PROVE FALSE
  <2>1. n * g <= n * q
    BY <1>2, <1>3, TimesMonotone
  <2>2. n * g \in Int /\ n * q \in Int
    BY <1>2
  <2>3. QED
    BY <1>1, <1>2, <2>1, <2>2
<1>4. QED
  BY <1>2, <1>3 DEF q, x

\* The first that is kept to the right of i.
NextAnchor(asked, i, r) ==
  r \in Anchors(asked) /\ i < r /\ \A k \in Anchors(asked) : i < k => r <= k

\* The orders that set_series_items_order spreads, case by case.
LEMMA InterpolatedIs ==
  ASSUME SeriesTypeOK, NEW asked \in Seq(Volumes), NEW N, N = Len(asked), NEW L, L = LastKept(asked),
         NEW O, O = Interpolated(asked)
  PROVE  /\ DOMAIN O = 1 .. N
         /\ \A i \in 1 .. N :
              /\ Anchors(asked) = {} => O[i] = Unit * i
              /\ i \in Anchors(asked) => O[i] = OrderAt(asked, i)
              /\ Anchors(asked) # {} /\ i \notin Anchors(asked) =>
                   \/ /\ L[i] = 0
                      /\ \E r \in 1 .. N : NextAnchor(asked, i, r) /\ O[i] = OrderAt(asked, r) - Unit * (r - i)
                   \/ /\ L[i] # 0 /\ \A k \in Anchors(asked) : k < i
                      /\ O[i] = OrderAt(asked, L[i]) + Unit * (i - L[i])
                   \/ /\ L[i] # 0
                      /\ \E r \in 1 .. N :
                           /\ NextAnchor(asked, i, r)
                           /\ O[i] = OrderAt(asked, L[i])
                                     + ((OrderAt(asked, r) - OrderAt(asked, L[i])) * (i - L[i])) \div (r - L[i])
<1> DEFINE kept == {i \in DOMAIN asked : L[i] = i}
           order(i) == item[asked[i]].order
           left(i) == L[i]
           rights(i) == {j \in kept : j > i}
           right(i) == CHOOSE j \in rights(i) : \A k \in rights(i) : j <= k
           value(i) == IF kept = {} THEN Unit * i
                       ELSE IF i \in kept THEN order(i)
                       ELSE IF left(i) = 0 THEN order(right(i)) - Unit * (right(i) - i)
                       ELSE IF rights(i) = {} THEN order(left(i)) + Unit * (i - left(i))
                       ELSE order(left(i)) + ((order(right(i)) - order(left(i))) * (i - left(i))) \div (right(i) - left(i))
<1>0. N \in Nat /\ DOMAIN asked = 1 .. N
  BY AskedType
<1>1. O = [i \in DOMAIN asked |-> value(i)]
  BY DEF Interpolated
<1>2. \A i \in 1 .. N : O[i] = value(i)
  BY <1>0, <1>1
<1>3. DOMAIN O = 1 .. N
  BY <1>0, <1>1
<1>4. kept = Anchors(asked) /\ kept \subseteq 1 .. N
  BY <1>0 DEF Anchors
<1>5. \A i \in 1 .. N : AnchorsUpTo(asked, L, i)
  <2>1. \A i \in 1 .. N : i \in 0 .. N
    BY <1>0
  <2>2. \A i \in 0 .. N : AnchorsUpTo(asked, L, i)
    BY AnchorsRise
  <2>3. QED
    BY <2>1, <2>2
<1>6. \A i : order(i) = OrderAt(asked, i)
  BY DEF OrderAt
<1>7. ASSUME NEW i \in 1 .. N, rights(i) # {}
      PROVE  right(i) \in 1 .. N /\ NextAnchor(asked, i, right(i))
  <2>1. rights(i) \subseteq Nat
    BY <1>0, <1>4
  <2>2. \E j \in rights(i) : \A k \in rights(i) : j <= k
    <3> DEFINE T == rights(i)
    <3> HIDE DEF rights
    <3>1. QED
      BY <1>7, <2>1, LeastNat
  <2>3. right(i) \in rights(i) /\ \A k \in rights(i) : right(i) <= k
    BY <2>2
  <2>4. \A k \in kept : i < k => k \in rights(i)
    BY <1>0, <1>4
  <2>5. right(i) \in kept /\ i < right(i)
    BY <1>0, <1>4, <2>3
  <2> HIDE DEF right, rights, kept
  <2>6. QED
    BY <1>4, <2>3, <2>4, <2>5 DEF NextAnchor
<1>8. ASSUME NEW i \in 1 .. N, kept # {}, left(i) = 0
      PROVE  rights(i) # {}
  <2>1. PICK k \in kept : TRUE
    BY <1>8
  <2>2. k \in 1 .. N /\ L[k] = k
    BY <1>4, <2>1
  <2>3. \A l \in 1 .. i : L[l] = l => l <= 0
    BY <1>5, <1>8 DEF AnchorsUpTo
  <2>4. ~ (k \in 1 .. i)
    BY <1>0, <2>2, <2>3
  <2>5. k > i
    BY <1>0, <2>2, <2>4
  <2>6. QED
    BY <2>1, <2>5
<1>9. ASSUME NEW i \in 1 .. N, i \notin kept, rights(i) = {}
      PROVE  \A k \in kept : k < i
  BY <1>0, <1>4, <1>9
<1> HIDE DEF kept, rights, right, order
<1>10. ASSUME NEW i \in 1 .. N
       PROVE  /\ kept = {} => O[i] = Unit * i
              /\ i \in kept => O[i] = OrderAt(asked, i)
              /\ kept # {} /\ i \notin kept =>
                   \/ /\ L[i] = 0
                      /\ \E r \in 1 .. N : NextAnchor(asked, i, r) /\ O[i] = OrderAt(asked, r) - Unit * (r - i)
                   \/ /\ L[i] # 0 /\ \A k \in kept : k < i
                      /\ O[i] = OrderAt(asked, L[i]) + Unit * (i - L[i])
                   \/ /\ L[i] # 0
                      /\ \E r \in 1 .. N :
                           /\ NextAnchor(asked, i, r)
                           /\ O[i] = OrderAt(asked, L[i])
                                     + ((OrderAt(asked, r) - OrderAt(asked, L[i])) * (i - L[i])) \div (r - L[i])
  <2>1. O[i] = value(i)
    BY <1>2
  <2>2. CASE kept = {}
    BY <2>1, <2>2
  <2>3. CASE i \in kept
    BY <1>6, <2>1, <2>3
  <2>4. CASE kept # {} /\ i \notin kept /\ left(i) = 0
    <3>1. right(i) \in 1 .. N /\ NextAnchor(asked, i, right(i))
      BY <1>7, <1>8, <2>4
    <3>2. O[i] = OrderAt(asked, right(i)) - Unit * (right(i) - i)
      BY <1>6, <2>1, <2>4
    <3>3. QED
      BY <2>4, <3>1, <3>2
  <2>5. CASE kept # {} /\ i \notin kept /\ left(i) # 0 /\ rights(i) = {}
    <3>1. O[i] = OrderAt(asked, L[i]) + Unit * (i - L[i])
      BY <1>6, <2>1, <2>5
    <3>2. QED
      BY <1>9, <2>5, <3>1
  <2>6. CASE kept # {} /\ i \notin kept /\ left(i) # 0 /\ rights(i) # {}
    <3>1. right(i) \in 1 .. N /\ NextAnchor(asked, i, right(i))
      BY <1>7, <2>6
    <3>2. O[i] = OrderAt(asked, L[i])
                 + ((OrderAt(asked, right(i)) - OrderAt(asked, L[i])) * (i - L[i])) \div (right(i) - L[i])
      BY <1>6, <2>1, <2>6
    <3>3. QED
      BY <2>6, <3>1, <3>2
  <2>7. QED
    BY <2>2, <2>3, <2>4, <2>5, <2>6
<1>11. QED
  BY <1>3, <1>4, <1>10

\* Where no gap is used up, neighbours that are kept are as far apart as their places.
LEMMA RoomBetween ==
  ASSUME SeriesTypeOK, NEW asked \in Seq(Volumes), NEW N, N = Len(asked), NEW L, L = LastKept(asked),
         ~ Tight(asked), NEW i \in 1 .. N, L[i] # 0, NEW r \in 1 .. N, NextAnchor(asked, i, r)
  PROVE  /\ L[i] \in 1 .. i /\ L[i] \in Anchors(asked) /\ L[i] < r
         /\ OrderAt(asked, r) - OrderAt(asked, L[i]) >= r - L[i]
<1> DEFINE l == L[i]
<1>0. N \in Nat /\ DOMAIN asked = 1 .. N /\ \A k \in 1 .. N : OrderAt(asked, k) \in Int
  BY AskedType
<1>1. AnchorsUpTo(asked, L, i) /\ AnchorsUpTo(asked, L, r)
  <2>1. i \in 0 .. N /\ r \in 0 .. N
    BY <1>0
  <2>2. QED
    BY <2>1, AnchorsRise
<1>2. l \in 1 .. i /\ L[l] = l /\ \A k \in 1 .. i : L[k] = k => k <= l
  BY <1>0, <1>1 DEF AnchorsUpTo
<1>3. l \in 1 .. N /\ l \in Anchors(asked)
  BY <1>0, <1>2 DEF Anchors
<1>4. r \in Anchors(asked) /\ i < r /\ \A k \in Anchors(asked) : i < k => r <= k
  BY DEF NextAnchor
<1>5. L[r] = r /\ l < r /\ l \in 1 .. r /\ r \in 1 .. r
  BY <1>0, <1>2, <1>4 DEF Anchors
<1> HIDE DEF l
<1>6. OrderAt(asked, l) < OrderAt(asked, r)
  BY <1>1, <1>2, <1>5 DEF AnchorsUpTo
<1>7. \A k \in Anchors(asked) : k <= l \/ r <= k
  <2>1. ASSUME NEW k \in Anchors(asked) PROVE k <= l \/ r <= k
    <3>1. k \in 1 .. N /\ L[k] = k
      BY <1>0 DEF Anchors
    <3>2. CASE i < k
      BY <1>4, <3>2
    <3>3. CASE ~ (i < k)
      <4>1. k \in 1 .. i
        BY <1>0, <3>1, <3>3
      <4>2. QED
        BY <1>2, <3>1, <4>1
    <3>4. QED
      BY <3>2, <3>3
  <2>2. QED
    BY <2>1
<1>8. ~ (0 < OrderAt(asked, r) - OrderAt(asked, l) /\ OrderAt(asked, r) - OrderAt(asked, l) < r - l)
  BY <1>3, <1>4, <1>5, <1>7 DEF Tight, Anchors, OrderAt
<1>9. OrderAt(asked, r) \in Int /\ OrderAt(asked, l) \in Int
  BY <1>0, <1>3
<1>10. QED
  BY <1>2, <1>3, <1>5, <1>6, <1>8, <1>9 DEF l

\* The orders shown next to each other rise.
LEMMA NextOrderRises ==
  ASSUME SeriesTypeOK, NEW asked \in Seq(Volumes), NEW N, N = Len(asked), NEW O, O = Interpolated(asked),
         ~ Tight(asked), NEW i \in 1 .. N, i + 1 \in 1 .. N
  PROVE  O[i] < O[i + 1]
<1> DEFINE L == LastKept(asked)
           A == Anchors(asked)
           j == i + 1
<1>0. /\ N \in Nat /\ DOMAIN asked = 1 .. N /\ i \in Int /\ j = i + 1 /\ j \in 1 .. N
      /\ \A k \in 1 .. N : OrderAt(asked, k) \in Int
      /\ Unit \in Int /\ Unit > 0
  BY AskedType, SeriesAssumed
<1>1. /\ L \in [0 .. N -> 0 .. N] /\ L[0] = 0
      /\ L[j] = IF KeepsOrder(asked, j, L[i]) THEN j ELSE L[i]
  <2>1. j - 1 = i
    BY <1>0
  <2>2. QED
    BY <2>1, <1>0, LastKeptIs
<1>2. A \subseteq 1 .. N /\ \A k \in 1 .. N : k \in A <=> L[k] = k
  BY <1>0 DEF Anchors
<1>3. AnchorsUpTo(asked, L, i) /\ AnchorsUpTo(asked, L, j)
  <2>1. i \in 0 .. N /\ j \in 0 .. N
    BY <1>0
  <2>2. QED
    BY <2>1, AnchorsRise
<1>4. j \notin A => L[j] = L[i]
  BY <1>0, <1>1, <1>2
<1>5. /\ A = {} => O[i] = Unit * i
      /\ i \in A => O[i] = OrderAt(asked, i)
      /\ A # {} /\ i \notin A =>
           \/ /\ L[i] = 0
              /\ \E r \in 1 .. N : NextAnchor(asked, i, r) /\ O[i] = OrderAt(asked, r) - Unit * (r - i)
           \/ /\ L[i] # 0 /\ \A k \in A : k < i
              /\ O[i] = OrderAt(asked, L[i]) + Unit * (i - L[i])
           \/ /\ L[i] # 0
              /\ \E r \in 1 .. N :
                   /\ NextAnchor(asked, i, r)
                   /\ O[i] = OrderAt(asked, L[i])
                             + ((OrderAt(asked, r) - OrderAt(asked, L[i])) * (i - L[i])) \div (r - L[i])
  BY InterpolatedIs
<1>6. /\ A = {} => O[j] = Unit * j
      /\ j \in A => O[j] = OrderAt(asked, j)
      /\ A # {} /\ j \notin A =>
           \/ /\ L[j] = 0
              /\ \E r \in 1 .. N : NextAnchor(asked, j, r) /\ O[j] = OrderAt(asked, r) - Unit * (r - j)
           \/ /\ L[j] # 0 /\ \A k \in A : k < j
              /\ O[j] = OrderAt(asked, L[j]) + Unit * (j - L[j])
           \/ /\ L[j] # 0
              /\ \E r \in 1 .. N :
                   /\ NextAnchor(asked, j, r)
                   /\ O[j] = OrderAt(asked, L[j])
                             + ((OrderAt(asked, r) - OrderAt(asked, L[j])) * (j - L[j])) \div (r - L[j])
  <2> HIDE DEF j
  <2>1. j \in 1 .. N
    BY <1>0
  <2>2. QED
    BY <2>1, InterpolatedIs
<1>7. \A r \in 1 .. N : NextAnchor(asked, i, r) /\ L[i] # 0 =>
        /\ L[i] \in 1 .. i /\ L[i] \in A /\ L[i] < r
        /\ OrderAt(asked, r) - OrderAt(asked, L[i]) >= r - L[i]
  BY RoomBetween
<1>8. ASSUME NEW r \in 1 .. N, NextAnchor(asked, j, r), j \notin A
      PROVE  NextAnchor(asked, i, r) /\ \A s \in 1 .. N : NextAnchor(asked, i, s) => s = r
  <2>1. \A k \in A : i < k => j < k
    BY <1>0, <1>2, <1>8
  <2>2. r \in A /\ i < r /\ \A k \in A : i < k => r <= k
    BY <1>0, <1>8, <2>1 DEF NextAnchor
  <2>3. QED
    BY <1>2, <2>2 DEF NextAnchor
<1>9. j \in A => \A r \in 1 .. N : NextAnchor(asked, i, r) => r = j
  BY <1>0, <1>2 DEF NextAnchor
<1> HIDE DEF L, A, j
<1>10. CASE A = {}
  <2>1. Unit * j = Unit * i + Unit
    BY <1>0
  <2>2. Unit * i \in Int
    BY <1>0
  <2>3. QED
    BY <1>0, <1>5, <1>6, <1>10, <2>1, <2>2 DEF j
<1>11. CASE i \in A /\ j \in A
  <2>1. L[i] = i /\ L[j] = j /\ i \in 1 .. j /\ j \in 1 .. j /\ i < j
    BY <1>0, <1>2, <1>11
  <2>2. OrderAt(asked, i) < OrderAt(asked, j)
    BY <1>3, <2>1 DEF AnchorsUpTo
  <2>3. QED
    BY <1>5, <1>6, <1>11, <2>2 DEF j
<1>12. CASE i \in A /\ j \notin A
  <2>1. L[i] = i /\ L[j] = i /\ i # 0 /\ O[i] = OrderAt(asked, i) /\ OrderAt(asked, i) \in Int /\ j - L[j] = 1
    BY <1>0, <1>2, <1>4, <1>5, <1>12
  <2>2. CASE O[j] = OrderAt(asked, L[j]) + Unit * (j - L[j])
    <3>1. O[j] = O[i] + Unit
      BY <1>0, <2>1, <2>2
    <3>2. QED
      BY <1>0, <2>1, <3>1 DEF j
  <2>3. CASE \E r \in 1 .. N :
               /\ NextAnchor(asked, j, r)
               /\ O[j] = OrderAt(asked, L[j])
                         + ((OrderAt(asked, r) - OrderAt(asked, L[j])) * (j - L[j])) \div (r - L[j])
    <3>1. PICK r \in 1 .. N :
               /\ NextAnchor(asked, j, r)
               /\ O[j] = OrderAt(asked, L[j])
                         + ((OrderAt(asked, r) - OrderAt(asked, L[j])) * (j - L[j])) \div (r - L[j])
      BY <2>3
    <3>2. NextAnchor(asked, i, r)
      BY <1>8, <1>12, <3>1
    <3>3. OrderAt(asked, r) - OrderAt(asked, i) >= r - i /\ i < r
      BY <1>7, <2>1, <3>2
    <3> DEFINE g == OrderAt(asked, r) - OrderAt(asked, i)
               n == r - i
    <3>4. g \in Int /\ n \in Int /\ n > 0 /\ g >= n
      BY <1>0, <2>1, <3>3
    <3>5. O[j] = O[i] + (g * (0 + 1)) \div n
      BY <2>1, <3>1
    <3> HIDE DEF g, n
    <3>6. (g * 0) \div n < (g * (0 + 1)) \div n
      BY <3>4, DivStep
    <3>7. (g * 0) \div n = 0 /\ (g * (0 + 1)) \div n \in Int
      <4>1. g * 0 = 0 /\ g * (0 + 1) = g
        BY <3>4
      <4>2. 0 \div n = 0 /\ g \div n \in Int
        BY <3>4
      <4>3. QED
        BY <4>1, <4>2
    <3>8. QED
      BY <2>1, <3>5, <3>6, <3>7 DEF j
  <2>4. QED
    BY <1>6, <1>12, <2>1, <2>2, <2>3
<1>13. CASE i \notin A /\ j \in A
  <2>1. O[j] = OrderAt(asked, j) /\ OrderAt(asked, j) \in Int /\ A # {} /\ NextAnchor(asked, i, j)
    BY <1>0, <1>2, <1>6, <1>13 DEF NextAnchor, A
  <2>2. CASE \E r \in 1 .. N : NextAnchor(asked, i, r) /\ O[i] = OrderAt(asked, r) - Unit * (r - i)
    <3>1. O[i] = O[j] - Unit * (j - i)
      BY <1>9, <1>13, <2>1, <2>2
    <3>2. Unit * (j - i) = Unit
      BY <1>0
    <3>3. QED
      BY <1>0, <2>1, <3>1, <3>2 DEF j
  <2>3. CASE \A k \in A : k < i
    BY <1>0, <1>13, <2>3
  <2>4. CASE /\ L[i] # 0
             /\ \E r \in 1 .. N :
                  /\ NextAnchor(asked, i, r)
                  /\ O[i] = OrderAt(asked, L[i])
                            + ((OrderAt(asked, r) - OrderAt(asked, L[i])) * (i - L[i])) \div (r - L[i])
    <3> DEFINE l == L[i]
               g == OrderAt(asked, j) - OrderAt(asked, l)
               n == j - l
    <3>1. l \in 1 .. i /\ l \in A /\ l < j /\ g >= n
      BY <1>0, <1>7, <2>1, <2>4
    <3>2. l \in 1 .. N
      BY <1>2, <3>1
    <3>3. OrderAt(asked, l) \in Int /\ l \in Int
      BY <1>0, <3>2
    <3>4. g \in Int /\ n \in Int /\ n > 0 /\ i - l = n - 1
      BY <1>0, <2>1, <3>1, <3>3
    <3>5. O[i] = OrderAt(asked, l) + (g * (n - 1)) \div n
      BY <1>9, <1>13, <2>4, <3>4
    <3>6. O[j] = OrderAt(asked, l) + g
      BY <2>1, <3>3
    <3> HIDE DEF l, g, n
    <3>7. (g * (n - 1)) \div n < g
      BY <3>1, <3>4, DivLast
    <3>8. (g * (n - 1)) \div n \in Int
      <4>1. g * (n - 1) \in Int
        BY <3>4
      <4>2. QED
        BY <3>4, <4>1, DivIs
    <3>9. QED
      BY <3>3, <3>4, <3>5, <3>6, <3>7, <3>8 DEF j
  <2>5. QED
    BY <1>5, <1>13, <2>1, <2>2, <2>3, <2>4
<1>14. CASE A # {} /\ i \notin A /\ j \notin A
  <2> DEFINE l == L[i]
  <2>1. L[j] = l
    BY <1>4, <1>14
  <2>2. CASE l = 0
    <3>1. PICK r \in 1 .. N : NextAnchor(asked, j, r) /\ O[j] = OrderAt(asked, r) - Unit * (r - j)
      BY <1>6, <1>14, <2>1, <2>2
    <3>2. O[i] = OrderAt(asked, r) - Unit * (r - i)
      BY <1>5, <1>8, <1>14, <2>2, <3>1
    <3>3. Unit * (r - i) = Unit * (r - j) + Unit /\ Unit * (r - j) \in Int
      BY <1>0
    <3>4. QED
      BY <1>0, <3>1, <3>2, <3>3 DEF j
  <2>3. CASE l # 0
    <3>1. l \in 1 .. i /\ L[l] = l /\ l \in 1 .. N /\ l \in Int
      BY <1>0, <1>3, <2>3 DEF AnchorsUpTo
    <3>2. OrderAt(asked, l) \in Int
      BY <1>0, <3>1
    <3>3. CASE /\ \A k \in A : k < j
               /\ O[j] = OrderAt(asked, l) + Unit * (j - l)
      <4>1. ~ \E r \in 1 .. N : NextAnchor(asked, i, r)
        BY <1>0, <1>2, <3>3 DEF NextAnchor, A
      <4>2. O[i] = OrderAt(asked, l) + Unit * (i - l)
        BY <1>5, <1>14, <2>3, <4>1
      <4> DEFINE m == i - l
      <4>3. Unit * (j - l) = Unit * m + Unit /\ Unit * m \in Int
        <5>1. m \in Int /\ j - l = m + 1
          BY <1>0, <3>1
        <5> HIDE DEF m
        <5>2. QED
          BY <1>0, <5>1
      <4>4. QED
        BY <1>0, <3>2, <3>3, <4>2, <4>3 DEF j
    <3>4. CASE \E r \in 1 .. N :
                 /\ NextAnchor(asked, j, r)
                 /\ O[j] = OrderAt(asked, l) + ((OrderAt(asked, r) - OrderAt(asked, l)) * (j - l)) \div (r - l)
      <4>1. PICK r \in 1 .. N :
                 /\ NextAnchor(asked, j, r)
                 /\ O[j] = OrderAt(asked, l) + ((OrderAt(asked, r) - OrderAt(asked, l)) * (j - l)) \div (r - l)
        BY <3>4
      <4>2. NextAnchor(asked, i, r) /\ \A s \in 1 .. N : NextAnchor(asked, i, s) => s = r
        BY <1>8, <1>14, <4>1
      <4>3. ~ \A k \in A : k < i
        BY <1>0, <1>2, <4>2 DEF NextAnchor, A
      <4>4. O[i] = OrderAt(asked, l) + ((OrderAt(asked, r) - OrderAt(asked, l)) * (i - l)) \div (r - l)
        BY <1>5, <1>14, <2>3, <4>2, <4>3
      <4> DEFINE g == OrderAt(asked, r) - OrderAt(asked, l)
                 n == r - l
                 a == i - l
      <4>5. OrderAt(asked, r) - OrderAt(asked, l) >= r - l /\ l < r
        BY <1>7, <2>3, <4>2
      <4>6. g \in Int /\ n \in Int /\ n > 0 /\ g >= n /\ a \in Int /\ j - l = a + 1
        <5>0. r \in Int /\ l \in Int /\ i \in Int
          BY <1>0, <3>1
        <5>1. a \in Int /\ j - l = a + 1 /\ n \in Int /\ n > 0
          <6>1. a \in Int /\ n \in Int
            BY <5>0
          <6>2. n > 0
            BY <4>5, <5>0
          <6>3. j - l = a + 1
            BY <1>0, <5>0
          <6>4. QED
            BY <6>1, <6>2, <6>3
        <5>2. g \in Int
          BY <1>0, <3>2
        <5>3. QED
          BY <4>5, <5>1, <5>2
      <4>7. O[i] = OrderAt(asked, l) + (g * a) \div n /\ O[j] = OrderAt(asked, l) + (g * (a + 1)) \div n
        BY <4>1, <4>4, <4>6
      <4> HIDE DEF g, n, a
      <4>8. (g * a) \div n < (g * (a + 1)) \div n
        BY <4>6, DivStep
      <4>9. (g * a) \div n \in Int /\ (g * (a + 1)) \div n \in Int
        <5>1. g * a \in Int /\ g * (a + 1) \in Int
          BY <4>6
        <5>2. QED
          BY <4>6, <5>1, DivIs
      <4>10. QED
        BY <3>2, <4>7, <4>8, <4>9 DEF j
    <3> HIDE DEF l
    <3>5. QED
      BY <1>6, <1>14, <2>1, <2>3, <3>3, <3>4
  <2>4. QED
    BY <2>2, <2>3
<1>15. QED
  BY <1>10, <1>11, <1>12, <1>13, <1>14

\* The orders are integers, and rise where no gap is used up.
LEMMA OrdersRise ==
  ASSUME SeriesTypeOK, NEW asked \in Seq(Volumes), NEW O, O = Interpolated(asked)
  PROVE  /\ O \in Seq(Int) /\ DOMAIN O = DOMAIN asked
         /\ ~ Tight(asked) => \A i, j \in DOMAIN asked : i < j => O[i] < O[j]
<1> DEFINE N == Len(asked)
           L == LastKept(asked)
<1>0. N \in Nat /\ DOMAIN asked = 1 .. N /\ \A k \in 1 .. N : OrderAt(asked, k) \in Int
  BY AskedType
<1>1. DOMAIN O = 1 .. N
  BY InterpolatedIs
<1>2. O = [i \in 1 .. N |-> O[i]]
  BY <1>0 DEF Interpolated
<1>3. ASSUME NEW i \in 1 .. N PROVE O[i] \in Int
  <2>0. Unit \in Int /\ i \in Int
    BY SeriesAssumed
  <2>1. L[i] \in 0 .. N /\ \A r \in 1 .. N : NextAnchor(asked, i, r) /\ L[i] # 0 => r - L[i] > 0
    <3>1. L \in [0 .. N -> 0 .. N] /\ i \in 0 .. N
      BY <1>0, LastKeptIs
    <3>2. AnchorsUpTo(asked, L, i)
      BY <3>1, AnchorsRise
    <3>3. L[i] \in 0 .. i
      BY <3>2 DEF AnchorsUpTo
    <3>4. QED
      BY <1>0, <3>1, <3>3 DEF NextAnchor
  <2>2. /\ Anchors(asked) = {} => O[i] = Unit * i
        /\ i \in Anchors(asked) => O[i] = OrderAt(asked, i)
        /\ Anchors(asked) # {} /\ i \notin Anchors(asked) =>
             \/ /\ L[i] = 0
                /\ \E r \in 1 .. N : NextAnchor(asked, i, r) /\ O[i] = OrderAt(asked, r) - Unit * (r - i)
             \/ /\ L[i] # 0 /\ \A k \in Anchors(asked) : k < i
                /\ O[i] = OrderAt(asked, L[i]) + Unit * (i - L[i])
             \/ /\ L[i] # 0
                /\ \E r \in 1 .. N :
                     /\ NextAnchor(asked, i, r)
                     /\ O[i] = OrderAt(asked, L[i])
                               + ((OrderAt(asked, r) - OrderAt(asked, L[i])) * (i - L[i])) \div (r - L[i])
    BY InterpolatedIs
  <2> HIDE DEF N, L
  <2>3. CASE Anchors(asked) = {} \/ i \in Anchors(asked)
    BY <1>0, <2>0, <2>2, <2>3
  <2>4. CASE \E r \in 1 .. N : O[i] = OrderAt(asked, r) - Unit * (r - i)
    BY <1>0, <2>0, <2>4
  <2>5. CASE L[i] # 0 /\ O[i] = OrderAt(asked, L[i]) + Unit * (i - L[i])
    <3>1. L[i] \in 1 .. N /\ L[i] \in Int
      BY <1>0, <2>1, <2>5
    <3>2. QED
      BY <1>0, <2>0, <2>5, <3>1
  <2>6. CASE /\ L[i] # 0
             /\ \E r \in 1 .. N :
                  /\ NextAnchor(asked, i, r)
                  /\ O[i] = OrderAt(asked, L[i])
                            + ((OrderAt(asked, r) - OrderAt(asked, L[i])) * (i - L[i])) \div (r - L[i])
    <3>1. PICK r \in 1 .. N :
                  /\ NextAnchor(asked, i, r)
                  /\ O[i] = OrderAt(asked, L[i])
                            + ((OrderAt(asked, r) - OrderAt(asked, L[i])) * (i - L[i])) \div (r - L[i])
      BY <2>6
    <3>2. L[i] \in 1 .. N /\ L[i] \in Int /\ r - L[i] > 0 /\ r - L[i] \in Int
      <4>1. L[i] \in 1 .. N /\ L[i] \in Int
        BY <1>0, <2>1, <2>6
      <4>2. r - L[i] > 0
        BY <2>1, <2>6, <3>1
      <4>3. QED
        BY <1>0, <4>1, <4>2
    <3> DEFINE x == (OrderAt(asked, r) - OrderAt(asked, L[i])) * (i - L[i])
               n == r - L[i]
    <3>3. OrderAt(asked, r) \in Int /\ OrderAt(asked, L[i]) \in Int
      BY <1>0, <3>2
    <3>4. x \in Int
      BY <2>0, <3>2, <3>3
    <3> HIDE DEF x
    <3>5. x \div n \in Int
      BY <3>2, <3>4, DivIs
    <3>6. O[i] = OrderAt(asked, L[i]) + x \div n
      BY <3>1 DEF x
    <3> HIDE DEF n
    <3>7. QED
      BY <3>3, <3>5, <3>6
  <2>7. QED
    BY <2>2, <2>3, <2>4, <2>5, <2>6
<1>4. O \in Seq(Int)
  <2> HIDE DEF N
  <2>1. O \in [1 .. N -> Int]
    BY <1>2, <1>3
  <2>2. QED
    BY <1>0, <2>1
<1>5. ASSUME ~ Tight(asked), NEW i \in 1 .. N
      PROVE  \A j \in 1 .. N : i < j => O[i] < O[j]
  <2> DEFINE T == {j \in 1 .. N : i < j /\ ~ (O[i] < O[j])}
  <2> SUFFICES ASSUME T # {} PROVE FALSE
    OBVIOUS
  <2>1. PICK j \in T : \A k \in T : j <= k
    <3>1. T \subseteq Nat
      OBVIOUS
    <3> HIDE DEF T
    <3>2. QED
      BY <3>1, LeastNat
  <2>2. j - 1 \in 1 .. N /\ (j - 1) + 1 = j /\ j \in 1 .. N
    BY <1>0, <2>1
  <2>3. O[j - 1] < O[j]
    <3>1. PICK k \in 1 .. N : k = j - 1 /\ k + 1 = j
      BY <2>2
    <3>2. O[k] < O[k + 1]
      BY <1>0, <1>5, <2>2, <3>1, NextOrderRises
    <3>3. QED
      BY <3>1, <3>2
  <2>4. j - 1 = i \/ O[i] < O[j - 1]
    <3>1. j - 1 \notin T
      BY <2>1, <2>2
    <3>2. QED
      BY <2>1, <2>2, <3>1
  <2>5. O[i] \in Int /\ O[j] \in Int /\ O[j - 1] \in Int
    BY <1>3, <2>2
  <2>6. QED
    BY <2>1, <2>3, <2>4, <2>5
<1>6. QED
  BY <1>0, <1>1, <1>4, <1>5

-----------------------------------------------------------------------------
(* The inductive invariant *)

\* A draft holds each member once and an order for it, and these rise where no gap
\* between two locked orders was used up when it was made.
DraftGood ==
  draft # NoDraft =>
    /\ draft.of # {}
    /\ \A i, j \in DOMAIN draft.asked : i # j => draft.asked[i] # draft.asked[j]
    /\ DOMAIN draft.orders = DOMAIN draft.asked
    /\ ~ draft.tight => \A i, j \in DOMAIN draft.asked : i < j => draft.orders[i] < draft.orders[j]

\* What is in no series is no item, so nothing about it is locked.
Rowless == \A v \in Volumes : item[v].series = {} => item[v] = NoItem

SeriesInv == SeriesTypeOK /\ SeriesMirrorComics /\ Rowless /\ DraftGood

\* The types, with the records named.
LEMMA Types ==
  SeriesTypeOK <=>
    /\ disk \in [Volumes -> Spots] /\ place \in [Volumes -> Spots]
    /\ item \in [Volumes -> Item]
    /\ series \in [Folders -> SeriesRow]
    /\ job \in [pc : {"idle", "apply"}, scan : [Volumes -> Spots]]
    /\ draft \in [of : Spots, asked : Seq(Volumes), orders : Seq(Int), tight : BOOLEAN]
    /\ moves \in 0 .. MaxMoves /\ edits \in 0 .. MaxEdits /\ unbuilt \in BOOLEAN
    /\ \A f \in Folders : Named(series[f])
BY DEF SeriesTypeOK, Item, SeriesRow, Named

\* What leaves the folders of comics, items and series alone leaves them agreeing.
LEMMA MirrorStays ==
  ASSUME SeriesMirrorComics, place' = place, \A v \in Volumes : item'[v].series = item[v].series,
         \A f \in Folders : series'[f] # NoSeries <=> series[f] # NoSeries, unbuilt' = unbuilt,
         place \in [Volumes -> Spots]
  PROVE  SeriesMirrorComics'
<1>1. ComicsInTheirSeries'
  <2>1. \A v \in Volumes : \A f \in place[v] : f \in Folders
    BY DEF Spots
  <2>2. QED
    BY <2>1 DEF SeriesMirrorComics, ComicsInTheirSeries
<1>2. NoEmptySeries'
  <2>1. Rows' = Rows /\ \A f : Members(f)' = Members(f)
    BY DEF Rows, Members
  <2>2. QED
    BY <2>1 DEF SeriesMirrorComics, NoEmptySeries
<1>3. QED
  BY <1>1, <1>2 DEF SeriesMirrorComics

LEMMA SeriesInvInit == SeriesInit => SeriesInv
<1> SUFFICES ASSUME SeriesInit PROVE SeriesInv
  OBVIOUS
<1>0. MaxMoves \in Nat /\ MaxEdits \in Nat /\ \A f \in Folders : Named(NoSeries)
  BY FolderSeriesAssumption DEF Named
<1>1. disk \in [Volumes -> Spots] /\ place \in [Volumes -> Spots]
  BY NoneTyped DEF SeriesInit
<1>2. item \in [Volumes -> Item] /\ series \in [Folders -> SeriesRow] /\ \A f \in Folders : Named(series[f])
  BY <1>0, NoneTyped DEF SeriesInit
<1>3. job \in [pc : {"idle", "apply"}, scan : [Volumes -> Spots]]
  BY NoneTyped DEF SeriesInit, Idle
<1>4. draft \in [of : Spots, asked : Seq(Volumes), orders : Seq(Int), tight : BOOLEAN]
  BY NoneTyped DEF SeriesInit, NoDraft
<1>5. moves \in 0 .. MaxMoves /\ edits \in 0 .. MaxEdits /\ unbuilt \in BOOLEAN
  <2>1. moves = 0 /\ edits = 0 /\ unbuilt = FALSE
    BY DEF SeriesInit
  <2>2. unbuilt \in BOOLEAN
    BY <2>1
  <2>3. moves \in 0 .. MaxMoves /\ edits \in 0 .. MaxEdits
    BY <1>0, <2>1
  <2>4. QED
    BY <2>2, <2>3
<1>6. SeriesTypeOK
  BY <1>1, <1>2, <1>3, <1>4, <1>5, Types
<1>7. SeriesMirrorComics
  <2>1. \A v \in Volumes : item[v].series = {} /\ place[v] = {}
    BY NoneTyped DEF SeriesInit
  <2>2. Rows = {}
    BY DEF SeriesInit, Rows
  <2>3. QED
    BY <2>1, <2>2 DEF SeriesMirrorComics, ComicsInTheirSeries, NoEmptySeries
<1>8. DraftGood
  BY DEF SeriesInit, DraftGood
<1>9. Rowless
  BY DEF SeriesInit, Rowless
<1>10. QED
  BY <1>6, <1>7, <1>8, <1>9 DEF SeriesInv

\* The types after a step, from those of the variables it changes.
TypesNext ==
  /\ disk' \in [Volumes -> Spots] /\ place' \in [Volumes -> Spots]
  /\ item' \in [Volumes -> Item]
  /\ series' \in [Folders -> SeriesRow]
  /\ job' \in [pc : {"idle", "apply"}, scan : [Volumes -> Spots]]
  /\ draft' \in [of : Spots, asked : Seq(Volumes), orders : Seq(Int), tight : BOOLEAN]
  /\ moves' \in 0 .. MaxMoves /\ edits' \in 0 .. MaxEdits /\ unbuilt' \in BOOLEAN
  /\ \A f \in Folders : Named(series'[f])

LEMMA TypesThen == TypesNext => SeriesTypeOK'
BY DEF TypesNext, SeriesTypeOK, Item, SeriesRow, Named

LEMMA DraftStays ==
  ASSUME DraftGood, draft' = draft
  PROVE  DraftGood'
BY DEF DraftGood

\* A step that changes none of the rows.
LEMMA RowsAlone ==
  ASSUME SeriesInv, TypesNext, UNCHANGED <<place, item, series, draft, unbuilt>>
  PROVE  SeriesInv'
<1>1. SeriesTypeOK'
  BY TypesThen
<1>2. SeriesMirrorComics'
  BY MirrorStays, Types DEF SeriesInv
<1>3. DraftGood' /\ Rowless'
  BY DraftStays DEF SeriesInv, Rowless
<1>4. QED
  BY <1>1, <1>2, <1>3 DEF SeriesInv

LEMMA InvScan ==
  ASSUME SeriesInv, Scan
  PROVE  SeriesInv'
<1>1. TypesNext
  BY Types DEF SeriesInv, Scan, TypesNext
<1>2. QED
  BY <1>1, RowsAlone DEF Scan

LEMMA InvAbort ==
  ASSUME SeriesInv, Abort
  PROVE  SeriesInv'
<1>1. Idle \in [pc : {"idle", "apply"}, scan : [Volumes -> Spots]]
  BY NoneTyped DEF Idle
<1>2. TypesNext
  BY <1>1, Types DEF SeriesInv, Abort, TypesNext
<1>3. QED
  BY <1>2, RowsAlone DEF Abort

LEMMA InvChange ==
  ASSUME SeriesInv, NEW v \in Volumes, NEW spot \in Spots, Change(v, spot)
  PROVE  SeriesInv'
<1>1. moves' \in 0 .. MaxMoves
  BY Types, FolderSeriesAssumption DEF SeriesInv, Change
<1>2. disk' \in [Volumes -> Spots]
  BY Types DEF SeriesInv, Change
<1>3. TypesNext
  BY <1>1, <1>2, Types DEF SeriesInv, Change, TypesNext
<1>4. QED
  BY <1>3, RowsAlone DEF Change

\* What the transaction of a sync writes.
LEMMA Applied ==
  ASSUME SeriesTypeOK, job.pc = "apply", NEW pairs, pairs = Rekeyed(job.scan),
         NEW items, items = [v \in Volumes |-> IF job.scan[v] = {} THEN NoItem ELSE ItemsAfter(pairs)[v]]
  PROVE  /\ job.scan \in [Volumes -> Spots]
         /\ items \in [Volumes -> Item]
         /\ SeriesAfter(pairs) \in [Folders -> SeriesRow]
         /\ \A f \in Folders : Named(SeriesAfter(pairs)[f])
<1>1. job.scan \in [Volumes -> Spots]
  BY Types
<1>2. \A p \in pairs : p[2] \in Folders
  BY RekeyedArePairs
<1>3. ASSUME NEW v \in Volumes PROVE items[v] \in Item
  BY <1>2, ItemsAfterFields, NoneTyped
<1>4. items \in [Volumes -> Item]
  BY <1>3
<1>5. QED
  BY <1>1, <1>4, SeriesAfterType

LEMMA InvApply ==
  ASSUME SeriesInv, Apply
  PROVE  SeriesInv'
<1> DEFINE p == job.scan
           pairs == Rekeyed(p)
           items == [v \in Volumes |-> IF p[v] = {} THEN NoItem ELSE ItemsAfter(pairs)[v]]
           rows == SeriesAfter(pairs)
<1>1. /\ place' = p /\ item' = RebuiltItems(p, items) /\ series' = RebuiltSeries(p, rows)
      /\ job.pc = "apply" /\ job' = Idle /\ unbuilt' = FALSE
      /\ UNCHANGED <<disk, draft, moves, edits>>
  BY DEF Apply
<1>2. /\ p \in [Volumes -> Spots] /\ items \in [Volumes -> Item]
      /\ rows \in [Folders -> SeriesRow] /\ \A f \in Folders : Named(rows[f])
  BY <1>1, Applied DEF SeriesInv
<1> HIDE DEF p, pairs, items, rows
<1>3. item' \in [Volumes -> Item] /\ \A v \in Volumes : item'[v].series = p[v]
  BY <1>1, <1>2, Rebuilt
<1>4. /\ series' \in [Folders -> SeriesRow]
      /\ \A f \in Folders : Named(series'[f]) /\ (series'[f] # NoSeries <=> f \in Active(p))
  BY <1>1, <1>2, RebuiltRows
<1>5. Idle \in [pc : {"idle", "apply"}, scan : [Volumes -> Spots]]
  BY NoneTyped DEF Idle
<1>6. TypesNext
  BY <1>1, <1>2, <1>3, <1>4, <1>5, Types DEF SeriesInv, TypesNext
<1>7. SeriesMirrorComics'
  BY <1>1, <1>2, <1>3, <1>4, RebuiltMirror
<1>8. DraftGood'
  BY <1>1, DraftStays DEF SeriesInv
<1>9. Rowless'
  BY <1>1, <1>2, <1>3, Rebuilt DEF Rowless
<1>10. QED
  BY <1>6, <1>7, <1>8, <1>9, TypesThen DEF SeriesInv

LEMMA InvPurge ==
  ASSUME SeriesInv, NEW v \in Volumes, Purge(v)
  PROVE  SeriesInv'
<1> DEFINE rest == [place EXCEPT ![v] = {}]
           items == [item EXCEPT ![v] = NoItem]
<1>0. SeriesTypeOK /\ SeriesMirrorComics /\ Rowless /\ DraftGood
  BY DEF SeriesInv
<1>1. /\ place' = rest /\ UNCHANGED <<job, draft, edits>>
      /\ moves < MaxMoves /\ moves' = moves + 1
      /\ disk' = IF disk[v] = place[v] THEN [disk EXCEPT ![v] = {}] ELSE disk
  BY DEF Purge
<1>2. rest \in [Volumes -> Spots] /\ items \in [Volumes -> Item]
  BY <1>0, Types, NoneTyped
<1>3. disk' \in [Volumes -> Spots] /\ moves' \in 0 .. MaxMoves
  BY <1>0, <1>1, Types, NoneTyped, FolderSeriesAssumption
<1>4. /\ series \in [Folders -> SeriesRow] /\ \A f \in Folders : Named(series[f])
      /\ job' \in [pc : {"idle", "apply"}, scan : [Volumes -> Spots]]
      /\ draft' \in [of : Spots, asked : Seq(Volumes), orders : Seq(Int), tight : BOOLEAN]
      /\ edits' \in 0 .. MaxEdits
  BY <1>0, <1>1, Types
<1>5. DraftGood'
  BY <1>0, <1>1, DraftStays
<1>6. CASE item' = RebuiltItems(rest, items) /\ series' = RebuiltSeries(rest, series) /\ unbuilt' = FALSE
  <2> HIDE DEF rest, items
  <2>1. item' \in [Volumes -> Item] /\ \A w \in Volumes : item'[w].series = rest[w]
    BY <1>2, <1>6, Rebuilt
  <2>2. /\ series' \in [Folders -> SeriesRow]
        /\ \A f \in Folders : Named(series'[f]) /\ (series'[f] # NoSeries <=> f \in Active(rest))
    BY <1>2, <1>4, <1>6, RebuiltRows
  <2>3. TypesNext
    BY <1>1, <1>2, <1>3, <1>4, <1>6, <2>1, <2>2 DEF TypesNext
  <2>4. SeriesMirrorComics'
    BY <1>1, <1>2, <2>1, <2>2, RebuiltMirror
  <2>5. Rowless'
    BY <1>2, <1>6, <2>1, Rebuilt DEF Rowless
  <2>6. QED
    BY <1>5, <2>3, <2>4, <2>5, TypesThen DEF SeriesInv
<1>7. CASE item' = items /\ unbuilt' = TRUE /\ series' = series
  <2>1. TypesNext
    BY <1>1, <1>2, <1>3, <1>4, <1>7 DEF TypesNext
  <2>2. \A w \in Volumes : item'[w].series = place'[w] /\ \A f \in place'[w] : series'[f] # NoSeries
    <3>1. ASSUME NEW w \in Volumes
          PROVE  item'[w].series = place'[w] /\ \A f \in place'[w] : series'[f] # NoSeries
      <4>1. CASE w = v
        <5>1. item'[w] = NoItem /\ place'[w] = {}
          BY <1>0, <1>1, <1>7, <4>1, Types
        <5>2. QED
          BY <5>1, NoneTyped
      <4>2. CASE w # v
        <5>1. item'[w] = item[w] /\ place'[w] = place[w]
          BY <1>0, <1>1, <1>7, <4>2, Types
        <5>2. QED
          BY <1>0, <1>7, <5>1 DEF SeriesMirrorComics, ComicsInTheirSeries
      <4>3. QED
        BY <4>1, <4>2
    <3>2. QED
      BY <3>1
  <2>3. SeriesMirrorComics'
    BY <1>7, <2>2 DEF SeriesMirrorComics, ComicsInTheirSeries, NoEmptySeries
  <2>4. Rowless'
    <3>1. \A w \in Volumes : item'[w] = NoItem \/ item'[w] = item[w]
      BY <1>0, <1>7, Types
    <3>2. QED
      BY <1>0, <3>1 DEF Rowless
  <2>5. QED
    BY <1>5, <2>1, <2>3, <2>4, TypesThen DEF SeriesInv
<1>8. QED
  BY <1>6, <1>7 DEF Purge

\* A user edits the row of one series.
LEMMA InvSeriesEdit ==
  ASSUME SeriesInv, NEW f \in Folders, series[f] # NoSeries, Edit,
         NEW row \in SeriesRow, row # NoSeries, Named(row), series' = [series EXCEPT ![f] = row],
         UNCHANGED <<disk, place, item, job, draft, moves, unbuilt>>
  PROVE  SeriesInv'
<1>0. SeriesTypeOK /\ SeriesMirrorComics /\ Rowless /\ DraftGood
  BY DEF SeriesInv
<1>1. edits' \in 0 .. MaxEdits
  BY <1>0, Types, FolderSeriesAssumption DEF Edit
<1>2. series' \in [Folders -> SeriesRow] /\ \A g \in Folders : g # f => series'[g] = series[g]
  BY <1>0, Types
<1>3. series'[f] = row
  BY <1>0, Types
<1>4. \A g \in Folders : Named(series'[g]) /\ (series'[g] # NoSeries <=> series[g] # NoSeries)
  BY <1>0, <1>2, <1>3, Types
<1>5. TypesNext
  BY <1>0, <1>1, <1>2, <1>4, Types DEF TypesNext
<1>6. SeriesMirrorComics'
  BY <1>0, <1>4, MirrorStays, Types
<1>7. Rowless'
  BY <1>0 DEF Rowless
<1>8. QED
  BY <1>0, <1>5, <1>6, <1>7, TypesThen, DraftStays DEF SeriesInv

LEMMA InvRenameSeries ==
  ASSUME SeriesInv, NEW f \in Folders, NEW n \in Names, RenameSeries(f, n)
  PROVE  SeriesInv'
<1> DEFINE row == [name |-> {n}, locked |-> TRUE]
<1>1. Cardinality({n}) = 1
  BY FS_Singleton
<1>2. row \in SeriesRow /\ Named(row) /\ row # NoSeries
  <2>1. row.locked /\ row.name = {n} /\ row \in SeriesRow
    BY DEF SeriesRow
  <2>2. QED
    BY <1>1, <2>1, NoneTyped DEF Named
<1>3. /\ series[f] # NoSeries /\ Edit /\ series' = [series EXCEPT ![f] = row]
      /\ UNCHANGED <<disk, place, item, job, draft, moves, unbuilt>>
  BY DEF RenameSeries
<1> HIDE DEF row
<1>4. QED
  BY <1>2, <1>3, InvSeriesEdit

LEMMA InvSetNameLock ==
  ASSUME SeriesInv, NEW f \in Folders, NEW locked \in BOOLEAN, SetNameLock(f, locked)
  PROVE  SeriesInv'
<1> DEFINE row == [series[f] EXCEPT !.locked = locked]
<1>1. series \in [Folders -> SeriesRow] /\ series[f] \in SeriesRow /\ series[f] # NoSeries /\ Named(series[f])
  BY Types DEF SeriesInv, SetNameLock
<1>2. row \in SeriesRow /\ row.name = series[f].name
  BY <1>1 DEF SeriesRow
<1>3. Cardinality(series[f].name) = 1
  BY <1>1 DEF Named
<1>4. row # NoSeries
  <2>1. Cardinality({}) = 0
    BY FS_EmptySet
  <2>2. NoSeries.name = {}
    BY DEF NoSeries
  <2> HIDE DEF row
  <2>3. QED
    BY <1>2, <1>3, <2>1, <2>2
<1>5. Named(row)
  BY <1>2, <1>3 DEF Named
<1>6. /\ Edit /\ series' = [series EXCEPT ![f] = row]
      /\ UNCHANGED <<disk, place, item, job, draft, moves, unbuilt>>
  BY <1>1 DEF SetNameLock
<1> HIDE DEF row
<1>7. QED
  BY <1>1, <1>2, <1>4, <1>5, <1>6, InvSeriesEdit

\* Orders are set, of one item or of those that a draft is about.
LEMMA InvItemsEdit ==
  ASSUME SeriesInv, item' \in [Volumes -> Item], \A v \in Volumes : item'[v].series = item[v].series,
         \A v \in Volumes : item[v] = NoItem => item'[v] = NoItem,
         edits' \in 0 .. MaxEdits, draft' \in {draft, NoDraft},
         UNCHANGED <<disk, place, series, job, moves, unbuilt>>
  PROVE  SeriesInv'
<1>0. SeriesTypeOK /\ SeriesMirrorComics /\ Rowless /\ DraftGood
  BY DEF SeriesInv
<1>1. draft' \in [of : Spots, asked : Seq(Volumes), orders : Seq(Int), tight : BOOLEAN]
  <2>1. NoDraft \in [of : Spots, asked : Seq(Volumes), orders : Seq(Int), tight : BOOLEAN]
    BY NoneTyped DEF NoDraft
  <2>2. draft \in [of : Spots, asked : Seq(Volumes), orders : Seq(Int), tight : BOOLEAN]
    BY <1>0, Types
  <2>3. QED
    BY <2>1, <2>2
<1>2. TypesNext
  BY <1>0, <1>1, Types DEF TypesNext
<1>3. SeriesMirrorComics'
  BY <1>0, MirrorStays, Types
<1>4. DraftGood'
  BY <1>0 DEF DraftGood
<1>5. Rowless'
  BY <1>0 DEF Rowless
<1>6. QED
  BY <1>2, <1>3, <1>4, <1>5, TypesThen DEF SeriesInv

LEMMA InvSetOrder ==
  ASSUME SeriesInv, NEW v \in Volumes, NEW order \in Orders, SetOrder(v, order)
  PROVE  SeriesInv'
<1>0. item \in [Volumes -> Item] /\ order \in Int
  BY Types, SeriesAssumed DEF SeriesInv
<1>1. edits' \in 0 .. MaxEdits
  BY Types, FolderSeriesAssumption DEF SeriesInv, SetOrder, Edit
<1>2. item' = [item EXCEPT ![v].order = order, ![v].locked = TRUE]
  BY DEF SetOrder
<1>3. item' \in [Volumes -> Item]
  BY <1>0, <1>2 DEF Item
<1>4. \A w \in Volumes : item'[w].series = item[w].series
  BY <1>0, <1>2 DEF Item
<1>5. \A w \in Volumes : item[w] = NoItem => item'[w] = NoItem
  <2>1. \A w \in Volumes : w # v => item'[w] = item[w]
    BY <1>0, <1>2
  <2>2. QED
    BY <2>1 DEF SetOrder
<1>6. QED
  BY <1>1, <1>3, <1>4, <1>5, InvItemsEdit DEF SetOrder

LEMMA InvSetOrderLock ==
  ASSUME SeriesInv, NEW v \in Volumes, NEW locked \in BOOLEAN, SetOrderLock(v, locked)
  PROVE  SeriesInv'
<1>0. item \in [Volumes -> Item]
  BY Types DEF SeriesInv
<1>1. edits' \in 0 .. MaxEdits
  BY Types, FolderSeriesAssumption DEF SeriesInv, SetOrderLock, Edit
<1>2. item' = [item EXCEPT ![v].locked = locked]
  BY DEF SetOrderLock
<1>3. item' \in [Volumes -> Item]
  BY <1>0, <1>2 DEF Item
<1>4. \A w \in Volumes : item'[w].series = item[w].series
  BY <1>0, <1>2 DEF Item
<1>5. \A w \in Volumes : item[w] = NoItem => item'[w] = NoItem
  <2>1. \A w \in Volumes : w # v => item'[w] = item[w]
    BY <1>0, <1>2
  <2>2. QED
    BY <2>1 DEF SetOrderLock
<1>6. QED
  BY <1>1, <1>3, <1>4, <1>5, InvItemsEdit DEF SetOrderLock

LEMMA InvAskOrder ==
  ASSUME SeriesInv, NEW f \in Folders, NEW asked \in SetToSeqs(Members(f)), AskOrder(f, asked)
  PROVE  SeriesInv'
<1>0. SeriesTypeOK /\ SeriesMirrorComics /\ Rowless /\ DraftGood
  BY DEF SeriesInv
<1>1. asked \in Seq(Volumes) /\ \A i, j \in DOMAIN asked : i # j => asked[i] # asked[j]
  <2> DEFINE n == Cardinality(Members(f))
  <2>1. n \in Nat /\ Members(f) \subseteq Volumes
    BY SeriesAssumed DEF Members
  <2>2. asked \in [1 .. n -> Members(f)] /\ \A i, j \in 1 .. n : i # j => asked[i] # asked[j]
    BY DEF SetToSeqs
  <2> HIDE DEF n
  <2>3. asked \in [1 .. n -> Volumes]
    BY <2>1, <2>2
  <2>4. QED
    BY <2>1, <2>2, <2>3
<1> DEFINE O == Interpolated(asked)
           tight == Tight(asked)
<1>2. /\ O \in Seq(Int) /\ DOMAIN O = DOMAIN asked
      /\ ~ tight => \A i, j \in DOMAIN asked : i < j => O[i] < O[j]
  BY <1>0, <1>1, OrdersRise
<1>3. draft' = [of |-> {f}, asked |-> asked, orders |-> O, tight |-> tight]
  BY DEF AskOrder
<1>4. tight \in BOOLEAN /\ {f} \in Spots
  BY DEF Tight, Spots
<1> HIDE DEF O, tight
<1>5. edits' \in 0 .. MaxEdits
  BY <1>0, Types, FolderSeriesAssumption DEF AskOrder, Edit
<1>6. draft' \in [of : Spots, asked : Seq(Volumes), orders : Seq(Int), tight : BOOLEAN]
  BY <1>1, <1>2, <1>3, <1>4
<1>7. TypesNext
  BY <1>0, <1>5, <1>6, Types DEF AskOrder, TypesNext
<1>8. SeriesMirrorComics'
  BY <1>0, MirrorStays, Types DEF AskOrder
<1>9. DraftGood'
  <2>1. draft'.asked = asked /\ draft'.orders = O /\ draft'.tight = tight /\ draft'.of = {f}
    BY <1>3
  <2>2. QED
    BY <1>1, <1>2, <2>1 DEF DraftGood
<1>10. Rowless'
  BY <1>0 DEF AskOrder, Rowless
<1>11. QED
  BY <1>7, <1>8, <1>9, <1>10, TypesThen DEF SeriesInv

\* The order that a draft gives to a member.
LEMMA DraftedAt ==
  ASSUME SeriesInv, draft # NoDraft, NEW i \in DOMAIN draft.asked
  PROVE  /\ draft.asked[i] \in ToSet(draft.asked) /\ draft.asked[i] \in Volumes
         /\ At(draft.asked[i]) = i
         /\ i \in DOMAIN draft.orders /\ draft.orders[i] \in Int
<1>1. draft.asked \in Seq(Volumes) /\ draft.orders \in Seq(Int)
  BY Types DEF SeriesInv
<1>2. /\ \A j \in DOMAIN draft.asked : i # j => draft.asked[i] # draft.asked[j]
      /\ DOMAIN draft.orders = DOMAIN draft.asked
  BY DEF SeriesInv, DraftGood
<1>3. At(draft.asked[i]) = i
  BY <1>2 DEF At
<1>4. QED
  BY <1>1, <1>2, <1>3 DEF ToSet

\* What writing the order down does to one item.
LEMMA WrittenItem ==
  ASSUME SeriesInv, WriteOrder, NEW v \in Volumes
  PROVE  /\ item'[v] \in Item /\ item'[v].series = item[v].series
         /\ item[v] = NoItem => item'[v] = NoItem
         /\ item[v].series = draft.of /\ v \in ToSet(draft.asked) => item'[v].order = draft.orders[At(v)]
<1>0. item[v] \in Item /\ draft # NoDraft
  BY Types DEF SeriesInv, WriteOrder
<1>1. item'[v] = IF item[v].series = draft.of /\ v \in ToSet(draft.asked)
                 THEN [item[v] EXCEPT !.order = draft.orders[At(v)], !.locked = TRUE]
                 ELSE item[v]
  BY DEF WriteOrder
<1>2. CASE item[v].series = draft.of /\ v \in ToSet(draft.asked)
  <2>1. PICK i \in DOMAIN draft.asked : v = draft.asked[i]
    BY <1>2 DEF ToSet
  <2>2. At(v) = i /\ draft.orders[i] \in Int
    BY <1>0, <2>1, DraftedAt
  <2>3. item'[v] = [item[v] EXCEPT !.order = draft.orders[i], !.locked = TRUE]
    BY <1>1, <1>2, <2>2
  <2>4. item[v] # NoItem
    BY <1>0, <1>2, NoneTyped DEF SeriesInv, DraftGood
  <2>5. QED
    BY <1>0, <2>2, <2>3, <2>4 DEF Item
<1>3. CASE ~ (item[v].series = draft.of /\ v \in ToSet(draft.asked))
  BY <1>0, <1>1, <1>3
<1>4. QED
  BY <1>2, <1>3

LEMMA InvWriteOrder ==
  ASSUME SeriesInv, WriteOrder
  PROVE  SeriesInv'
<1>1. item' \in [Volumes -> Item]
  <2>1. \A v \in Volumes : item'[v] \in Item
    BY WrittenItem
  <2>2. item' = [v \in Volumes |-> item'[v]]
    BY DEF WriteOrder
  <2>3. QED
    BY <2>1, <2>2
<1>2. \A v \in Volumes : item'[v].series = item[v].series /\ (item[v] = NoItem => item'[v] = NoItem)
  BY WrittenItem
<1>3. edits' \in 0 .. MaxEdits
  BY Types DEF SeriesInv, WriteOrder
<1>4. QED
  BY <1>1, <1>2, <1>3, InvItemsEdit DEF WriteOrder

LEMMA SeriesInvNext == SeriesInv /\ [SeriesNext]_seriesVars => SeriesInv'
<1> SUFFICES ASSUME SeriesInv, [SeriesNext]_seriesVars PROVE SeriesInv'
  OBVIOUS
<1>1. CASE Scan
  BY <1>1, InvScan
<1>2. CASE Apply
  BY <1>2, InvApply
<1>3. CASE Abort
  BY <1>3, InvAbort
<1>4. ASSUME NEW v \in Volumes, Purge(v) PROVE SeriesInv'
  BY <1>4, InvPurge
<1>5. ASSUME NEW f \in Folders, NEW n \in Names, RenameSeries(f, n) PROVE SeriesInv'
  BY <1>5, InvRenameSeries
<1>6. ASSUME NEW f \in Folders, NEW locked \in BOOLEAN, SetNameLock(f, locked) PROVE SeriesInv'
  BY <1>6, InvSetNameLock
<1>7. ASSUME NEW v \in Volumes, NEW order \in Orders, SetOrder(v, order) PROVE SeriesInv'
  BY <1>7, InvSetOrder
<1>8. ASSUME NEW v \in Volumes, NEW locked \in BOOLEAN, SetOrderLock(v, locked) PROVE SeriesInv'
  BY <1>8, InvSetOrderLock
<1>9. ASSUME NEW f \in Folders, NEW asked \in SetToSeqs(Members(f)), AskOrder(f, asked) PROVE SeriesInv'
  BY <1>9, InvAskOrder
<1>10. CASE WriteOrder
  BY <1>10, InvWriteOrder
<1>11. ASSUME NEW v \in Volumes, NEW spot \in Spots, Change(v, spot) PROVE SeriesInv'
  BY <1>11, InvChange
<1>12. CASE UNCHANGED seriesVars
  <2>1. TypesNext
    BY <1>12, Types DEF SeriesInv, TypesNext, seriesVars
  <2>2. QED
    BY <1>12, <2>1, RowsAlone DEF seriesVars
<1>13. QED
  BY <1>1, <1>2, <1>3, <1>4, <1>5, <1>6, <1>7, <1>8, <1>9, <1>10, <1>11, <1>12 DEF SeriesNext

LEMMA SeriesInvAlways == SeriesSpec => []SeriesInv
BY SeriesInvInit, SeriesInvNext, PTL DEF SeriesSpec

\* The types of the rows, the sync and the draft hold in every state.
THEOREM SpecSeriesType == SeriesSpec => []SeriesTypeOK
<1>1. SeriesInv => SeriesTypeOK
  BY DEF SeriesInv
<1>2. QED
  BY <1>1, SeriesInvAlways, PTL

\* In every state each comic is in the series of its own folder, that series is
\* there, and no series is empty, but after a purge whose rebuild failed: the
\* rebuild makes it so, and no edit of a user takes it away.
THEOREM SpecSeriesMirrorComics == SeriesSpec => []SeriesMirrorComics
<1>1. SeriesInv => SeriesMirrorComics
  BY DEF SeriesInv
<1>2. QED
  BY <1>1, SeriesInvAlways, PTL

-----------------------------------------------------------------------------
(* Action properties *)

LEMMA DraftSteps ==
  ASSUME [SeriesNext]_seriesVars, draft # NoDraft, draft' = NoDraft
  PROVE  WriteOrder
BY DEF SeriesNext, seriesVars, Scan, Apply, Abort, Purge, RenameSeries, SetNameLock, SetOrder, SetOrderLock,
       AskOrder, Change

LEMMA SyncSteps ==
  ASSUME [SeriesNext]_seriesVars, Synced
  PROVE  Apply \/ Abort
BY DEF SeriesNext, seriesVars, Synced, Scan, Purge, RenameSeries, SetNameLock, SetOrder, SetOrderLock,
       AskOrder, WriteOrder, Change

\* The order asked for is the order shown, of the members that stayed, whatever
\* synced between the read and the write, where no gap was used up.
THEOREM SpecOrderTakes == SeriesSpec => OrderTakes
<1> DEFINE Takes ==
             draft # NoDraft /\ draft' = NoDraft /\ ~ draft.tight =>
               \A i, j \in DOMAIN draft.asked :
                 LET v == draft.asked[i]
                     w == draft.asked[j]
                 IN i < j /\ item[v].series = draft.of /\ item[w].series = draft.of =>
                      ShownBefore(item'[v].order, item'[w].order, v, w)
<1>1. ASSUME SeriesInv, [SeriesNext]_seriesVars PROVE Takes
  <2> SUFFICES ASSUME draft # NoDraft, draft' = NoDraft, ~ draft.tight,
                      NEW i \in DOMAIN draft.asked, NEW j \in DOMAIN draft.asked, i < j,
                      item[draft.asked[i]].series = draft.of, item[draft.asked[j]].series = draft.of
               PROVE  ShownBefore(item'[draft.asked[i]].order, item'[draft.asked[j]].order,
                                  draft.asked[i], draft.asked[j])
    OBVIOUS
  <2>1. WriteOrder
    BY <1>1, DraftSteps
  <2>2. /\ draft.asked[i] \in ToSet(draft.asked) /\ draft.asked[i] \in Volumes /\ At(draft.asked[i]) = i
        /\ draft.asked[j] \in ToSet(draft.asked) /\ draft.asked[j] \in Volumes /\ At(draft.asked[j]) = j
    BY <1>1, DraftedAt
  <2>3. item'[draft.asked[i]].order = draft.orders[i] /\ item'[draft.asked[j]].order = draft.orders[j]
    BY <1>1, <2>1, <2>2, WrittenItem
  <2>4. draft.orders[i] < draft.orders[j]
    BY <1>1 DEF SeriesInv, DraftGood
  <2>5. QED
    BY <2>3, <2>4 DEF ShownBefore
<1>2. QED
  BY <1>1, SeriesInvAlways, PTL DEF SeriesSpec, OrderTakes

\* An order that a user locked survives a sync with its lock, also in another
\* series, unless the sync dissolves the series it was in.
THEOREM SpecLockedOrderKept == SeriesSpec => LockedOrderKept
<1> DEFINE Kept ==
             Synced => \A v \in Volumes :
               item[v].locked /\ job.scan[v] # {} =>
                 \/ item'[v].locked /\ item'[v].order = item[v].order
                 \/ \E f \in item[v].series : Dissolved(f)
<1>1. ASSUME SeriesInv, [SeriesNext]_seriesVars PROVE Kept
  <2> SUFFICES ASSUME Synced, NEW v \in Volumes, item[v].locked, job.scan[v] # {}
               PROVE  \/ item'[v].locked /\ item'[v].order = item[v].order
                      \/ \E f \in item[v].series : Dissolved(f)
    OBVIOUS
  <2>1. CASE Abort
    BY <2>1 DEF Abort
  <2>2. CASE Apply
    <3> DEFINE p == job.scan
               pairs == Rekeyed(p)
               items == [w \in Volumes |-> IF p[w] = {} THEN NoItem ELSE ItemsAfter(pairs)[w]]
    <3>1. /\ item' = RebuiltItems(p, items) /\ p \in [Volumes -> Spots] /\ items \in [Volumes -> Item]
          /\ p[v] # {} /\ items[v] = ItemsAfter(pairs)[v]
      BY <1>1, <2>2, Applied DEF SeriesInv, Apply
    <3>2. \A q \in pairs : q[2] \in Folders
      BY RekeyedArePairs
    <3>3. SeriesTypeOK
      BY <1>1 DEF SeriesInv
    <3>4. /\ ItemsAfter(pairs)[v].order = item[v].order /\ ItemsAfter(pairs)[v].locked
          /\ (\A q \in pairs : item[v].series # {q[1]}) => ItemsAfter(pairs)[v] = item[v]
          /\ (\E q \in pairs : item[v].series = {q[1]}) =>
               \E q \in pairs : item[v].series = {q[1]} /\ ItemsAfter(pairs)[v].series = {q[2]}
      BY <3>2, <3>3, ItemsAfterFields
    <3> HIDE DEF items
    <3>5. CASE v \in KeptOrders(p, items)
      BY <3>1, <3>4, <3>5, Rebuilt
    <3>6. CASE v \notin KeptOrders(p, items)
      <4>1. \A f \in Active(p) : items[v].series # {f}
        BY <3>1, <3>4, <3>6 DEF KeptOrders
      <4>2. PICK f \in Folders : item[v].series = {f}
        <5>1. item[v].series \in Spots
          BY <3>3, Types DEF Item
        <5>2. item[v].series # {}
          BY <1>1, NoneTyped DEF SeriesInv, Rowless
        <5>3. QED
          BY <5>1, <5>2 DEF Spots
      <4>3. ASSUME NEW q \in pairs, item[v].series = {q[1]}, ItemsAfter(pairs)[v].series = {q[2]} PROVE FALSE
        <5>1. v \in Members(q[1])
          BY <4>3 DEF Members
        <5>2. p[v] = {q[2]} /\ q[2] \in Folders
          BY <5>1, RekeyedArePairs
        <5>3. q[2] \in Active(p)
          BY <5>2 DEF Active
        <5>4. QED
          BY <3>1, <4>1, <4>3, <5>3
      <4>4. \A q \in pairs : item[v].series # {q[1]}
        BY <3>4, <4>3
      <4>5. items[v] = item[v]
        BY <3>1, <3>4, <4>4
      <4>6. f \notin Active(p)
        BY <4>1, <4>2, <4>5
      <4>7. \A q \in pairs : q[1] # f
        BY <4>2, <4>4
      <4>8. Dissolved(f)
        BY <4>6, <4>7 DEF Dissolved
      <4>9. QED
        BY <4>2, <4>8
    <3>7. QED
      BY <3>5, <3>6
  <2>3. QED
    BY <1>1, <2>1, <2>2, SyncSteps
<1>2. QED
  BY <1>1, SeriesInvAlways, PTL DEF SeriesSpec, LockedOrderKept

-----------------------------------------------------------------------------
(* Names that move along *)

LEMMA NatRemainder ==
  ASSUME NEW n \in Nat, n > 0, NEW k \in 1 .. n
  PROVE  k % n = IF k = n THEN 0 ELSE k
<1>1. CASE k = n
  BY <1>1
<1>2. CASE k # n
  <2>1. k \in Nat /\ k < n
    BY <1>2
  <2>2. QED
    BY <1>2, <2>1
<1>3. QED
  BY <1>1, <1>2

\* Where a sequence of folders is longer than they are many, one comes twice.
LEMMA ComesTwice ==
  ASSUME NEW N, N = Cardinality(Folders), NEW c \in [0 .. N -> Folders]
  PROVE  \E i, j \in 0 .. N : i < j /\ c[i] = c[j]
<1>1. N \in Nat /\ IsFiniteSet(Folders)
  BY SeriesAssumed
<1>2. IsFiniteSet(0 .. N) /\ Cardinality(0 .. N) = N + 1
  <2>1. 0 \in Int /\ N \in Int
    BY <1>1
  <2>2. IsFiniteSet(0 .. N) /\ Cardinality(0 .. N) = IF 0 > N THEN 0 ELSE N - 0 + 1
    BY <2>1, FS_Interval
  <2>3. QED
    BY <1>1, <2>2
<1>3. Cardinality(0 .. N) > Cardinality(Folders)
  BY <1>1, <1>2
<1>4. \E i, j \in 0 .. N : i # j /\ c[i] = c[j]
  BY <1>1, <1>2, <1>3, FS_PigeonHole
<1>5. QED
  BY <1>1, <1>4

\* The pairs of a scan are the series that leave for one folder.
LEMMA HeirsAreCandidates ==
  ASSUME SeriesTypeOK, SeriesMirrorComics, NEW f \in Folders, NEW g \in Folders
  PROVE  Heir(f, g) <=> <<f, g>> \in Candidates(job.scan)
<1> DEFINE scan == job.scan
           q == <<f, g>>
<1>1. q[1] = f /\ q[2] = g
  OBVIOUS
<1>2. <<f, g>> \in Candidates(scan) <=>
        /\ f \in Rows /\ f # g /\ Members(f) # {}
        /\ \A v \in Members(f) : v \in Moved(scan) /\ scan[v] = {g}
  BY <1>1 DEF Candidates
<1>3. ASSUME Heir(f, g) PROVE <<f, g>> \in Candidates(scan)
  <2>1. f # g /\ Members(f) # {} /\ \A v \in Members(f) : scan[v] = {g}
    BY <1>3 DEF Heir
  <2>2. \A v \in Members(f) : v \in Volumes /\ place[v] = {f} /\ series[f] # NoSeries
    BY DEF Members, SeriesMirrorComics, ComicsInTheirSeries
  <2>3. f \in Rows
    BY <2>1, <2>2 DEF Rows
  <2>4. \A v \in Members(f) : v \in Moved(scan)
    BY <2>1, <2>2 DEF Moved
  <2>5. QED
    BY <1>2, <2>1, <2>3, <2>4
<1>4. ASSUME <<f, g>> \in Candidates(scan) PROVE Heir(f, g)
  BY <1>2, <1>4 DEF Heir
<1>5. QED
  BY <1>3, <1>4

\* Where nothing stands in the way of the moves, each of them is a pair.
LEMMA HeirsArePairs ==
  ASSUME SeriesTypeOK, SeriesMirrorComics,
         \A h, k \in Folders : Heir(h, k) => Vacated(k) /\ \A l \in Folders : Heir(l, k) => l = h,
         NEW f \in Folders, NEW g \in Folders, Heir(f, g)
  PROVE  <<f, g>> \in Pairs(job.scan)
<1> DEFINE scan == job.scan
           p == <<f, g>>
<1>1. p[1] = f /\ p[2] = g /\ p \in Candidates(scan)
  BY HeirsAreCandidates
<1>2. ASSUME NEW q \in Candidates(scan), q[2] = g PROVE q = p
  <2>1. q \in Folders \X Folders /\ q = <<q[1], q[2]>>
    BY DEF Candidates, Rows
  <2>2. q[1] \in Folders /\ <<q[1], g>> \in Candidates(scan)
    BY <1>2, <2>1
  <2>3. Heir(q[1], g)
    BY <2>2, HeirsAreCandidates
  <2>4. q[1] = f
    BY <2>2, <2>3
  <2>5. QED
    BY <1>2, <2>1, <2>4
<1>3. ASSUME g \in Rows PROVE \E q \in Candidates(scan) : q[1] = g
  <2>1. PICK h \in Folders : Heir(g, h)
    BY <1>3 DEF Vacated
  <2>2. <<g, h>> \in Candidates(scan)
    BY <2>1, HeirsAreCandidates
  <2>3. QED
    BY <2>2
<1> HIDE DEF p
<1>4. QED
  BY <1>1, <1>2, <1>3 DEF Pairs, p

\* A move that is in no circle is made in some round.
LEMMA CarriedIsRekeyed ==
  ASSUME SeriesTypeOK, SeriesMirrorComics, NEW f \in Folders, NEW g \in Folders, Carried(f, g)
  PROVE  <<f, g>> \in Rekeyed(job.scan)
<1> DEFINE scan == job.scan
           N == Cardinality(Folders)
           step(x) == IF \E k \in Folders : Heir(x, k) THEN CHOOSE k \in Folders : Heir(x, k) ELSE x
           G == [z \in (1 .. N) \X Folders |-> step(z[2])]
<1>0. N \in Nat
  BY SeriesAssumed
<1>1. Heir(f, g) /\ ~ InCircle(f)
  BY DEF Carried
<1>2. \A h, k \in Folders : Heir(h, k) => Vacated(k) /\ \A l \in Folders : Heir(l, k) => l = h
  BY DEF Carried
<1>3. ASSUME NEW h \in Folders, NEW k \in Folders, Heir(h, k) PROVE <<h, k>> \in Pairs(scan)
  BY <1>2, <1>3, HeirsArePairs
<1>4. ASSUME NEW h \in Folders, NEW k \in Folders, Heir(h, k) PROVE step(h) = k
  <2>1. step(h) \in Folders /\ Heir(h, step(h))
    BY <1>4
  <2> HIDE DEF step
  <2>2. PICK v \in Members(h) : scan[v] = {k} /\ scan[v] = {step(h)}
    BY <1>4, <2>1 DEF Heir
  <2>3. QED
    BY <2>2
<1>5. \A x \in Folders : step(x) \in Folders
  OBVIOUS
<1> HIDE DEF step
<1>6. \A i \in 1 .. N : \A x \in Folders : G[<<i, x>>] = step(x)
  OBVIOUS
<1> HIDE DEF G
<1>7. PICK c \in [0 .. N -> Folders] : Recurs(c, f, G, N)
  <2>1. \A i \in 1 .. N : \A x \in Folders : G[<<i, x>>] \in Folders
    BY <1>5, <1>6
  <2> HIDE DEF N
  <2>2. QED
    BY <1>0, <2>1, Recursion
<1>8. c[0] = f /\ \A i \in 1 .. N : c[i] = step(c[i - 1])
  <2>1. \A i \in 1 .. N : c[i - 1] \in Folders
    BY <1>0, <1>7
  <2>2. QED
    BY <1>6, <1>7, <2>1 DEF Recurs
<1>9. PICK d \in [0 .. N -> SUBSET Pairs(scan)] :
           /\ d[0] = {}
           /\ \A n \in 1 .. N : d[n] = Round(Pairs(scan), d[n - 1])
           /\ Rekeyed(scan) = d[N]
  BY Rounds
<1> HIDE DEF N, scan
<1> SUFFICES ASSUME <<f, g>> \notin d[N] PROVE FALSE
  BY <1>9 DEF scan
<1> DEFINE Waits(i) == Heir(c[i], c[i + 1]) /\ <<c[i], c[i + 1]>> \notin d[N - i]
           T == {i \in 0 .. N - 1 : ~ Waits(i)}
<1>10. T = {}
  <2> SUFFICES ASSUME T # {} PROVE FALSE
    OBVIOUS
  <2>1. PICK i \in T : \A m \in T : i <= m
    <3>1. T \subseteq Nat
      BY <1>0
    <3> HIDE DEF T
    <3>2. QED
      BY <3>1, LeastNat
  <2>2. i \in 0 .. N - 1 /\ i + 1 \in 1 .. N /\ (i + 1) - 1 = i /\ c[i] \in Folders /\ c[i + 1] \in Folders
    BY <1>0, <1>7, <2>1
  <2>3. c[i + 1] = step(c[i])
    BY <1>8, <2>2
  <2>4. CASE i = 0
    <3>1. c[0] = f /\ c[1] = g
      BY <1>1, <1>4, <1>8, <2>3, <2>4
    <3>2. N - 0 = N /\ 0 + 1 = 1
      BY <1>0
    <3>3. QED
      BY <1>1, <2>1, <2>4, <3>1, <3>2
  <2>5. CASE i # 0
    <3> DEFINE h == i - 1
    <3>1. h \in 0 .. N - 1 /\ h + 1 = i /\ h \notin T /\ h \in 0 .. N /\ N - h \in 1 .. N /\ (N - h) - 1 = N - i
      BY <1>0, <2>1, <2>2, <2>5
    <3>2. Waits(h) /\ c[h] \in Folders
      BY <1>7, <3>1
    <3> HIDE DEF T, h
    <3>3. Heir(c[h], c[i]) /\ <<c[h], c[i]>> \notin d[N - h]
      BY <3>1, <3>2
    <3>4. <<c[h], c[i]>> \in Pairs(scan)
      BY <1>3, <2>2, <3>2, <3>3
    <3>5. d[N - h] = Round(Pairs(scan), d[N - i])
      BY <1>9, <3>1
    <3>6. c[i] \in Rows /\ c[i] \notin {q[1] : q \in d[N - i]}
      <4> DEFINE e == <<c[h], c[i]>>
      <4>1. e[2] = c[i] /\ e \in Pairs(scan) /\ e \notin d[N - h]
        BY <3>3, <3>4
      <4> HIDE DEF e
      <4>2. QED
        BY <3>5, <4>1 DEF Round
    <3>7. PICK k \in Folders : Heir(c[i], k)
      BY <1>2, <2>2, <3>2, <3>3, <3>6 DEF Vacated
    <3>8. Heir(c[i], c[i + 1])
      BY <1>4, <2>2, <2>3, <3>7
    <3>9. <<c[i], c[i + 1]>> \notin d[N - i]
      <4> DEFINE e == <<c[i], c[i + 1]>>
      <4>1. e[1] = c[i]
        OBVIOUS
      <4> HIDE DEF e
      <4>2. e \notin d[N - i]
        BY <3>6, <4>1
      <4>3. QED
        BY <4>2 DEF e
    <3>10. QED
      BY <2>1, <3>8, <3>9 DEF T
  <2>6. QED
    BY <2>4, <2>5
<1>11. \A i \in 0 .. N - 1 : Heir(c[i], c[i + 1])
  BY <1>10
<1> DEFINE Twice == {i \in 0 .. N : \E j \in 0 .. N : i < j /\ c[i] = c[j]}
<1>12. Twice # {}
  BY <1>7, ComesTwice DEF N
<1>13. PICK i \in Twice : \A m \in Twice : i <= m
  <2>1. Twice \subseteq Nat
    BY <1>0
  <2> HIDE DEF Twice
  <2>2. QED
    BY <1>12, <2>1, LeastNat
<1>14. PICK j \in 0 .. N : i < j /\ c[i] = c[j]
  BY <1>13
<1>15. i = 0
  <2> SUFFICES ASSUME i # 0 PROVE FALSE
    OBVIOUS
  <2>1. /\ i - 1 \in 0 .. N - 1 /\ j - 1 \in 0 .. N - 1 /\ i - 1 < j - 1 /\ (i - 1) + 1 = i /\ (j - 1) + 1 = j
        /\ i - 1 \in 0 .. N /\ j - 1 \in 0 .. N /\ i \in 0 .. N
    BY <1>0, <1>13, <1>14
  <2>2. Heir(c[i - 1], c[i]) /\ Heir(c[j - 1], c[j])
    BY <1>11, <2>1
  <2>3. c[i - 1] \in Folders /\ c[j - 1] \in Folders /\ c[i] \in Folders
    BY <1>7, <2>1
  <2>4. c[j - 1] = c[i - 1]
    BY <1>2, <1>14, <2>2, <2>3
  <2>5. i - 1 \in Twice
    BY <2>1, <2>4
  <2>6. QED
    BY <1>0, <1>13, <2>1, <2>5
<1>16. j \in 1 .. N /\ c[j] = f /\ j \in Nat /\ j > 0
  BY <1>0, <1>8, <1>14, <1>15
<1> DEFINE e == [k \in 1 .. j |-> c[k - 1]]
<1>17. e \in [1 .. j -> Folders]
  <2>1. \A k \in 1 .. j : k - 1 \in 0 .. N
    BY <1>0, <1>16
  <2>2. QED
    BY <1>7, <2>1
<1>18. e[1] = f
  BY <1>8, <1>16
<1>19. ASSUME NEW k \in 1 .. j PROVE Heir(e[k], e[(k % j) + 1])
  <2>1. k - 1 \in 0 .. N - 1 /\ (k - 1) + 1 = k
    BY <1>0, <1>16
  <2>2. Heir(c[k - 1], c[k])
    BY <1>11, <2>1
  <2>3. e[k] = c[k - 1]
    OBVIOUS
  <2>4. e[(k % j) + 1] = c[k]
    <3>1. CASE k = j
      <4>1. k % j = 0
        BY <1>16, <3>1, NatRemainder
      <4>2. (k % j) + 1 = 1
        BY <4>1
      <4>3. QED
        BY <1>16, <1>18, <3>1, <4>2
    <3>2. CASE k # j
      <4>1. k % j = k
        BY <1>16, <3>2, NatRemainder
      <4>2. k + 1 \in 1 .. j /\ (k + 1) - 1 = k
        BY <1>16, <3>2
      <4>3. e[k + 1] = c[k]
        BY <4>2
      <4> HIDE DEF e
      <4>4. QED
        BY <4>1, <4>3
    <3>3. QED
      BY <3>1, <3>2
  <2> HIDE DEF e
  <2>5. QED
    BY <2>2, <2>3, <2>4
<1> HIDE DEF e
<1>20. InCircle(f)
  BY <1>16, <1>17, <1>18, <1>19 DEF InCircle, N
<1>21. QED
  BY <1>1, <1>20

\* A locked name moves along with its series to the folder its members moved to,
\* through every chain of such moves that is no circle, at once.
THEOREM SpecNameMovesAlong == SeriesSpec => NameMovesAlong
<1> DEFINE Along == Synced => \A f, g \in Folders : series[f].locked /\ Carried(f, g) => series'[g] = series[f]
<1>1. ASSUME SeriesInv, [SeriesNext]_seriesVars PROVE Along
  <2> SUFFICES ASSUME Synced, NEW f \in Folders, NEW g \in Folders, series[f].locked, Carried(f, g)
               PROVE  series'[g] = series[f]
    OBVIOUS
  <2>0. SeriesTypeOK /\ SeriesMirrorComics
    BY <1>1 DEF SeriesInv
  <2>1. Heir(f, g) /\ f # g
    BY DEF Carried, Heir
  <2>2. PICK v \in Volumes : item[v].series = {f} /\ job.scan[v] = {g}
    BY <2>1 DEF Heir, Members
  <2>3. CASE Abort
    <3>1. place = job.scan
      BY <2>3 DEF Abort, Synced
    <3>2. place[v] = {f}
      BY <2>0, <2>2 DEF SeriesMirrorComics, ComicsInTheirSeries
    <3>3. QED
      BY <2>1, <2>2, <3>1, <3>2
  <2>4. CASE Apply
    <3> DEFINE scan == job.scan
               pairs == Rekeyed(scan)
               rows == SeriesAfter(pairs)
               p == <<f, g>>
    <3>1. /\ series' = RebuiltSeries(scan, rows) /\ scan \in [Volumes -> Spots]
          /\ rows \in [Folders -> SeriesRow] /\ \A h \in Folders : Named(rows[h])
      BY <2>0, <2>4, Applied DEF Apply
    <3>2. p \in pairs /\ p[1] = f /\ p[2] = g
      BY <2>0, CarriedIsRekeyed
    <3>3. \A q \in pairs : q[2] = g => q = p
      <4>1. p \in Pairs(scan) /\ \A q \in pairs : q \in Candidates(scan)
        BY <3>2, RekeyedArePairs
      <4> HIDE DEF p, pairs
      <4>2. QED
        BY <3>2, <4>1 DEF Pairs
    <3> HIDE DEF p, pairs
    <3>4. Source(pairs, g) = {f}
      BY <3>2, <3>3 DEF Source
    <3>5. rows[g] = Renamed(series[f], g)
      <4>1. (CHOOSE h \in {f} : TRUE) = f
        OBVIOUS
      <4>2. QED
        BY <2>1, <3>4, <4>1 DEF SeriesAfter
    <3>6. rows[g] = series[f]
      BY <3>5 DEF Renamed
    <3>7. g \in Active(scan)
      BY <2>2 DEF Active
    <3> HIDE DEF rows, scan
    <3>8. rows[g].locked /\ (g \in Active(scan) /\ rows[g].locked => RebuiltSeries(scan, rows)[g] = rows[g])
      BY <3>1, <3>6, RebuiltRows
    <3>9. QED
      BY <3>1, <3>6, <3>7, <3>8
  <2>5. QED
    BY <1>1, <2>3, <2>4, SyncSteps
<1>2. QED
  BY <1>1, SeriesInvAlways, PTL DEF SeriesSpec, NameMovesAlong


-----------------------------------------------------------------------------
(* Revisions: connections and readings *)

\* A connection is on one file at most; the version connection has counted from
\* a number of commits its file has had; a new one has a new epoch.
Connected ==
  /\ main # {} => \E f \in Files : main = {f}
  /\ spare.file # {} => \E f \in Files : spare.file = {f} /\ spare.at <= content[f]
  /\ epoch = 0 => spare.file = {}
  /\ epoch <= opens /\ (opening => epoch < opens)
  /\ opening => main # {}

\* A reading of the present version connection is true to its file.
True(reading) ==
  reading.epoch = epoch => \A f \in Files : spare.file = {f} => spare.at + reading.version <= content[f]
ReadingsTrue ==
  /\ True(poller.last) /\ True(poller.now)
  /\ poller.pc = "asked" /\ poller.now.epoch = epoch /\ spare.file # {} =>
       poller.now.of = [file |-> spare.file, at |-> spare.at + poller.now.version]

\* A list that has seen every generation shows at least the poller's baseline.
UpToBaseline ==
  \A w \in Watchers :
    /\ watch[w].pc = "wait" /\ watch[w].shown.file = spare.file /\ spare.file # {}
    /\ watch[w].seen = gen /\ ~ watch[w].missed /\ poller.last.epoch = epoch
    => spare.at + poller.last.version <= watch[w].shown.at

\* What a list shows is a state its file has been in.
ShownWas ==
  \A w \in Watchers, f \in Files : watch[w].shown.file = {f} => watch[w].shown.at <= content[f]

IInv == TypeOK /\ Connected /\ ReadingsTrue /\ UpToBaseline /\ ShownWas

\* The file a singleton holds.
LEMMA Single == \A g \in Files : (CHOOSE f \in Files : {g} = {f}) = g
  OBVIOUS

LEMMA NoneType == Nothing \in View /\ NoReading \in Readings
  BY DEF Nothing, View, NoReading, Reading, Readings

\* What a query finds is the content of the file it is on.
LEMMA CurrentType ==
  ASSUME TypeOK, Connected
  PROVE  /\ Current \in View /\ Current.file = main
         /\ \A f \in Files : main = {f} => Current.at = content[f]
<1>1. CASE main = {}
  BY <1>1 DEF Current, View
<1>2. ASSUME NEW g \in Files, main = {g} PROVE Current = [file |-> main, at |-> content[g]]
  BY <1>2, Single DEF Current
<1>3. ASSUME NEW g \in Files, main = {g} PROVE content[g] \in Nat
  BY RevisionPollerAssumption DEF TypeOK, Poller, Loop
<1>4. QED
  BY <1>1, <1>2, <1>3 DEF Connected, View, TypeOK, Poller, Loop

LEMMA InitIInv == Init => IInv
<1> SUFFICES ASSUME Init PROVE IInv
  OBVIOUS
<1>1. /\ spare.file = {} /\ spare.at = 0 /\ epoch = 0
      /\ poller.last.epoch = 0 /\ poller.now.epoch = 0
      /\ \A w \in Watchers : watch[w].pc = "off" /\ watch[w].seen = 0 /\ watch[w].shown.at = 0
  BY DEF Init, Nothing, NoReading, Reading
<1>2. TypeOK
  <2>1. poller \in Poller /\ watch \in [Watchers -> Loop]
    BY NoneType DEF Init, Poller, Loop
  <2>2. content \in [Files -> 0 .. MaxWrites] /\ spare \in View
    BY NoneType, RevisionPollerAssumption DEF Init
  <2>3. epoch \in 0 .. MaxOpens /\ opens \in 0 .. MaxOpens
    BY RevisionPollerAssumption DEF Init
  <2>4. main \in SUBSET Files /\ opening \in BOOLEAN /\ gen = 0
    BY DEF Init
  <2>5. QED
    BY <1>1, <2>1, <2>2, <2>3, <2>4 DEF TypeOK
<1>3. Connected /\ UpToBaseline
  BY <1>1 DEF Init, Connected, UpToBaseline
<1>4. ReadingsTrue
  BY <1>1 DEF ReadingsTrue, True
<1>5. ShownWas
  BY <1>1 DEF Init, ShownWas
<1>6. QED
  BY <1>2, <1>3, <1>4, <1>5 DEF IInv

-----------------------------------------------------------------------------
(* One step *)

LEMMA CommitStep == IInv /\ Commit => IInv'
<1> SUFFICES ASSUME IInv, Commit PROVE IInv'
  OBVIOUS
<1>1. PICK f \in main : content[f] < MaxWrites /\ content' = [content EXCEPT ![f] = @ + 1]
  BY DEF Commit
<1>2. f \in Files /\ content' \in [Files -> 0 .. MaxWrites]
  BY <1>1, RevisionPollerAssumption DEF IInv, TypeOK, Poller, Loop
<1>3. \A g \in Files : content[g] <= content'[g] /\ content[g] \in Nat /\ content'[g] \in Nat
  BY <1>1, <1>2, RevisionPollerAssumption DEF IInv, TypeOK, Poller, Loop
<1>4. UNCHANGED <<main, spare, epoch, opening, opens, gen, poller, watch>>
  BY DEF Commit
<1>5. TypeOK'
  BY <1>2, <1>4 DEF IInv, TypeOK, Poller, Loop
<1>6. spare.at \in Nat /\ poller.last.version \in Nat /\ poller.now.version \in Nat
      /\ \A w \in Watchers : watch[w].shown.at \in Nat
  BY DEF IInv, TypeOK, Poller, Loop, Readings, View
<1>7. Connected'
  BY <1>3, <1>4, <1>6 DEF IInv, Connected
<1>8. ReadingsTrue'
  BY <1>3, <1>4, <1>6 DEF IInv, ReadingsTrue, True
<1>9. UpToBaseline' /\ ShownWas'
  BY <1>3, <1>4, <1>6 DEF IInv, UpToBaseline, ShownWas
<1>10. QED
  BY <1>5, <1>7, <1>8, <1>9 DEF IInv

LEMMA OpenStep == IInv /\ ((\E f \in Files : OpenMain(f)) \/ OpenSpareFails) => IInv'
<1> SUFFICES ASSUME IInv, (\E f \in Files : OpenMain(f)) \/ OpenSpareFails PROVE IInv'
  OBVIOUS
<1>1. UNCHANGED <<content, spare, epoch, gen, poller, watch>>
  BY DEF OpenMain, OpenSpareFails
<1>2. ReadingsTrue' /\ UpToBaseline' /\ ShownWas'
  BY <1>1 DEF IInv, ReadingsTrue, True, UpToBaseline, ShownWas
<1>3. epoch \in Nat /\ opens \in Nat
  BY RevisionPollerAssumption DEF IInv, TypeOK, Poller, Loop
<1>4. TypeOK' /\ Connected'
  <2>1. ASSUME NEW f \in Files, OpenMain(f) PROVE TypeOK' /\ Connected'
    BY <1>1, <1>3, <2>1, RevisionPollerAssumption DEF IInv, TypeOK, Poller, Loop, Connected, OpenMain
  <2>2. CASE OpenSpareFails
    BY <1>1, <1>3, <2>2 DEF IInv, TypeOK, Poller, Loop, Connected, OpenSpareFails
  <2>3. QED
    BY <2>1, <2>2
<1>5. QED
  BY <1>2, <1>4 DEF IInv

LEMMA OpenSpareStep == IInv /\ OpenSpare => IInv'
<1> SUFFICES ASSUME IInv, OpenSpare PROVE IInv'
  OBVIOUS
<1>1. /\ UNCHANGED <<content, main, opens, gen, poller, watch>>
      /\ opening /\ opening' = FALSE /\ spare' = Current /\ epoch' = epoch + 1
  BY DEF OpenSpare
<1>2. epoch \in Nat /\ opens \in Nat /\ epoch < opens
  BY <1>1, RevisionPollerAssumption DEF IInv, TypeOK, Poller, Loop, Connected
<1>3. /\ Current \in View /\ Current.file = main
      /\ \A f \in Files : main = {f} => Current.at = content[f]
  BY CurrentType DEF IInv
<1>4. poller.last.epoch # epoch' /\ poller.now.epoch # epoch'
  BY <1>1, <1>2 DEF IInv, TypeOK, Poller, Loop, Readings
<1>5. TypeOK'
  <2>1. epoch' \in 0 .. MaxOpens
    BY <1>1, <1>2, RevisionPollerAssumption DEF IInv, TypeOK, Poller, Loop
  <2>2. poller.last.epoch <= epoch' /\ poller.now.epoch <= epoch'
    BY <1>1, <1>2 DEF IInv, TypeOK, Poller, Loop, Readings
  <2>3. spare' \in View /\ opening' \in BOOLEAN
    BY <1>1, <1>3
  <2>4. QED
    BY <1>1, <2>1, <2>2, <2>3 DEF IInv, TypeOK, Poller, Loop
<1>6. Connected'
  <2>1. \A f \in Files : content[f] \in Nat
    BY RevisionPollerAssumption DEF IInv, TypeOK, Poller, Loop
  <2>2. QED
    BY <1>1, <1>2, <1>3, <2>1 DEF IInv, Connected
<1>7. ReadingsTrue' /\ UpToBaseline' /\ ShownWas'
  BY <1>1, <1>4 DEF IInv, ReadingsTrue, True, UpToBaseline, ShownWas
<1>8. QED
  BY <1>5, <1>6, <1>7 DEF IInv

LEMMA ShutdownStep == IInv /\ Shutdown => IInv'
<1> SUFFICES ASSUME IInv, Shutdown PROVE IInv'
  OBVIOUS
<1>1. /\ UNCHANGED <<content, epoch, opening, gen, poller, watch>>
      /\ ~ opening /\ opens < MaxOpens /\ main' = {} /\ spare' = Nothing /\ opens' = opens + 1
  BY DEF Shutdown
<1>2. epoch \in Nat /\ opens \in Nat /\ spare'.file = {}
  BY <1>1, RevisionPollerAssumption DEF IInv, TypeOK, Poller, Loop, Nothing
<1>3. TypeOK'
  BY <1>1, <1>2, NoneType, RevisionPollerAssumption DEF IInv, TypeOK, Poller, Loop
<1>4. Connected'
  BY <1>1, <1>2 DEF IInv, Connected
<1>5. ReadingsTrue' /\ UpToBaseline' /\ ShownWas'
  BY <1>1, <1>2 DEF IInv, ReadingsTrue, True, UpToBaseline, ShownWas
<1>6. QED
  BY <1>3, <1>4, <1>5 DEF IInv

LEMMA AskStep == IInv /\ Ask => IInv'
<1> SUFFICES ASSUME IInv, Ask PROVE IInv'
  OBVIOUS
<1>1. UNCHANGED <<content, main, spare, epoch, opening, opens, gen, watch>>
  BY DEF Ask
<1>2. Connected' /\ ShownWas'
  BY <1>1 DEF IInv, Connected, ShownWas
<1>3. epoch \in Nat /\ spare \in View
  BY RevisionPollerAssumption DEF IInv, TypeOK, Poller, Loop
<1>4. CASE spare.file = {}
  <2>1. poller' = [poller EXCEPT !.pc = "sleep"]
    BY <1>4 DEF Ask
  <2>2. poller'.last = poller.last /\ poller'.now = poller.now /\ poller'.pc = "sleep"
    BY <2>1 DEF IInv, TypeOK, Poller, Loop
  <2>3. TypeOK'
    BY <1>1, <2>1 DEF IInv, TypeOK, Poller, Loop
  <2>4. ReadingsTrue' /\ UpToBaseline'
    BY <1>1, <2>2 DEF IInv, ReadingsTrue, True, UpToBaseline
  <2>5. QED
    BY <1>2, <2>3, <2>4 DEF IInv
<1>5. CASE spare.file # {}
  <2>1. PICK f \in Files : spare.file = {f} /\ spare.at <= content[f]
    BY <1>5 DEF IInv, Connected
  <2> DEFINE now == Reading(epoch, content[f] - spare.at, [file |-> spare.file, at |-> content[f]])
  <2>2. poller' = [poller EXCEPT !.pc = "asked", !.now = now]
    BY <1>5, <2>1, Single DEF Ask
  <2>3. content[f] \in Nat /\ spare.at \in Nat /\ content[f] - spare.at \in Nat
    BY <1>3, <2>1, RevisionPollerAssumption DEF IInv, TypeOK, Poller, Loop, View
  <2>4. now \in Readings
    BY <1>3, <2>1, <2>3 DEF Reading, Readings, View
  <2>5. poller'.last = poller.last /\ poller'.now = now /\ poller'.pc = "asked"
    BY <2>2 DEF IInv, TypeOK, Poller, Loop
  <2>6. now.epoch = epoch /\ now.version = content[f] - spare.at
        /\ now.of = [file |-> spare.file, at |-> content[f]]
    BY DEF Reading
  <2>7. TypeOK'
    <3>1. poller' \in Poller
      BY <2>2, <2>4 DEF IInv, TypeOK, Poller
    <3>2. poller'.last.epoch <= epoch /\ poller'.now.epoch <= epoch
      BY <1>3, <2>5, <2>6 DEF IInv, TypeOK
    <3>3. QED
      BY <1>1, <3>1, <3>2 DEF IInv, TypeOK
  <2>8. spare.at + now.version = content[f]
    BY <2>3, <2>6
  <2>9. ReadingsTrue'
    <3>1. True(poller.last)' /\ True(poller.now)'
      <4>1. ASSUME NEW g \in Files, spare.file = {g} PROVE spare.at + now.version <= content[g]
        <5>1. g = f
          BY <2>1, <4>1
        <5>2. QED
          BY <2>3, <2>8, <5>1
      <4>2. True(poller.now)'
        BY <1>1, <2>5, <4>1 DEF True
      <4>3. True(poller.last)'
        BY <1>1, <2>5 DEF IInv, ReadingsTrue, True
      <4>4. QED
        BY <4>2, <4>3
    <3>2. poller'.now.of = [file |-> spare.file, at |-> spare.at + poller'.now.version]
      BY <2>5, <2>6, <2>8
    <3>3. QED
      BY <1>1, <3>1, <3>2 DEF ReadingsTrue
  <2>10. UpToBaseline'
    BY <1>1, <2>5 DEF IInv, UpToBaseline
  <2>11. QED
    BY <1>2, <2>7, <2>9, <2>10 DEF IInv
<1>6. QED
  BY <1>4, <1>5

LEMMA VoidStep == IInv /\ Void => IInv'
<1> SUFFICES ASSUME IInv, Void PROVE IInv'
  OBVIOUS
<1>1. UNCHANGED <<content, main, spare, epoch, opening, opens, gen, watch>>
  BY DEF Void
<1>2. /\ poller' = [poller EXCEPT !.pc = "sleep", !.now = NoReading]
      /\ poller'.last = poller.last /\ poller'.now = NoReading /\ poller'.pc = "sleep"
  BY DEF Void, IInv, TypeOK, Poller, Loop
<1>3. epoch \in Nat /\ NoReading.epoch = 0
  BY RevisionPollerAssumption DEF IInv, TypeOK, Poller, Loop, NoReading, Reading
<1>4. TypeOK'
  <2>1. poller' \in Poller
    BY <1>2, NoneType DEF IInv, TypeOK, Poller
  <2>2. poller'.last.epoch <= epoch /\ poller'.now.epoch <= epoch
    BY <1>2, <1>3 DEF IInv, TypeOK
  <2>3. QED
    BY <1>1, <2>1, <2>2 DEF IInv, TypeOK
<1>5. Connected' /\ ShownWas' /\ UpToBaseline'
  BY <1>1, <1>2 DEF IInv, Connected, ShownWas, UpToBaseline
<1>6. ReadingsTrue'
  BY <1>1, <1>2, <1>3 DEF IInv, ReadingsTrue, True, Connected
<1>7. QED
  BY <1>4, <1>5, <1>6 DEF IInv

LEMMA NotifyStep == IInv /\ Notify => IInv'
<1> SUFFICES ASSUME IInv, Notify PROVE IInv'
  OBVIOUS
<1>1. UNCHANGED <<content, main, spare, epoch, opening, opens, watch>> /\ gen' = gen + 1
  BY DEF Notify
<1>2. /\ poller' = [poller EXCEPT !.pc = "sleep", !.last = poller.now, !.now = NoReading]
      /\ poller'.last = poller.now /\ poller'.now = NoReading /\ poller'.pc = "sleep"
  BY DEF Notify, IInv, TypeOK, Poller, Loop
<1>3. epoch \in Nat /\ NoReading.epoch = 0 /\ gen \in Nat /\ \A w \in Watchers : watch[w].seen \in Nat /\ watch[w].seen <= gen
  BY RevisionPollerAssumption DEF IInv, TypeOK, Poller, Loop, NoReading, Reading
<1>4. TypeOK'
  <2>1. \A w \in Watchers : watch'[w].seen <= gen'
    BY <1>1, <1>3
  <2>2. QED
    <3>1. poller' \in Poller
      BY <1>2, NoneType DEF IInv, TypeOK, Poller
    <3>2. poller'.last.epoch <= epoch /\ poller'.now.epoch <= epoch
      BY <1>2, <1>3 DEF IInv, TypeOK
    <3>3. QED
      BY <1>1, <1>3, <2>1, <3>1, <3>2 DEF IInv, TypeOK
<1>5. Connected' /\ ShownWas'
  BY <1>1 DEF IInv, Connected, ShownWas
<1>6. UpToBaseline'
  BY <1>1, <1>3 DEF UpToBaseline
<1>7. ReadingsTrue'
  BY <1>1, <1>2, <1>3 DEF IInv, ReadingsTrue, True, Connected
<1>8. QED
  BY <1>4, <1>5, <1>6, <1>7 DEF IInv

LEMMA AdoptStep == IInv /\ Adopt => IInv'
<1> SUFFICES ASSUME IInv, Adopt PROVE IInv'
  OBVIOUS
<1> DEFINE swallowed(w) ==
      /\ poller.last.epoch # epoch /\ watch[w].pc = "wait"
      /\ watch[w].shown.file = poller.now.of.file /\ watch[w].shown.at < poller.now.of.at
<1>1. /\ UNCHANGED <<content, main, spare, epoch, opening, opens, gen>>
      /\ poller.pc = "asked" /\ poller.now.epoch = epoch /\ ~ Changed
      /\ watch' = [w \in Watchers |-> IF swallowed(w) THEN [watch[w] EXCEPT !.missed = TRUE] ELSE watch[w]]
  BY DEF Adopt
<1>2. /\ poller' = [poller EXCEPT !.pc = "sleep", !.last = poller.now, !.now = NoReading]
      /\ poller'.last = poller.now /\ poller'.now = NoReading /\ poller'.pc = "sleep"
  BY DEF Adopt, IInv, TypeOK, Poller, Loop
<1>3. epoch \in Nat /\ NoReading.epoch = 0
  BY RevisionPollerAssumption DEF IInv, TypeOK, Poller, Loop, NoReading, Reading
<1>4. \A w \in Watchers :
        /\ watch[w] \in Loop
        /\ watch'[w] \in Loop
        /\ watch'[w].pc = watch[w].pc /\ watch'[w].seen = watch[w].seen
        /\ watch'[w].shown = watch[w].shown /\ (~ watch'[w].missed => ~ watch[w].missed /\ ~ swallowed(w))
  BY <1>1 DEF IInv, TypeOK, Poller, Loop
<1>5. TypeOK'
  <2>1. poller' \in Poller
    BY <1>2, NoneType DEF IInv, TypeOK, Poller
  <2>2. poller'.last.epoch <= epoch /\ poller'.now.epoch <= epoch
    BY <1>2, <1>3 DEF IInv, TypeOK
  <2>3. watch' \in [Watchers -> Loop] /\ \A w \in Watchers : watch'[w].seen <= gen
    BY <1>1, <1>4 DEF IInv, TypeOK
  <2>4. QED
    BY <1>1, <2>1, <2>2, <2>3 DEF IInv, TypeOK
<1>6. Connected' /\ ShownWas'
  BY <1>1, <1>4 DEF IInv, Connected, ShownWas
<1>7. ReadingsTrue'
  BY <1>1, <1>2, <1>3 DEF IInv, ReadingsTrue, True, Connected
<1>8. UpToBaseline'
  <2> SUFFICES ASSUME NEW w \in Watchers,
                      watch[w].pc = "wait", watch[w].shown.file = spare.file, spare.file # {},
                      watch[w].seen = gen, ~ watch[w].missed, ~ swallowed(w)
               PROVE  spare.at + poller.now.version <= watch[w].shown.at
    BY <1>1, <1>2, <1>4 DEF UpToBaseline
  <2>1. CASE poller.last.epoch = epoch
    <3>1. poller.last # NoReading
      BY <1>3, <2>1 DEF IInv, Connected
    <3>2. poller.last.version = poller.now.version
      BY <1>1, <2>1, <3>1 DEF Changed
    <3>3. QED
      BY <2>1, <3>2 DEF IInv, UpToBaseline
  <2>2. CASE poller.last.epoch # epoch
    <3>1. poller.now.of.file = spare.file /\ poller.now.of.at = spare.at + poller.now.version
      BY <1>1 DEF IInv, ReadingsTrue
    <3>2. spare.at \in Nat /\ poller.now.version \in Nat /\ watch[w].shown.at \in Nat
      BY <1>4 DEF IInv, TypeOK, Poller, Loop, View, Readings
    <3>3. QED
      BY <2>2, <3>1, <3>2
  <2>3. QED
    BY <2>1, <2>2
<1>9. QED
  BY <1>5, <1>6, <1>7, <1>8 DEF IInv

\* A step of a watch loop: it ends up in another place than waiting, or waiting
\* with what the database holds.
LEMMA WatchStep ==
  ASSUME IInv, NEW w \in Watchers, NEW state,
         watch' = [watch EXCEPT ![w] = state],
         UNCHANGED <<content, main, spare, epoch, opening, opens, gen>>,
         poller' \in {poller, [poller EXCEPT !.pc = "start"]},
         state \in Loop,
         state.seen <= gen,
         state.pc = "wait" => state.shown = Current,
         state.shown \in {Nothing, Current, watch[w].shown}
  PROVE  IInv'
<1>1. /\ \A v \in Watchers : v # w => watch'[v] = watch[v]
      /\ watch'[w] = state
      /\ poller'.last = poller.last /\ poller'.now = poller.now
      /\ poller'.pc = "asked" => poller.pc = "asked"
  BY DEF IInv, TypeOK, Poller, Loop
<1>2. TypeOK'
  BY <1>1 DEF IInv, TypeOK, Poller, Loop
<1>3. Connected' /\ ReadingsTrue'
  BY <1>1 DEF IInv, Connected, ReadingsTrue, True
<1>4. /\ Current.file = main
      /\ \A f \in Files : main = {f} => Current.at = content[f]
  BY CurrentType DEF IInv
<1>5. ShownWas'
  <2>1. \A f \in Files : content[f] \in Nat
    BY RevisionPollerAssumption DEF IInv, TypeOK, Poller, Loop
  <2>2. \A f \in Files : state.shown.file = {f} => state.shown.at <= content[f]
    BY <1>4, <2>1 DEF Nothing, IInv, ShownWas
  <2>3. QED
    BY <1>1, <2>2 DEF IInv, ShownWas
<1>6. UpToBaseline'
  <2>1. ASSUME state.pc = "wait", state.shown.file = spare.file, spare.file # {}, poller.last.epoch = epoch
        PROVE  spare.at + poller.last.version <= state.shown.at
    <3>1. PICK f \in Files : spare.file = {f}
      BY <2>1 DEF IInv, Connected
    <3>2. spare.at + poller.last.version <= content[f]
      BY <2>1, <3>1 DEF IInv, ReadingsTrue, True
    <3>3. QED
      BY <1>4, <2>1, <3>1, <3>2
  <2>2. QED
    BY <1>1, <2>1 DEF IInv, UpToBaseline
<1>7. QED
  BY <1>2, <1>3, <1>5, <1>6 DEF IInv

LEMMA WatchersStep ==
  ASSUME IInv, NEW w \in Watchers, Subscribe(w) \/ Read(w) \/ Wake(w) \/ Cancel(w)
  PROVE  IInv'
<1> DEFINE off == [pc |-> "off", seen |-> 0, shown |-> Nothing, missed |-> FALSE]
           new == [pc |-> "read", seen |-> gen, shown |-> Nothing, missed |-> FALSE]
           got == [watch[w] EXCEPT !.pc = "wait", !.shown = Current, !.missed = FALSE]
           again == [watch[w] EXCEPT !.pc = "read", !.seen = gen]
<1>1. /\ watch \in [Watchers -> Loop]
      /\ gen \in Nat /\ watch[w].seen <= gen /\ watch[w].seen \in Nat
  BY DEF IInv, TypeOK, Poller, Loop
<1>2. Current \in View
  BY CurrentType DEF IInv
<1>3. off.seen <= gen /\ new.seen <= gen /\ got.seen <= gen /\ again.seen <= gen
  BY <1>1
<1>4. CASE Subscribe(w)
  <2>1. watch' = [watch EXCEPT ![w] = new] /\ poller' \in {poller, [poller EXCEPT !.pc = "start"]}
    BY <1>4 DEF Subscribe
  <2>2. new \in Loop
    BY <1>1, NoneType DEF Loop
  <2>3. QED
    BY <1>3, <1>4, <2>1, <2>2, WatchStep DEF Subscribe
<1>5. off \in Loop
  BY NoneType DEF Loop
<1>6. CASE Read(w)
  <2>1. got \in Loop
        /\ got.pc = "wait" /\ got.shown = Current
    BY <1>1, <1>2 DEF Loop
  <2>2. watch' = [watch EXCEPT ![w] = off] \/ watch' = [watch EXCEPT ![w] = got]
    BY <1>6 DEF Read
  <2>3. CASE watch' = [watch EXCEPT ![w] = off]
    BY <1>3, <1>5, <1>6, <2>3, WatchStep DEF Read
  <2>4. CASE watch' = [watch EXCEPT ![w] = got]
    BY <1>3, <1>6, <2>1, <2>4, WatchStep DEF Read
  <2>5. QED
    BY <2>2, <2>3, <2>4
<1>7. CASE Wake(w)
  <2>1. again \in Loop
        /\ again.pc = "read" /\ again.shown = watch[w].shown
    BY <1>1 DEF Loop
  <2>2. watch' = [watch EXCEPT ![w] = again]
    BY <1>1, <1>7 DEF Wake
  <2>3. QED
    BY <1>3, <1>7, <2>1, <2>2, WatchStep DEF Wake
<1>8. CASE Cancel(w)
  BY <1>3, <1>5, <1>8, WatchStep DEF Cancel
<1>9. QED
  BY <1>4, <1>6, <1>7, <1>8

LEMMA NextIInv == IInv /\ [Next]_vars => IInv'
<1> SUFFICES ASSUME IInv, [Next]_vars PROVE IInv'
  OBVIOUS
<1>1. CASE UNCHANGED vars
  BY <1>1 DEF vars, IInv, TypeOK, Poller, Loop, Connected, ReadingsTrue, True, UpToBaseline, ShownWas
<1>2. CASE Next
  BY <1>2, CommitStep, OpenStep, OpenSpareStep, ShutdownStep, AskStep, VoidStep,
     NotifyStep, AdoptStep, WatchersStep DEF Next
<1>3. QED
  BY <1>1, <1>2

\* The types hold in every state: no generation is seen before it is sent, and
\* no baseline is of a connection that never was.
THEOREM SpecType == Spec => []TypeOK
<1>1. IInv => TypeOK
  BY DEF IInv
<1>2. QED
  BY <1>1, InitIInv, NextIInv, PTL DEF Spec

\* No commit is lost: a list that waits and shows an older state of the watched
\* database, and was not told so by a baseline, has a generation to come.
THEOREM SpecNoLostChange == Spec => []NoLostChange
<1>1. IInv => NoLostChange
  <2> SUFFICES ASSUME IInv, Watched, NEW w \in Watchers, Stale(w), ~ watch[w].missed,
                      watch[w].seen = gen, poller.last.epoch = epoch
               PROVE  poller.last.version # Current.at - spare.at
    BY DEF NoLostChange, Told
  <2>1. PICK f \in Files : main = {f} /\ spare.file = {f}
    BY DEF IInv, Connected, Watched
  <2>2. Current \in View /\ Current.file = main /\ Current.at = content[f]
    BY <2>1, CurrentType DEF IInv
  <2>3. watch[w].shown \in View /\ watch[w].shown.file = main /\ watch[w].shown # Current
    BY DEF IInv, TypeOK, Poller, Loop, Stale
  <2>4. watch[w].shown.at # Current.at
    BY <2>2, <2>3 DEF View
  <2>5. watch[w].shown.at <= content[f]
    BY <2>1, <2>3 DEF IInv, ShownWas
  <2>6. spare.at + poller.last.version <= watch[w].shown.at
    BY <2>1, <2>3 DEF IInv, UpToBaseline, Stale
  <2>7. /\ content[f] \in Nat /\ spare.at \in Nat /\ poller.last.version \in Nat
        /\ watch[w].shown.at \in Nat
    BY <2>3, RevisionPollerAssumption DEF IInv, TypeOK, Poller, Loop, View, Readings
  <2>8. QED
    BY <2>2, <2>4, <2>5, <2>6, <2>7
<1>2. QED
  BY <1>1, InitIInv, NextIInv, PTL DEF Spec

-----------------------------------------------------------------------------
(* What a generation means *)

\* A baseline of the present connection is a state its file has been in, and a
\* number read after it on the same connection is of a state no earlier.
LastTrue ==
  poller.last.epoch = epoch /\ spare.file # {} =>
    poller.last.of = [file |-> spare.file, at |-> spare.at + poller.last.version]
NowAfterLast ==
  poller.pc = "asked" /\ poller.last.epoch = poller.now.epoch =>
    /\ poller.now.of.file = poller.last.of.file
    /\ poller.now.of.at + poller.last.version = poller.last.of.at + poller.now.version
    /\ poller.last.version <= poller.now.version
Ordered == LastTrue /\ NowAfterLast

LEMMA AskOrdered == IInv /\ Ordered /\ Ask => Ordered'
<1> SUFFICES ASSUME IInv, Ordered, Ask PROVE Ordered'
  OBVIOUS
<1>1. UNCHANGED <<content, spare, epoch>>
  BY DEF Ask
<1>2. poller \in Poller
  BY DEF IInv, TypeOK
<1>3. poller'.last = poller.last
  BY <1>2 DEF Ask, Poller
<1>4. LastTrue'
  BY <1>1, <1>3 DEF Ordered, LastTrue
<1>5. CASE spare.file = {}
  <2>1. poller'.pc = "sleep"
    BY <1>2, <1>5 DEF Ask, Poller
  <2>2. QED
    BY <1>4, <2>1 DEF Ordered, NowAfterLast
<1>6. CASE spare.file # {}
  <2>1. PICK f \in Files : spare.file = {f} /\ spare.at <= content[f]
    BY <1>6 DEF IInv, Connected
  <2> DEFINE now == Reading(epoch, content[f] - spare.at, [file |-> spare.file, at |-> content[f]])
  <2>2. poller'.now = now
    <3>1. poller' = [poller EXCEPT !.pc = "asked", !.now = now]
      BY <1>6, <2>1, Single DEF Ask
    <3> HIDE DEF now
    <3>2. QED
      BY <1>2, <3>1 DEF Poller
  <2>3. /\ poller'.now.epoch = epoch /\ poller'.now.version = content[f] - spare.at
        /\ poller'.now.of.file = spare.file /\ poller'.now.of.at = content[f]
    BY <2>2 DEF Reading
  <2>4. /\ content[f] \in Nat /\ spare.at \in Nat /\ poller.last.version \in Nat
    BY <1>2, RevisionPollerAssumption DEF IInv, TypeOK, View, Poller, Readings
  <2>5. ASSUME poller.last.epoch = epoch
        PROVE  /\ poller.last.of.file = spare.file
               /\ poller.last.of.at = spare.at + poller.last.version
               /\ spare.at + poller.last.version <= content[f]
    BY <1>6, <2>1, <2>5 DEF Ordered, LastTrue, IInv, ReadingsTrue, True
  <2>6. NowAfterLast'
    BY <1>3, <2>3, <2>4, <2>5 DEF NowAfterLast
  <2>7. QED
    BY <1>4, <2>6 DEF Ordered
<1>7. QED
  BY <1>5, <1>6

LEMMA NextOrdered == IInv /\ Ordered /\ [Next]_vars => Ordered'
<1> SUFFICES ASSUME IInv, Ordered, [Next]_vars PROVE Ordered'
  OBVIOUS
<1>1. ASSUME UNCHANGED <<spare, epoch>>, poller'.last = poller.last, poller'.now = poller.now,
             poller'.pc = poller.pc \/ poller'.pc # "asked"
      PROVE  Ordered'
  BY <1>1 DEF Ordered, LastTrue, NowAfterLast
<1>2. ASSUME UNCHANGED <<spare, epoch, poller>> PROVE Ordered'
  BY <1>1, <1>2
<1>3. poller \in Poller /\ epoch \in Nat /\ poller.last.epoch <= epoch
      /\ poller.last.epoch \in Nat
  BY RevisionPollerAssumption DEF IInv, TypeOK, Poller, Readings
<1>4. ASSUME OpenSpare PROVE Ordered'
  <2>1. epoch' = epoch + 1 /\ poller' = poller
    BY <1>4 DEF OpenSpare
  <2>2. LastTrue'
    BY <1>3, <2>1 DEF LastTrue
  <2>3. QED
    BY <2>1, <2>2 DEF Ordered, NowAfterLast
<1>5. ASSUME Shutdown PROVE Ordered'
  BY <1>5 DEF Shutdown, Nothing, Ordered, LastTrue, NowAfterLast
<1>6. ASSUME Void PROVE Ordered'
  <2>1. poller'.last = poller.last /\ poller'.pc = "sleep"
    BY <1>3, <1>6 DEF Void, Poller
  <2>2. UNCHANGED <<spare, epoch>>
    BY <1>6 DEF Void
  <2>3. QED
    BY <2>1, <2>2 DEF Ordered, LastTrue, NowAfterLast
<1>7. ASSUME Notify \/ Adopt PROVE Ordered'
  <2>1. poller'.last = poller.now /\ poller'.pc = "sleep"
    BY <1>3, <1>7 DEF Notify, Adopt, Poller
  <2>2. UNCHANGED <<spare, epoch>> /\ poller.pc = "asked" /\ poller.now.epoch = epoch
    BY <1>7 DEF Notify, Adopt
  <2>3. LastTrue'
    BY <2>1, <2>2 DEF IInv, ReadingsTrue, LastTrue
  <2>4. QED
    BY <2>1, <2>3 DEF Ordered, NowAfterLast
<1>8. ASSUME NEW w \in Watchers, Subscribe(w) PROVE Ordered'
  <2>1. UNCHANGED <<spare, epoch>>
    BY <1>8 DEF Subscribe
  <2>2. /\ poller'.last = poller.last /\ poller'.now = poller.now
        /\ poller'.pc = poller.pc \/ poller'.pc # "asked"
    BY <1>3, <1>8 DEF Subscribe, Poller
  <2>3. QED
    BY <1>1, <2>1, <2>2
<1>9. QED
  BY <1>2, <1>4, <1>5, <1>6, <1>7, <1>8, AskOrdered
  DEF Next, vars, Commit, OpenMain, OpenSpareFails, Read, Wake, Cancel

\* A generation is sent for commits only: the poller has read two states of one
\* file, the later of which has more commits. Neither a reopened database nor
\* a number read while it was being reopened makes the lists read again.
THEOREM SpecSentForCommitsOnly == Spec => SentForCommitsOnly
<1>1. Init => Ordered
  BY DEF Init, Ordered, LastTrue, NowAfterLast, Nothing
<1>2. IInv /\ Ordered /\ [Next]_vars =>
        (gen' # gen => /\ poller.last.of.file = poller.now.of.file
                       /\ poller.last.of.at < poller.now.of.at)
  <2> SUFFICES ASSUME IInv, Ordered, [Next]_vars, gen' # gen
               PROVE  /\ poller.last.of.file = poller.now.of.file
                      /\ poller.last.of.at < poller.now.of.at
    OBVIOUS
  <2>1. Notify
    BY DEF Next, vars, Commit, OpenMain, OpenSpare, OpenSpareFails, Shutdown, Ask, Void, Adopt,
           Subscribe, Read, Wake, Cancel
  <2>2. /\ poller.pc = "asked" /\ poller.last.epoch = poller.now.epoch
        /\ poller.last.version # poller.now.version
    BY <2>1 DEF Notify, Changed
  <2>3. /\ poller.last.version \in Nat /\ poller.now.version \in Nat
        /\ poller.last.of.at \in Nat /\ poller.now.of.at \in Nat
    BY DEF IInv, TypeOK, Poller, Readings, View
  <2>4. QED
    BY <2>2, <2>3 DEF Ordered, NowAfterLast
<1>3. QED
  BY <1>1, <1>2, InitIInv, NextIInv, NextOrdered, PTL DEF Spec, SentForCommitsOnly
=============================================================================
