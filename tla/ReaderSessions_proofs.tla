------------------------ MODULE ReaderSessions_proofs ------------------------
(***************************************************************************)
(* Proofs about ReaderSessions for every set of comics, paths and callers: *)
(* the types of the store and of the calls, that no idle session is ever   *)
(* stored, that a stored session never changes its path in place, and that *)
(* map, LRU list and references agree.  The first ones do not depend on    *)
(* the LRU list and have an invariant without it; the last one adds it,    *)
(* and needs to know what retaining a part of a list leaves of it: that is *)
(* an induction over its length, by the least length that fails.           *)
(*                                                                         *)
(* The second half is about ReadSession, the reading screen of the app     *)
(* over this store: it implements ReaderSessions, every session it leaves  *)
(* behind is one of the known ways to lose it, and a comic that is shown   *)
(* has its session.                                                        *)
(***************************************************************************)
EXTENDS ReadSession, FiniteSetTheorems, WellFoundedInduction, TLAPS

\* The inductive invariant.  NoIdleSession needs the types, because a count
\* above zero stays above zero only when it is a natural number.
Inv == StoreTypeOK /\ CallTypeOK /\ ObservedTypeOK /\ NoIdleSession

\* The types and NoIdleSession hold when the library starts: nothing is stored.
LEMMA InitInv == Init => Inv
  BY SessionAssumption
  DEF Init, Inv, StoreTypeOK, CallTypeOK, ObservedTypeOK, NoIdleSession,
      Location, Stored, Session, Arg

\* Removal by force keeps the types of the store and stores nothing.
LEMMA RemoveInv ==
  ASSUME Inv, NEW C \in SUBSET Comics, RemoveSessions(C)
  PROVE  /\ StoreTypeOK' /\ NoIdleSession'
         /\ opens' \in [Comics -> Nat] /\ cut' \in [Callers -> BOOLEAN]
<1>1. StoreTypeOK'
  BY DEF Inv, RemoveSessions, StoreTypeOK
<1>2. NoIdleSession'
  BY DEF Inv, RemoveSessions, StoreTypeOK, NoIdleSession, Stored
<1>3. opens' \in [Comics -> Nat]
  BY DEF Inv, RemoveSessions, ObservedTypeOK
<1>4. cut' \in [Callers -> BOOLEAN]
  BY DEF Inv, RemoveSessions, ObservedTypeOK
<1>5. QED
  BY <1>1, <1>2, <1>3, <1>4

\* A caller that returns, or gets its reference, is in a place it may be in.
LEMMA ReturnInv ==
  ASSUME Inv, NEW t \in Callers, todo' = todo, Return(t)
  PROVE  CallTypeOK'
  BY DEF Inv, Return, CallTypeOK, Location

\* A call that got its reference keeps the types of the calls.
LEMMA AcquiredInv ==
  ASSUME Inv, NEW t \in Callers, pc[t] \in {"first", "second"}, todo' = todo, Acquired(t)
  PROVE  CallTypeOK'
  BY DEF Inv, Acquired, CallTypeOK, Location

\* The arguments of an acquisition are a comic and a path.
LEMMA NewOpensType ==
  ASSUME Inv, NEW t \in Callers, pc[t] \in {"first", "second"}
  PROVE  /\ arg[t].comic \in Comics
         /\ arg[t].path \in Paths
         /\ NewOpens(t) \in [Comics -> Nat]
<1>1. arg[t] \in Arg
  BY DEF Inv, CallTypeOK
<1>2. QED
  BY <1>1 DEF Inv, ObservedTypeOK, NewOpens, Arg

\* Reusing a session counts one more reference on a session that stays.
LEMMA ReuseInv ==
  ASSUME Inv, NEW t \in Callers, pc[t] \in {"first", "second"}, Reuse(t)
  PROVE  Inv'
<1>1. arg[t].comic \in Comics /\ NewOpens(t) \in [Comics -> Nat]
  BY NewOpensType
<1>2. sessions[arg[t].comic] \in Session
  BY <1>1 DEF Reuse, SamePath, Stored, Inv, StoreTypeOK
<1>3. sessions' = [sessions EXCEPT ![arg[t].comic].ref = @ + 1]
  BY DEF Reuse
<1>4. StoreTypeOK'
  BY <1>1, <1>2, <1>3 DEF Inv, StoreTypeOK, Session
<1>5. NoIdleSession'
  BY <1>1, <1>2, <1>3 DEF Inv, StoreTypeOK, NoIdleSession, Stored, Session
<1>6. CallTypeOK'
  BY AcquiredInv DEF Reuse
<1>7. ObservedTypeOK'
  BY <1>1 DEF Reuse, Inv, ObservedTypeOK
<1>8. QED
  BY <1>4, <1>5, <1>6, <1>7 DEF Inv

\* Inserting stores one session with one reference; eviction only removes.
LEMMA InsertInv ==
  ASSUME Inv, NEW t \in Callers, pc[t] = "second", Insert(t)
  PROVE  Inv'
<1> DEFINE s == [sessions EXCEPT ![arg[t].comic] = [path |-> arg[t].path, ref |-> 1]]
           gone == Evicted(s, Touched(arg[t].comic))
<1>1. /\ arg[t].comic \in Comics
      /\ arg[t].path \in Paths
      /\ NewOpens(t) \in [Comics -> Nat]
  BY NewOpensType
<1>2. /\ sessions' = [d \in Comics |-> IF d \in gone THEN NoSession ELSE s[d]]
      /\ opens' = [d \in Comics |-> IF d \in gone THEN 0 ELSE NewOpens(t)[d]]
  BY DEF Insert
<1>3. /\ s \in [Comics -> Session \cup {NoSession}]
      /\ \A d \in Comics : s[d] # NoSession => s[d].ref >= 1
  BY <1>1 DEF Inv, StoreTypeOK, NoIdleSession, Stored, Session
<1> HIDE DEF s, gone
<1>4. StoreTypeOK' /\ NoIdleSession'
  BY <1>2, <1>3 DEF StoreTypeOK, NoIdleSession, Stored
<1>5. CallTypeOK'
  BY AcquiredInv DEF Insert
<1>6. ObservedTypeOK'
  BY <1>1, <1>2 DEF Insert, Inv, ObservedTypeOK
<1>7. QED
  BY <1>4, <1>5, <1>6 DEF Inv

\* Releasing takes one reference away, or the session with its last one.
LEMMA AfterReleaseType ==
  ASSUME NEW s \in Session, s.ref >= 1, AfterRelease(s) # NoSession
  PROVE  /\ AfterRelease(s) \in Session
         /\ AfterRelease(s).ref >= 1
         /\ AfterRelease(s).path = s.path
<1>1. AfterRelease(s) = [s EXCEPT !.ref = s.ref - 1] /\ s.ref > 1
  BY DEF AfterRelease, Session
<1>2. QED
  BY <1>1 DEF Session

\* The release at the end of a lease, of whatever session it finds.
LEMMA ReleaseInv ==
  ASSUME Inv, NEW t \in Callers, Release(t)
  PROVE  Inv'
<1> DEFINE c == arg[t].comic
<1>1. c \in Comics
  BY DEF Release, Inv, CallTypeOK, Arg
<1>2. CallTypeOK'
  BY ReturnInv DEF Release
<1>3. ObservedTypeOK'
  <2>1. trashed' \in SUBSET Comics /\ opens' \in [Comics -> Nat]
    BY <1>1 DEF Release, Inv, ObservedTypeOK
  <2>2. \/ cut' = [cut EXCEPT ![t] = FALSE]
        \/ cut' = [u \in Callers |-> u # t /\ (cut[u] \/ u \in Leases(c))]
    BY Zenon DEF Release
  <2>3. cut \in [Callers -> BOOLEAN]
    BY DEF Inv, ObservedTypeOK
  <2>4. cut' \in [Callers -> BOOLEAN]
    BY <2>2, <2>3, Zenon
  <2>5. QED
    BY <2>1, <2>4 DEF ObservedTypeOK
<1>4. CASE sessions' = sessions
  BY <1>2, <1>3, <1>4 DEF Inv, StoreTypeOK, NoIdleSession, Stored
<1>5. CASE sessions' = [sessions EXCEPT ![c] = NoSession]
  BY <1>1, <1>2, <1>3, <1>5 DEF Inv, StoreTypeOK, NoIdleSession, Stored
<1>6. CASE /\ Stored(c) /\ AfterRelease(sessions[c]) # NoSession
           /\ sessions' = [sessions EXCEPT ![c] = AfterRelease(sessions[c])]
  <2>1. sessions[c] \in Session /\ sessions[c].ref >= 1
    BY <1>1, <1>6 DEF Inv, StoreTypeOK, NoIdleSession, Stored
  <2>2. AfterRelease(sessions[c]) \in Session /\ AfterRelease(sessions[c]).ref >= 1
    BY <1>6, <2>1, AfterReleaseType
  <2>3. StoreTypeOK' /\ NoIdleSession'
    BY <1>1, <1>6, <2>2 DEF Inv, StoreTypeOK, NoIdleSession, Stored
  <2>4. QED
    BY <1>2, <1>3, <2>3 DEF Inv
<1>7. QED
  BY <1>4, <1>5, <1>6 DEF Release

\* Every step keeps the invariant, one step of the proof per action.
LEMMA NextInv == Inv /\ [Next]_vars => Inv'
<1> SUFFICES ASSUME Inv, [Next]_vars PROVE Inv'
  OBVIOUS
<1>1. CASE UNCHANGED vars
  BY <1>1 DEF vars, Inv, StoreTypeOK, CallTypeOK, ObservedTypeOK, NoIdleSession, Stored
<1>2. ASSUME NEW t \in Callers, NEW c \in Comics, NEW p \in Paths,
             StartOpen(t, c, p) \/ StartEphemeral(t, c, p)
      PROVE  Inv'
  BY <1>2 DEF StartOpen, StartEphemeral, Inv, StoreTypeOK, CallTypeOK, ObservedTypeOK,
              NoIdleSession, Stored, Location, Arg
<1>3. ASSUME NEW t \in Callers, CheckTrashed(t) PROVE Inv'
  BY <1>3, ReturnInv DEF CheckTrashed, Inv, StoreTypeOK, CallTypeOK, ObservedTypeOK,
              NoIdleSession, Stored, Location, Return
<1>4. ASSUME NEW t \in Callers, Fail(t) PROVE Inv'
  BY <1>4, ReturnInv DEF Fail, Inv, StoreTypeOK, ObservedTypeOK, NoIdleSession, Stored
<1>5. ASSUME NEW t \in Callers, pc[t] \in {"first", "second"}, Mismatch(t) PROVE Inv'
  BY <1>5, ReturnInv DEF Mismatch, Inv, StoreTypeOK, ObservedTypeOK, NoIdleSession, Stored
<1>6. ASSUME NEW t \in Callers, FirstLock(t) PROVE Inv'
  <2>1. CASE FirstMiss(t)
    <3>1. pc[t] = "first" /\ arg[t].comic \in Comics
      BY <1>6, NewOpensType DEF FirstLock
    <3>2. RemoveSessions({arg[t].comic})
      BY <2>1 DEF FirstMiss
    <3>3. /\ StoreTypeOK' /\ NoIdleSession'
          /\ opens' \in [Comics -> Nat] /\ cut' \in [Callers -> BOOLEAN]
      BY <3>1, <3>2, RemoveInv
    <3>4. CallTypeOK'
      BY <2>1, <3>1 DEF FirstMiss, Inv, CallTypeOK, Location
    <3>5. QED
      BY <2>1, <3>3, <3>4 DEF FirstMiss, Inv, ObservedTypeOK
  <2>2. QED
    BY <1>5, <1>6, <2>1, ReuseInv DEF FirstLock
<1>7. ASSUME NEW t \in Callers, SecondLock(t) PROVE Inv'
  BY <1>5, <1>7, ReuseInv, InsertInv DEF SecondLock
<1>8. ASSUME NEW t \in Callers, Release(t) PROVE Inv'
  BY <1>8, ReleaseInv
<1>9. ASSUME NEW t \in Callers, NEW C \in SUBSET Comics, TrashCommit(t, C) PROVE Inv'
  BY <1>9 DEF TrashCommit, Inv, StoreTypeOK, CallTypeOK, ObservedTypeOK,
              NoIdleSession, Stored, Location
<1>10. ASSUME NEW t \in Callers, NEW c \in Comics, TrashClose(t, c) PROVE Inv'
  <2>1. /\ StoreTypeOK' /\ NoIdleSession'
        /\ opens' \in [Comics -> Nat] /\ cut' \in [Callers -> BOOLEAN]
    BY <1>10, RemoveInv DEF TrashClose
  <2>2. CallTypeOK'
    BY <1>10 DEF TrashClose, Inv, CallTypeOK, Location
  <2>3. QED
    BY <1>10, <2>1, <2>2 DEF TrashClose, Inv, ObservedTypeOK
<1>11. ASSUME NEW C \in SUBSET Comics, RemoveSessions(C), UNCHANGED <<trashed, pc, arg, todo>>
       PROVE  Inv'
  <2>1. /\ StoreTypeOK' /\ NoIdleSession'
        /\ opens' \in [Comics -> Nat] /\ cut' \in [Callers -> BOOLEAN]
    BY <1>11, RemoveInv
  <2>2. QED
    BY <1>11, <2>1 DEF Inv, CallTypeOK, ObservedTypeOK
<1>12. ASSUME NEW c \in Comics, Close(c) PROVE Inv'
  BY <1>11, <1>12 DEF Close
<1>13. CASE Clear
  BY <1>11, <1>13 DEF Clear
<1>14. ASSUME NEW C \in SUBSET Comics, Restore(C) PROVE Inv'
  BY <1>14 DEF Restore, Inv, StoreTypeOK, CallTypeOK, ObservedTypeOK, NoIdleSession, Stored
<1>15. QED
  BY <1>1, <1>2, <1>3, <1>4, <1>6, <1>7, <1>8, <1>9, <1>10, <1>12, <1>13, <1>14
  DEF Next, Call

\* The invariant holds throughout every behaviour.
THEOREM SpecInv == Spec => []Inv
  BY InitInv, NextInv, PTL DEF Spec

\* No idle session is ever stored: whatever the interleaving of acquisitions,
\* releases, forced removals and trash calls, the eviction loop of the store
\* has nothing to evict.
THEOREM SpecNoIdleSession == Spec => []NoIdleSession
<1>1. Inv => NoIdleSession
  BY DEF Inv
<1>2. QED
  BY <1>1, SpecInv, PTL

\* A stored session never changes its path in place: a step that would put a
\* session on another path has found no session, because none is idle.
THEOREM SpecPathPinned == Spec => PathPinnedWhileInUse
<1> DEFINE Pinned == \A c \in Comics : Stored(c) /\ sessions'[c] # NoSession
                        => sessions'[c].path = sessions[c].path
<1>1. Inv /\ [Next]_vars => [Pinned]_vars
  <2> SUFFICES ASSUME Inv, Next PROVE Pinned
    BY DEF Pinned
  <2>1. ASSUME NEW C \in SUBSET Comics, RemoveSessions(C) PROVE Pinned
    BY <2>1 DEF RemoveSessions
  <2>2. ASSUME NEW t \in Callers, pc[t] \in {"first", "second"}, Reuse(t) PROVE Pinned
    <3>1. arg[t].comic \in Comics
      BY <2>2, NewOpensType
    <3>2. sessions[arg[t].comic] \in Session
      BY <2>2, <3>1 DEF Reuse, SamePath, Stored, Inv, StoreTypeOK
    <3>3. QED
      BY <2>2, <3>1, <3>2 DEF Reuse, Inv, StoreTypeOK, Session
  <2>3. ASSUME NEW t \in Callers, pc[t] = "second", Insert(t) PROVE Pinned
    <3> DEFINE s == [sessions EXCEPT ![arg[t].comic] = [path |-> arg[t].path, ref |-> 1]]
               gone == Evicted(s, Touched(arg[t].comic))
    <3>1. sessions' = [d \in Comics |-> IF d \in gone THEN NoSession ELSE s[d]]
      BY <2>3 DEF Insert
    <3>2. arg[t].comic \in Comics
      BY <2>3, NewOpensType
    <3>3. ~Stored(arg[t].comic)
      BY <2>3, <3>2 DEF Insert, SamePath, OtherPathInUse, Inv, NoIdleSession, StoreTypeOK,
                        Stored, Session
    <3>4. \A d \in Comics : Stored(d) => s[d] = sessions[d]
      BY <3>3 DEF Inv, StoreTypeOK
    <3> HIDE DEF s, gone
    <3>5. QED
      BY <3>1, <3>4
  <2>4. ASSUME NEW t \in Callers, Release(t) PROVE Pinned
    <3>1. arg[t].comic \in Comics
      BY <2>4 DEF Release, Inv, CallTypeOK, Arg
    <3>2. CASE sessions' = sessions \/ sessions' = [sessions EXCEPT ![arg[t].comic] = NoSession]
      BY <3>1, <3>2 DEF Inv, StoreTypeOK
    <3>3. CASE /\ Stored(arg[t].comic) /\ AfterRelease(sessions[arg[t].comic]) # NoSession
               /\ sessions' = [sessions EXCEPT
                      ![arg[t].comic] = AfterRelease(sessions[arg[t].comic])]
      <4>1. sessions[arg[t].comic] \in Session /\ sessions[arg[t].comic].ref >= 1
        BY <3>1, <3>3 DEF Inv, StoreTypeOK, NoIdleSession, Stored
      <4>2. AfterRelease(sessions[arg[t].comic]).path = sessions[arg[t].comic].path
        BY <3>3, <4>1, AfterReleaseType
      <4>3. QED
        BY <3>1, <3>3, <4>2 DEF Inv, StoreTypeOK
    <3>4. QED
      BY <2>4, <3>2, <3>3 DEF Release
  <2>5. ASSUME sessions' = sessions PROVE Pinned
    BY <2>5
  <2>6. ASSUME NEW t \in Callers, FirstLock(t) \/ SecondLock(t) PROVE Pinned
    <3>1. CASE FirstMiss(t) /\ pc[t] = "first"
      BY <2>1, <3>1, NewOpensType DEF FirstMiss
    <3>2. CASE Mismatch(t)
      BY <2>5, <3>2 DEF Mismatch
    <3>3. QED
      BY <2>2, <2>3, <2>6, <3>1, <3>2 DEF FirstLock, SecondLock
  <2>7. ASSUME NEW t \in Callers, Call(t) PROVE Pinned
    BY <2>1, <2>4, <2>5, <2>6, <2>7
    DEF Call, StartOpen, StartEphemeral, CheckTrashed, Fail, TrashCommit, TrashClose
  <2>8. QED
    BY <2>1, <2>5, <2>7 DEF Next, Close, Clear, Restore
<1>2. QED
  BY <1>1, SpecInv, PTL DEF Spec, PathPinnedWhileInUse

-----------------------------------------------------------------------------
(* Lists *)

Listed(s) == {s[i] : i \in 1 .. Len(s)}
Distinct(s) == \A i, j \in 1 .. Len(s) : s[i] = s[j] => i = j

LEMMA LeastNat ==
  ASSUME NEW T, T \subseteq Nat, T # {}
  PROVE  \E n \in T : \A m \in T : n <= m
<1>1. ASSUME NEW R, \A m, n \in Nat : m < n => <<m, n>> \in R,
             \E n \in T : \A m \in T : <<m, n>> \notin R
      PROVE  \E n \in T : \A m \in T : n <= m
  <2>1. PICK n \in T : \A m \in T : <<m, n>> \notin R
    BY <1>1
  <2>2. ASSUME NEW m \in T PROVE n <= m
    <3>1. m \in Nat /\ n \in Nat
      OBVIOUS
    <3>2. <<m, n>> \notin R
      BY <2>1
    <3>3. ~ (m < n)
      BY <1>1, <3>1, <3>2
    <3>4. QED
      BY <3>1, <3>3
  <2>3. QED
    BY <2>2
<1>2. \A m, n \in Nat : m < n => <<m, n>> \in OpToRel(<, Nat)
  BY Zenon DEF OpToRel
<1>3. \E n \in T : \A m \in T : <<m, n>> \notin OpToRel(<, Nat)
  BY NatLessThanWellFounded, WFMin
<1>4. QED
  BY <1>1, <1>2, <1>3, Zenon

\* f is the recursive function of Kept, as far as n.
Keeps(f, s, C, n) ==
  /\ f = [i \in 0 .. n |-> f[i]]
  /\ f[0] = <<>>
  /\ \A i \in 1 .. n : f[i] = IF s[i] \in C THEN f[i - 1] ELSE Append(f[i - 1], s[i])

LEMMA KeepsExists ==
  ASSUME NEW s, Len(s) \in Nat, NEW C
  PROVE  \E f : Keeps(f, s, C, Len(s))
<1> DEFINE T == {n \in 0 .. Len(s) : ~ \E f : Keeps(f, s, C, n)}
<1> SUFFICES ASSUME T # {} PROVE FALSE
  OBVIOUS
<1>1. PICK n \in T : \A m \in T : n <= m
  <2>1. T \subseteq Nat
    OBVIOUS
  <2> HIDE DEF T
  <2>2. QED
    BY <2>1, LeastNat
<1>2. n # 0
  <2>1. Keeps([i \in 0 .. 0 |-> <<>>], s, C, 0)
    BY DEF Keeps
  <2>2. QED
    BY <2>1
<1>3. n - 1 \in 0 .. Len(s) /\ n - 1 \notin T
  BY <1>1, <1>2
<1>4. PICK f : Keeps(f, s, C, n - 1)
  BY <1>3
<1> DEFINE g == [i \in 0 .. n |-> IF i < n THEN f[i]
                                 ELSE IF s[i] \in C THEN f[i - 1] ELSE Append(f[i - 1], s[i])]
<1>5. Keeps(g, s, C, n)
  <2>0. n \in Nat /\ n > 0
    BY <1>2, <1>3
  <2>1. \A i \in 0 .. n : i # n => g[i] = f[i]
    BY <2>0
  <2>2. g[0] = <<>>
    BY <1>4, <2>0, <2>1 DEF Keeps
  <2>3. ASSUME NEW i \in 1 .. n
        PROVE  g[i] = IF s[i] \in C THEN g[i - 1] ELSE Append(g[i - 1], s[i])
    <3>1. g[i - 1] = f[i - 1]
      BY <2>0, <2>1
    <3>2. CASE i = n
      BY <3>1, <3>2, <2>0
    <3>3. CASE i # n
      <4>1. i \in 1 .. n - 1
        BY <3>3, <2>0
      <4>2. f[i] = IF s[i] \in C THEN f[i - 1] ELSE Append(f[i - 1], s[i])
        BY <4>1, <1>4 DEF Keeps
      <4>3. g[i] = f[i]
        BY <3>3, <2>0, <2>1
      <4> HIDE DEF g
      <4>4. QED
        BY <3>1, <4>2, <4>3
    <3>4. QED
      BY <3>2, <3>3
  <2>4. g = [i \in 0 .. n |-> g[i]]
    OBVIOUS
  <2> HIDE DEF g
  <2>5. QED
    BY <2>2, <2>3, <2>4 DEF Keeps
<1>6. QED
  BY <1>5

LEMMA KeptKeeps ==
  ASSUME NEW s, Len(s) \in Nat, NEW C
  PROVE  \E f : Keeps(f, s, C, Len(s)) /\ Kept(s, C) = f[Len(s)]
<1> DEFINE Body(f) == [n \in 0 .. Len(s) |->
                         IF n = 0 THEN <<>>
                         ELSE IF s[n] \in C THEN f[n - 1] ELSE Append(f[n - 1], s[n])]
           F == CHOOSE f : f = Body(f)
<1>1. PICK g : Keeps(g, s, C, Len(s))
  BY KeepsExists
<1>2. g = Body(g)
  <2>1. \A i \in 0 .. Len(s) : i # 0 => i \in 1 .. Len(s)
    OBVIOUS
  <2>2. \A i \in 0 .. Len(s) : g[i] = Body(g)[i]
    BY <1>1, <2>1 DEF Keeps
  <2>3. g = [i \in 0 .. Len(s) |-> g[i]]
    BY <1>1 DEF Keeps
  <2>4. Body(g) = [i \in 0 .. Len(s) |-> Body(g)[i]]
    OBVIOUS
  <2> HIDE DEF Body
  <2>5. QED
    BY <2>2, <2>3, <2>4
<1>3. F = Body(F)
  BY <1>2
<1>4. Kept(s, C) = F[Len(s)]
  BY DEF Kept
<1> HIDE DEF F
<1>5. Keeps(F, s, C, Len(s))
  <2>1. F = [i \in 0 .. Len(s) |-> F[i]]
    BY <1>3
  <2>2. F[0] = <<>>
    BY <1>3
  <2>3. ASSUME NEW i \in 1 .. Len(s)
        PROVE  F[i] = IF s[i] \in C THEN F[i - 1] ELSE Append(F[i - 1], s[i])
    <3>1. i \in 0 .. Len(s) /\ i # 0
      OBVIOUS
    <3>2. F[i] = Body(F)[i]
      BY <1>3
    <3>3. QED
      BY <3>1, <3>2
  <2>4. QED
    BY <2>1, <2>2, <2>3 DEF Keeps
<1>6. QED
  BY <1>4, <1>5

\* What is kept of the first n entries is what is listed there and not in C, in
\* entries that are different when those of the list are.
KeepsWell(f, s, C, S, n) ==
  /\ f[n] \in Seq(S)
  /\ Listed(f[n]) = {s[i] : i \in 1 .. n} \ C
  /\ Distinct(s) => Distinct(f[n])

LEMMA AppendFacts ==
  ASSUME NEW S, NEW s \in Seq(S), NEW e \in S
  PROVE  /\ Append(s, e) \in Seq(S)
         /\ Listed(Append(s, e)) = Listed(s) \cup {e}
         /\ Distinct(s) /\ e \notin Listed(s) => Distinct(Append(s, e))
<1>1. /\ Append(s, e) \in Seq(S)
      /\ Len(Append(s, e)) = Len(s) + 1
      /\ \A i \in 1 .. Len(s) : Append(s, e)[i] = s[i]
      /\ Append(s, e)[Len(s) + 1] = e
      /\ Len(s) \in Nat
  OBVIOUS
<1> DEFINE t == Append(s, e)
<1> HIDE DEF t
<1>2. \A i \in 1 .. Len(s) + 1 : i \in 1 .. Len(s) \/ i = Len(s) + 1
  BY <1>1
<1>3. Listed(t) = Listed(s) \cup {e}
  <2>1. \A x \in Listed(t) : x \in Listed(s) \cup {e}
    BY <1>1, <1>2 DEF Listed, t
  <2>2. ASSUME NEW x \in Listed(s) PROVE x \in Listed(t)
    <3>1. PICK i \in 1 .. Len(s) : x = s[i]
      BY DEF Listed
    <3>2. i \in 1 .. Len(t) /\ t[i] = x
      BY <1>1, <3>1 DEF t
    <3>3. QED
      BY <3>2 DEF Listed
  <2>3. e \in Listed(t)
    <3>1. Len(s) + 1 \in 1 .. Len(t) /\ t[Len(s) + 1] = e
      BY <1>1 DEF t
    <3>2. QED
      BY <3>1 DEF Listed
  <2>4. QED
    BY <2>1, <2>2, <2>3
<1>4. ASSUME Distinct(s), e \notin Listed(s) PROVE Distinct(t)
  <2>1. \A i \in 1 .. Len(s) : s[i] # e
    BY <1>4 DEF Listed
  <2>2. SUFFICES ASSUME NEW i \in 1 .. Len(t), NEW j \in 1 .. Len(t), t[i] = t[j] PROVE i = j
    BY DEF Distinct
  <2>3. CASE i \in 1 .. Len(s) /\ j \in 1 .. Len(s)
    BY <1>1, <1>4, <2>2, <2>3 DEF Distinct, t
  <2>4. QED
    BY <1>1, <1>2, <2>1, <2>2, <2>3 DEF t
<1>5. QED
  BY <1>1, <1>3, <1>4 DEF t

LEMMA KeptFacts ==
  ASSUME NEW S, NEW s \in Seq(S), NEW C
  PROVE  /\ Kept(s, C) \in Seq(S)
         /\ Listed(Kept(s, C)) = Listed(s) \ C
         /\ Distinct(s) => Distinct(Kept(s, C))
<1>1. Len(s) \in Nat /\ \A i \in 1 .. Len(s) : s[i] \in S
  OBVIOUS
<1>2. PICK f : Keeps(f, s, C, Len(s)) /\ Kept(s, C) = f[Len(s)]
  BY <1>1, KeptKeeps
<1> DEFINE T == {n \in 0 .. Len(s) : ~ KeepsWell(f, s, C, S, n)}
<1>3. T = {}
  <2> SUFFICES ASSUME T # {} PROVE FALSE
    OBVIOUS
  <2>1. PICK n \in T : \A m \in T : n <= m
    <3>1. T \subseteq Nat
      BY <1>1
    <3> HIDE DEF T
    <3>2. QED
      BY <3>1, LeastNat
  <2>2. n # 0
    <3>1. Listed(<<>>) = {} /\ Distinct(<<>>) /\ <<>> \in Seq(S)
      BY DEF Listed, Distinct
    <3>2. f[0] = <<>>
      BY <1>2 DEF Keeps
    <3>3. {s[i] : i \in 1 .. 0} = {}
      OBVIOUS
    <3>4. KeepsWell(f, s, C, S, 0)
      BY <3>1, <3>2, <3>3 DEF KeepsWell
    <3>5. QED
      BY <3>4
  <2>3. n \in 1 .. Len(s) /\ n - 1 \in 0 .. Len(s) /\ n - 1 \notin T
    BY <1>1, <2>1, <2>2
  <2>4. KeepsWell(f, s, C, S, n - 1)
    BY <2>3
  <2>5. f[n] = IF s[n] \in C THEN f[n - 1] ELSE Append(f[n - 1], s[n])
    BY <1>2, <2>3 DEF Keeps
  <2>6. {s[i] : i \in 1 .. n} = {s[i] : i \in 1 .. n - 1} \cup {s[n]}
    <3>1. \A i \in 1 .. n : i \in 1 .. n - 1 \/ i = n
      BY <2>3
    <3>2. \A i \in 1 .. n - 1 : i \in 1 .. n
      BY <2>3
    <3>3. n \in 1 .. n
      BY <2>3
    <3>4. QED
      BY <3>1, <3>2, <3>3
  <2>7. ~ KeepsWell(f, s, C, S, n)
    OBVIOUS
  <2> HIDE DEF T
  <2>8. CASE s[n] \in C
    BY <2>4, <2>5, <2>6, <2>7, <2>8 DEF KeepsWell
  <2>9. CASE s[n] \notin C
    <3>1. s[n] \in S
      BY <1>1, <2>3
    <3>2. f[n] = Append(f[n - 1], s[n]) /\ f[n - 1] \in Seq(S)
      BY <2>4, <2>5, <2>9 DEF KeepsWell
    <3>3. /\ f[n] \in Seq(S)
          /\ Listed(f[n]) = Listed(f[n - 1]) \cup {s[n]}
          /\ Distinct(f[n - 1]) /\ s[n] \notin Listed(f[n - 1]) => Distinct(f[n])
      BY <3>1, <3>2, AppendFacts
    <3>4. ASSUME Distinct(s) PROVE s[n] \notin Listed(f[n - 1])
      <4>1. \A i \in 1 .. n - 1 : i \in 1 .. Len(s) /\ i # n
        BY <1>1, <2>3
      <4>2. \A i \in 1 .. n - 1 : s[i] # s[n]
        BY <2>3, <3>4, <4>1 DEF Distinct
      <4>3. s[n] \notin {s[i] : i \in 1 .. n - 1}
        BY <4>2
      <4>4. QED
        BY <2>4, <4>3 DEF KeepsWell
    <3>5. Listed(f[n]) = {s[i] : i \in 1 .. n} \ C
      BY <2>4, <2>6, <2>9, <3>3 DEF KeepsWell
    <3>6. QED
      BY <2>4, <2>7, <3>3, <3>4, <3>5 DEF KeepsWell
  <2>10. QED
    BY <2>8, <2>9
<1>4. KeepsWell(f, s, C, S, Len(s))
  BY <1>1, <1>3
<1>5. QED
  BY <1>2, <1>4 DEF KeepsWell, Listed

-----------------------------------------------------------------------------
(* Map, list and references agree *)

\* The leases that still have the session they took.
Holding(c) == {t \in Leases(c) : ~ cut[t]}

\* A session is cut from a lease only while its body runs.
CutInBody == \A t \in Callers : cut[t] => pc[t] = "body"

Coherent == order \in Seq(Comics) /\ OrderListsSessions /\ NoLeakedReference /\ CutInBody

LEMMA OrderAsList ==
  OrderListsSessions <=> Listed(order) = {c \in Comics : Stored(c)} /\ Distinct(order)
  BY DEF OrderListsSessions, Listed, Distinct

LEMMA HoldingFinite ==
  ASSUME NEW c
  PROVE  IsFiniteSet(Holding(c)) /\ Cardinality(Holding(c)) \in Nat
<1>1. Holding(c) \subseteq Callers /\ IsFiniteSet(Callers)
  BY SessionAssumption DEF Holding, Leases
<1>2. QED
  BY <1>1, FS_Subset, FS_CardinalityType

LEMMA InitCoherent == Init => Coherent
<1> SUFFICES ASSUME Init PROVE Coherent
  OBVIOUS
<1>1. order \in Seq(Comics) /\ CutInBody
  BY DEF Init, CutInBody
<1>2. OrderListsSessions
  BY DEF Init, OrderListsSessions, Stored
<1>3. NoLeakedReference
  BY DEF Init, NoLeakedReference, Stored
<1>4. QED
  BY <1>1, <1>2, <1>3 DEF Coherent

\* A step of a call that is and stays outside the body of a lease.
LEMMA LeasesKept ==
  ASSUME NEW t \in Callers, pc[t] # "body", pc'[t] # "body",
         \A u \in Callers \ {t} : pc'[u] = pc[u] /\ arg'[u] = arg[u]
  PROVE  /\ \A c : Leases(c)' = Leases(c)
         /\ \A u \in Callers : pc'[u] = "body" <=> pc[u] = "body"
<1>1. \A u \in Callers : pc'[u] = "body" <=> pc[u] = "body"
  OBVIOUS
<1>2. ASSUME NEW c PROVE Leases(c)' = Leases(c)
  <2>1. Leases(c)' = {u \in Callers : pc'[u] = "body" /\ arg'[u].kind = "ephemeral" /\ arg'[u].comic = c}
    BY DEF Leases
  <2>2. QED
    BY <2>1 DEF Leases
<1>3. QED
  BY <1>1, <1>2

LEMMA QuietCoherent ==
  ASSUME Coherent, UNCHANGED <<sessions, order, opens, cut>>,
         \A c : Leases(c)' = Leases(c),
         \A u \in Callers : pc'[u] = "body" <=> pc[u] = "body"
  PROVE  Coherent'
<1>1. order' \in Seq(Comics) /\ OrderListsSessions'
  BY DEF Coherent, OrderListsSessions, Stored
<1>2. CutInBody'
  BY DEF Coherent, CutInBody
<1>3. NoLeakedReference'
  <2>1. \A c : Holding(c)' = Holding(c)
    BY DEF Holding
  <2>2. ASSUME NEW c \in Comics, Stored(c)'
        PROVE  sessions'[c].ref <= opens'[c] + Cardinality(Holding(c)')
    BY <2>1, <2>2 DEF Coherent, NoLeakedReference, Holding, Stored
  <2>3. QED
    BY <2>2 DEF NoLeakedReference, Holding
<1>4. QED
  BY <1>1, <1>2, <1>3 DEF Coherent

\* NoLeakedReference as a statement about one comic after the next.
LEMMA CountedNext ==
  ASSUME \A c \in Comics : Stored(c)' => sessions'[c].ref <= opens'[c] + Cardinality(Holding(c)')
  PROVE  NoLeakedReference'
  BY DEF NoLeakedReference, Holding

LEMMA Counted ==
  ASSUME Coherent, NEW c \in Comics, Stored(c)
  PROVE  sessions[c].ref <= opens[c] + Cardinality(Holding(c))
  BY DEF Coherent, NoLeakedReference, Holding

LEMMA RemoveCoherent ==
  ASSUME Inv, Coherent, NEW C \in SUBSET Comics, RemoveSessions(C),
         \A c : Leases(c)' = Leases(c),
         \A u \in Callers : pc'[u] = "body" <=> pc[u] = "body"
  PROVE  Coherent'
<1>1. /\ sessions' = [c \in Comics |-> IF c \in C THEN NoSession ELSE sessions[c]]
      /\ order' = Kept(order, C)
      /\ opens' = [c \in Comics |-> IF c \in C THEN 0 ELSE opens[c]]
      /\ cut' = [t \in Callers |-> cut[t] \/ \E c \in C : Stored(c) /\ t \in Leases(c)]
  BY DEF RemoveSessions, Without
<1>2. /\ order' \in Seq(Comics)
      /\ Listed(order') = Listed(order) \ C
      /\ Distinct(order')
  BY <1>1, KeptFacts, OrderAsList DEF Coherent
<1>3. Listed(order') = {c \in Comics : Stored(c)'}
  BY <1>1, <1>2, OrderAsList DEF Coherent, Stored
<1>4. OrderListsSessions'
  BY <1>2, <1>3 DEF OrderListsSessions, Listed, Distinct
<1>5. CutInBody'
  <2>1. ASSUME NEW u \in Callers, cut'[u] PROVE pc'[u] = "body"
    <3>1. cut[u] \/ \E c \in C : u \in Leases(c)
      BY <1>1, <2>1
    <3>2. QED
      BY <3>1 DEF Coherent, CutInBody, Leases
  <2>2. QED
    BY <2>1 DEF CutInBody
<1>6. ASSUME NEW c \in Comics, Stored(c)'
      PROVE  sessions'[c].ref <= opens'[c] + Cardinality(Holding(c)')
  <2>1. c \notin C /\ Stored(c) /\ sessions'[c] = sessions[c] /\ opens'[c] = opens[c]
    BY <1>1, <1>6 DEF Stored
  <2>2. \A u \in Leases(c) : cut'[u] = cut[u]
    <3>1. ASSUME NEW u \in Leases(c) PROVE ~ \E d \in C : Stored(d) /\ u \in Leases(d)
      BY <2>1 DEF Leases
    <3>2. \A u \in Leases(c) : cut'[u] <=> cut[u]
      BY <1>1, <3>1 DEF Leases
    <3>3. cut \in [Callers -> BOOLEAN] /\ cut' \in [Callers -> BOOLEAN]
      BY RemoveInv DEF Inv, ObservedTypeOK
    <3>4. QED
      BY <3>2, <3>3 DEF Leases
  <2>3. Holding(c)' = Holding(c)
    BY <2>2 DEF Holding
  <2>4. QED
    BY <2>1, <2>3, Counted
<1>7. QED
  BY <1>2, <1>4, <1>5, <1>6, CountedNext DEF Coherent

\* A call that gets its reference is counted: as a screen or as a lease.
LEMMA AcquiredCounted ==
  ASSUME Inv, Coherent, NEW t \in Callers, pc[t] \in {"first", "second"},
         Acquired(t), cut' = cut
  PROVE  /\ CutInBody'
         /\ \A d \in Comics :
              NewOpens(t)[d] + Cardinality(Holding(d)')
                = opens[d] + Cardinality(Holding(d)) + (IF d = arg[t].comic THEN 1 ELSE 0)
<1>0. PICK c : c = arg[t].comic
  OBVIOUS
<1>1. c \in Comics /\ arg[t] \in Arg /\ ~ cut[t]
  BY <1>0 DEF Inv, CallTypeOK, Arg, Coherent, CutInBody
<1>2. CutInBody'
  BY DEF Acquired, Coherent, CutInBody, Inv, CallTypeOK
<1>3. \A d \in Comics : opens[d] \in Nat /\ Cardinality(Holding(d)) \in Nat
  BY HoldingFinite DEF Inv, ObservedTypeOK
<1>4. CASE arg[t].kind = "open"
  <2>1. /\ pc' = [pc EXCEPT ![t] = "idle"]
        /\ arg' = [arg EXCEPT ![t] = NoArg]
    BY <1>4 DEF Acquired
  <2>2. \A d : Holding(d)' = Holding(d)
    BY <2>1, LeasesKept DEF Inv, CallTypeOK, Holding
  <2>3. \A d \in Comics : NewOpens(t)[d] = opens[d] + (IF d = c THEN 1 ELSE 0)
    BY <1>0, <1>1, <1>3, <1>4 DEF NewOpens, Inv, ObservedTypeOK
  <2>4. QED
    BY <1>0, <1>2, <1>3, <2>2, <2>3
<1>5. CASE arg[t].kind # "open"
  <2>1. arg[t].kind = "ephemeral"
    BY <1>1, <1>5 DEF Arg
  <2>2. pc' = [pc EXCEPT ![t] = "body"] /\ arg' = arg
    BY <1>5 DEF Acquired
  <2>3. \A d \in Comics : NewOpens(t)[d] = opens[d]
    BY <1>0, <1>1, <1>3, <1>5 DEF NewOpens, Inv, ObservedTypeOK
  <2>4. ASSUME NEW d \in Comics, d # c PROVE Holding(d)' = Holding(d)
    BY <1>0, <2>2, <2>4 DEF Holding, Leases, Inv, CallTypeOK
  <2>5. Holding(c)' = Holding(c) \cup {t} /\ t \notin Holding(c)
    BY <1>0, <1>1, <2>1, <2>2 DEF Holding, Leases, Inv, CallTypeOK
  <2>6. Cardinality(Holding(c)') = Cardinality(Holding(c)) + 1
    BY <2>5, HoldingFinite, FS_AddElement
  <2>7. QED
    BY <1>0, <1>2, <1>3, <2>3, <2>4, <2>6
<1>6. QED
  BY <1>4, <1>5

\* The id goes to the end of the list, where it stands once.
LEMMA TouchedFacts ==
  ASSUME order \in Seq(Comics), Distinct(order), NEW c \in Comics
  PROVE  /\ Touched(c) \in Seq(Comics)
         /\ Listed(Touched(c)) = Listed(order) \cup {c}
         /\ Distinct(Touched(c))
<1>1. /\ Without({c}) \in Seq(Comics)
      /\ Listed(Without({c})) = Listed(order) \ {c}
      /\ Distinct(Without({c}))
  BY KeptFacts DEF Without
<1>2. c \notin Listed(Without({c}))
  BY <1>1
<1>3. /\ Append(Without({c}), c) \in Seq(Comics)
      /\ Listed(Append(Without({c}), c)) = Listed(Without({c})) \cup {c}
      /\ Distinct(Append(Without({c}), c))
  BY <1>1, <1>2, AppendFacts
<1>4. Listed(Without({c})) \cup {c} = Listed(order) \cup {c}
  BY <1>1
<1>5. QED
  BY <1>3, <1>4 DEF Touched

LEMMA ReuseCoherent ==
  ASSUME Inv, Coherent, NEW t \in Callers, pc[t] \in {"first", "second"}, Reuse(t)
  PROVE  Coherent'
<1>0. PICK c : c = arg[t].comic
  OBVIOUS
<1>1. c \in Comics
  BY <1>0, NewOpensType
<1>2. /\ Stored(c) /\ sessions[c] \in Session
      /\ sessions' = [sessions EXCEPT ![c].ref = @ + 1]
      /\ order' = Touched(c)
      /\ opens' = NewOpens(t)
      /\ Acquired(t) /\ cut' = cut
  BY <1>0, <1>1 DEF Reuse, SamePath, Stored, Inv, StoreTypeOK
<1>3. /\ order' \in Seq(Comics)
      /\ Listed(order') = Listed(order) \cup {c}
      /\ Distinct(order')
  BY <1>0, <1>1, <1>2, TouchedFacts, OrderAsList DEF Coherent
<1>4. /\ sessions'[c] = [sessions[c] EXCEPT !.ref = @ + 1]
      /\ \A d \in Comics \ {c} : sessions'[d] = sessions[d]
  BY <1>0, <1>1, <1>2 DEF Inv, StoreTypeOK
<1>5. \A d \in Comics : Stored(d)' <=> Stored(d)
  BY <1>0, <1>2, <1>4, SessionAssumption DEF Stored, Session
<1>6. OrderListsSessions'
  BY <1>0, <1>1, <1>2, <1>3, <1>5, OrderAsList DEF Coherent, OrderListsSessions, Listed, Distinct
<1>7. /\ CutInBody'
      /\ \A d \in Comics :
           opens'[d] + Cardinality(Holding(d)')
             = opens[d] + Cardinality(Holding(d)) + (IF d = c THEN 1 ELSE 0)
  BY <1>0, <1>2, AcquiredCounted
<1>8. ASSUME NEW d \in Comics, Stored(d)'
      PROVE  sessions'[d].ref <= opens'[d] + Cardinality(Holding(d)')
  <2>1. sessions[d].ref <= opens[d] + Cardinality(Holding(d)) /\ sessions[d] \in Session
    BY <1>0, <1>5, <1>8, Counted DEF Inv, StoreTypeOK, Stored
  <2>2. sessions'[d].ref = sessions[d].ref + (IF d = c THEN 1 ELSE 0)
    BY <1>0, <1>4, <2>1 DEF Session
  <2>3. opens[d] \in Nat /\ Cardinality(Holding(d)) \in Nat /\ sessions[d].ref \in Nat
    BY <1>0, <2>1, HoldingFinite DEF Inv, ObservedTypeOK, Session
  <2>4. QED
    BY <1>0, <1>7, <2>1, <2>2, <2>3
<1>9. QED
  BY <1>0, <1>3, <1>6, <1>7, <1>8, CountedNext DEF Coherent

LEMMA InsertCoherent ==
  ASSUME Inv, Coherent, NEW t \in Callers, pc[t] = "second", Insert(t)
  PROVE  Coherent'
<1>0. PICK c : c = arg[t].comic
  OBVIOUS
<1> DEFINE s == [sessions EXCEPT ![c] = [path |-> arg[t].path, ref |-> 1]]
           gone == Evicted(s, Touched(c))
<1>1. /\ c \in Comics /\ arg[t].path \in Paths
      /\ NewOpens(t) \in [Comics -> Nat]
  BY <1>0, NewOpensType
<1>2. /\ sessions' = [d \in Comics |-> IF d \in gone THEN NoSession ELSE s[d]]
      /\ order' = Kept(Touched(c), gone)
      /\ opens' = [d \in Comics |-> IF d \in gone THEN 0 ELSE NewOpens(t)[d]]
      /\ Acquired(t) /\ cut' = cut
  BY <1>0 DEF Insert
<1>3. /\ s[c] = [path |-> arg[t].path, ref |-> 1]
      /\ \A d \in Comics \ {c} : s[d] = sessions[d]
  BY <1>0, <1>1 DEF Inv, StoreTypeOK
<1> HIDE DEF s, gone
<1>4. /\ Touched(c) \in Seq(Comics)
      /\ Listed(Touched(c)) = Listed(order) \cup {c}
      /\ Distinct(Touched(c))
  BY <1>0, <1>1, TouchedFacts, OrderAsList DEF Coherent
<1>5. /\ order' \in Seq(Comics)
      /\ Listed(order') = (Listed(order) \cup {c}) \ gone
      /\ Distinct(order')
  BY <1>0, <1>2, <1>4, KeptFacts
<1>6. \A d \in Comics : Stored(d)' <=> (d = c \/ Stored(d)) /\ d \notin gone
  BY <1>0, <1>1, <1>2, <1>3, SessionAssumption DEF Stored
<1>7. OrderListsSessions'
  <2>1. Listed(order) = {d \in Comics : Stored(d)}
    BY OrderAsList DEF Coherent
  <2>2. Listed(order') = {d \in Comics : Stored(d)'}
    BY <1>1, <1>5, <1>6, <2>1
  <2>3. QED
    BY <1>5, <2>2 DEF OrderListsSessions, Listed, Distinct
<1>8. /\ CutInBody'
      /\ \A d \in Comics :
           NewOpens(t)[d] + Cardinality(Holding(d)')
             = opens[d] + Cardinality(Holding(d)) + (IF d = c THEN 1 ELSE 0)
  BY <1>0, <1>2, AcquiredCounted
<1>9. ASSUME NEW d \in Comics, Stored(d)'
      PROVE  sessions'[d].ref <= opens'[d] + Cardinality(Holding(d)')
  <2>1. sessions'[d] = s[d] /\ opens'[d] = NewOpens(t)[d]
    BY <1>0, <1>2, <1>6, <1>9
  <2>2. opens[d] \in Nat /\ Cardinality(Holding(d)) \in Nat
    BY <1>0, HoldingFinite DEF Inv, ObservedTypeOK
  <2>3. CASE d = c
    BY <1>0, <1>3, <1>8, <2>1, <2>2, <2>3
  <2>4. CASE d # c
    <3>1. sessions[d].ref <= opens[d] + Cardinality(Holding(d)) /\ s[d] = sessions[d]
      BY <1>0, <1>3, <1>6, <1>9, <2>4, Counted
    <3>2. opens[d] + Cardinality(Holding(d)) = opens'[d] + Cardinality(Holding(d)')
      BY <1>0, <1>8, <2>1, <2>2, <2>4
    <3>3. QED
      BY <1>0, <2>1, <3>1, <3>2
  <2>5. QED
    BY <1>0, <2>3, <2>4
<1>10. QED
  BY <1>0, <1>5, <1>7, <1>8, <1>9, CountedNext DEF Coherent

\* A lease that ends is no longer counted, and no other one changes.
LEMMA ReleaseHolding ==
  ASSUME Inv, Coherent, NEW t \in Callers, Release(t), NEW c, c = arg[t].comic
  PROVE  /\ CutInBody'
         /\ \A d \in Comics \ {c} : Holding(d)' = Holding(d)
         /\ Stored(c)' => Holding(c)' = Holding(c) \ {t}
<1>1. /\ pc[t] = "body" /\ c \in Comics
      /\ pc' = [pc EXCEPT ![t] = "idle"]
      /\ arg' = [arg EXCEPT ![t] = NoArg]
  BY DEF Release, Return, Inv, CallTypeOK, Arg
<1>2. \A d : Leases(d)' = Leases(d) \ {t}
  BY <1>1 DEF Leases, Inv, CallTypeOK
<1>3. cut \in [Callers -> BOOLEAN]
  BY DEF Inv, ObservedTypeOK
<1>4. \/ cut' = [cut EXCEPT ![t] = FALSE]
      \/ /\ ~ Stored(c)'
         /\ cut' = [u \in Callers |-> u # t /\ (cut[u] \/ u \in Leases(c))]
  <2>1. sessions \in [Comics -> Session \cup {NoSession}]
    BY DEF Inv, StoreTypeOK
  <2>2. sessions' = [sessions EXCEPT ![c] = NoSession] => ~ Stored(c)'
    BY <1>1, <2>1 DEF Stored
  <2>3. QED
    BY <2>2, Zenon DEF Release
<1>5. \A u \in Callers : cut'[u] => u # t /\ (cut[u] \/ u \in Leases(c))
  BY <1>3, <1>4
<1>6. CutInBody'
  BY <1>1, <1>5 DEF CutInBody, Coherent, Leases, Inv, CallTypeOK
<1>7. ASSUME NEW d \in Comics \ {c} PROVE Holding(d)' = Holding(d)
  <2>1. \A u \in Leases(d) : u \in Callers /\ u # t /\ u \notin Leases(c)
    BY DEF Leases
  <2>2. \A u \in Leases(d) : cut'[u] <=> cut[u]
    BY <1>3, <1>4, <2>1
  <2>3. Leases(d)' = Leases(d)
    BY <1>2, <2>1
  <2>4. QED
    BY <2>2, <2>3 DEF Holding
<1>8. ASSUME Stored(c)' PROVE Holding(c)' = Holding(c) \ {t}
  <2>1. cut' = [cut EXCEPT ![t] = FALSE]
    BY <1>4, <1>8
  <2>2. \A u \in Leases(c) \ {t} : cut'[u] <=> cut[u]
    BY <1>3, <2>1 DEF Leases
  <2>3. QED
    BY <1>2, <2>2 DEF Holding
<1>9. QED
  BY <1>6, <1>7, <1>8

LEMMA ReleaseCoherent ==
  ASSUME Inv, Coherent, NEW t \in Callers, Release(t)
  PROVE  Coherent'
<1>0. PICK c : c = arg[t].comic
  OBVIOUS
<1>1. c \in Comics
  BY <1>0 DEF Release, Inv, CallTypeOK, Arg
<1>2. \A d \in Comics : opens[d] \in Nat /\ Cardinality(Holding(d)) \in Nat
  BY <1>0, HoldingFinite DEF Inv, ObservedTypeOK
<1>3. /\ CutInBody'
      /\ \A d \in Comics \ {c} : Holding(d)' = Holding(d)
      /\ Stored(c)' => Holding(c)' = Holding(c) \ {t}
  BY <1>0, ReleaseHolding
<1>4. Stored(c)' => Cardinality(Holding(c)') >= Cardinality(Holding(c)) - 1
  <2>1. CASE t \in Holding(c)
    <3>1. Cardinality(Holding(c) \ {t}) = Cardinality(Holding(c)) - 1
      BY <2>1, HoldingFinite, FS_RemoveElement
    <3>2. Cardinality(Holding(c)) \in Nat
      BY HoldingFinite
    <3>3. QED
      BY <1>3, <3>1, <3>2
  <2>2. CASE t \notin Holding(c)
    <3>1. Stored(c)' => Holding(c)' = Holding(c)
      BY <1>0, <1>3, <2>2
    <3>2. QED
      BY <1>0, <1>1, <1>2, <3>1
  <2>3. QED
    BY <1>0, <2>1, <2>2
<1>5. CASE /\ ~ Stored(c)
           /\ UNCHANGED <<sessions, order, opens>>
  <2>1. order' \in Seq(Comics) /\ OrderListsSessions'
    BY <1>0, <1>5 DEF Coherent, OrderListsSessions, Stored
  <2>2. ASSUME NEW d \in Comics, Stored(d)'
        PROVE  sessions'[d].ref <= opens'[d] + Cardinality(Holding(d)')
    <3>1. Stored(d) /\ d # c
      BY <1>0, <1>5, <2>2 DEF Stored
    <3>2. QED
      BY <1>0, <1>3, <1>5, <3>1, Counted
  <2>3. QED
    BY <1>0, <1>3, <2>1, <2>2, CountedNext DEF Coherent
<1>6. CASE /\ Stored(c) /\ AfterRelease(sessions[c]) # NoSession
           /\ sessions' = [sessions EXCEPT ![c] = AfterRelease(sessions[c])]
           /\ UNCHANGED <<order, opens>>
  <2>1. sessions[c] \in Session /\ sessions[c].ref >= 1
    BY <1>0, <1>1, <1>6 DEF Inv, StoreTypeOK, NoIdleSession, Stored
  <2>2. /\ sessions'[c] = AfterRelease(sessions[c])
        /\ \A d \in Comics \ {c} : sessions'[d] = sessions[d]
    BY <1>0, <1>1, <1>6 DEF Inv, StoreTypeOK
  <2>3. sessions'[c].ref = sessions[c].ref - 1
    BY <1>0, <1>6, <2>1, <2>2 DEF AfterRelease, Session
  <2>4. \A d \in Comics : Stored(d)' <=> Stored(d)
    BY <1>0, <1>6, <2>2 DEF Stored
  <2>5. order' \in Seq(Comics) /\ OrderListsSessions'
    BY <1>0, <1>6, <2>4 DEF Coherent, OrderListsSessions
  <2>6. ASSUME NEW d \in Comics, Stored(d)'
        PROVE  sessions'[d].ref <= opens'[d] + Cardinality(Holding(d)')
    <3>1. sessions[d].ref <= opens[d] + Cardinality(Holding(d)) /\ opens'[d] = opens[d]
      BY <1>0, <1>6, <2>4, <2>6, Counted
    <3>2. CASE d = c
      <4>1. Cardinality(Holding(d)') \in Nat
        <5>1. Holding(d)' = Holding(c) \ {t}
          BY <1>0, <1>3, <2>6, <3>2
        <5>2. QED
          BY <1>0, <5>1, HoldingFinite, FS_Subset, FS_CardinalityType
      <4>2. sessions[d].ref \in Nat
        BY <1>0, <2>1, <3>2 DEF Session
      <4>3. QED
        BY <1>0, <1>2, <1>4, <2>3, <2>6, <3>1, <3>2, <4>1, <4>2
    <3>3. CASE d # c
      BY <1>0, <1>3, <2>2, <3>1, <3>3
    <3>4. QED
      BY <1>0, <3>2, <3>3
  <2>7. QED
    BY <1>0, <1>3, <2>5, <2>6, CountedNext DEF Coherent
<1>7. CASE /\ sessions' = [sessions EXCEPT ![c] = NoSession]
           /\ order' = Without({c})
           /\ opens' = [opens EXCEPT ![c] = 0]
  <2>1. /\ order' \in Seq(Comics)
        /\ Listed(order') = Listed(order) \ {c}
        /\ Distinct(order')
    BY <1>0, <1>7, KeptFacts, OrderAsList DEF Coherent, Without
  <2>2. \A d \in Comics : sessions'[d] = IF d = c THEN NoSession ELSE sessions[d]
    BY <1>0, <1>1, <1>7 DEF Inv, StoreTypeOK
  <2>3. Listed(order') = {d \in Comics : Stored(d)'}
    BY <1>0, <2>1, <2>2, OrderAsList DEF Coherent, Stored
  <2>4. OrderListsSessions'
    BY <1>0, <2>1, <2>3 DEF OrderListsSessions, Listed, Distinct
  <2>5. ASSUME NEW d \in Comics, Stored(d)'
        PROVE  sessions'[d].ref <= opens'[d] + Cardinality(Holding(d)')
    <3>1. d # c /\ Stored(d) /\ sessions'[d] = sessions[d]
      BY <1>0, <2>2, <2>5 DEF Stored
    <3>2. opens'[d] = opens[d]
      BY <1>0, <1>7, <3>1 DEF Inv, ObservedTypeOK
    <3>3. QED
      BY <1>0, <1>3, <3>1, <3>2, Counted
  <2>6. QED
    BY <1>0, <1>3, <2>1, <2>4, <2>5, CountedNext DEF Coherent
<1>8. QED
  BY <1>0, <1>5, <1>6, <1>7, Zenon DEF Release

LEMMA NextCoherent == Inv /\ Coherent /\ [Next]_vars => Coherent'
<1> SUFFICES ASSUME Inv, Coherent, [Next]_vars PROVE Coherent'
  OBVIOUS
<1>1. ASSUME UNCHANGED <<sessions, order, opens, cut, pc, arg>> PROVE Coherent'
  <2>1. \A c : Leases(c)' = Leases(c)
    BY <1>1 DEF Leases
  <2>2. QED
    BY <1>1, <2>1, QuietCoherent
<1>2. ASSUME NEW t \in Callers, pc[t] # "body", pc'[t] # "body",
             \A u \in Callers \ {t} : pc'[u] = pc[u] /\ arg'[u] = arg[u],
             UNCHANGED <<sessions, order, opens, cut>>
      PROVE  Coherent'
  BY <1>2, LeasesKept, QuietCoherent
<1>3. ASSUME NEW t \in Callers, pc[t] \in {"check", "first", "second"}, Return(t),
             UNCHANGED <<sessions, order, opens, cut>>
      PROVE  Coherent'
  <2>1. pc'[t] # "body" /\ \A u \in Callers \ {t} : pc'[u] = pc[u] /\ arg'[u] = arg[u]
    BY <1>3 DEF Return, Inv, CallTypeOK
  <2>2. QED
    BY <1>2, <1>3, <2>1
<1>4. ASSUME NEW t \in Callers, NEW c \in Comics, NEW p \in Paths,
             StartOpen(t, c, p) \/ StartEphemeral(t, c, p)
      PROVE  Coherent'
  <2>1. /\ pc[t] = "idle" /\ pc'[t] # "body"
        /\ \A u \in Callers \ {t} : pc'[u] = pc[u] /\ arg'[u] = arg[u]
        /\ UNCHANGED <<sessions, order, opens, cut>>
    BY <1>4 DEF StartOpen, StartEphemeral, Inv, CallTypeOK
  <2>2. QED
    BY <1>2, <2>1
<1>5. ASSUME NEW t \in Callers, CheckTrashed(t) PROVE Coherent'
  <2>1. CASE Return(t)
    BY <1>3, <1>5, <2>1 DEF CheckTrashed
  <2>2. CASE pc' = [pc EXCEPT ![t] = "first"] /\ arg' = arg
    <3>1. pc'[t] # "body" /\ \A u \in Callers \ {t} : pc'[u] = pc[u]
      BY <2>2 DEF Inv, CallTypeOK
    <3>2. QED
      BY <1>2, <1>5, <2>2, <3>1 DEF CheckTrashed
  <2>3. QED
    BY <1>5, <2>1, <2>2 DEF CheckTrashed
<1>6. ASSUME NEW t \in Callers, Fail(t) PROVE Coherent'
  BY <1>3, <1>6 DEF Fail
<1>7. ASSUME NEW t \in Callers, pc[t] \in {"first", "second"}, Mismatch(t) PROVE Coherent'
  BY <1>3, <1>7 DEF Mismatch
<1>8. ASSUME NEW t \in Callers, FirstLock(t) PROVE Coherent'
  <2>1. CASE FirstMiss(t)
    <3>1. pc[t] = "first" /\ arg[t].comic \in Comics
      BY <1>8, NewOpensType DEF FirstLock
    <3>2. /\ pc'[t] # "body"
          /\ \A u \in Callers \ {t} : pc'[u] = pc[u] /\ arg'[u] = arg[u]
      BY <2>1 DEF FirstMiss, Inv, CallTypeOK
    <3>3. RemoveSessions({arg[t].comic})
      BY <2>1 DEF FirstMiss
    <3>4. QED
      BY <3>1, <3>2, <3>3, LeasesKept, RemoveCoherent
  <2>2. QED
    BY <1>7, <1>8, <2>1, ReuseCoherent DEF FirstLock
<1>9. ASSUME NEW t \in Callers, SecondLock(t) PROVE Coherent'
  BY <1>7, <1>9, ReuseCoherent, InsertCoherent DEF SecondLock
<1>10. ASSUME NEW t \in Callers, Release(t) PROVE Coherent'
  BY <1>10, ReleaseCoherent
<1>11. ASSUME NEW t \in Callers, NEW C \in SUBSET Comics, TrashCommit(t, C) PROVE Coherent'
  <2>1. /\ pc[t] = "idle" /\ pc'[t] # "body"
        /\ \A u \in Callers \ {t} : pc'[u] = pc[u] /\ arg'[u] = arg[u]
        /\ UNCHANGED <<sessions, order, opens, cut>>
    BY <1>11 DEF TrashCommit, Inv, CallTypeOK
  <2>2. QED
    BY <1>2, <2>1
<1>12. ASSUME NEW t \in Callers, NEW c \in Comics, TrashClose(t, c) PROVE Coherent'
  <2>1. /\ pc[t] # "body" /\ pc'[t] # "body"
        /\ \A u \in Callers \ {t} : pc'[u] = pc[u] /\ arg'[u] = arg[u]
        /\ RemoveSessions({c})
    BY <1>12 DEF TrashClose, Inv, CallTypeOK
  <2>2. QED
    BY <2>1, LeasesKept, RemoveCoherent
<1>13. ASSUME NEW C \in SUBSET Comics, RemoveSessions(C), UNCHANGED <<pc, arg>>
       PROVE  Coherent'
  <2>1. \A c : Leases(c)' = Leases(c)
    BY <1>13 DEF Leases
  <2>2. QED
    BY <1>13, <2>1, RemoveCoherent
<1>14. ASSUME NEW c \in Comics, Close(c) PROVE Coherent'
  BY <1>13, <1>14 DEF Close
<1>15. CASE Clear
  BY <1>13, <1>15 DEF Clear
<1>16. ASSUME NEW C \in SUBSET Comics, Restore(C) PROVE Coherent'
  BY <1>1, <1>16 DEF Restore
<1>17. CASE UNCHANGED vars
  BY <1>1, <1>17 DEF vars
<1>18. QED
  BY <1>4, <1>5, <1>6, <1>8, <1>9, <1>10, <1>11, <1>12, <1>14, <1>15, <1>16, <1>17
  DEF Next, Call

\* Map, LRU list and references agree in every reachable state: a stored session
\* is listed once and no other id is, and its count has as many screens and
\* leases behind it.
THEOREM SpecStoreCoherent == Spec => []StoreCoherent
<1>1. Coherent => StoreCoherent
  BY DEF Coherent, StoreCoherent
<1>2. QED
  BY <1>1, InitCoherent, NextCoherent, SpecInv, PTL DEF Spec

\* Every variable has its type; for the LRU list that takes the proof above.
THEOREM SpecTypeOK == Spec => []TypeOK
<1>1. Inv /\ Coherent => TypeOK
  BY DEF Inv, Coherent, TypeOK
<1>2. QED
  BY <1>1, InitCoherent, NextCoherent, SpecInv, PTL DEF Spec

-----------------------------------------------------------------------------
(* The reading screen over the store *)

CallRecord == [run : {"none", "core", "list"}, wait : {"none", "result", "close"},
               comic : One, own : BOOLEAN]
ExitRecord == [at : {"none", "flush", "close", "go"}, comic : One, own : BOOLEAN, next : One]

\* A screen, a call and an exit that are under way have their comic, and those of
\* the screen have that of the screen.
Named ==
  /\ screen = Off \/ (screen.at # "off" /\ screen.comic # {})
  /\ \A t \in Callers : call[t].run # "none" \/ call[t].wait # "none" => call[t].comic # {}
  /\ \A e \in Exits : exit[e].at # "none" => exit[e].comic # {}
Owned ==
  /\ \A t \in Callers : call[t].own => screen # Off /\ call[t].comic = screen.comic
  /\ \A e \in Exits : exit[e].own => screen # Off /\ exit[e].comic = screen.comic

FlowTypes == FlowTypeOK /\ Named /\ Owned

LEMMA FlowInitTypes == FlowInit => FlowTypes
<1> SUFFICES ASSUME FlowInit PROVE FlowTypes
  OBVIOUS
<1>1. {} \in One
  BY DEF One
<1>2. Off \in [at : {"off", "loading", "shown", "failed"}, comic : One]
  BY <1>1 DEF Off
<1>3. NoCall \in CallRecord /\ NoExit \in ExitRecord
  BY <1>1 DEF NoCall, NoExit, CallRecord, ExitRecord
<1>4. FlowTypeOK
  BY <1>2, <1>3, ReadSessionAssumption DEF FlowInit, FlowTypeOK, CallRecord, ExitRecord
<1>5. Named /\ Owned
  <2>1. /\ NoCall.run = "none" /\ NoCall.wait = "none" /\ NoCall.own = FALSE
        /\ NoExit.at = "none" /\ NoExit.own = FALSE
    BY DEF NoCall, NoExit
  <2>2. /\ screen = Off
        /\ \A t \in Callers : call[t] = NoCall
        /\ \A e \in Exits : exit[e] = NoExit
    BY DEF FlowInit
  <2>3. QED
    <3>0. /\ \A t \in Callers : call[t].run = "none" /\ call[t].wait = "none"
          /\ \A e \in Exits : exit[e].at = "none"
      BY <2>1, <2>2
    <3>1. Named
      BY <2>2, <3>0 DEF Named
    <3>2. Owned
      BY <2>1, <2>2 DEF Owned
    <3>3. QED
      BY <3>1, <3>2
<1>6. QED
  BY <1>4, <1>5 DEF FlowTypes

\* A new screen has its comic, and so have the calls after it.
LEMMA EnterTypes ==
  ASSUME NEW c \in Comics, NEW calls \in [Callers -> CallRecord], Enter(c, calls),
         \A t \in Callers : calls[t].run # "none" \/ calls[t].wait # "none" => calls[t].comic # {}
  PROVE  /\ screen' \in [at : {"off", "loading", "shown", "failed"}, comic : One]
         /\ screen'.comic = {c}
         /\ screen'.at # "off"
         /\ call' \in [Callers -> CallRecord]
         /\ \A t \in Callers : call'[t] = calls[t] \/ call'[t].comic = {c}
         /\ \A t \in Callers : call'[t].run # "none" \/ call'[t].wait # "none" => call'[t].comic # {}
<1>1. {c} \in One /\ Asked(c, TRUE) \in CallRecord /\ Asked(c, TRUE).comic = {c}
  BY DEF One, Asked, CallRecord
<1>2. /\ \/ call' = calls
         \/ \E t \in Callers : call' = [calls EXCEPT ![t] = Asked(c, TRUE)]
      /\ \E at \in {"loading", "shown", "failed"} : screen' = [at |-> at, comic |-> {c}]
  BY DEF Enter
<1> HIDE DEF Asked
<1>3. PICK at \in {"loading", "shown", "failed"} : screen' = [at |-> at, comic |-> {c}]
  BY <1>2
<1>4. /\ screen' \in [at : {"off", "loading", "shown", "failed"}, comic : One]
      /\ screen'.comic = {c} /\ screen'.at # "off"
  BY <1>1, <1>3
<1>5. /\ call' \in [Callers -> CallRecord]
      /\ \A t \in Callers : call'[t] = calls[t] \/ call'[t] = Asked(c, TRUE)
  BY <1>1, <1>2
<1>6. QED
  BY <1>1, <1>4, <1>5

LEMMA DisownedExits ==
  ASSUME NEW rest \in [Exits -> ExitRecord]
  PROVE  /\ Disowned(rest) \in [Exits -> ExitRecord]
         /\ \A e \in Exits : /\ Disowned(rest)[e].at = rest[e].at
                            /\ Disowned(rest)[e].comic = rest[e].comic
                            /\ Disowned(rest)[e].next = rest[e].next
                            /\ Disowned(rest)[e].own = FALSE
<1>1. Disowned(rest) = [e \in Exits |-> [rest[e] EXCEPT !.own = FALSE]]
  BY DEF Disowned
<1>2. \A e \in Exits : rest[e] \in ExitRecord
  OBVIOUS
<1>3. \A e \in Exits : /\ [rest[e] EXCEPT !.own = FALSE] \in ExitRecord
                     /\ [rest[e] EXCEPT !.own = FALSE].at = rest[e].at
                     /\ [rest[e] EXCEPT !.own = FALSE].comic = rest[e].comic
                     /\ [rest[e] EXCEPT !.own = FALSE].next = rest[e].next
                     /\ [rest[e] EXCEPT !.own = FALSE].own = FALSE
  BY <1>2 DEF ExitRecord
<1>4. QED
  BY <1>1, <1>3

LEMMA DisownedCalls ==
  ASSUME call \in [Callers -> CallRecord]
  PROVE  /\ Disowned(call) \in [Callers -> CallRecord]
         /\ \A t \in Callers : /\ Disowned(call)[t].run = call[t].run
                              /\ Disowned(call)[t].wait = call[t].wait
                              /\ Disowned(call)[t].comic = call[t].comic
                              /\ Disowned(call)[t].own = FALSE
<1>1. Disowned(call) = [t \in Callers |-> [call[t] EXCEPT !.own = FALSE]]
  BY DEF Disowned
<1>2. \A t \in Callers : call[t] \in CallRecord
  OBVIOUS
<1>3. \A t \in Callers : /\ [call[t] EXCEPT !.own = FALSE] \in CallRecord
                       /\ [call[t] EXCEPT !.own = FALSE].run = call[t].run
                       /\ [call[t] EXCEPT !.own = FALSE].wait = call[t].wait
                       /\ [call[t] EXCEPT !.own = FALSE].comic = call[t].comic
                       /\ [call[t] EXCEPT !.own = FALSE].own = FALSE
  BY <1>2 DEF CallRecord
<1>4. QED
  BY <1>1, <1>3

LEMMA LeaveTypes ==
  ASSUME left \subseteq Comics, NEW C, C \subseteq Comics, Leave(C)
  PROVE  left' \subseteq Comics
  BY DEF Leave

\* What the types say of the records of the app.
CallTypes ==
  /\ call \in [Callers -> CallRecord]
  /\ \A t \in Callers : call[t].run # "none" \/ call[t].wait # "none" => call[t].comic # {}
ExitTypes ==
  /\ exit \in [Exits -> ExitRecord]
  /\ \A e \in Exits : exit[e].at # "none" => exit[e].comic # {}
ScreenTypes ==
  /\ screen \in [at : {"off", "loading", "shown", "failed"}, comic : One]
  /\ screen = Off \/ (screen.at # "off" /\ screen.comic # {})
RestTypes ==
  /\ opened \subseteq Comics
  /\ visits \in 0 .. MaxVisits /\ others \in 0 .. MaxOthers
  /\ lost \subseteq Comics /\ left \subseteq Comics

LEMMA FlowTypesParts == FlowTypes <=> CallTypes /\ ExitTypes /\ ScreenTypes /\ RestTypes /\ Owned
  BY DEF FlowTypes, FlowTypeOK, Named, CallTypes, ExitTypes, ScreenTypes, RestTypes,
         CallRecord, ExitRecord

LEMMA CallComic ==
  ASSUME FlowTypes
  PROVE  /\ \A t \in Callers : call[t].comic \in One /\ call[t].comic \subseteq Comics
         /\ \A e \in Exits : exit[e].comic \in One /\ exit[e].comic \subseteq Comics
         /\ \A e \in Exits : exit[e].next \subseteq Comics
         /\ screen.comic \in One /\ screen.comic \subseteq Comics
  BY FlowTypesParts DEF CallTypes, ExitTypes, ScreenTypes, CallRecord, ExitRecord, One

\* A step of a call under way leaves a call for the same comic, or none.
Follows(k, old) ==
  /\ k \in CallRecord
  /\ k.run # "none" \/ k.wait # "none" => k.comic # {}
  /\ k.own => old.own
  /\ k.run = "core" => old.run = "core"
  /\ k = NoCall \/ k.comic = old.comic

LEMMA CallStep ==
  ASSUME CallTypes, NEW t \in Callers,
         CoreOpens(t) \/ Lists(t) \/ ListFails(t) \/ Timeout(t) \/ CleansUp(t)
  PROVE  \E k : Follows(k, call[t]) /\ call' = [call EXCEPT ![t] = k]
<1> DEFINE of(r, w, o) == [run |-> r, wait |-> w, comic |-> call[t].comic, own |-> o]
<1>1. call[t] \in CallRecord
  BY DEF CallTypes
<1>2. Follows(NoCall, call[t])
  BY <1>1 DEF NoCall, Follows, CallRecord, One
<1>3. ASSUME call[t].run # "none" \/ call[t].wait # "none",
             NEW r \in {"none", "core", "list"}, NEW w \in {"none", "result", "close"},
             NEW o \in {call[t].own, FALSE}, r = "core" => call[t].run = "core"
      PROVE  Follows(of(r, w, o), call[t])
  BY <1>1, <1>3 DEF CallTypes, Follows, CallRecord
<1>a. ASSUME NEW old \in CallRecord, NEW r \in {"none", "core", "list"}
      PROVE  [[old EXCEPT !.wait = "close"] EXCEPT !.run = r]
               = [run |-> r, wait |-> "close", comic |-> old.comic, own |-> old.own]
  <2> DEFINE w == [run |-> old.run, wait |-> "close", comic |-> old.comic, own |-> old.own]
  <2>1. [old EXCEPT !.wait = "close"] = w
    BY DEF CallRecord
  <2>2. [w EXCEPT !.run = r] = [run |-> r, wait |-> "close", comic |-> old.comic, own |-> old.own]
    OBVIOUS
  <2> HIDE DEF w
  <2>3. QED
    BY <2>1, <2>2
<1>b. [call[t] EXCEPT !.wait = "close"].run = call[t].run
  BY <1>1 DEF CallRecord
<1>c. ASSUME NEW old \in CallRecord, NEW r \in {"none", "core", "list"}
      PROVE  [old EXCEPT !.run = r]
               = [run |-> r, wait |-> old.wait, comic |-> old.comic, own |-> old.own]
  BY DEF CallRecord
<1>d. ASSUME NEW old \in CallRecord
      PROVE  [[old EXCEPT !.run = "none"] EXCEPT !.wait = "close"]
               = [run |-> "none", wait |-> "close", comic |-> old.comic, own |-> old.own]
  <2> DEFINE w == [run |-> "none", wait |-> old.wait, comic |-> old.comic, own |-> old.own]
  <2>1. [old EXCEPT !.run = "none"] = w
    BY DEF CallRecord
  <2>2. [w EXCEPT !.wait = "close"] = [run |-> "none", wait |-> "close", comic |-> old.comic, own |-> old.own]
    OBVIOUS
  <2> HIDE DEF w
  <2>3. QED
    BY <2>1, <2>2
<1>e. ASSUME NEW old \in CallRecord
      PROVE  [[old EXCEPT !.wait = "none"] EXCEPT !.own = FALSE]
               = [run |-> old.run, wait |-> "none", comic |-> old.comic, own |-> FALSE]
  <2> DEFINE w == [run |-> old.run, wait |-> "none", comic |-> old.comic, own |-> old.own]
  <2>1. [old EXCEPT !.wait = "none"] = w
    BY DEF CallRecord
  <2>2. [w EXCEPT !.own = FALSE] = [run |-> old.run, wait |-> "none", comic |-> old.comic, own |-> FALSE]
    <3>1. ASSUME NEW o
          PROVE  [w EXCEPT !.own = o] = [run |-> old.run, wait |-> "none", comic |-> old.comic, own |-> o]
      OBVIOUS
    <3>2. QED
      BY <3>1
  <2> HIDE DEF w
  <2>3. QED
    BY <2>1, <2>2
<1>f. (IF call[t].run = "list" THEN "none" ELSE call[t].run) \in {"none", "core", "list"}
  BY <1>1 DEF CallRecord
<1>4. /\ [call[t] EXCEPT !.run = "list"] = of("list", call[t].wait, call[t].own)
      /\ [call[t] EXCEPT !.run = "none"] = of("none", call[t].wait, call[t].own)
      /\ AfterError(call[t]) = of("none", "close", call[t].own)
      /\ [[call[t] EXCEPT !.wait = "none"] EXCEPT !.own = FALSE] = of(call[t].run, "none", FALSE)
      /\ [[call[t] EXCEPT !.wait = "close"] EXCEPT
             !.run = IF call[t].run = "list" THEN "none" ELSE call[t].run]
           = of(IF call[t].run = "list" THEN "none" ELSE call[t].run, "close", call[t].own)
  <2>1. [call[t] EXCEPT !.run = "list"] = of("list", call[t].wait, call[t].own)
    BY <1>1, <1>c
  <2>2. [call[t] EXCEPT !.run = "none"] = of("none", call[t].wait, call[t].own)
    BY <1>1, <1>c
  <2>3. AfterError(call[t]) = of("none", "close", call[t].own)
    BY <1>1, <1>d DEF AfterError
  <2>4. [[call[t] EXCEPT !.wait = "none"] EXCEPT !.own = FALSE] = of(call[t].run, "none", FALSE)
    BY <1>1, <1>e
  <2>5. [[call[t] EXCEPT !.wait = "close"] EXCEPT
             !.run = IF call[t].run = "list" THEN "none" ELSE call[t].run]
           = of(IF call[t].run = "list" THEN "none" ELSE call[t].run, "close", call[t].own)
    BY <1>1, <1>a, <1>f
  <2>6. QED
    BY <2>1, <2>2, <2>3, <2>4, <2>5
<1>5. /\ call[t].run \in {"none", "core", "list"}
      /\ call[t].wait \in {"none", "result", "close"}
  BY <1>1 DEF CallRecord
<1>6. CASE CoreOpens(t)
  <2>1. \/ call' = call
        \/ call' = [call EXCEPT ![t] = [call[t] EXCEPT !.run = "list"]]
        \/ call' = [call EXCEPT ![t] = AfterError(call[t])]
        \/ call' = [call EXCEPT ![t] = NoCall]
        \/ call' = [call EXCEPT ![t] = [call[t] EXCEPT !.run = "none"]]
    BY <1>6 DEF CoreOpens, CallTypes
  <2>2. call[t].run # "none" \/ call[t].wait # "none"
    BY <1>6 DEF CoreOpens
  <2>3. Follows(call[t], call[t]) /\ call = [call EXCEPT ![t] = call[t]]
    BY <1>1, <2>2 DEF Follows, CallTypes
  <2> HIDE DEF of
  <2>4. QED
    BY <1>2, <1>3, <1>4, <1>5, <2>1, <2>2, <2>3
<1>7. CASE Lists(t)
  BY <1>2, <1>7 DEF Lists
<1>8. CASE ListFails(t)
  <2>1. call' = [call EXCEPT ![t] = AfterError(call[t])] /\ call[t].run # "none"
    BY <1>8 DEF ListFails, CallTypes
  <2> HIDE DEF of
  <2>2. QED
    BY <1>3, <1>4, <2>1
<1>9. CASE Timeout(t)
  <2>1. /\ call' = [call EXCEPT ![t] = [[call[t] EXCEPT !.wait = "close"] EXCEPT
                                      !.run = IF call[t].run = "list" THEN "none" ELSE call[t].run]]
        /\ call[t].wait # "none"
    BY <1>9 DEF Timeout, CallTypes, CallRecord
  <2> HIDE DEF of
  <2>2. QED
    BY <1>3, <1>4, <1>5, <2>1
<1>10. CASE CleansUp(t)
  <2>1. /\ \/ call' = [call EXCEPT ![t] = [call[t] EXCEPT !.wait = "none", !.own = FALSE]]
           \/ call' = [call EXCEPT ![t] = NoCall]
        /\ call[t].wait # "none"
    BY <1>10 DEF CleansUp, CallTypes, CallRecord
  <2> HIDE DEF of
  <2>2. QED
    BY <1>2, <1>3, <1>4, <1>5, <2>1
<1>11. QED
  BY <1>6, <1>7, <1>8, <1>9, <1>10

LEMMA FlowNextOwned ==
  ASSUME CallTypes, ExitTypes, ScreenTypes, Owned, [FlowNext]_all
  PROVE  Owned'
<1>1. CASE UNCHANGED all
  BY <1>1 DEF all, Owned
<1>2. ASSUME NEW c \in Comics, Enter(c, call), screen = Off \/ c \in screen.comic, exit' = exit
      PROVE  Owned'
  <2>1. screen = Off \/ screen.comic = {c}
    BY <1>2 DEF ScreenTypes, One
  <2>2. /\ screen'.comic = {c} /\ screen'.at # "off"
        /\ \A t \in Callers : call'[t] = call[t] \/ call'[t].comic = {c}
    BY <1>2, EnterTypes DEF CallTypes
  <2>3. QED
    BY <1>2, <2>1, <2>2 DEF Owned, Off
<1>3. ASSUME NEW c \in Comics, Visit(c) PROVE Owned'
  BY <1>2, <1>3 DEF Visit
<1>4. CASE Retry
  <2>1. screen.comic \subseteq Comics
    BY DEF ScreenTypes, One
  <2>2. QED
    BY <1>2, <1>4, <2>1 DEF Retry
<1>5. ASSUME NEW t \in Callers, NEW c \in Comics, OpenAside(t, c) PROVE Owned'
  BY <1>5 DEF OpenAside, CallTypes, Asked, Owned
<1>6. ASSUME NEW t \in Callers, CoreOpens(t) PROVE Owned'
  <2>1. UNCHANGED <<screen, exit>> /\ call \in [Callers -> CallRecord]
    BY <1>6 DEF CoreOpens, CallTypes
  <2>2. \A u \in Callers : call'[u].own => call[u].own /\ call'[u].comic = call[u].comic
    BY <1>6, <2>1, CallStep DEF Follows, NoCall
  <2>3. QED
    BY <2>1, <2>2 DEF Owned
<1>7. ASSUME NEW t \in Callers, Lists(t) \/ ListFails(t) \/ Timeout(t) \/ CleansUp(t) PROVE Owned'
  <2>1. exit' = exit /\ call \in [Callers -> CallRecord]
    BY <1>7 DEF Lists, ListFails, Timeout, CleansUp, CallTypes
  <2>2. \A u \in Callers : call'[u].own => call[u].own /\ call'[u].comic = call[u].comic
    BY <1>7, <2>1, CallStep DEF Follows, NoCall
  <2>3. \/ screen' = screen
        \/ \E at \in {"shown", "failed"} : screen' = [screen EXCEPT !.at = at]
    BY <1>7 DEF Lists, ListFails, Timeout, CleansUp
  <2>4. screen'.comic = screen.comic /\ (screen # Off => screen' # Off)
    BY <2>3 DEF ScreenTypes, Off
  <2>5. QED
    BY <2>1, <2>2, <2>4 DEF Owned
<1>8. ASSUME NEW e \in Exits, NEW next \in One, StartExit(e, next) PROVE Owned'
  BY <1>8 DEF StartExit, ExitTypes, Owned
<1>9. ASSUME NEW e \in Exits, Flushed(e) \/ FlushFails(e) \/ Closed(e) PROVE Owned'
  BY <1>9 DEF Flushed, FlushFails, Closed, ExitTypes, ExitRecord, NoExit, Owned
<1>10. ASSUME NEW e \in Exits, Pop(e) PROVE Owned'
  <2> DEFINE rest == [exit EXCEPT ![e] = NoExit]
  <2>1. rest \in [Exits -> ExitRecord] /\ \A f \in Exits : rest[f].own => exit[f].own /\ rest[f] = exit[f]
    BY DEF ExitTypes, ExitRecord, NoExit, One
  <2>2. \/ screen' = Off /\ exit' = Disowned(rest) /\ call' = Disowned(call)
        \/ exit' = rest /\ UNCHANGED <<screen, call>>
    BY <1>10 DEF Pop
  <2> HIDE DEF rest
  <2>3. CASE exit' = Disowned(rest) /\ call' = Disowned(call)
    BY <2>1, <2>3, DisownedCalls, DisownedExits DEF CallTypes, Owned
  <2>4. CASE exit' = rest /\ UNCHANGED <<screen, call>>
    BY <2>1, <2>4 DEF Owned
  <2>5. QED
    BY <2>2, <2>3, <2>4
<1>11. ASSUME NEW e \in Exits, GoOn(e) PROVE Owned'
  <2> DEFINE rest == [exit EXCEPT ![e] = NoExit]
  <2>1. rest \in [Exits -> ExitRecord]
    BY DEF ExitTypes, ExitRecord, NoExit, One
  <2>2. exit' = Disowned(rest)
    BY <1>11 DEF GoOn
  <2> HIDE DEF rest
  <2>3. \A f \in Exits : ~ exit'[f].own
    BY <2>1, <2>2, DisownedExits
  <2>4. /\ Disowned(call) \in [Callers -> CallRecord]
        /\ \A t \in Callers : ~ Disowned(call)[t].own
        /\ \A t \in Callers : Disowned(call)[t].run # "none" \/ Disowned(call)[t].wait # "none"
                                => Disowned(call)[t].comic # {}
    BY DisownedCalls DEF CallTypes
  <2>5. PICK c \in exit[e].next : Enter(c, Disowned(call))
    BY <1>11 DEF GoOn
  <2>6. c \in Comics
    BY DEF ExitTypes, ExitRecord, One
  <2>7. /\ screen'.comic = {c} /\ screen'.at # "off"
        /\ \A t \in Callers : call'[t] = Disowned(call)[t] \/ call'[t].comic = {c}
    BY <2>4, <2>5, <2>6, EnterTypes
  <2>8. QED
    BY <2>3, <2>4, <2>7 DEF Owned, Off
<1>12. CASE Others
  BY <1>12 DEF Others, Owned
<1>13. QED
  BY <1>1, <1>3, <1>4, <1>5, <1>6, <1>7, <1>8, <1>9, <1>10, <1>11, <1>12 DEF FlowNext

LEMMA FlowNextTypes == FlowTypes /\ [FlowNext]_all => FlowTypes'
<1> SUFFICES ASSUME FlowTypes, [FlowNext]_all PROVE FlowTypes'
  OBVIOUS
<1> USE ReadSessionAssumption
<1>0. CallTypes /\ ExitTypes /\ ScreenTypes /\ RestTypes /\ Owned
  BY FlowTypesParts
<1>a. SUFFICES CallTypes' /\ ExitTypes' /\ ScreenTypes' /\ RestTypes'
  BY <1>0, FlowNextOwned, FlowTypesParts DEF FlowTypes, FlowTypeOK, Named, CallTypes, ExitTypes, ScreenTypes, RestTypes,
         CallRecord, ExitRecord
<1>1. CASE UNCHANGED all
  <2>1. UNCHANGED <<screen, opened, call, exit, visits, others, lost, left>>
    BY <1>1 DEF all
  <2>2. CallTypes' /\ ExitTypes'
    BY <1>0, <2>1 DEF CallTypes, ExitTypes
  <2>3. ScreenTypes' /\ RestTypes'
    BY <1>0, <2>1 DEF ScreenTypes, RestTypes
  <2>4. QED
    BY <2>2, <2>3
<1>2. ASSUME NEW c \in Comics, Enter(c, call), visits < MaxVisits, visits' = visits + 1,
             UNCHANGED <<opened, exit, others, lost>>, Leave({})
      PROVE  CallTypes' /\ ExitTypes' /\ ScreenTypes' /\ RestTypes'
  <2>1. CallTypes' /\ ScreenTypes'
    BY <1>0, <1>2, EnterTypes DEF CallTypes, ScreenTypes
  <2>2. RestTypes' /\ ExitTypes'
    BY <1>0, <1>2, LeaveTypes DEF RestTypes, ExitTypes
  <2>3. QED
    BY <2>1, <2>2
<1>3. ASSUME NEW c \in Comics, Visit(c)
      PROVE  CallTypes' /\ ExitTypes' /\ ScreenTypes' /\ RestTypes'
  BY <1>2, <1>3 DEF Visit
<1>4. CASE Retry
  <2>1. PICK c \in screen.comic : Enter(c, call)
    BY <1>4 DEF Retry
  <2>2. c \in Comics
    BY CallComic
  <2>3. QED
    BY <1>2, <1>4, <2>1, <2>2 DEF Retry
<1>5. ASSUME NEW t \in Callers, NEW c \in Comics, OpenAside(t, c)
      PROVE  CallTypes' /\ ExitTypes' /\ ScreenTypes' /\ RestTypes'
  <2>1. CallTypes'
    BY <1>0, <1>5 DEF OpenAside, CallTypes, CallRecord, Asked, One
  <2>2. RestTypes' /\ ExitTypes' /\ ScreenTypes'
    BY <1>0, <1>5, LeaveTypes DEF OpenAside, RestTypes, ExitTypes, ScreenTypes
  <2>3. QED
    BY <2>1, <2>2
<1>6. ASSUME NEW t \in Callers, CoreOpens(t)
      PROVE  CallTypes' /\ ExitTypes' /\ ScreenTypes' /\ RestTypes'
  <2>1. CallTypes'
    BY <1>0, <1>6, CallStep DEF Follows, CallTypes
  <2>2. left' \subseteq Comics
    BY <1>0, <1>6, CallComic, LeaveTypes DEF CoreOpens, RestTypes
  <2>3. RestTypes' /\ ExitTypes' /\ ScreenTypes'
    BY <1>0, <1>6, <2>2 DEF CoreOpens, RestTypes, ExitTypes, ScreenTypes
  <2>4. QED
    BY <2>1, <2>3
<1>7. ASSUME NEW t \in Callers, Lists(t) \/ ListFails(t) \/ Timeout(t) \/ CleansUp(t)
      PROVE  CallTypes' /\ ExitTypes' /\ ScreenTypes' /\ RestTypes'
  <2>1. CallTypes'
    BY <1>0, <1>7, CallStep DEF Follows, CallTypes
  <2>2. ScreenTypes'
    <3>1. \/ screen' = screen
          \/ \E at \in {"shown", "failed"} : screen' = [screen EXCEPT !.at = at] /\ call[t].own
      BY <1>7 DEF Lists, ListFails, Timeout, CleansUp
    <3>2. call[t].own => screen # Off
      BY <1>0 DEF Owned
    <3>3. QED
      BY <1>0, <3>1, <3>2 DEF ScreenTypes, Off
  <2>3. left' \subseteq Comics /\ lost' \subseteq Comics /\ opened' \subseteq Comics
    BY <1>0, <1>7, CallComic, LeaveTypes DEF Lists, ListFails, Timeout, CleansUp, RestTypes, Robbed
  <2>4. RestTypes' /\ ExitTypes'
    BY <1>0, <1>7, <2>3 DEF Lists, ListFails, Timeout, CleansUp, RestTypes, ExitTypes
  <2>5. QED
    BY <2>1, <2>2, <2>4
<1>8. ASSUME NEW e \in Exits, NEW next \in One, StartExit(e, next)
      PROVE  CallTypes' /\ ExitTypes' /\ ScreenTypes' /\ RestTypes'
  <2>1. ExitTypes'
    BY <1>0, <1>8 DEF StartExit, ExitTypes, ScreenTypes, ExitRecord
  <2>2. RestTypes'
    BY <1>0, <1>8, LeaveTypes DEF StartExit, RestTypes
  <2>3. QED
    BY <1>0, <1>8, <2>1, <2>2 DEF StartExit, CallTypes, ScreenTypes
<1>9. ASSUME NEW e \in Exits, Flushed(e) \/ FlushFails(e) \/ Closed(e)
      PROVE  CallTypes' /\ ExitTypes' /\ ScreenTypes' /\ RestTypes'
  <2>1. ExitTypes'
    <3>1. exit[e] \in ExitRecord /\ exit[e].at # "none" /\ exit[e].comic # {}
      BY <1>0, <1>9 DEF Flushed, FlushFails, Closed, ExitTypes
    <3>2. /\ [exit[e] EXCEPT !.at = "close"] \in ExitRecord
          /\ [exit[e] EXCEPT !.at = "close"].comic = exit[e].comic
          /\ [exit[e] EXCEPT !.at = "go"] \in ExitRecord
          /\ [exit[e] EXCEPT !.at = "go"].comic = exit[e].comic
      BY <3>1 DEF ExitRecord
    <3>3. NoExit \in ExitRecord /\ NoExit.at = "none"
      BY DEF NoExit, ExitRecord, One
    <3>4. \/ exit' = [exit EXCEPT ![e] = [exit[e] EXCEPT !.at = "close"]]
          \/ exit' = [exit EXCEPT ![e] = [exit[e] EXCEPT !.at = "go"]]
          \/ exit' = [exit EXCEPT ![e] = NoExit]
      BY <1>0, <1>9 DEF Flushed, FlushFails, Closed, ExitTypes
    <3>5. QED
      BY <1>0, <3>1, <3>2, <3>3, <3>4 DEF ExitTypes
  <2>2. left' \subseteq Comics /\ lost' \subseteq Comics /\ opened' \subseteq Comics
    BY <1>0, <1>9, CallComic, LeaveTypes DEF Flushed, FlushFails, Closed, RestTypes, Robbed, Forgotten
  <2>3. RestTypes'
    BY <1>0, <1>9, <2>2 DEF Flushed, FlushFails, Closed, RestTypes
  <2>4. QED
    BY <1>0, <1>9, <2>1, <2>3 DEF Flushed, FlushFails, Closed, CallTypes, ScreenTypes
<1>10. ASSUME NEW e \in Exits, Pop(e)
       PROVE  CallTypes' /\ ExitTypes' /\ ScreenTypes' /\ RestTypes'
  <2> DEFINE rest == [exit EXCEPT ![e] = NoExit]
  <2>1. rest \in [Exits -> ExitRecord] /\ \A f \in Exits : rest[f].at # "none" => rest[f].comic # {}
    BY <1>0 DEF ExitTypes, ExitRecord, NoExit, One
  <2>2. \/ screen' = Off /\ exit' = Disowned(rest) /\ call' = Disowned(call)
        \/ exit' = rest /\ UNCHANGED <<screen, call>>
    BY <1>10 DEF Pop
  <2> HIDE DEF rest
  <2>3. ExitTypes'
    <3>1. CASE exit' = rest
      BY <2>1, <3>1 DEF ExitTypes
    <3>2. CASE exit' = Disowned(rest)
      <4>1. /\ Disowned(rest) \in [Exits -> ExitRecord]
            /\ \A f \in Exits : /\ Disowned(rest)[f].at = rest[f].at
                               /\ Disowned(rest)[f].comic = rest[f].comic
        BY <2>1, DisownedExits
      <4>2. QED
        BY <2>1, <3>2, <4>1 DEF ExitTypes
    <3>3. QED
      BY <2>2, <3>1, <3>2
  <2>4. CallTypes'
    BY <1>0, <2>2, DisownedCalls DEF CallTypes
  <2>5. ScreenTypes'
    <3>0. screen' = Off \/ screen' = screen
      BY <2>2
    <3>1. Off \in [at : {"off", "loading", "shown", "failed"}, comic : One]
      BY DEF Off, One
    <3>2. QED
      <4>1. CASE screen' = Off
        BY <3>1, <4>1 DEF ScreenTypes, Off
      <4>2. CASE screen' = screen
        BY <1>0, <4>2 DEF ScreenTypes
      <4>3. QED
        BY <3>0, <4>1, <4>2
  <2>6. RestTypes'
    BY <1>0, <1>10, LeaveTypes DEF Pop, RestTypes
  <2>7. QED
    BY <2>3, <2>4, <2>5, <2>6
<1>11. ASSUME NEW e \in Exits, GoOn(e)
       PROVE  CallTypes' /\ ExitTypes' /\ ScreenTypes' /\ RestTypes'
  <2> DEFINE rest == [exit EXCEPT ![e] = NoExit]
  <2>1. rest \in [Exits -> ExitRecord] /\ \A f \in Exits : rest[f].at # "none" => rest[f].comic # {}
    BY <1>0 DEF ExitTypes, ExitRecord, NoExit, One
  <2>2. exit' = Disowned(rest)
    BY <1>11 DEF GoOn
  <2> HIDE DEF rest
  <2>3. ExitTypes'
    BY <2>1, <2>2, DisownedExits DEF ExitTypes
  <2>4. /\ Disowned(call) \in [Callers -> CallRecord]
        /\ \A t \in Callers : Disowned(call)[t].run # "none" \/ Disowned(call)[t].wait # "none"
                                => Disowned(call)[t].comic # {}
    BY <1>0, DisownedCalls DEF CallTypes
  <2>5. PICK c \in exit[e].next : Enter(c, Disowned(call))
    BY <1>11 DEF GoOn
  <2>6. CallTypes' /\ ScreenTypes'
    BY <2>4, <2>5, CallComic, EnterTypes DEF CallTypes, ScreenTypes
  <2>7. RestTypes'
    BY <1>0, <1>11, CallComic, LeaveTypes DEF GoOn, RestTypes
  <2>8. QED
    BY <2>3, <2>6, <2>7
<1>12. CASE Others
  <2>1. lost' \subseteq Comics /\ left' \subseteq Comics
    BY <1>0, <1>12, LeaveTypes DEF Others, RestTypes, Robbed
  <2>2. others' \in 0 .. MaxOthers
    BY <1>0, <1>12 DEF Others, RestTypes
  <2>3. QED
    <3>1. UNCHANGED <<screen, opened, call, exit, visits>>
      BY <1>12 DEF Others
    <3>2. CallTypes' /\ ExitTypes'
      BY <1>0, <3>1 DEF CallTypes, ExitTypes
    <3>3. ScreenTypes' /\ RestTypes'
      BY <1>0, <2>1, <2>2, <3>1 DEF ScreenTypes, RestTypes
    <3>4. QED
      BY <3>2, <3>3
<1>13. QED
  BY <1>1, <1>3, <1>4, <1>5, <1>6, <1>7, <1>8, <1>9, <1>10, <1>11, <1>12 DEF FlowNext

\* A comic with a reading screen on it has its session.
OpensStored == \A d \in Comics : opens[d] > 0 => Stored(d)

\* With no idle session there is nothing to evict.
LEMMA NothingEvicted ==
  ASSUME NEW s \in [Comics -> Session \cup {NoSession}],
         \A d \in Comics : s[d] # NoSession => s[d].ref >= 1,
         NEW ord \in Seq(Comics)
  PROVE  \A d \in Comics : d \notin Evicted(s, ord)
<1> DEFINE busy == {c \in Comics : s[c] = NoSession \/ s[c].ref > 0}
           idle == Kept(ord, busy)
<1>3. \A d \in Comics : d \in busy
  BY DEF Session
<1>5. Evicted(s, ord) = {idle[i] : i \in {j \in 1..Len(idle) : j <= Len(ord) - MaxSessions}}
  BY DEF Evicted
<1> HIDE DEF busy
<1>1. Listed(idle) = Listed(ord) \ busy /\ idle \in Seq(Comics)
  BY KeptFacts
<1> HIDE DEF idle
<1>2. Evicted(s, ord) \subseteq Listed(idle)
  BY <1>1, <1>5 DEF Listed
<1>4. QED
  BY <1>1, <1>2, <1>3

\* What an acquisition does to the calls.
LEMMA AcquiredFacts ==
  ASSUME Inv, NEW t \in Callers, pc[t] \in {"first", "second"}, Acquired(t)
  PROVE  /\ \A u \in Callers \ {t} : pc'[u] = pc[u] /\ arg'[u] = arg[u]
         /\ \/ pc'[t] = "idle"
            \/ pc'[t] = "body" /\ arg'[t] = arg[t] /\ arg[t].kind # "open"
  BY DEF Acquired, Inv, CallTypeOK

LEMMA NewOpensFacts ==
  ASSUME Inv, NEW t \in Callers, pc[t] \in {"first", "second"}, NEW d \in Comics, NewOpens(t)[d] > 0
  PROVE  opens[d] > 0 \/ (d = arg[t].comic /\ arg[t].kind = "open")
<1>1. arg[t].comic \in Comics /\ opens \in [Comics -> Nat]
  BY NewOpensType DEF Inv, ObservedTypeOK
<1>2. CASE d # arg[t].comic
  BY <1>1, <1>2 DEF NewOpens
<1>3. CASE d = arg[t].comic /\ arg[t].kind # "open"
  BY <1>1, <1>3 DEF NewOpens
<1>4. QED
  BY <1>2, <1>3

\* A step of an acquisition: it takes no session away, and no comic gets a screen
\* on it but its own, when the call returns.
LEMMA CoreStepFacts ==
  ASSUME Inv, Coherent, NEW t \in Callers, CoreStep(t)
  PROVE  /\ \A d \in Comics : opens'[d] > 0 =>
              opens[d] > 0 \/ (d = arg[t].comic /\ arg[t].kind = "open" /\ pc'[t] = "idle")
         /\ \A d \in Comics : Stored(d) => Stored(d)'
         /\ \A u \in Callers \ {t} : pc'[u] = pc[u] /\ arg'[u] = arg[u]
         /\ \/ pc'[t] = "idle"
            \/ pc'[t] \in {"first", "second"} /\ arg'[t] = arg[t]
            \/ pc'[t] = "body" /\ arg'[t] = arg[t] /\ arg[t].kind # "open"
<1> DEFINE Facts ==
         /\ \A d \in Comics : opens'[d] > 0 =>
              opens[d] > 0 \/ (d = arg[t].comic /\ arg[t].kind = "open" /\ pc'[t] = "idle")
         /\ \A d \in Comics : Stored(d) => Stored(d)'
         /\ \A u \in Callers \ {t} : pc'[u] = pc[u] /\ arg'[u] = arg[u]
         /\ \/ pc'[t] = "idle"
            \/ pc'[t] \in {"first", "second"} /\ arg'[t] = arg[t]
            \/ pc'[t] = "body" /\ arg'[t] = arg[t] /\ arg[t].kind # "open"
<1>1. pc \in [Callers -> Location] /\ arg \in [Callers -> Arg \cup {NoArg}]
  BY DEF Inv, CallTypeOK
<1>2. CASE CheckTrashed(t)
  BY <1>1, <1>2 DEF CheckTrashed, Return, Stored
<1>3. CASE Fail(t)
  BY <1>1, <1>3 DEF Fail, Return, Stored
<1>4. CASE Mismatch(t)
  BY <1>1, <1>4 DEF Mismatch, Return, Stored
<1>5. CASE pc[t] \in {"first", "second"} /\ Reuse(t)
  <2>1. /\ sessions' = [sessions EXCEPT ![arg[t].comic].ref = @ + 1]
        /\ opens' = NewOpens(t) /\ Acquired(t) /\ Stored(arg[t].comic)
    BY <1>5 DEF Reuse, SamePath
  <2>2. /\ arg[t].comic \in Comics
        /\ sessions[arg[t].comic] \in Session
    BY <1>5, <2>1, NewOpensType DEF Inv, StoreTypeOK, Stored
  <2>3. \A d \in Comics : Stored(d) => Stored(d)'
    BY <2>1, <2>2, SessionAssumption DEF Inv, StoreTypeOK, Stored, Session
  <2>4. QED
    BY <1>5, <2>1, <2>3, AcquiredFacts, NewOpensFacts
<1>6. CASE pc[t] = "first" /\ FirstMiss(t)
  <2>1. RemoveSessions({arg[t].comic}) /\ pc' = [pc EXCEPT ![t] = "second"] /\ arg' = arg
    BY <1>6 DEF FirstMiss
  <2>2. arg[t].comic \in Comics
    BY <1>6, NewOpensType
  <2>3. ~ Stored(arg[t].comic)
    BY <1>6, <2>2 DEF FirstMiss, SamePath, OtherPathInUse, Inv, NoIdleSession, StoreTypeOK, Stored, Session
  <2>4. \A d \in Comics : Stored(d) => Stored(d)'
    BY <2>1, <2>3 DEF RemoveSessions, Stored
  <2>5. \A d \in Comics : opens'[d] > 0 => opens[d] > 0
    BY <2>1 DEF RemoveSessions
  <2>6. QED
    BY <1>1, <2>1, <2>4, <2>5
<1>7. CASE pc[t] = "second" /\ Insert(t)
  <2> DEFINE c == arg[t].comic
             s == [sessions EXCEPT ![c] = [path |-> arg[t].path, ref |-> 1]]
             gone == Evicted(s, Touched(c))
  <2>1. c \in Comics /\ arg[t].path \in Paths
    BY <1>7, NewOpensType
  <2>2. /\ sessions' = [d \in Comics |-> IF d \in gone THEN NoSession ELSE s[d]]
        /\ opens' = [d \in Comics |-> IF d \in gone THEN 0 ELSE NewOpens(t)[d]]
        /\ Acquired(t)
    BY <1>7 DEF Insert
  <2>3. /\ s \in [Comics -> Session \cup {NoSession}]
        /\ \A d \in Comics : s[d] # NoSession => s[d].ref >= 1
        /\ \A d \in Comics : Stored(d) => s[d] # NoSession
    BY <2>1, SessionAssumption DEF Inv, StoreTypeOK, NoIdleSession, Stored, Session
  <2>4. Touched(c) \in Seq(Comics)
    BY <2>1, TouchedFacts, OrderAsList DEF Coherent
  <2> HIDE DEF s, c
  <2>5. \A d \in Comics : d \notin gone
    BY <2>3, <2>4, NothingEvicted
  <2> HIDE DEF gone
  <2>6. \A d \in Comics : sessions'[d] = s[d] /\ opens'[d] = NewOpens(t)[d]
    BY <2>2, <2>5
  <2>7. \A d \in Comics : Stored(d) => Stored(d)'
    BY <2>3, <2>6 DEF Stored
  <2>8. QED
    BY <1>7, <2>2, <2>6, <2>7, AcquiredFacts, NewOpensFacts
<1>8. QED
  BY <1>2, <1>3, <1>4, <1>5, <1>6, <1>7 DEF CoreStep, FirstLock, SecondLock

-----------------------------------------------------------------------------
(* The app refines the store *)

\* Closing the comic of a call or of an exit is one close_reader, or nothing.
LEMMA CoreCloseFacts ==
  ASSUME Inv, OpensStored, NEW C \in One, C # {}, \A c \in C : CoreClose(c)
  PROVE  /\ [Next]_vars
         /\ UNCHANGED <<pc, arg>>
         /\ \A d \in Comics \ C : (Stored(d)' <=> Stored(d)) /\ opens'[d] = opens[d]
         /\ \A d \in C : d \in Comics /\ ~ opens'[d] > 0
<1>1. PICK c \in Comics : C = {c}
  BY DEF One
<1>2. CoreClose(c)
  BY <1>1
<1>3. CASE Stored(c) /\ Close(c)
  <2>1. [Next]_vars /\ UNCHANGED <<pc, arg>>
    BY <1>3 DEF Next, Close
  <2>2. /\ sessions' = [d \in Comics |-> IF d \in {c} THEN NoSession ELSE sessions[d]]
        /\ opens' = [d \in Comics |-> IF d \in {c} THEN 0 ELSE opens[d]]
    BY <1>3 DEF Close, RemoveSessions
  <2>3. QED
    BY <1>1, <2>1, <2>2 DEF Stored
<1>4. CASE ~ Stored(c) /\ UNCHANGED vars
  <2>1. UNCHANGED <<sessions, opens, pc, arg>>
    BY <1>4 DEF vars
  <2>2. QED
    BY <1>1, <1>4, <2>1 DEF Stored, OpensStored
<1>5. QED
  BY <1>2, <1>3, <1>4 DEF CoreClose

LEMMA FlowStepIsStoreStep ==
  ASSUME Inv, OpensStored, FlowTypes, [FlowNext]_all
  PROVE  [Next]_vars
<1>1. CASE UNCHANGED all
  BY <1>1 DEF all
<1>2. ASSUME NEW c \in Comics, NEW calls, Enter(c, calls) PROVE [Next]_vars
  BY <1>2 DEF Enter, Ask, Next, Call
<1>3. ASSUME NEW c \in Comics, Visit(c) PROVE [Next]_vars
  BY <1>2, <1>3 DEF Visit
<1>4. CASE Retry
  BY <1>2, <1>4, CallComic DEF Retry
<1>5. ASSUME NEW t \in Callers, NEW c \in Comics, OpenAside(t, c) PROVE [Next]_vars
  BY <1>5 DEF OpenAside, Ask, Next, Call
<1>6. ASSUME NEW t \in Callers, CoreOpens(t) PROVE [Next]_vars
  BY <1>6 DEF CoreOpens, CoreStep, Next, Call
<1>7. ASSUME NEW t \in Callers, Lists(t) \/ ListFails(t) \/ Timeout(t) PROVE [Next]_vars
  BY <1>7 DEF Lists, ListFails, Timeout
<1>8. ASSUME NEW t \in Callers, CleansUp(t) PROVE [Next]_vars
  BY <1>8, CallComic, CoreCloseFacts DEF CleansUp, FlowTypes, Named
<1>9. ASSUME NEW e \in Exits, NEW next \in One, StartExit(e, next) PROVE [Next]_vars
  BY <1>9 DEF StartExit
<1>10. ASSUME NEW e \in Exits, Flushed(e) \/ FlushFails(e) \/ Pop(e) PROVE [Next]_vars
  BY <1>10 DEF Flushed, FlushFails, Pop
<1>11. ASSUME NEW e \in Exits, Closed(e) PROVE [Next]_vars
  BY <1>11, CallComic, CoreCloseFacts DEF Closed, FlowTypes, Named
<1>12. ASSUME NEW e \in Exits, GoOn(e) PROVE [Next]_vars
  BY <1>2, <1>12, CallComic DEF GoOn
<1>13. CASE Others
  BY <1>13 DEF Others, Starting, Running, Next, Call
<1>14. QED
  BY <1>1, <1>3, <1>4, <1>5, <1>6, <1>7, <1>8, <1>9, <1>10, <1>11, <1>12, <1>13 DEF FlowNext

\* Only a comic with its session has a screen on it.
LEMMA NextOpensStored ==
  ASSUME Inv, Coherent, OpensStored, [Next]_vars
  PROVE  OpensStored'
<1>1. ASSUME UNCHANGED <<sessions, opens>> PROVE OpensStored'
  BY <1>1 DEF OpensStored, Stored
<1>2. ASSUME NEW C \in SUBSET Comics, RemoveSessions(C) PROVE OpensStored'
  BY <1>2 DEF RemoveSessions, OpensStored, Stored
<1>3. ASSUME NEW t \in Callers, CoreStep(t) PROVE OpensStored'
  <2>1. CASE CheckTrashed(t) \/ Fail(t) \/ Mismatch(t)
    BY <1>1, <2>1 DEF CheckTrashed, Fail, Mismatch
  <2>2. ASSUME pc[t] \in {"first", "second"}, NEW s \in [Comics -> Session \cup {NoSession}],
               \A d \in Comics : sessions'[d] = s[d] /\ opens'[d] = NewOpens(t)[d],
               s[arg[t].comic] # NoSession, \A d \in Comics : Stored(d) => s[d] # NoSession
        PROVE  OpensStored'
    BY <2>2, NewOpensFacts DEF OpensStored, Stored
  <2>3. CASE pc[t] \in {"first", "second"} /\ Reuse(t)
    <3> DEFINE s == [sessions EXCEPT ![arg[t].comic].ref = @ + 1]
    <3>1. arg[t].comic \in Comics /\ sessions[arg[t].comic] \in Session
      BY <2>3, NewOpensType DEF Reuse, SamePath, Stored, Inv, StoreTypeOK
    <3>2. /\ s \in [Comics -> Session \cup {NoSession}]
          /\ \A d \in Comics : s[d] # NoSession <=> Stored(d)
      BY <3>1, SessionAssumption DEF Inv, StoreTypeOK, Stored, Session
    <3>3. sessions' = s /\ opens' = NewOpens(t) /\ Stored(arg[t].comic)
      BY <2>3 DEF Reuse, SamePath
    <3> HIDE DEF s
    <3>4. QED
      BY <2>2, <2>3, <3>1, <3>2, <3>3
  <2>4. CASE pc[t] = "first" /\ FirstMiss(t)
    BY <1>2, <2>4, NewOpensType DEF FirstMiss
  <2>5. CASE pc[t] = "second" /\ Insert(t)
    <3>1. \A d \in Comics : opens'[d] > 0 => Stored(d)' \/ d = arg[t].comic
      BY <1>3, CoreStepFacts DEF OpensStored
    <3> DEFINE c == arg[t].comic
               s == [sessions EXCEPT ![c] = [path |-> arg[t].path, ref |-> 1]]
               gone == Evicted(s, Touched(c))
    <3>2. c \in Comics /\ arg[t].path \in Paths
      BY <2>5, NewOpensType
    <3>3. sessions' = [d \in Comics |-> IF d \in gone THEN NoSession ELSE s[d]]
      BY <2>5 DEF Insert
    <3>4. /\ s \in [Comics -> Session \cup {NoSession}]
          /\ \A d \in Comics : s[d] # NoSession => s[d].ref >= 1
          /\ s[c] # NoSession
      BY <3>2, SessionAssumption DEF Inv, StoreTypeOK, NoIdleSession, Stored, Session
    <3>5. Touched(c) \in Seq(Comics)
      BY <3>2, TouchedFacts, OrderAsList DEF Coherent
    <3> HIDE DEF s
    <3>6. \A d \in Comics : d \notin gone
      BY <3>4, <3>5, NothingEvicted
    <3> HIDE DEF gone
    <3>7. sessions'[c] # NoSession
      BY <3>2, <3>3, <3>4, <3>6
    <3>8. QED
      BY <3>1, <3>7 DEF OpensStored, Stored
  <2>6. QED
    BY <1>3, <2>1, <2>3, <2>4, <2>5 DEF CoreStep, FirstLock, SecondLock
<1>4. ASSUME NEW t \in Callers, Release(t) PROVE OpensStored'
  <2>1. PICK c : c = arg[t].comic /\ c \in Comics
    BY <1>4 DEF Release, Inv, CallTypeOK, Arg
  <2>2. sessions \in [Comics -> Session \cup {NoSession}] /\ opens \in [Comics -> Nat]
    BY DEF Inv, StoreTypeOK, ObservedTypeOK
  <2>3. CASE UNCHANGED <<sessions, opens>>
    BY <1>1, <2>3
  <2>4. CASE /\ AfterRelease(sessions[c]) # NoSession
             /\ sessions' = [sessions EXCEPT ![c] = AfterRelease(sessions[c])] /\ opens' = opens
    BY <2>1, <2>2, <2>4 DEF OpensStored, Stored
  <2>5. CASE sessions' = [sessions EXCEPT ![c] = NoSession] /\ opens' = [opens EXCEPT ![c] = 0]
    BY <2>1, <2>2, <2>5 DEF OpensStored, Stored
  <2>6. QED
    BY <1>4, <2>1, <2>3, <2>4, <2>5 DEF Release
<1>5. ASSUME NEW t \in Callers, Call(t) PROVE OpensStored'
  BY <1>1, <1>2, <1>3, <1>4, <1>5
  DEF Call, CoreStep, StartOpen, StartEphemeral, TrashCommit, TrashClose
<1>6. CASE UNCHANGED vars
  BY <1>1, <1>6 DEF vars
<1>7. QED
  BY <1>1, <1>2, <1>5, <1>6 DEF Next, Close, Clear, Restore

-----------------------------------------------------------------------------
(* Every session has its closer *)

\* A call in the core is one of open_reader, for its comic; no other thread runs one.
InCore(t) == pc[t] \in {"check", "first", "second"}
CallsOfFlow ==
  \A t \in Callers :
    /\ call[t].run = "core" =>
         InCore(t) /\ arg[t].kind = "open" /\ call[t].comic = {arg[t].comic}
    /\ call[t].run # "core" /\ InCore(t) => arg[t].kind = "ephemeral"

LEMMA EnterCalls ==
  ASSUME Inv, CallTypes, CallsOfFlow, NEW c \in Comics, NEW calls \in [Callers -> CallRecord],
         \A t \in Callers : /\ calls[t].run = call[t].run /\ calls[t].wait = call[t].wait
                            /\ calls[t].comic = call[t].comic,
         Enter(c, calls)
  PROVE  /\ CallsOfFlow'
         /\ UNCHANGED <<sessions, opens>>
         /\ \A t \in Callers :
              call[t].run = "list" \/ call[t].wait = "close" =>
                /\ call'[t].run = call[t].run /\ call'[t].wait = call[t].wait
                /\ call'[t].comic = call[t].comic
<1>1. CASE UNCHANGED vars /\ call' = calls
  BY <1>1 DEF vars, CallsOfFlow, InCore
<1>2. CASE \E t \in Callers : Ask(t, c) /\ call' = [calls EXCEPT ![t] = Asked(c, TRUE)]
  <2>1. PICK t \in Callers : Ask(t, c) /\ call' = [calls EXCEPT ![t] = Asked(c, TRUE)]
    BY <1>2
  <2>2. PICK p \in Paths : StartOpen(t, c, p)
    BY <2>1 DEF Ask
  <2>3. /\ pc'[t] = "check" /\ arg'[t] = [kind |-> "open", comic |-> c, path |-> p]
        /\ \A u \in Callers \ {t} : pc'[u] = pc[u] /\ arg'[u] = arg[u]
        /\ UNCHANGED <<sessions, opens>>
    BY <2>2 DEF StartOpen, Inv, CallTypeOK
  <2>4. /\ call'[t] = Asked(c, TRUE)
        /\ \A u \in Callers \ {t} : call'[u] = calls[u]
    BY <2>1
  <2>5. Asked(c, TRUE).run = "core" /\ Asked(c, TRUE).comic = {c}
    BY DEF Asked
  <2>6. call[t].run = "none" /\ call[t].wait = "none"
    BY <2>1 DEF Ask, Free, NoCall
  <2>7. CallsOfFlow'
    <3> SUFFICES ASSUME NEW u \in Callers
                 PROVE  /\ call'[u].run = "core" =>
                             InCore(u)' /\ arg'[u].kind = "open" /\ call'[u].comic = {arg'[u].comic}
                        /\ call'[u].run # "core" /\ InCore(u)' => arg'[u].kind = "ephemeral"
      BY DEF CallsOfFlow, InCore
    <3>1. CASE u = t
      <4>1. call'[u].run = "core" /\ call'[u].comic = {c}
        BY <2>4, <2>5, <3>1
      <4>2. pc'[u] = "check" /\ arg'[u].kind = "open" /\ arg'[u].comic = c
        BY <2>3, <3>1
      <4>3. QED
        BY <4>1, <4>2 DEF InCore
    <3>2. CASE u # t
      <4>1. call'[u].run = call[u].run /\ call'[u].comic = call[u].comic
        BY <2>4, <3>2
      <4>2. pc'[u] = pc[u] /\ arg'[u] = arg[u]
        BY <2>3, <3>2
      <4>3. QED
        BY <4>1, <4>2 DEF CallsOfFlow, InCore
    <3>3. QED
      BY <3>1, <3>2
  <2>8. QED
    BY <2>3, <2>4, <2>6, <2>7
<1>3. QED
  BY <1>1, <1>2 DEF Enter

LEMMA DisownedSame ==
  ASSUME CallTypes
  PROVE  \A t \in Callers : /\ Disowned(call)[t].run = call[t].run
                            /\ Disowned(call)[t].wait = call[t].wait
                            /\ Disowned(call)[t].comic = call[t].comic
  BY DisownedCalls DEF CallTypes

\* A step of a call in the core, and of its future.
LEMMA CoreOpensFacts ==
  ASSUME Inv, Coherent, CallTypes, CallsOfFlow, NEW t \in Callers, CoreOpens(t)
  PROVE  /\ CallsOfFlow'
         /\ \A d \in Comics : Stored(d) => Stored(d)'
         /\ \A u \in Callers \ {t} : call'[u] = call[u]
         /\ call[t].wait = "close" => call'[t].wait = "close" /\ call'[t].comic = call[t].comic
         /\ \A d \in Comics : opens'[d] > 0 =>
              \/ opens[d] > 0
              \/ d \in call'[t].comic /\ call'[t].run = "list"
              \/ \E C : C \subseteq Comics /\ d \in C /\ Leave(C)
<1>1. CoreStep(t) /\ call[t].run = "core" /\ call[t] \in CallRecord /\ call \in [Callers -> CallRecord]
  BY DEF CoreOpens, CallTypes
<1>2. InCore(t) /\ arg[t].kind = "open" /\ call[t].comic = {arg[t].comic} /\ arg[t].comic \in Comics
  BY <1>1 DEF CallsOfFlow, InCore, Inv, CallTypeOK, Arg
<1>3. /\ \A d \in Comics : opens'[d] > 0 =>
              opens[d] > 0 \/ (d = arg[t].comic /\ pc'[t] = "idle")
      /\ \A d \in Comics : Stored(d) => Stored(d)'
      /\ \A u \in Callers \ {t} : pc'[u] = pc[u] /\ arg'[u] = arg[u]
      /\ pc'[t] = "idle" \/ (pc'[t] \in {"first", "second"} /\ arg'[t] = arg[t])
  BY <1>1, <1>2, CoreStepFacts
<1>4. \A u \in Callers \ {t} : call'[u] = call[u]
  BY <1>1, CallStep
<1>5. CASE pc'[t] # "idle"
  <2>1. call' = call
    BY <1>5 DEF CoreOpens
  <2>2. CallsOfFlow'
    BY <1>2, <1>3, <1>5, <2>1 DEF CallsOfFlow, InCore
  <2>3. QED
    BY <1>3, <1>5, <2>1, <2>2
<1>6. CASE pc'[t] = "idle"
  <2>1. \/ /\ call[t].wait = "result" /\ Got(t)
           /\ call' = [call EXCEPT ![t] = [call[t] EXCEPT !.run = "list"]]
        \/ /\ call[t].wait = "result" /\ ~ Got(t)
           /\ call' = [call EXCEPT ![t] = AfterError(call[t])]
        \/ /\ call[t].wait # "result"
           /\ call' = [call EXCEPT ![t] = IF call[t].wait = "none" THEN NoCall ELSE [call[t] EXCEPT !.run = "none"]]
           /\ Leave(IF Got(t) THEN call[t].comic ELSE {})
    BY <1>1, <1>6 DEF CoreOpens
  <2>2. /\ [call[t] EXCEPT !.run = "list"].run = "list"
        /\ [call[t] EXCEPT !.run = "list"].comic = call[t].comic
        /\ [call[t] EXCEPT !.run = "none"].run = "none"
        /\ [call[t] EXCEPT !.run = "none"].comic = call[t].comic
        /\ [call[t] EXCEPT !.run = "none"].wait = call[t].wait
        /\ AfterError(call[t]).run = "none" /\ NoCall.run = "none"
    BY <1>1 DEF CallRecord, AfterError, NoCall
  <2>3. call'[t].run # "core"
    BY <1>1, <2>1, <2>2
  <2>4. CallsOfFlow'
    BY <1>3, <1>4, <1>6, <2>3 DEF CallsOfFlow, InCore
  <2>5. call[t].wait = "close" => call'[t].wait = "close" /\ call'[t].comic = call[t].comic
    BY <1>1, <2>1, <2>2
  <2>6. ASSUME NEW d \in Comics, opens'[d] > 0, ~ opens[d] > 0
        PROVE  \/ d \in call'[t].comic /\ call'[t].run = "list"
               \/ \E C : C \subseteq Comics /\ d \in C /\ Leave(C)
    <3>1. d = arg[t].comic /\ call[t].comic = {d}
      BY <1>2, <1>3, <2>6
    <3>2. opens[d] \in Nat
      BY DEF Inv, ObservedTypeOK
    <3>3. opens[d] = 0
      BY <2>6, <3>2
    <3>4. Got(t)
      BY <2>6, <3>1, <3>3 DEF Got
    <3>5. CASE call[t].wait = "result"
      BY <1>1, <2>1, <2>2, <3>1, <3>4, <3>5
    <3>6. CASE call[t].wait # "result"
      <4>1. Leave(call[t].comic)
        BY <2>1, <3>4, <3>6
      <4>2. QED
        BY <3>1, <4>1
    <3>7. QED
      BY <3>5, <3>6
  <2>7. QED
    BY <1>3, <1>4, <2>4, <2>5, <2>6
<1>7. QED
  BY <1>5, <1>6

\* What the others do: no new screen on a comic, and no open_reader.
LEMMA OthersFacts ==
  ASSUME Inv, Coherent, CallTypes, CallsOfFlow, Others
  PROVE  CallsOfFlow' /\ \A d \in Comics : opens'[d] > 0 => opens[d] > 0
<1> DEFINE Good == CallsOfFlow' /\ \A d \in Comics : opens'[d] > 0 => opens[d] > 0
<1>1. call' = call /\ opens \in [Comics -> Nat]
  BY DEF Others, Inv, ObservedTypeOK
<1>2. ASSUME NEW t \in Callers, call[t] = NoCall,
             \A u \in Callers \ {t} : pc'[u] = pc[u] /\ arg'[u] = arg[u],
             pc'[t] \in {"check", "first", "second"} => arg'[t].kind = "ephemeral"
      PROVE  CallsOfFlow'
  <2>1. call[t].run = "none"
    BY <1>2 DEF NoCall
  <2>2. QED
    BY <1>1, <1>2, <2>1 DEF CallsOfFlow, InCore
<1>3. ASSUME UNCHANGED <<pc, arg>> PROVE CallsOfFlow'
  BY <1>1, <1>3 DEF CallsOfFlow, InCore
<1>4. ASSUME NEW C, RemoveSessions(C) PROVE \A d \in Comics : opens'[d] > 0 => opens[d] > 0
  BY <1>4 DEF RemoveSessions
<1>5. ASSUME NEW t \in Callers, call[t] = NoCall, NEW c \in Comics, NEW p \in Paths, StartEphemeral(t, c, p)
      PROVE  Good
  BY <1>2, <1>5 DEF StartEphemeral, Inv, CallTypeOK
<1>6. ASSUME NEW t \in Callers, call[t] = NoCall, NEW C, TrashCommit(t, C) PROVE Good
  BY <1>2, <1>6 DEF TrashCommit, Inv, CallTypeOK
<1>7. ASSUME NEW t \in Callers, Running(t) PROVE Good
  <2>1. call[t] = NoCall
    BY <1>7 DEF Running
  <2>2. CASE CoreStep(t)
    <3>1. InCore(t)
      BY <2>2 DEF CoreStep, CheckTrashed, Fail, FirstLock, SecondLock, InCore
    <3>2. arg[t].kind = "ephemeral"
      BY <2>1, <3>1 DEF CallsOfFlow, NoCall
    <3>3. QED
      BY <1>2, <2>1, <2>2, <3>2, CoreStepFacts
  <2>3. CASE Release(t)
    <3>1. /\ pc'[t] = "idle" /\ \A u \in Callers \ {t} : pc'[u] = pc[u] /\ arg'[u] = arg[u]
      BY <2>3 DEF Release, Return, Inv, CallTypeOK
    <3>2. \A d \in Comics : opens'[d] > 0 => opens[d] > 0
      BY <1>1, <2>3 DEF Release
    <3>3. QED
      BY <1>2, <2>1, <3>1, <3>2
  <2>4. QED
    BY <1>7, <2>2, <2>3 DEF Running, CoreStep
<1>8. ASSUME NEW t \in Callers, NEW c \in Comics, TrashClose(t, c) PROVE Good
  <2>1. \A d \in Comics : opens'[d] > 0 => opens[d] > 0
    BY <1>4, <1>8 DEF TrashClose
  <2>2. /\ pc[t] = "closing" /\ pc'[t] \in {"idle", "closing"}
        /\ \A u \in Callers \ {t} : pc'[u] = pc[u] /\ arg' = arg
    BY <1>8 DEF TrashClose, Inv, CallTypeOK
  <2>3. CallsOfFlow'
    BY <1>1, <2>2 DEF CallsOfFlow, InCore
  <2>4. QED
    BY <2>1, <2>3
<1>9. CASE Clear
  BY <1>3, <1>4, <1>9 DEF Clear
<1>10. ASSUME NEW C, Restore(C) PROVE Good
  BY <1>3, <1>10 DEF Restore
<1>11. QED
  BY <1>5, <1>6, <1>7, <1>8, <1>9, <1>10 DEF Others, Starting

\* The closer of a session that a screen has opened is the screen, unless its exit has
\* closed it already, or a call that has yet to list the pages or to clean up.
Closes(k, d) == d \in k.comic /\ (k.run = "list" \/ k.wait = "close")
HasCloser(d) ==
  \/ screen.comic = {d} /\ ~ JustClosed({d})
  \/ \E t \in Callers : Closes(call[t], d)
OpensOwned == \A d \in Comics : opens[d] > 0 => d \in left \/ HasCloser(d)

LEMMA LeaveFacts ==
  ASSUME NEW C, Leave(C)
  PROVE  \A d \in left \cup C : Stored(d)' => d \in left'
  BY DEF Leave, Stored

\* The steps that take no closer away.
LEMMA ClosersKept ==
  ASSUME OpensStored', NEW C, Leave(C), NEW d \in Comics, opens'[d] > 0,
         \/ opens[d] > 0 /\ d \in left
         \/ d \in C
         \/ HasCloser(d)'
  PROVE  d \in left' \/ HasCloser(d)'
  BY LeaveFacts DEF OpensStored

LEMMA OwnedAfterLists ==
  ASSUME OpensStored', FlowTypes, OpensOwned, NEW t \in Callers, Lists(t)
  PROVE  OpensOwned'
<1>0. call \in [Callers -> CallRecord] /\ screen.comic \in One
  BY CallComic, FlowTypesParts DEF CallTypes
<1>1. /\ call' = [call EXCEPT ![t] = NoCall]
      /\ UNCHANGED <<vars, exit>>
      /\ screen'.comic = screen.comic
  <2>1. screen' = screen \/ \E at \in {"shown", "failed"} : screen' = [screen EXCEPT !.at = at]
    BY DEF Lists
  <2>2. screen'.comic = screen.comic
    BY <2>1, FlowTypesParts DEF ScreenTypes
  <2>3. QED
    BY <2>2 DEF Lists
<1>2. \A u \in Callers \ {t} : call'[u] = call[u]
  BY <1>0, <1>1
<1>3. UNCHANGED <<sessions, opens>>
  BY <1>1 DEF vars
<1>4. \A D : JustClosed(D)' <=> JustClosed(D)
  BY <1>1 DEF JustClosed
<1>5. PICK C : Leave(C) /\ C = IF call[t].own /\ ~ JustClosed(call[t].comic) THEN {} ELSE call[t].comic
  BY DEF Lists
<1>6. ASSUME NEW d \in Comics, opens'[d] > 0 PROVE d \in left' \/ HasCloser(d)'
  <2>1. opens[d] > 0
    BY <1>3, <1>6
  <2>2. CASE d \in left
    BY <1>5, <1>6, <2>1, <2>2, ClosersKept
  <2>3. CASE screen.comic = {d} /\ ~ JustClosed({d})
    <3>1. HasCloser(d)'
      BY <1>1, <1>4, <2>3 DEF HasCloser
    <3>2. QED
      BY <3>1
  <2>4. CASE \E u \in Callers \ {t} : Closes(call[u], d)
    <3>1. HasCloser(d)'
      BY <1>2, <2>4 DEF HasCloser
    <3>2. QED
      BY <3>1
  <2>5. CASE Closes(call[t], d)
    <3>1. d \in call[t].comic /\ call[t].comic = {d}
      BY <2>5, CallComic DEF Closes, One
    <3>2. CASE call[t].own /\ ~ JustClosed(call[t].comic)
      <4>1. screen.comic = {d}
        BY <3>1, <3>2 DEF FlowTypes, Owned
      <4>2. QED
        BY <2>3, <3>1, <3>2, <4>1
    <3>3. CASE d \in C
      BY <1>5, <1>6, <3>3, ClosersKept
    <3>4. QED
      BY <1>5, <3>1, <3>2, <3>3
  <2>6. QED
    BY <2>1, <2>2, <2>3, <2>4, <2>5 DEF OpensOwned, HasCloser
<1>7. QED
  BY <1>6 DEF OpensOwned

LEMMA OwnedAfterCleansUp ==
  ASSUME Inv, OpensStored, OpensStored', FlowTypes, OpensOwned, NEW t \in Callers, CleansUp(t)
  PROVE  OpensOwned'
<1>0. call \in [Callers -> CallRecord]
  BY FlowTypesParts DEF CallTypes
<1>1. call[t].comic \in One /\ call[t].comic # {} /\ \A c \in call[t].comic : CoreClose(c)
  BY CallComic DEF CleansUp, FlowTypes, Named
<1>2. /\ \A d \in Comics \ call[t].comic : opens'[d] = opens[d]
      /\ \A d \in call[t].comic : ~ opens'[d] > 0
  BY <1>1, CoreCloseFacts
<1>3. /\ \A u \in Callers \ {t} : call'[u] = call[u]
      /\ exit' = exit /\ Leave({})
  BY <1>0, CallStep, FlowTypesParts DEF CleansUp
<1>4. screen'.comic = screen.comic
  BY FlowTypesParts DEF CleansUp, ScreenTypes
<1>5. \A D : JustClosed(D)' <=> JustClosed(D)
  BY <1>3 DEF JustClosed
<1>6. ASSUME NEW d \in Comics, opens'[d] > 0 PROVE d \in left' \/ HasCloser(d)'
  <2>1. opens[d] > 0 /\ d \notin call[t].comic
    BY <1>2, <1>6
  <2>2. CASE d \in left
    BY <1>3, <1>6, <2>1, <2>2, ClosersKept
  <2>3. CASE HasCloser(d)
    <3>1. HasCloser(d)'
      BY <1>3, <1>4, <1>5, <2>1, <2>3 DEF HasCloser, Closes
    <3>2. QED
      BY <3>1
  <2>4. QED
    BY <2>1, <2>2, <2>3 DEF OpensOwned
<1>7. QED
  BY <1>6 DEF OpensOwned

LEMMA OwnedAfterPop ==
  ASSUME OpensStored', FlowTypes, OpensOwned, NEW e \in Exits, Pop(e)
  PROVE  OpensOwned'
<1>1. CallTypes /\ ExitTypes
  BY FlowTypesParts
<1>2. opens' = opens /\ Leave({}) /\ exit[e].at = "go"
  BY DEF Pop, vars
<1>3. \A t \in Callers : \A d : Closes(call[t], d) => Closes(call'[t], d)
  BY <1>1, DisownedSame DEF Pop, Closes
<1>4. CASE exit[e].own
  <2>1. exit[e].comic = screen.comic
    BY <1>4 DEF FlowTypes, Owned
  <2>2. \A d : screen.comic = {d} => JustClosed({d})
    BY <1>2, <1>4, <2>1 DEF JustClosed
  <2>3. ASSUME NEW d \in Comics, opens'[d] > 0 PROVE d \in left' \/ HasCloser(d)'
    <3>1. d \in left \/ HasCloser(d)'
      BY <1>2, <1>3, <2>2, <2>3 DEF OpensOwned, HasCloser
    <3>2. QED
      BY <1>2, <2>3, <3>1, ClosersKept
  <2>4. QED
    BY <2>3 DEF OpensOwned
<1>5. CASE ~ exit[e].own
  <2>1. exit' = [exit EXCEPT ![e] = NoExit] /\ screen' = screen
    BY <1>5 DEF Pop
  <2>2. \A f \in Exits : exit'[f].own => exit'[f] = exit[f]
    BY <1>1, <2>1 DEF ExitTypes, NoExit
  <2>3. \A D : JustClosed(D)' => JustClosed(D)
    BY <2>2 DEF JustClosed
  <2>4. ASSUME NEW d \in Comics, opens'[d] > 0 PROVE d \in left' \/ HasCloser(d)'
    <3>1. d \in left \/ HasCloser(d)'
      BY <1>2, <1>3, <2>1, <2>3, <2>4 DEF OpensOwned, HasCloser
    <3>2. QED
      BY <1>2, <2>4, <3>1, ClosersKept
  <2>5. QED
    BY <2>4 DEF OpensOwned
<1>6. QED
  BY <1>4, <1>5

LEMMA OwnedAfterGoOn ==
  ASSUME Inv, OpensStored', CallsOfFlow, FlowTypes, OpensOwned, NEW e \in Exits, GoOn(e)
  PROVE  OpensOwned'
<1>1. CallTypes /\ ExitTypes /\ ScreenTypes
  BY FlowTypesParts
<1>2. PICK c \in exit[e].next : Enter(c, Disowned(call))
  BY DEF GoOn
<1>3. c \in Comics /\ Disowned(call) \in [Callers -> CallRecord]
  BY <1>1, CallComic, DisownedCalls DEF CallTypes
<1>4. /\ opens' = opens
      /\ \A t \in Callers : \A d : Closes(call[t], d) => Closes(call'[t], d)
  BY <1>1, <1>2, <1>3, DisownedSame, EnterCalls DEF Closes
<1>5. /\ exit[e].at = "go"
      /\ Leave(IF exit[e].own THEN {} ELSE screen.comic)
  BY DEF GoOn
<1>6. ASSUME NEW d \in Comics, opens'[d] > 0 PROVE d \in left' \/ HasCloser(d)'
  <2>1. d \in left \/ (screen.comic = {d} /\ ~ JustClosed({d})) \/ \E t \in Callers : Closes(call[t], d)
    BY <1>4, <1>6 DEF OpensOwned, HasCloser
  <2>2. CASE d \in left
    BY <1>4, <1>5, <1>6, <2>2, ClosersKept
  <2>3. CASE \E t \in Callers : Closes(call[t], d)
    <3>1. HasCloser(d)'
      BY <1>4, <2>3 DEF HasCloser
    <3>2. QED
      BY <3>1
  <2>4. CASE screen.comic = {d} /\ ~ JustClosed({d})
    <3>1. ~ exit[e].own
      BY <1>5, <2>4 DEF JustClosed, FlowTypes, Owned
    <3>2. d \in screen.comic /\ Leave(screen.comic)
      BY <1>5, <2>4, <3>1
    <3>3. QED
      BY <1>6, <3>2, ClosersKept
  <2>5. QED
    BY <2>1, <2>2, <2>3, <2>4
<1>7. QED
  BY <1>6 DEF OpensOwned

LEMMA OwnedAfterClosed ==
  ASSUME Inv, OpensStored, OpensStored', FlowTypes, OpensOwned, NEW e \in Exits, Closed(e)
  PROVE  OpensOwned'
<1>0. exit \in [Exits -> ExitRecord]
  BY FlowTypesParts DEF ExitTypes
<1>1. exit[e].comic \in One /\ exit[e].comic # {} /\ \A c \in exit[e].comic : CoreClose(c)
  BY CallComic DEF Closed, FlowTypes, Named
<1>2. /\ \A d \in Comics \ exit[e].comic : opens'[d] = opens[d]
      /\ \A d \in exit[e].comic : ~ opens'[d] > 0
  BY <1>1, CoreCloseFacts
<1>3. UNCHANGED <<screen, call>> /\ Leave({})
  BY DEF Closed
<1>4. /\ exit' = [exit EXCEPT ![e] = [exit[e] EXCEPT !.at = "go"]]
      /\ [exit[e] EXCEPT !.at = "go"].comic = exit[e].comic
  BY <1>0 DEF Closed, ExitRecord
<1>5. ASSUME NEW D, JustClosed(D)' PROVE JustClosed(D) \/ D = exit[e].comic
  BY <1>0, <1>4, <1>5 DEF JustClosed
<1>6. ASSUME NEW d \in Comics, opens'[d] > 0 PROVE d \in left' \/ HasCloser(d)'
  <2>1. opens[d] > 0 /\ d \notin exit[e].comic
    BY <1>2, <1>6
  <2>2. d \in left \/ HasCloser(d)'
    BY <1>3, <1>5, <2>1 DEF OpensOwned, HasCloser
  <2>3. QED
    BY <1>3, <1>6, <2>1, <2>2, ClosersKept
<1>7. QED
  BY <1>6 DEF OpensOwned

\* The steps that leave the screen and its closed exits, and what calls are to close.
LEMMA OwnedOtherwise ==
  ASSUME OpensStored', OpensOwned, NEW C, Leave(C),
         \A d \in Comics : opens'[d] > 0 => opens[d] > 0 \/ d \in C \/ HasCloser(d)',
         screen.comic # {} => screen'.comic = screen.comic,
         \A D : JustClosed(D)' => JustClosed(D),
         \A t \in Callers : \A d : Closes(call[t], d) => Closes(call'[t], d)
  PROVE  OpensOwned'
<1>1. ASSUME NEW d \in Comics, HasCloser(d) PROVE HasCloser(d)'
  BY <1>1 DEF HasCloser
<1>2. ASSUME NEW d \in Comics, opens'[d] > 0 PROVE d \in left' \/ HasCloser(d)'
  <2>1. CASE opens[d] > 0
    <3>1. d \in left \/ HasCloser(d)'
      BY <1>1, <2>1 DEF OpensOwned
    <3>2. QED
      BY <1>2, <2>1, <3>1, ClosersKept
  <2>2. QED
    BY <1>2, <2>1, ClosersKept
<1>3. QED
  BY <1>2 DEF OpensOwned

\* Every step of the app keeps a closer for every session, or gives it up.
LEMMA FlowNextOpensOwned ==
  ASSUME Inv, Coherent, OpensStored, OpensStored', FlowTypes, CallsOfFlow, OpensOwned, [FlowNext]_all
  PROVE  CallsOfFlow' /\ OpensOwned'
<1>0. CallTypes /\ ExitTypes /\ ScreenTypes
  BY FlowTypesParts
<1> DEFINE Good == CallsOfFlow' /\ OpensOwned'
<1>a. ASSUME exit' = exit PROVE \A D : JustClosed(D)' => JustClosed(D)
  BY <1>a DEF JustClosed
<1>b. ASSUME UNCHANGED <<vars, call>> PROVE CallsOfFlow' /\ opens' = opens
  BY <1>b DEF vars, CallsOfFlow, InCore
<1>1. CASE UNCHANGED all
  <2>1. UNCHANGED <<vars, screen, call, exit, left>>
    BY <1>1 DEF all
  <2>2. \A d : HasCloser(d)' <=> HasCloser(d)
    BY <2>1 DEF HasCloser, JustClosed
  <2>3. QED
    BY <1>b, <2>1, <2>2 DEF OpensOwned
<1>2. ASSUME NEW c \in Comics, Enter(c, call), exit' = exit, Leave({}), screen.comic # {} => screen.comic = {c}
      PROVE  Good
  <2>1. call \in [Callers -> CallRecord]
    BY <1>0 DEF CallTypes
  <2>2. screen'.comic = {c}
    BY <1>0, <1>2, <2>1, EnterTypes DEF CallTypes
  <2>3. /\ CallsOfFlow' /\ opens' = opens
        /\ \A t \in Callers : \A d : Closes(call[t], d) => Closes(call'[t], d)
    BY <1>0, <1>2, <2>1, EnterCalls DEF Closes
  <2>4. QED
    BY <1>2, <1>a, <2>2, <2>3, OwnedOtherwise
<1>3. ASSUME NEW c \in Comics, Visit(c) PROVE Good
  BY <1>2, <1>3 DEF Visit, Off
<1>4. CASE Retry
  <2>1. PICK c \in screen.comic : Enter(c, call)
    BY <1>4 DEF Retry
  <2>2. c \in Comics /\ screen.comic = {c}
    BY CallComic DEF One
  <2>3. QED
    BY <1>2, <1>4, <2>1, <2>2 DEF Retry
<1>5. ASSUME NEW t \in Callers, NEW c \in Comics, OpenAside(t, c) PROVE Good
  <2>1. PICK p \in Paths : StartOpen(t, c, p)
    BY <1>5 DEF OpenAside, Ask
  <2>2. /\ pc'[t] = "check" /\ arg'[t].kind = "open" /\ arg'[t].comic = c
        /\ \A u \in Callers \ {t} : pc'[u] = pc[u] /\ arg'[u] = arg[u]
        /\ opens' = opens
    BY <2>1 DEF StartOpen, Inv, CallTypeOK
  <2>3. /\ call'[t].run = "core" /\ call'[t].comic = {c}
        /\ \A u \in Callers \ {t} : call'[u] = call[u]
        /\ call[t] = NoCall
    BY <1>0, <1>5 DEF OpenAside, Asked, CallTypes, Ask, Free
  <2>4. CallsOfFlow'
    <3> SUFFICES ASSUME NEW u \in Callers
                 PROVE  /\ call'[u].run = "core" =>
                             InCore(u)' /\ arg'[u].kind = "open" /\ call'[u].comic = {arg'[u].comic}
                        /\ call'[u].run # "core" /\ InCore(u)' => arg'[u].kind = "ephemeral"
      BY DEF CallsOfFlow, InCore
    <3>1. CASE u = t
      BY <2>2, <2>3, <3>1 DEF InCore
    <3>2. CASE u # t
      BY <2>2, <2>3, <3>2 DEF InCore, CallsOfFlow
    <3>3. QED
      BY <3>1, <3>2
  <2>5. \A u \in Callers : \A d : Closes(call[u], d) => Closes(call'[u], d)
    BY <2>3 DEF Closes, NoCall
  <2>6. UNCHANGED <<screen, exit>> /\ Leave({})
    BY <1>5 DEF OpenAside
  <2>7. QED
    BY <1>a, <2>2, <2>4, <2>5, <2>6, OwnedOtherwise
<1>6. ASSUME NEW t \in Callers, CoreOpens(t) PROVE Good
  <2>1. /\ CallsOfFlow'
        /\ \A u \in Callers \ {t} : call'[u] = call[u]
        /\ call[t].wait = "close" => call'[t].wait = "close" /\ call'[t].comic = call[t].comic
        /\ \A d \in Comics : opens'[d] > 0 =>
              \/ opens[d] > 0
              \/ d \in call'[t].comic /\ call'[t].run = "list"
              \/ \E C : C \subseteq Comics /\ d \in C /\ Leave(C)
    BY <1>0, <1>6, CoreOpensFacts
  <2>2. UNCHANGED <<screen, exit>> /\ call[t].run = "core"
    BY <1>6 DEF CoreOpens
  <2>3. \A u \in Callers : \A d : Closes(call[u], d) => Closes(call'[u], d)
    BY <2>1, <2>2 DEF Closes
  <2>4. ASSUME NEW d \in Comics, opens'[d] > 0 PROVE d \in left' \/ HasCloser(d)'
    <3>1. PICK C : Leave(C)
      BY <1>6 DEF CoreOpens
    <3>2. HasCloser(d) => HasCloser(d)'
      BY <1>a, <2>2, <2>3 DEF HasCloser
    <3>3. CASE opens[d] > 0
      BY <2>4, <3>1, <3>2, <3>3, ClosersKept DEF OpensOwned
    <3>4. CASE d \in call'[t].comic /\ call'[t].run = "list"
      <4>1. HasCloser(d)'
        BY <3>4 DEF HasCloser, Closes
      <4>2. QED
        BY <4>1
    <3>5. CASE \E D : D \subseteq Comics /\ d \in D /\ Leave(D)
      BY <2>4, <3>5, ClosersKept
    <3>6. QED
      BY <2>1, <2>4, <3>3, <3>4, <3>5
  <2>5. QED
    BY <2>1, <2>4 DEF OpensOwned
<1>7. ASSUME NEW t \in Callers, Lists(t) \/ ListFails(t) \/ Timeout(t) \/ CleansUp(t)
      PROVE  CallsOfFlow'
  <2>1. UNCHANGED <<pc, arg>>
    <3>1. CASE Lists(t) \/ ListFails(t) \/ Timeout(t)
      BY <3>1 DEF Lists, ListFails, Timeout, vars
    <3>2. CASE CleansUp(t)
      BY <3>2, CallComic, CoreCloseFacts DEF CleansUp, FlowTypes, Named
    <3>3. QED
      BY <1>7, <3>1, <3>2
  <2>2. PICK k : Follows(k, call[t]) /\ call' = [call EXCEPT ![t] = k]
    BY <1>0, <1>7, CallStep
  <2>3. /\ call'[t] = k
        /\ \A u \in Callers \ {t} : call'[u] = call[u]
    BY <1>0, <2>2 DEF CallTypes
  <2>4. k.run = "core" => k.comic = call[t].comic /\ call[t].run = "core"
    BY <2>2 DEF Follows, NoCall
  <2>5. k.run # "core" => call[t].run # "core"
    <3>1. call[t] \in CallRecord
      BY <1>0 DEF CallTypes
    <3>2. CASE Lists(t) \/ ListFails(t)
      BY <3>2 DEF Lists, ListFails
    <3>3. CASE Timeout(t)
      BY <1>0, <2>3, <3>1, <3>3 DEF Timeout, CallTypes, CallRecord
    <3>4. CASE CleansUp(t)
      BY <1>0, <2>3, <3>1, <3>4 DEF CleansUp, CallTypes, CallRecord
    <3>5. QED
      BY <1>7, <3>2, <3>3, <3>4
  <2>6. QED
    BY <2>1, <2>3, <2>4, <2>5 DEF CallsOfFlow, InCore
<1>8. ASSUME NEW t \in Callers, ListFails(t) \/ Timeout(t) PROVE OpensOwned'
  <2>1. opens' = opens /\ UNCHANGED <<screen, exit>> /\ Leave({})
    BY <1>8 DEF ListFails, Timeout, vars
  <2>2. PICK k : Follows(k, call[t]) /\ call' = [call EXCEPT ![t] = k]
    BY <1>0, <1>8, CallStep
  <2>3. /\ call'[t] = k
        /\ \A u \in Callers \ {t} : call'[u] = call[u]
        /\ call[t] \in CallRecord
    BY <1>0, <2>2 DEF CallTypes
  <2>4. k.wait = "close"
    BY <1>0, <1>8, <2>3 DEF ListFails, Timeout, AfterError, CallTypes, CallRecord
  <2>5. k.comic = call[t].comic
    BY <2>2, <2>4 DEF Follows, NoCall
  <2>6. \A u \in Callers : \A d : Closes(call[u], d) => Closes(call'[u], d)
    BY <2>3, <2>4, <2>5 DEF Closes
  <2>7. QED
    BY <1>a, <2>1, <2>6, OwnedOtherwise
<1>9. ASSUME NEW t \in Callers, Lists(t) \/ CleansUp(t) PROVE OpensOwned'
  BY <1>9, OwnedAfterLists, OwnedAfterCleansUp
<1>10. ASSUME NEW e \in Exits, (\E next \in One : StartExit(e, next)) \/ Flushed(e) \/ FlushFails(e)
       PROVE  Good
  <2>1. CallsOfFlow' /\ opens' = opens /\ screen' = screen /\ call' = call /\ Leave({})
    BY <1>b, <1>10 DEF StartExit, Flushed, FlushFails
  <2>2. \A f \in Exits \ {e} : exit'[f] = exit[f]
    BY <1>0, <1>10 DEF StartExit, Flushed, FlushFails, ExitTypes
  <2>3. exit'[e].at # "go"
    BY <1>0, <1>10 DEF StartExit, Flushed, FlushFails, ExitTypes, ExitRecord, NoExit
  <2>4. \A D : JustClosed(D)' => JustClosed(D)
    BY <2>2, <2>3 DEF JustClosed
  <2>5. QED
    BY <2>1, <2>4, OwnedOtherwise
<1>11. ASSUME NEW e \in Exits, Closed(e) PROVE Good
  <2>1. UNCHANGED <<pc, arg, call>>
    BY <1>11, CallComic, CoreCloseFacts DEF Closed, FlowTypes, Named
  <2>2. CallsOfFlow'
    BY <2>1 DEF CallsOfFlow, InCore
  <2>3. QED
    BY <1>11, <2>2, OwnedAfterClosed
<1>12. ASSUME NEW e \in Exits, Pop(e) PROVE Good
  <2>1. UNCHANGED <<pc, arg>> /\ \A t \in Callers : call'[t].run = call[t].run /\ call'[t].comic = call[t].comic
    BY <1>0, <1>12, DisownedSame DEF Pop, vars
  <2>2. CallsOfFlow'
    BY <2>1 DEF CallsOfFlow, InCore
  <2>3. QED
    BY <1>12, <2>2, OwnedAfterPop
<1>13. ASSUME NEW e \in Exits, GoOn(e) PROVE Good
  <2>1. PICK c \in exit[e].next : Enter(c, Disowned(call))
    BY <1>13 DEF GoOn
  <2>2. c \in Comics /\ Disowned(call) \in [Callers -> CallRecord]
    BY <1>0, CallComic, DisownedCalls DEF CallTypes
  <2>3. CallsOfFlow'
    BY <1>0, <2>1, <2>2, DisownedSame, EnterCalls
  <2>4. QED
    BY <1>13, <2>3, OwnedAfterGoOn
<1>14. CASE Others
  <2>1. CallsOfFlow' /\ \A d \in Comics : opens'[d] > 0 => opens[d] > 0
    BY <1>0, <1>14, OthersFacts
  <2>2. UNCHANGED <<screen, exit, call>> /\ Leave({})
    BY <1>14 DEF Others
  <2>3. QED
    BY <1>a, <2>1, <2>2, OwnedOtherwise
<1>15. QED
  BY <1>1, <1>3, <1>4, <1>5, <1>6, <1>7, <1>8, <1>9, <1>10, <1>11, <1>12, <1>13, <1>14 DEF FlowNext

-----------------------------------------------------------------------------
(* Every comic that is shown has its session *)

\* A comic whose close is under way was opened again when it has pages, and one that
\* was closed when it was left has a session or lost it after that.
ClosedIsLost == \A c \in opened : ClosePending(c) => c \in lost
GoneIsLost ==
  \A e \in Exits : \A c \in opened \cap exit[e].comic :
    exit[e].at = "go" => c \in lost \/ Stored(c)
OpenedInv == OpenedHasSession /\ ClosedIsLost /\ GoneIsLost

\* OpenedHasSession with the two ways a comic can be open apart.
LeftBy(c) == \E e \in Exits : exit[e].own /\ exit[e].at = "go" /\ c \in exit[e].comic
LEMMA OpenedParts ==
  OpenedHasSession <=>
    /\ \A c \in opened : Stored(c) \/ c \in lost \/ LeftBy(c)
    /\ screen.at = "shown" => \A c \in screen.comic : Stored(c) \/ c \in lost \/ LeftBy(c)
  BY DEF OpenedHasSession, LeftBy

\* A step that shows no other comic, adds no pages and no exit, and takes no session
\* away unless it says so.
LEMMA OpenedKept ==
  ASSUME OpenedInv, lost \subseteq lost', opened' \subseteq opened,
         \A c \in opened : Stored(c) => Stored(c)' \/ c \in lost',
         \A c \in screen.comic : Stored(c) => Stored(c)' \/ c \in lost',
         screen'.at = "shown" => screen.at = "shown" /\ screen'.comic = screen.comic,
         \A c : LeftBy(c) => LeftBy(c)',
         \A c \in opened' : ClosePending(c)' => ClosePending(c) \/ c \in lost',
         \A e \in Exits : exit'[e].at = "go" =>
            \/ exit[e].at = "go" /\ exit'[e].comic = exit[e].comic
            \/ \A c \in exit'[e].comic \cap opened' : c \in lost'
  PROVE  OpenedInv'
<1>1. ASSUME NEW c, c \in opened \/ (screen.at = "shown" /\ c \in screen.comic)
      PROVE  Stored(c)' \/ c \in lost' \/ LeftBy(c)'
  <2>1. Stored(c) \/ c \in lost \/ LeftBy(c)
    BY <1>1, OpenedParts DEF OpenedInv
  <2>2. QED
    BY <1>1, <2>1
<1>2. OpenedHasSession'
  BY <1>1 DEF OpenedHasSession, LeftBy
<1>3. ClosedIsLost'
  BY DEF OpenedInv, ClosedIsLost
<1>4. GoneIsLost'
  <2> SUFFICES ASSUME NEW e \in Exits, NEW c \in opened' \cap exit'[e].comic, exit'[e].at = "go"
               PROVE  c \in lost' \/ Stored(c)'
    BY DEF GoneIsLost, Stored
  <2>1. CASE exit[e].at = "go" /\ exit'[e].comic = exit[e].comic
    <3>1. c \in lost \/ Stored(c)
      BY <2>1 DEF OpenedInv, GoneIsLost
    <3>2. QED
      BY <3>1
  <2>2. QED
    BY <2>1
<1>5. QED
  BY <1>2, <1>3, <1>4 DEF OpenedInv

\* Pending closes are those of the same calls and exits.
LEMMA PendingFacts ==
  ASSUME \A e \in Exits : exit'[e].at = "close" => exit[e].at = "close" /\ exit'[e].comic = exit[e].comic,
         \A t \in Callers : call'[t].wait = "close" => call[t].wait = "close" /\ call'[t].comic = call[t].comic
  PROVE  \A c : ClosePending(c)' => ClosePending(c)
  BY DEF ClosePending

\* A new screen, or the same one again.
LEMMA OpenedEnter ==
  ASSUME Inv, FlowTypes, OpenedInv, CallsOfFlow, NEW c \in Comics, NEW calls \in [Callers -> CallRecord],
         \A t \in Callers : /\ calls[t].run = call[t].run /\ calls[t].wait = call[t].wait
                            /\ calls[t].comic = call[t].comic,
         Enter(c, calls), UNCHANGED <<opened, lost>>,
         \A d : LeftBy(d) => LeftBy(d)' \/ (\E e \in Exits : exit[e].at = "go" /\ d \in exit[e].comic),
         \A d : (\E e \in Exits : exit[e].at = "go" /\ d \in exit[e].comic /\ d \in opened)
                   => d \in lost \/ Stored(d),
         \A e \in Exits : exit'[e].at = "none" \/ (exit'[e].at = exit[e].at /\ exit'[e].comic = exit[e].comic)
  PROVE  OpenedInv'
<1>1. CallTypes
  BY FlowTypesParts
<1>2. sessions' = sessions
  BY <1>1, EnterCalls
<1>3. \A d \in opened : Stored(d)' \/ d \in lost' \/ LeftBy(d)'
  <2>1. ASSUME NEW d \in opened PROVE Stored(d) \/ d \in lost \/ LeftBy(d)'
    BY OpenedParts DEF OpenedInv
  <2>2. QED
    BY <1>2, <2>1 DEF Stored
<1>4. screen'.at = "shown" => screen'.comic = {c} /\ c \in opened
  <2>1. \/ c \in opened /\ screen' = [at |-> "shown", comic |-> {c}]
        \/ screen' = [at |-> "failed", comic |-> {c}]
        \/ screen' = [at |-> "loading", comic |-> {c}]
    BY DEF Enter
  <2>2. QED
    BY <2>1
<1>5. OpenedHasSession'
  BY <1>3, <1>4 DEF OpenedHasSession, LeftBy
<1>6. \A t \in Callers : call'[t].wait = "close" => call[t].wait = "close" /\ call'[t].comic = call[t].comic
  <2>1. \/ call' = calls
        \/ \E t \in Callers : call' = [calls EXCEPT ![t] = Asked(c, TRUE)]
    BY DEF Enter
  <2>2. Asked(c, TRUE).wait # "close"
    BY DEF Asked
  <2>3. QED
    BY <2>1, <2>2
<1>7. \A d : ClosePending(d)' => ClosePending(d)
  BY <1>6, PendingFacts
<1>8. ClosedIsLost'
  BY <1>7 DEF OpenedInv, ClosedIsLost
<1>9. GoneIsLost'
  BY <1>2 DEF OpenedInv, GoneIsLost, Stored
<1>10. QED
  BY <1>5, <1>8, <1>9 DEF OpenedInv

\* The pages are listed while the session is there.
LEMMA OpenedAfterLists ==
  ASSUME FlowTypes, OpenedInv, NEW t \in Callers, Lists(t)
  PROVE  OpenedInv'
<1> DEFINE C == call[t].comic
<1>1. /\ \A c \in C : Stored(c)
      /\ opened' = opened \cup C
      /\ lost' = lost \cup {c \in C : ClosePending(c)}
      /\ UNCHANGED <<sessions, exit>>
      /\ call' = [call EXCEPT ![t] = NoCall]
  BY DEF Lists, vars
<1>2. screen' = screen \/ (call[t].own /\ screen'.comic = screen.comic)
  BY FlowTypesParts DEF Lists, ScreenTypes
<1>3. call[t].own => C = screen.comic
  BY DEF FlowTypes, Owned
<1>4. \A c : LeftBy(c)' <=> LeftBy(c)
  BY <1>1 DEF LeftBy
<1>5. OpenedHasSession'
  <2>1. \A c \in opened \cup C : Stored(c)' \/ c \in lost' \/ LeftBy(c)'
    BY <1>1, <1>4, OpenedParts DEF OpenedInv, Stored
  <2>2. screen'.at = "shown" => \A c \in screen'.comic : Stored(c)' \/ c \in lost' \/ LeftBy(c)'
    <3>1. CASE screen' = screen
      BY <1>1, <1>4, <3>1, OpenedParts DEF OpenedInv, Stored
    <3>2. CASE call[t].own /\ screen'.comic = screen.comic
      BY <1>3, <2>1, <3>2
    <3>3. QED
      BY <1>2, <3>1, <3>2
  <2>3. QED
    BY <1>1, <2>1, <2>2 DEF OpenedHasSession, LeftBy
<1>6. \A c : ClosePending(c)' => ClosePending(c)
  <2>1. call \in [Callers -> CallRecord]
    BY FlowTypesParts DEF CallTypes
  <2>2. \A u \in Callers : call'[u].wait = "close" => call'[u] = call[u]
    BY <1>1, <2>1 DEF NoCall
  <2>3. QED
    BY <1>1, <2>2, PendingFacts
<1>7. ClosedIsLost'
  BY <1>1, <1>6 DEF OpenedInv, ClosedIsLost
<1>8. GoneIsLost'
  BY <1>1 DEF OpenedInv, GoneIsLost, Stored
<1>9. QED
  BY <1>5, <1>7, <1>8 DEF OpenedInv

\* A comic is closed for a call or an exit; who else has it loses it.
LEMMA OpenedAfterClose ==
  ASSUME Inv, OpensStored, FlowTypes, OpenedInv, NEW C \in One, C # {}, \A c \in C : CoreClose(c),
         UNCHANGED opened, lost \subseteq lost',
         \A c \in C : c \in opened => c \in lost',
         \A c \in C \cap screen.comic : screen'.at = "shown" => c \in lost' \/ LeftBy(c)',
         screen'.at = "shown" => screen.at = "shown" /\ screen'.comic = screen.comic,
         \A c : LeftBy(c) => LeftBy(c)',
         \A c : ClosePending(c)' => ClosePending(c),
         \A e \in Exits : exit'[e].at = "go" =>
            (exit[e].at = "go" /\ exit'[e].comic = exit[e].comic) \/ exit'[e].comic = C
  PROVE  OpenedInv'
<1>1. \A d \in Comics \ C : Stored(d)' <=> Stored(d)
  BY CoreCloseFacts
<1>2. opened \subseteq Comics /\ screen.comic \subseteq Comics
  BY CallComic, FlowTypesParts DEF RestTypes
<1>3. ASSUME NEW c \in Comics, c \in opened \/ (screen'.at = "shown" /\ c \in screen'.comic)
      PROVE  Stored(c)' \/ c \in lost' \/ LeftBy(c)'
  <2>1. Stored(c) \/ c \in lost \/ LeftBy(c)
    BY <1>3, OpenedParts DEF OpenedInv
  <2>2. CASE c \in C
    BY <1>3, <2>2
  <2>3. CASE c \notin C
    BY <1>1, <2>1, <2>3
  <2>4. QED
    BY <2>2, <2>3
<1>4. OpenedHasSession'
  BY <1>2, <1>3 DEF OpenedHasSession, LeftBy
<1>5. ClosedIsLost'
  BY DEF OpenedInv, ClosedIsLost
<1>6. GoneIsLost'
  <2> SUFFICES ASSUME NEW e \in Exits, NEW c \in opened' \cap exit'[e].comic, exit'[e].at = "go"
               PROVE  c \in lost' \/ Stored(c)'
    BY DEF GoneIsLost, Stored
  <2>1. CASE c \in C
    BY <2>1
  <2>2. CASE c \notin C
    <3>1. exit[e].at = "go" /\ c \in exit[e].comic /\ c \in opened
      BY <2>2
    <3>2. c \in lost \/ Stored(c)
      BY <3>1 DEF OpenedInv, GoneIsLost
    <3>3. QED
      BY <1>1, <1>2, <2>2, <3>1, <3>2
  <2>3. QED
    BY <2>1, <2>2
<1>7. QED
  BY <1>4, <1>5, <1>6 DEF OpenedInv

\* Every step of the app keeps the session of what is shown, or says who took it.
LEMMA FlowNextOpened ==
  ASSUME Inv, Coherent, OpensStored, FlowTypes, CallsOfFlow, OpenedInv, [FlowNext]_all
  PROVE  OpenedInv'
<1>0. CallTypes /\ ExitTypes /\ ScreenTypes /\ RestTypes /\ Owned
  BY FlowTypesParts
<1>a. ASSUME exit' = exit PROVE \A c : LeftBy(c)' <=> LeftBy(c)
  BY <1>a DEF LeftBy
<1>b. ASSUME vars' = vars PROVE \A c : Stored(c)' <=> Stored(c)
  BY <1>b DEF vars, Stored
<1>1. CASE UNCHANGED all
  BY <1>1 DEF all, vars, OpenedInv, OpenedHasSession, ClosedIsLost, GoneIsLost, ClosePending, Stored
<1>2. ASSUME NEW c \in Comics, Enter(c, call), UNCHANGED <<opened, exit, lost>> PROVE OpenedInv'
  BY <1>0, <1>2, <1>a, OpenedEnter DEF OpenedInv, GoneIsLost, CallTypes
<1>3. ASSUME NEW c \in Comics, Visit(c) PROVE OpenedInv'
  BY <1>2, <1>3 DEF Visit
<1>4. CASE Retry
  BY <1>2, <1>4, CallComic DEF Retry
<1>5. ASSUME NEW t \in Callers, NEW c \in Comics, OpenAside(t, c) PROVE OpenedInv'
  <2>1. PICK p \in Paths : StartOpen(t, c, p)
    BY <1>5 DEF OpenAside, Ask
  <2>2. \A d : Stored(d)' <=> Stored(d)
    BY <2>1 DEF StartOpen, Stored
  <2>3. UNCHANGED <<screen, opened, exit, lost>>
    BY <1>5 DEF OpenAside
  <2>4. Asked(c, FALSE).wait # "close"
    BY DEF Asked
  <2>5. \A u \in Callers : call'[u].wait = "close" => call'[u] = call[u]
    BY <1>0, <1>5, <2>4 DEF OpenAside, CallTypes
  <2>6. \A d : ClosePending(d)' => ClosePending(d)
    BY <2>3, <2>5, PendingFacts
  <2>7. QED
    BY <1>a, <2>2, <2>3, <2>6, OpenedKept
<1>6. ASSUME NEW t \in Callers, CoreOpens(t) PROVE OpenedInv'
  <2>1. \A d \in Comics : Stored(d) => Stored(d)'
    BY <1>0, <1>6, CoreOpensFacts
  <2>2. UNCHANGED <<screen, exit, lost>>
    BY <1>6 DEF CoreOpens
  <2>3. PICK k : Follows(k, call[t]) /\ call' = [call EXCEPT ![t] = k]
    BY <1>0, <1>6, CallStep
  <2>4. call'[t] = k /\ \A u \in Callers \ {t} : call'[u] = call[u]
    BY <1>0, <2>3 DEF CallTypes
  <2>5. k.wait = "close" => k.comic = call[t].comic
    BY <2>3 DEF Follows, NoCall
  <2>6. opened' = opened \/ opened' = opened \ call[t].comic
    BY <1>6 DEF CoreOpens
  <2>7. k.wait = "close" => call[t].wait = "close" \/ opened' = opened \ call[t].comic
    <3>1. call[t] \in CallRecord
      BY <1>0 DEF CallTypes
    <3>2. CASE pc'[t] # "idle"
      BY <1>6, <2>4, <3>2 DEF CoreOpens
    <3>3. CASE pc'[t] = "idle" /\ call[t].wait = "result" /\ Got(t)
      <4>1. k = [call[t] EXCEPT !.run = "list"]
        BY <1>0, <1>6, <2>4, <3>3 DEF CoreOpens, CallTypes
      <4>2. QED
        BY <3>1, <3>3, <4>1 DEF CallRecord
    <3>4. CASE pc'[t] = "idle" /\ call[t].wait = "result" /\ ~ Got(t)
      BY <1>6, <3>4 DEF CoreOpens
    <3>5. CASE pc'[t] = "idle" /\ call[t].wait # "result"
      <4>1. k = NoCall \/ k = [call[t] EXCEPT !.run = "none"]
        BY <1>0, <1>6, <2>4, <3>5 DEF CoreOpens, CallTypes
      <4>2. QED
        BY <3>1, <4>1 DEF CallRecord, NoCall
    <3>6. QED
      BY <3>2, <3>3, <3>4, <3>5
  <2>8. \A c \in opened' : ClosePending(c)' => ClosePending(c)
    BY <2>2, <2>4, <2>5, <2>7 DEF ClosePending
  <2>9. \A c \in opened \cup screen.comic : c \in Comics
    BY <1>0, CallComic DEF RestTypes
  <2>10. opened' \subseteq opened
    BY <2>6
  <2>11. QED
    BY <1>a, <2>1, <2>2, <2>8, <2>9, <2>10, OpenedKept
<1>7. ASSUME NEW t \in Callers, ListFails(t) \/ Timeout(t) PROVE OpenedInv'
  <2>1. UNCHANGED <<vars, screen, exit, lost>> /\ opened' = opened \ call[t].comic
    BY <1>7 DEF ListFails, Timeout
  <2>2. PICK k : Follows(k, call[t]) /\ call' = [call EXCEPT ![t] = k]
    BY <1>0, <1>7, CallStep
  <2>3. call'[t] = k /\ \A u \in Callers \ {t} : call'[u] = call[u]
    BY <1>0, <2>2 DEF CallTypes
  <2>4. k.wait = "close" => k.comic = call[t].comic
    BY <2>2 DEF Follows, NoCall
  <2>5. \A c \in opened' : ClosePending(c)' => ClosePending(c)
    BY <2>1, <2>3, <2>4 DEF ClosePending
  <2>6. QED
    BY <1>a, <1>b, <2>1, <2>5, OpenedKept
<1>8. ASSUME NEW t \in Callers, Lists(t) PROVE OpenedInv'
  BY <1>8, OpenedAfterLists
<1>9. ASSUME NEW t \in Callers, CleansUp(t) PROVE OpenedInv'
  <2> DEFINE C == call[t].comic
  <2>1. C \in One /\ C # {} /\ \A c \in C : CoreClose(c)
    BY <1>9, CallComic DEF CleansUp, FlowTypes, Named
  <2>2. UNCHANGED <<opened, exit>> /\ call[t].wait = "close"
    BY <1>9 DEF CleansUp
  <2>3. \A c \in C : c \in opened => c \in lost
    BY <2>2 DEF OpenedInv, ClosedIsLost, ClosePending
  <2>4. lost \subseteq lost' /\ (~ call[t].own => \A c \in C \cap screen.comic : c \in lost')
    BY <1>9 DEF CleansUp, Robbed
  <2>5. screen' = screen \/ (call[t].own /\ screen'.at = "failed")
    BY <1>0, <1>9 DEF CleansUp, ScreenTypes
  <2>6. call[t].own => screen'.at = "failed"
    BY <1>0, <1>9 DEF CleansUp, ScreenTypes
  <2>7. \A u \in Callers : call'[u].wait = "close" => call'[u] = call[u]
    <3>1. /\ \/ call' = [call EXCEPT ![t] = [call[t] EXCEPT !.wait = "none", !.own = FALSE]]
             \/ call' = [call EXCEPT ![t] = NoCall]
      BY <1>0, <1>9 DEF CleansUp, CallTypes, CallRecord
    <3>2. call[t] \in CallRecord /\ call \in [Callers -> CallRecord]
      BY <1>0 DEF CallTypes
    <3>3. [call[t] EXCEPT !.wait = "none", !.own = FALSE].wait = "none"
      BY <3>2 DEF CallRecord
    <3>4. \E k : k.wait = "none" /\ call' = [call EXCEPT ![t] = k]
      BY <3>1, <3>3 DEF NoCall
    <3>a. call'[t].wait = "none" /\ \A u \in Callers \ {t} : call'[u] = call[u]
      BY <3>2, <3>4
    <3>5. QED
      BY <3>a
  <2>8. \A c : ClosePending(c)' => ClosePending(c)
    BY <2>2, <2>7, PendingFacts
  <2>9. \A c : LeftBy(c) => LeftBy(c)'
    BY <1>a, <2>2
  <2> HIDE DEF C
  <2>10. QED
    BY <2>1, <2>2, <2>3, <2>4, <2>5, <2>6, <2>8, <2>9, OpenedAfterClose
<1>10. ASSUME NEW e \in Exits, NEW next \in One, StartExit(e, next) PROVE OpenedInv'
  <2>1. UNCHANGED <<vars, screen, opened, call, lost>> /\ exit[e] = NoExit
    BY <1>10 DEF StartExit
  <2>2. /\ exit'[e].at = "flush" /\ \A f \in Exits \ {e} : exit'[f] = exit[f]
    BY <1>0, <1>10 DEF StartExit, ExitTypes
  <2>3. \A c : LeftBy(c) => LeftBy(c)'
    BY <2>1, <2>2 DEF LeftBy, NoExit
  <2>4. \A c : ClosePending(c)' => ClosePending(c)
    BY <2>1, <2>2, PendingFacts
  <2>5. QED
    BY <1>b, <2>1, <2>2, <2>3, <2>4, OpenedKept
<1>11. ASSUME NEW e \in Exits, Flushed(e) \/ FlushFails(e) PROVE OpenedInv'
  <2>1. UNCHANGED <<vars, screen, call, lost>> /\ exit[e].at = "flush"
    BY <1>11 DEF Flushed, FlushFails
  <2>2. /\ \A f \in Exits \ {e} : exit'[f] = exit[f]
        /\ \/ exit'[e].at = "none" /\ opened' = opened
           \/ exit'[e].at = "close" /\ exit'[e].comic = exit[e].comic /\ opened' = opened \ exit[e].comic
    BY <1>0, <1>11 DEF Flushed, FlushFails, Forgotten, ExitTypes, ExitRecord, NoExit
  <2>3. \A c : LeftBy(c) => LeftBy(c)'
    BY <2>1, <2>2 DEF LeftBy
  <2>4. \A c \in opened' : ClosePending(c)' => ClosePending(c)
    BY <2>1, <2>2 DEF ClosePending
  <2>5. \A f \in Exits : exit'[f].at = "go" => exit[f].at = "go" /\ exit'[f].comic = exit[f].comic
    BY <2>2
  <2>6. opened' \subseteq opened
    BY <2>2
  <2>7. QED
    BY <1>b, <2>1, <2>3, <2>4, <2>5, <2>6, OpenedKept
<1>12. ASSUME NEW e \in Exits, Closed(e) PROVE OpenedInv'
  <2> DEFINE C == exit[e].comic
  <2>1. C \in One /\ C # {} /\ \A c \in C : CoreClose(c)
    BY <1>12, CallComic DEF Closed, FlowTypes, Named
  <2>2. UNCHANGED <<opened, screen, call>> /\ exit[e].at = "close"
    BY <1>12 DEF Closed
  <2>3. \A c \in C : c \in opened => c \in lost
    BY <2>2 DEF OpenedInv, ClosedIsLost, ClosePending
  <2>4. lost \subseteq lost' /\ (~ exit[e].own => \A c \in C \cap screen.comic : c \in lost')
    BY <1>12 DEF Closed, Robbed
  <2>5. /\ exit'[e].at = "go" /\ exit'[e].comic = C /\ (exit'[e].own <=> exit[e].own)
        /\ \A f \in Exits \ {e} : exit'[f] = exit[f]
    BY <1>0, <1>12 DEF Closed, ExitTypes, ExitRecord
  <2>6. exit[e].own => \A c \in C : LeftBy(c)'
    BY <2>5 DEF LeftBy
  <2>7. \A c : LeftBy(c) => LeftBy(c)'
    BY <2>2, <2>5 DEF LeftBy
  <2>8. \A c : ClosePending(c)' => ClosePending(c)
    BY <2>2, <2>5, PendingFacts
  <2>9. \A f \in Exits : exit'[f].at = "go" =>
            (exit[f].at = "go" /\ exit'[f].comic = exit[f].comic) \/ exit'[f].comic = C
    BY <2>5
  <2> HIDE DEF C
  <2>10. QED
    BY <2>1, <2>2, <2>3, <2>4, <2>6, <2>7, <2>8, <2>9, OpenedAfterClose
<1>13. ASSUME NEW e \in Exits, Pop(e) PROVE OpenedInv'
  <2> DEFINE rest == [exit EXCEPT ![e] = NoExit]
  <2>1. /\ rest \in [Exits -> ExitRecord]
        /\ rest[e].at = "none" /\ ~ rest[e].own
        /\ \A f \in Exits \ {e} : rest[f] = exit[f]
    BY <1>0 DEF ExitTypes, ExitRecord, NoExit, One
  <2>2. /\ UNCHANGED <<vars, opened, lost>>
        /\ \/ exit[e].own /\ screen' = Off /\ exit' = Disowned(rest) /\ call' = Disowned(call)
           \/ ~ exit[e].own /\ exit' = rest /\ UNCHANGED <<screen, call>>
    BY <1>13 DEF Pop
  <2> HIDE DEF rest
  <2>3. \A f \in Exits : exit'[f].at = "none" \/ (exit'[f].at = exit[f].at /\ exit'[f].comic = exit[f].comic)
    <3>1. exit' = rest \/ exit' = Disowned(rest)
      BY <2>2
    <3>2. \A f \in Exits : exit'[f].at = rest[f].at /\ exit'[f].comic = rest[f].comic
      <4>1. CASE exit' = rest
        BY <4>1
      <4>2. CASE exit' = Disowned(rest)
        <5>1. \A f \in Exits : Disowned(rest)[f].at = rest[f].at /\ Disowned(rest)[f].comic = rest[f].comic
          BY <2>1, DisownedExits
        <5>2. QED
          BY <4>2, <5>1
      <4>3. QED
        BY <3>1, <4>1, <4>2
    <3>3. QED
      BY <2>1, <3>2
  <2>4. \A t \in Callers : call'[t].wait = call[t].wait /\ call'[t].comic = call[t].comic
    BY <1>0, <2>2, DisownedSame
  <2>5. \A c : ClosePending(c)' => ClosePending(c)
    BY <2>3, <2>4, PendingFacts
  <2>6. CASE exit[e].own /\ screen' = Off
    <3>1. OpenedHasSession'
      <4>1. \A c \in opened : Stored(c) \/ c \in lost
        BY OpenedParts DEF OpenedInv, LeftBy, GoneIsLost
      <4>2. screen'.at # "shown"
        BY <2>6 DEF Off
      <4>3. QED
        BY <1>b, <2>2, <4>1, <4>2 DEF OpenedHasSession
    <3>2. ClosedIsLost'
      BY <2>2, <2>5 DEF OpenedInv, ClosedIsLost
    <3>3. GoneIsLost'
      BY <1>b, <2>2, <2>3 DEF OpenedInv, GoneIsLost
    <3>4. QED
      BY <3>1, <3>2, <3>3 DEF OpenedInv
  <2>7. CASE ~ exit[e].own /\ exit' = rest /\ UNCHANGED <<screen, call>>
    <3>1. \A c : LeftBy(c) => LeftBy(c)'
      BY <2>1, <2>7 DEF LeftBy
    <3>2. QED
      BY <1>b, <2>2, <2>3, <2>5, <2>7, <3>1, OpenedKept
  <2>8. QED
    BY <2>2, <2>6, <2>7
<1>14. ASSUME NEW e \in Exits, GoOn(e) PROVE OpenedInv'
  <2> DEFINE rest == [exit EXCEPT ![e] = NoExit]
  <2>1. /\ rest \in [Exits -> ExitRecord]
        /\ rest[e].at = "none"
        /\ \A f \in Exits \ {e} : rest[f] = exit[f]
    BY <1>0 DEF ExitTypes, ExitRecord, NoExit, One
  <2>2. exit' = Disowned(rest) /\ UNCHANGED <<opened, lost>>
    BY <1>14 DEF GoOn
  <2> HIDE DEF rest
  <2>3. \A f \in Exits : exit'[f].at = "none" \/ (exit'[f].at = exit[f].at /\ exit'[f].comic = exit[f].comic)
    <3>1. \A f \in Exits : exit'[f].at = rest[f].at /\ exit'[f].comic = rest[f].comic
      BY <2>1, <2>2, DisownedExits
    <3>2. QED
      BY <2>1, <3>1
  <2>4. PICK c \in exit[e].next : Enter(c, Disowned(call))
    BY <1>14 DEF GoOn
  <2>5. c \in Comics /\ Disowned(call) \in [Callers -> CallRecord]
    BY <1>0, CallComic, DisownedCalls DEF CallTypes
  <2>6. \A d : LeftBy(d) => \E f \in Exits : exit[f].at = "go" /\ d \in exit[f].comic
    BY DEF LeftBy
  <2>7. \A d : (\E f \in Exits : exit[f].at = "go" /\ d \in exit[f].comic /\ d \in opened)
                => d \in lost \/ Stored(d)
    BY DEF OpenedInv, GoneIsLost
  <2>8. \A t \in Callers : /\ Disowned(call)[t].run = call[t].run
                         /\ Disowned(call)[t].wait = call[t].wait
                         /\ Disowned(call)[t].comic = call[t].comic
    BY <1>0, DisownedSame
  <2>9. QED
    BY <2>2, <2>3, <2>4, <2>5, <2>6, <2>7, <2>8, OpenedEnter
<1>15. CASE Others
  <2>1. UNCHANGED <<screen, opened, call, exit>>
        /\ lost' = lost \cup Robbed({c \in Comics : Stored(c) /\ sessions'[c] = NoSession})
    BY <1>15 DEF Others
  <2>2. \A c \in opened \cup screen.comic : c \in Comics
    BY <1>0, CallComic DEF RestTypes
  <2>3. \A c \in opened \cup screen.comic : Stored(c) => Stored(c)' \/ c \in lost'
    BY <2>1, <2>2 DEF Robbed, Stored
  <2>4. \A c : ClosePending(c)' <=> ClosePending(c)
    BY <2>1 DEF ClosePending
  <2>5. QED
    BY <1>a, <2>1, <2>3, <2>4, OpenedKept
<1>16. QED
  BY <1>1, <1>3, <1>4, <1>5, <1>6, <1>7, <1>8, <1>9, <1>10, <1>11, <1>12, <1>13, <1>14, <1>15 DEF FlowNext

-----------------------------------------------------------------------------
(* The theorems about the reading screen *)

FlowInv == Inv /\ Coherent /\ OpensStored /\ FlowTypes /\ CallsOfFlow /\ OpensOwned /\ OpenedInv

LEMMA InitFlowInv == FlowInit => FlowInv
<1> SUFFICES ASSUME FlowInit PROVE FlowInv
  OBVIOUS
<1>1. /\ Init /\ FlowTypes
      /\ screen = Off /\ opened = {}
      /\ \A t \in Callers : call[t].run = "none" /\ pc[t] = "idle"
      /\ \A c \in Comics : opens[c] = 0
  BY FlowInitTypes DEF FlowInit, Init, NoCall
<1>2. Inv /\ Coherent
  BY <1>1, InitInv, InitCoherent
<1>3. OpensStored /\ OpensOwned
  BY <1>1 DEF OpensStored, OpensOwned
<1>4. CallsOfFlow
  BY <1>1 DEF CallsOfFlow, InCore
<1>5. OpenedInv
  BY <1>1 DEF OpenedInv, OpenedHasSession, ClosedIsLost, GoneIsLost, Off
<1>6. QED
  BY <1>1, <1>2, <1>3, <1>4, <1>5 DEF FlowInv

LEMMA NextFlowInv == FlowInv /\ [FlowNext]_all => FlowInv'
<1> SUFFICES ASSUME FlowInv, [FlowNext]_all PROVE FlowInv'
  OBVIOUS
<1>1. [Next]_vars
  BY FlowStepIsStoreStep DEF FlowInv
<1>2. Inv' /\ Coherent' /\ OpensStored'
  BY <1>1, NextInv, NextCoherent, NextOpensStored DEF FlowInv
<1>3. FlowTypes' /\ CallsOfFlow' /\ OpensOwned' /\ OpenedInv'
  BY <1>2, FlowNextTypes, FlowNextOpensOwned, FlowNextOpened DEF FlowInv
<1>4. QED
  BY <1>2, <1>3 DEF FlowInv

\* The invariant of the reading screen and the store holds throughout.
THEOREM FlowSpecInv == FlowSpec => []FlowInv
  BY InitFlowInv, NextFlowInv, PTL DEF FlowSpec

\* The reading screen uses the store as the store expects it: every step of the app
\* is a step of the session store, or none of it, so what is proved of the store
\* holds below the app.
THEOREM FlowImplementsSpec == FlowSpec => Spec
<1>1. FlowInit => Init
  BY DEF FlowInit
<1>2. FlowInv /\ [FlowNext]_all => [Next]_vars
  BY FlowStepIsStoreStep DEF FlowInv
<1>3. QED
  BY <1>1, <1>2, FlowSpecInv, PTL DEF FlowSpec, Spec

\* Back in the library with nothing under way, the core keeps no comic open but
\* those of calls that timed out, came late or opened ahead.
THEOREM FlowSessionsAreOwned == FlowSpec => []SessionsAreOwned
<1>1. ASSUME FlowInv, Quiet, NEW c \in Comics, Stored(c) PROVE c \in left
  <2>1. /\ screen = Off
        /\ \A t \in Callers : pc[t] = "idle" /\ call[t] = NoCall
    BY <1>1 DEF Quiet, Free
  <2>2. Holding(c) = {}
    BY <2>1 DEF Holding, Leases
  <2>3. sessions[c].ref <= opens[c] + Cardinality(Holding(c)) /\ sessions[c].ref >= 1
    BY <1>1, Counted DEF FlowInv, Inv, NoIdleSession
  <2>4. sessions[c].ref \in Nat /\ opens[c] \in Nat
    BY <1>1 DEF FlowInv, Inv, StoreTypeOK, ObservedTypeOK, Session, Stored
  <2>5. Cardinality(Holding(c)) = 0
    BY <2>2, FS_EmptySet
  <2>6. opens[c] > 0
    BY <2>3, <2>4, <2>5
  <2>7. ~ HasCloser(c)
    BY <2>1 DEF HasCloser, Closes, Off, NoCall
  <2>8. QED
    BY <1>1, <2>6, <2>7 DEF FlowInv, OpensOwned
<1>2. FlowInv => SessionsAreOwned
  BY <1>1 DEF SessionsAreOwned
<1>3. QED
  BY <1>2, FlowSpecInv, PTL

\* What is on the screen, or would be without a new open, has its session in the
\* core, unless it is just being left or another took it.
THEOREM FlowOpenedHasSession == FlowSpec => []OpenedHasSession
<1>1. FlowInv => OpenedHasSession
  BY DEF FlowInv, OpenedInv
<1>2. QED
  BY <1>1, FlowSpecInv, PTL

\* The variables of the app have their types.
THEOREM FlowSpecTypeOK == FlowSpec => []FlowTypeOK
<1>1. FlowInv => FlowTypeOK
  BY DEF FlowInv, FlowTypes
<1>2. QED
  BY <1>1, FlowSpecInv, PTL
====
