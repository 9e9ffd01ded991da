--------------------------- MODULE ReaderSessions ---------------------------
(***************************************************************************)
(* The reader session store of reader/manager.rs: reference-counted        *)
(* sessions shared by the reading screen, by short "ephemeral" leases      *)
(* (thumbnail rendering) and by the handlers that drop sessions by force   *)
(* (leaving the reader, library sync, Comic trash).                        *)
(*                                                                         *)
(* The store is a Mutex around a map and an LRU list.  acquire_reader_with *)
(* takes the Mutex twice and opens the backend in between, so an           *)
(* acquisition is two steps here, with whatever other callers do between.  *)
(***************************************************************************)
EXTENDS Integers, Sequences, FiniteSets

CONSTANTS
    Comics,         \* comic ids
    Paths,          \* normalized reader locations
    Callers,        \* concurrent calls into the store
    MaxSessions,    \* MAX_SESSIONS, the soft cap of the store
    MaxOpens,       \* bound: reading-screen opens of one comic at a time
    DbMayFail,      \* may the trash check find the database unavailable?
    NoSession, NoArg

ASSUME SessionAssumption ==
    /\ IsFiniteSet(Callers)
    /\ MaxSessions \in Nat \ {0}
    /\ MaxOpens \in Nat \ {0}
    /\ DbMayFail \in BOOLEAN
    /\ NoSession \notin [path : Paths, ref : Nat]
    /\ NoArg \notin [kind : {"open", "ephemeral"}, comic : Comics, path : Paths]

VARIABLES
    sessions,   \* SessionStore.sessions: comic -> its CachedSession or NoSession
    order,      \* SessionStore.order, least recently used first
    trashed,    \* comics.deleted_at IS NOT NULL
    pc,         \* where each call stands
    arg,        \* the arguments of an acquisition in progress
    todo,       \* ids a trash call still has to close
    opens,      \* observed: reading screens holding the current session
    cut         \* observed: the session of this lease was dropped by force

vars == <<sessions, order, trashed, pc, arg, todo, opens, cut>>

Session == [path : Paths, ref : Nat]
Arg == [kind : {"open", "ephemeral"}, comic : Comics, path : Paths]
Location == {"idle", "check", "first", "second", "body", "closing"}

StoreTypeOK == sessions \in [Comics -> Session \cup {NoSession}]
CallTypeOK ==
    /\ pc \in [Callers -> Location]
    /\ arg \in [Callers -> Arg \cup {NoArg}]
    /\ \A t \in Callers : pc[t] \in {"check", "first", "second", "body"} => arg[t] \in Arg
    /\ todo \in [Callers -> SUBSET Comics]
ObservedTypeOK ==
    /\ trashed \in SUBSET Comics
    /\ opens \in [Comics -> Nat]
    /\ cut \in [Callers -> BOOLEAN]

\* Every variable has its type.
TypeOK == StoreTypeOK /\ CallTypeOK /\ ObservedTypeOK /\ order \in Seq(Comics)

Init ==
    /\ sessions = [c \in Comics |-> NoSession]
    /\ order = <<>>
    /\ trashed = {}
    /\ pc = [t \in Callers |-> "idle"]
    /\ arg = [t \in Callers |-> NoArg]
    /\ todo = [t \in Callers |-> {}]
    /\ opens = [c \in Comics |-> 0]
    /\ cut = [t \in Callers |-> FALSE]

-----------------------------------------------------------------------------
\* The store's own operations.  A definition that precedes another and is used
\* nowhere (TouchedTwice before Touched) is that one with a bug planted in it: a
\* property has to notice the exchange.

Stored(c) == sessions[c] # NoSession

\* VecDeque::retain, as a function of how much of the list has been looked at.
Kept(s, C) ==
    LET f[n \in 0 .. Len(s)] ==
            IF n = 0 THEN <<>>
            ELSE IF s[n] \in C THEN f[n - 1] ELSE Append(f[n - 1], s[n])
    IN  f[Len(s)]
Without(C) == Kept(order, C)
Leases(c) == {t \in Callers : pc[t] = "body" /\ arg[t].kind = "ephemeral" /\ arg[t].comic = c}

TouchedTwice(c) == Append(order, c)
Touched(c) == Append(Without({c}), c)

\* remove_session for every id of C, whatever its reference count; the leases
\* on these sessions lose them.
RemoveSessions(C) ==
    /\ sessions' = [c \in Comics |-> IF c \in C THEN NoSession ELSE sessions[c]]
    /\ order' = Without(C)
    /\ opens' = [c \in Comics |-> IF c \in C THEN 0 ELSE opens[c]]
    /\ cut' = [t \in Callers |->
                 cut[t] \/ \E c \in C : Stored(c) /\ t \in Leases(c)]

\* evict_if_needed over a store s listed in ord: the idle sessions, oldest
\* first, as many as the store exceeds the cap by.
Evicted(s, ord) ==
    LET idle == Kept(ord, {c \in Comics : s[c] = NoSession \/ s[c].ref > 0})
    IN  {idle[i] : i \in {j \in 1..Len(idle) : j <= Len(ord) - MaxSessions}}

\* The call got its reference: a reading screen returns, a lease runs its body.
Acquired(t) ==
    LET a == arg[t] IN
    IF a.kind = "open"
    THEN /\ pc' = [pc EXCEPT ![t] = "idle"]
         /\ arg' = [arg EXCEPT ![t] = NoArg]
    ELSE /\ pc' = [pc EXCEPT ![t] = "body"]
         /\ UNCHANGED arg

Return(t) ==
    /\ pc' = [pc EXCEPT ![t] = "idle"]
    /\ arg' = [arg EXCEPT ![t] = NoArg]

\* Both critical sections of acquire_reader_with begin with the same test.
SamePath(t) == Stored(arg[t].comic) /\ sessions[arg[t].comic].path = arg[t].path
OtherPathNeverInUse(t) == FALSE
OtherPathInUse(t) ==
    /\ Stored(arg[t].comic)
    /\ sessions[arg[t].comic].path # arg[t].path
    /\ sessions[arg[t].comic].ref > 0

NewOpens(t) ==
    [opens EXCEPT ![arg[t].comic] = @ + (IF arg[t].kind = "open" THEN 1 ELSE 0)]

Reuse(t) ==
    /\ SamePath(t)
    /\ sessions' = [sessions EXCEPT ![arg[t].comic].ref = @ + 1]
    /\ order' = Touched(arg[t].comic)
    /\ opens' = NewOpens(t)
    /\ Acquired(t)
    /\ UNCHANGED <<trashed, todo, cut>>

Mismatch(t) ==
    /\ OtherPathInUse(t)
    /\ Return(t)
    /\ UNCHANGED <<sessions, order, trashed, todo, opens, cut>>

-----------------------------------------------------------------------------
\* open_reader and with_ephemeral_reader.

\* At most MaxOpens reading screens on a comic, those still opening included.
MayOpen(c) ==
    opens[c] + Cardinality({t \in Callers : /\ pc[t] \in {"check", "first", "second"}
                                            /\ arg[t].kind = "open"
                                            /\ arg[t].comic = c}) < MaxOpens

StartOpen(t, c, p) ==
    /\ pc[t] = "idle"
    /\ MayOpen(c)
    /\ pc' = [pc EXCEPT ![t] = "check"]
    /\ arg' = [arg EXCEPT ![t] = [kind |-> "open", comic |-> c, path |-> p]]
    /\ UNCHANGED <<sessions, order, trashed, todo, opens, cut>>

\* is_comic_trashed read the row; an unavailable database does not refuse.
CheckTrashed(t) ==
    /\ pc[t] = "check"
    /\ \/ /\ arg[t].comic \notin trashed \/ DbMayFail
          /\ pc' = [pc EXCEPT ![t] = "first"]
          /\ UNCHANGED arg
       \/ /\ arg[t].comic \in trashed
          /\ Return(t)
    /\ UNCHANGED <<sessions, order, trashed, todo, opens, cut>>

StartEphemeral(t, c, p) ==
    /\ pc[t] = "idle"
    /\ pc' = [pc EXCEPT ![t] = "first"]
    /\ arg' = [arg EXCEPT ![t] = [kind |-> "ephemeral", comic |-> c, path |-> p]]
    /\ UNCHANGED <<sessions, order, trashed, todo, opens, cut>>

\* The check, resolve_access_for_open or open_backend_with returned an error.
Fail(t) ==
    /\ pc[t] \in {"check", "first", "second"}
    /\ Return(t)
    /\ UNCHANGED <<sessions, order, trashed, todo, opens, cut>>

\* First critical section: no session to reuse (an idle one on another path is
\* removed); the backend is opened next, outside the lock.
FirstMiss(t) ==
    /\ ~SamePath(t) /\ ~OtherPathInUse(t)
    /\ RemoveSessions({arg[t].comic})
    /\ pc' = [pc EXCEPT ![t] = "second"]
    /\ UNCHANGED <<arg, trashed, todo>>

FirstLock(t) ==
    /\ pc[t] = "first"
    /\ Reuse(t) \/ Mismatch(t) \/ FirstMiss(t)

\* Second critical section: another acquisition may have won the race.
Insert(t) ==
    LET c    == arg[t].comic
        s    == [sessions EXCEPT ![c] = [path |-> arg[t].path, ref |-> 1]]
        ord  == Touched(c)
        gone == Evicted(s, ord)
    IN  /\ ~SamePath(t) /\ ~OtherPathInUse(t)
        /\ sessions' = [d \in Comics |-> IF d \in gone THEN NoSession ELSE s[d]]
        /\ order' = Kept(ord, gone)
        /\ opens' = [d \in Comics |-> IF d \in gone THEN 0 ELSE NewOpens(t)[d]]
        /\ Acquired(t)
        /\ UNCHANGED <<trashed, todo, cut>>

SecondLock(t) ==
    /\ pc[t] = "second"
    /\ Reuse(t) \/ Mismatch(t) \/ Insert(t)

\* release_reader: one reference less, and the session goes with the last one.
AfterReleaseKeepsIdle(s) == [s EXCEPT !.ref = IF @ > 0 THEN @ - 1 ELSE 0]
AfterRelease(s) == IF s.ref <= 1 THEN NoSession ELSE [s EXCEPT !.ref = @ - 1]

\* The end of with_ephemeral_reader releases the session it finds under the id,
\* whoever owns that session.
Release(t) ==
    LET c == arg[t].comic IN
    /\ pc[t] = "body"
    /\ \/ /\ ~Stored(c)
          /\ cut' = [cut EXCEPT ![t] = FALSE]
          /\ UNCHANGED <<sessions, order, opens>>
       \/ /\ Stored(c) /\ AfterRelease(sessions[c]) # NoSession
          /\ sessions' = [sessions EXCEPT ![c] = AfterRelease(sessions[c])]
          /\ cut' = [cut EXCEPT ![t] = FALSE]
          /\ UNCHANGED <<order, opens>>
       \/ /\ Stored(c) /\ AfterRelease(sessions[c]) = NoSession
          /\ sessions' = [sessions EXCEPT ![c] = NoSession]
          /\ order' = Without({c})
          /\ opens' = [opens EXCEPT ![c] = 0]
          /\ cut' = [u \in Callers |-> u # t /\ (cut[u] \/ u \in Leases(c))]
    /\ Return(t)
    /\ UNCHANGED <<trashed, todo>>

-----------------------------------------------------------------------------
\* Removal by force.

\* close_reader as the reading screen calls it.
Close(c) ==
    /\ Stored(c)
    /\ RemoveSessions({c})
    /\ UNCHANGED <<trashed, pc, arg, todo>>

\* clear_reader_sessions, after a library sync or a change of a library root.
Clear ==
    /\ \E c \in Comics : Stored(c)
    /\ RemoveSessions(Comics)
    /\ UNCHANGED <<trashed, pc, arg, todo>>

\* trash_comics: one transaction marks the rows; the ids are closed after the
\* commit, when the library write lock is already free again.
TrashCommit(t, C) ==
    /\ pc[t] = "idle"
    /\ trashed' = trashed \cup C
    /\ pc' = [pc EXCEPT ![t] = "closing"]
    /\ todo' = [todo EXCEPT ![t] = C]
    /\ UNCHANGED <<sessions, order, arg, opens, cut>>

TrashClose(t, c) ==
    /\ pc[t] = "closing"
    /\ c \in todo[t]
    /\ RemoveSessions({c})
    /\ todo' = [todo EXCEPT ![t] = @ \ {c}]
    /\ pc' = [pc EXCEPT ![t] = IF todo[t] = {c} THEN "idle" ELSE "closing"]
    /\ UNCHANGED <<trashed, arg>>

\* restore_comics
Restore(C) ==
    /\ C \cap trashed # {}
    /\ trashed' = trashed \ C
    /\ UNCHANGED <<sessions, order, pc, arg, todo, opens, cut>>

-----------------------------------------------------------------------------
Call(t) ==
    \/ \E c \in Comics, p \in Paths : StartOpen(t, c, p) \/ StartEphemeral(t, c, p)
    \/ CheckTrashed(t)
    \/ Fail(t)
    \/ FirstLock(t)
    \/ SecondLock(t)
    \/ Release(t)
    \/ \E C \in SUBSET Comics \ {{}} : TrashCommit(t, C)
    \/ \E c \in Comics : TrashClose(t, c)

Next ==
    \/ \E t \in Callers : Call(t)
    \/ \E c \in Comics : Close(c)
    \/ Clear
    \/ \E C \in SUBSET Comics \ {{}} : Restore(C)

Spec == Init /\ [][Next]_vars

-----------------------------------------------------------------------------
\* Properties.

\* Sessions are dropped the moment nobody refers to them (release_reader), so
\* the store never holds an idle session: the branch of acquire_reader_with
\* that replaces an idle session and the eviction loop have nothing to do.
NoIdleSession == \A c \in Comics : Stored(c) => sessions[c].ref >= 1

\* The LRU list and the map describe the same sessions, each listed once,
\* through every interleaving of acquisitions, releases and forced removals.
OrderListsSessions ==
    /\ {order[i] : i \in 1..Len(order)} = {c \in Comics : Stored(c)}
    /\ \A i, j \in 1..Len(order) : order[i] = order[j] => i = j

\* No reference without an owner: the count of a session never exceeds the
\* reading screens on it plus the leases that still hold it.  A leaked count
\* would keep the backend (an open archive) alive after everybody left.
NoLeakedReference ==
    \A c \in Comics : Stored(c) =>
        sessions[c].ref <= opens[c] + Cardinality({t \in Leases(c) : ~cut[t]})

\* Map, LRU list and the callers' references agree at every moment the store's
\* mutex is free.
StoreCoherent == OrderListsSessions /\ NoLeakedReference

\* A session in use never changes its backend path in place: it has to be
\* removed before the id is opened on another path.
PathPinnedWhileInUse ==
    [][\A c \in Comics : Stored(c) /\ sessions'[c] # NoSession
          => sessions'[c].path = sessions[c].path]_vars
=============================================================================
