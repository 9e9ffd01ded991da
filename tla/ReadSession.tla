----------------------------- MODULE ReadSession -----------------------------
(***************************************************************************)
(* The reading screen of the app over the session store of the core:       *)
(* reader_session_service.dart, read_session_coordinator.dart and the      *)
(* controllers that call them.                                             *)
(*                                                                         *)
(* Opening a comic awaits a call of the core for at most thirty seconds.   *)
(* A Dart future that nobody waits for any more still runs to its end: a   *)
(* call that has timed out may open its session later, and one whose       *)
(* screen was left still files its pages in _openedPages or cleans up.     *)
(* The screen closes its comic by id, whatever sessions are there.  Next   *)
(* to the app go the thumbnails' leases, the trash and the syncs of        *)
(* ReaderSessions.                                                         *)
(***************************************************************************)
EXTENDS ReaderSessions

CONSTANTS
  Exits,     \* calls that leave the screen, in progress at a time
  MaxVisits, \* bound on the opens that the app asks for
  MaxOthers  \* bound on the leases, trash calls and syncs next to the app

ASSUME ReadSessionAssumption == MaxVisits \in Nat /\ MaxOthers \in Nat

VARIABLES
  screen,  \* the reading screen: what it shows, and its comic, a set with at most one
  opened,  \* ReaderSessionService._openedPages
  call,    \* _openPages: how far its future is, what it waits for, for which comic and whether for the screen
  exit,    \* exitReadSession and prepareSeriesSwitch, of this screen or an earlier one, and the next comic
  visits,  \* opens asked for so far
  others,  \* leases, trash calls and syncs so far
  lost,    \* history: comics whose session others have taken, or a close that they were opened again before
  left     \* history: sessions whose open was given up, left or only made ahead

all == <<vars, screen, opened, call, exit, visits, others, lost, left>>

One == {{}} \cup {{c} : c \in Comics}
Off == [at |-> "off", comic |-> {}]
NoCall == [run |-> "none", wait |-> "none", comic |-> {}, own |-> FALSE]
NoExit == [at |-> "none", comic |-> {}, own |-> FALSE, next |-> {}]

\* The variables have their types: the screen and every call and exit name at
\* most one comic.
FlowTypeOK ==
  /\ screen \in [at : {"off", "loading", "shown", "failed"}, comic : One]
  /\ opened \subseteq Comics
  /\ call \in [Callers -> [run : {"none", "core", "list"}, wait : {"none", "result", "close"},
                           comic : One, own : BOOLEAN]]
  /\ exit \in [Exits -> [at : {"none", "flush", "close", "go"}, comic : One, own : BOOLEAN, next : One]]
  /\ visits \in 0 .. MaxVisits /\ others \in 0 .. MaxOthers
  /\ lost \subseteq Comics /\ left \subseteq Comics

FlowInit ==
  /\ Init
  /\ screen = Off
  /\ opened = {}
  /\ call = [t \in Callers |-> NoCall]
  /\ exit = [e \in Exits |-> NoExit]
  /\ visits = 0 /\ others = 0
  /\ lost = {} /\ left = {}

\* Sessions that nobody is going to close now; one that is closed after all is not.
Leave(C) == left' = {c \in left \cup C : sessions'[c] # NoSession}

-----------------------------------------------------------------------------
(* Opening *)

Free(t) == pc[t] = "idle" /\ call[t] = NoCall

\* openReaderFrb for _openPages, on a thread of its own.
Asked(c, own) == [run |-> "core", wait |-> "result", comic |-> {c}, own |-> own]
Ask(t, c) == Free(t) /\ \E p \in Paths : StartOpen(t, c, p)

\* The calls and exits under way are now those of an earlier screen.
Disowned(records) == [k \in DOMAIN records |-> [records[k] EXCEPT !.own = FALSE]]

\* A new screen, or a new try: _openPages returns the pages it has.
Enter(c, calls) ==
  \/ /\ c \in opened
     /\ screen' = [at |-> "shown", comic |-> {c}]
     /\ call' = calls
     /\ UNCHANGED vars
  \* there is no row of it, or its history cannot be begun or read
  \/ /\ screen' = [at |-> "failed", comic |-> {c}]
     /\ call' = calls
     /\ UNCHANGED vars
  \/ /\ c \notin opened
     /\ screen' = [at |-> "loading", comic |-> {c}]
     /\ \E t \in Callers : Ask(t, c) /\ call' = [calls EXCEPT ![t] = Asked(c, TRUE)]

Visit(c) ==
  /\ screen = Off /\ visits < MaxVisits
  /\ Enter(c, call)
  /\ visits' = visits + 1
  /\ UNCHANGED <<opened, exit, others, lost>> /\ Leave({})

Retry ==
  /\ screen.at = "failed" /\ visits < MaxVisits
  /\ \E c \in screen.comic : Enter(c, call)
  /\ visits' = visits + 1
  /\ UNCHANGED <<opened, exit, others, lost>> /\ Leave({})

\* _openPages for others than the screen: at the end of a volume the next one is
\* opened ahead, before the user says whether he goes there; and the viewport
\* asks for the list of pages, which is not there if it was forgotten meanwhile.
OpenAside(t, c) ==
  /\ screen.at = "shown" /\ c \notin opened /\ visits < MaxVisits
  /\ Ask(t, c)
  /\ call' = [call EXCEPT ![t] = Asked(c, FALSE)]
  /\ visits' = visits + 1
  /\ UNCHANGED <<screen, opened, exit, others, lost>> /\ Leave({})

\* open_reader in the core.
CoreStep(t) == CheckTrashed(t) \/ Fail(t) \/ FirstLock(t) \/ SecondLock(t)
Got(t) == \E c \in call[t].comic : opens'[c] > opens[c]

\* _bestEffortClose forgets the pages and then closes the comic in the core.
\* (A definition used nowhere that stands before another is that one with a bug
\* in it: some property has to notice the exchange.)
AfterErrorLeftOpen(k) == NoCall
AfterError(k) == [k EXCEPT !.run = "none", !.wait = "close"]

CoreOpens(t) ==
  /\ call[t].run = "core" /\ CoreStep(t)
  /\ \/ /\ pc'[t] # "idle"
        /\ UNCHANGED <<call, opened>> /\ Leave({})
     \/ /\ pc'[t] = "idle" /\ call[t].wait = "result" /\ Got(t)
        /\ call' = [call EXCEPT ![t].run = "list"]
        /\ UNCHANGED opened /\ Leave({})
     \/ /\ pc'[t] = "idle" /\ call[t].wait = "result" /\ ~ Got(t)
        /\ call' = [call EXCEPT ![t] = AfterError(@)]
        /\ opened' = opened \ call[t].comic
        /\ Leave({})
     \* the wait has timed out
     \/ /\ pc'[t] = "idle" /\ call[t].wait # "result"
        /\ call' = [call EXCEPT ![t] = IF @.wait = "none" THEN NoCall ELSE [@ EXCEPT !.run = "none"]]
        /\ UNCHANGED opened /\ Leave(IF Got(t) THEN call[t].comic ELSE {})
  /\ UNCHANGED <<screen, exit, visits, others, lost>>

ClosePending(c) ==
  \/ \E e \in Exits : exit[e].at = "close" /\ c \in exit[e].comic
  \/ \E t \in Callers : call[t].wait = "close" /\ c \in call[t].comic

JustClosed(C) == \E e \in Exits : exit[e].at = "go" /\ exit[e].own /\ exit[e].comic = C

\* loadPages reads the list from the session.  The begin of the history may
\* fail after it, which shows as a failed open.
Lists(t) ==
  LET C == call[t].comic IN
  /\ call[t].run = "list"
  /\ \A c \in C : Stored(c)
  /\ call' = [call EXCEPT ![t] = NoCall]
  /\ opened' = opened \cup C
  /\ IF call[t].own THEN \E at \in {"shown", "failed"} : screen' = [screen EXCEPT !.at = at]
                    ELSE UNCHANGED screen
  /\ lost' = lost \cup {c \in C : ClosePending(c)}
  /\ UNCHANGED <<vars, exit, visits, others>> /\ Leave(IF call[t].own /\ ~ JustClosed(C) THEN {} ELSE C)

\* No session under the id, or a list that is empty or cannot be read.
ListFails(t) ==
  /\ call[t].run = "list"
  /\ call' = [call EXCEPT ![t] = AfterError(@)]
  /\ opened' = opened \ call[t].comic
  /\ UNCHANGED <<vars, screen, exit, visits, others, lost>> /\ Leave({})

Timeout(t) ==
  /\ call[t].wait = "result"
  /\ call' = [call EXCEPT ![t].wait = "close", ![t].run = IF @ = "list" THEN "none" ELSE @]
  /\ opened' = opened \ call[t].comic
  /\ UNCHANGED <<vars, screen, exit, visits, others, lost>> /\ Leave({})

\* close_reader for a comic.
CoreClose(c) == IF Stored(c) THEN Close(c) ELSE UNCHANGED vars

\* The pages that others have of a comic that is closed now.
Robbed(C) == {c \in C : c \in opened \/ c \in screen.comic}

CleansUp(t) ==
  LET C == call[t].comic IN
  /\ call[t].wait = "close"
  /\ \A c \in C : CoreClose(c)
  /\ call' = [call EXCEPT ![t] = IF @.run = "none" THEN NoCall ELSE [@ EXCEPT !.wait = "none", !.own = FALSE]]
  /\ screen' = IF call[t].own THEN [screen EXCEPT !.at = "failed"] ELSE screen
  /\ lost' = IF call[t].own THEN lost ELSE lost \cup Robbed(C)
  /\ UNCHANGED <<opened, exit, visits, others>> /\ Leave({})

-----------------------------------------------------------------------------
(* Leaving *)

\* executeExitReader may be called again before it has popped the screen;
\* switchComic needs pages on the screen.
StartExit(e, next) ==
  /\ exit[e] = NoExit
  /\ screen # Off
  /\ next # {} => screen.at = "shown" /\ next # screen.comic /\ visits < MaxVisits
  /\ exit' = [exit EXCEPT ![e] = [at |-> "flush", comic |-> screen.comic, own |-> TRUE, next |-> next]]
  /\ visits' = IF next = {} THEN visits ELSE visits + 1
  /\ UNCHANGED <<vars, screen, opened, call, others, lost>> /\ Leave({})

\* The progress is written, unless there is none to write.
ForgottenNever(C) == opened
Forgotten(C) == opened \ C
Flushed(e) ==
  /\ exit[e].at = "flush"
  /\ exit' = [exit EXCEPT ![e].at = "close"]
  /\ opened' = Forgotten(exit[e].comic)
  /\ UNCHANGED <<vars, screen, call, visits, others, lost>> /\ Leave({})

\* The error ends the exit: the screen stays, and with it the session.
FlushFails(e) ==
  /\ exit[e].at = "flush"
  /\ exit' = [exit EXCEPT ![e] = NoExit]
  /\ UNCHANGED <<vars, screen, opened, call, visits, others, lost>> /\ Leave({})

Closed(e) ==
  LET C == exit[e].comic IN
  /\ exit[e].at = "close"
  /\ \A c \in C : CoreClose(c)
  /\ exit' = [exit EXCEPT ![e].at = "go"]
  /\ lost' = IF exit[e].own THEN lost ELSE lost \cup Robbed(C)
  /\ UNCHANGED <<screen, opened, call, visits, others>> /\ Leave({})

\* The screen is popped if it is still the one that was left.
Pop(e) ==
  /\ exit[e].at = "go" /\ exit[e].next = {}
  /\ LET rest == [exit EXCEPT ![e] = NoExit] IN
     IF exit[e].own
     THEN screen' = Off /\ exit' = Disowned(rest) /\ call' = Disowned(call)
     ELSE exit' = rest /\ UNCHANGED <<screen, call>>
  /\ UNCHANGED <<vars, opened, visits, others, lost>> /\ Leave({})

\* The next volume replaces whatever screen is there by then.
GoOn(e) ==
  /\ exit[e].at = "go"
  /\ \E c \in exit[e].next : Enter(c, Disowned(call))
  /\ exit' = Disowned([exit EXCEPT ![e] = NoExit])
  /\ UNCHANGED <<opened, visits, others, lost>>
  /\ Leave(IF exit[e].own THEN {} ELSE screen.comic)

-----------------------------------------------------------------------------
(* The rest of ReaderSessions, which takes sessions away without asking *)

Running(t) == call[t] = NoCall /\ (FirstLock(t) \/ SecondLock(t) \/ Fail(t) \/ Release(t))
Starting ==
  \/ \E t \in Callers :
       /\ call[t] = NoCall
       /\ \/ \E c \in Comics, p \in Paths : StartEphemeral(t, c, p)
          \/ \E C \in SUBSET Comics \ {{}} : TrashCommit(t, C)
  \/ Clear
  \/ \E C \in SUBSET Comics \ {{}} : Restore(C)
Others ==
  /\ \/ Starting /\ others < MaxOthers /\ others' = others + 1
     \/ /\ \E t \in Callers : Running(t) \/ \E c \in Comics : TrashClose(t, c)
        /\ UNCHANGED others
  /\ lost' = lost \cup Robbed({c \in Comics : Stored(c) /\ sessions'[c] = NoSession})
  /\ UNCHANGED <<screen, opened, call, exit, visits>> /\ Leave({})

FlowNext ==
  \/ \E c \in Comics : Visit(c)
  \/ Retry
  \/ \E t \in Callers :
       \/ \E c \in Comics : OpenAside(t, c)
       \/ CoreOpens(t) \/ Lists(t) \/ ListFails(t) \/ Timeout(t) \/ CleansUp(t)
  \/ \E e \in Exits :
       \/ \E next \in One : StartExit(e, next)
       \/ Flushed(e) \/ FlushFails(e) \/ Closed(e) \/ Pop(e) \/ GoOn(e)
  \/ Others

FlowSpec == FlowInit /\ [][FlowNext]_all

-----------------------------------------------------------------------------
(* Properties *)

Quiet ==
  /\ screen = Off
  /\ \A t \in Callers : Free(t)
  /\ \A e \in Exits : exit[e] = NoExit

\* When the app is back in the library and nothing is under way, no comic is
\* kept open in the core but those of calls that timed out, were overtaken by
\* the exit from their screen, or opened a volume ahead that nobody went to.
SessionsAreOwned == Quiet => \A c \in Comics : Stored(c) => c \in left

\* A comic that is on the screen, or that the service would show without a new
\* open, has its session in the core, unless it is just being left or another
\* has taken the session: a sync, the trash, the lease of a thumbnail, or a
\* close that was under way when the comic was opened again.
OpenedHasSession ==
  \A c \in opened \cup (IF screen.at = "shown" THEN screen.comic ELSE {}) :
    \/ Stored(c)
    \/ c \in lost
    \/ \E e \in Exits : exit[e].own /\ exit[e].at = "go" /\ c \in exit[e].comic
=============================================================================
