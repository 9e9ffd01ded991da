------------------------------ MODULE PageCache ------------------------------
(***************************************************************************)
(* The page cache of one comic: reader/cache.rs, reader/page.rs and        *)
(* reader/prefetch.rs of the core, driven by the reading screen            *)
(* (reader_prefetch_controller.dart).                                      *)
(*                                                                         *)
(* Every call of the screen runs on a thread of its own.  A prefetch is    *)
(* cancelled by a generation number, which the app counts per comic and    *)
(* forgets when the screen is left; the core keeps the last one it saw.    *)
(* A cached page is filed under the fingerprint (time and size) its source *)
(* file has at that moment; the bytes come from the backend that the       *)
(* session opened earlier.                                                 *)
(***************************************************************************)
EXTENDS Naturals, Sequences, FiniteSets, Functions

CONSTANTS
  Page,        \* page indexes
  Window,      \* the pages that may be warmed together, in the order they are asked for
  Prefetches,  \* prefetch calls in progress at a time
  Loads,       \* page loads in progress at a time
  MaxVersion,  \* bound on the contents the source file takes
  MaxGen,      \* bound on the generation numbers of one visit
  MaxStuck,    \* bound on the pages that a removal cannot delete
  MaxVisits    \* bound on the visits of the reading screen and the crashes together

ASSUME PageCacheAssumption ==
  /\ IsFiniteSet(Page) /\ Window \subseteq Seq(Page) \ {<<>>}
  /\ Prefetches \cap Loads = {} /\ IsFiniteSet(Prefetches \cup Loads)
  /\ MaxVersion \in Nat \ {0} /\ MaxGen \in Nat \ {0} /\ MaxStuck \in Nat /\ MaxVisits \in Nat

VARIABLES
  version,   \* content of the source file
  session,   \* content the backend of the open session reads, 0 when closed
  cache,     \* reader_cache/<comic>: by fingerprint and page, the content or 0
  gen,       \* GENERATION_STORE, 0 without an entry
  screen,    \* the reading screen: off, on, or leaving (closing is awaited)
  app,       \* the controller: generation and warm window of the comic
  calls,     \* prefetches and page loads
  clears,    \* clear_reader_page_cache calls that wait to start, and that have set the generation
  visits,    \* how often the screen was opened or the process ended
  mixed,     \* history: contents that the file took while an older one was in use
  spill,     \* history: pages that stayed and calls with bytes to write when the tree was last removed
  extra      \* history: pages a prefetch wrote since its generation was last current

vars == <<version, session, cache, gen, screen, app, calls, clears, visits, mixed, spill, extra>>

Version == 1 .. MaxVersion
Cancelled == MaxGen + 1                 \* u64::MAX
Call == [pc : {"idle", "sent", "check", "fetch", "write", "last", "evict"},
         gen : 0 .. MaxGen, keep : SUBSET Page, todo : Seq(Page),
         page : SUBSET Page, of : {0} \cup Version]
NoCall == [pc |-> "idle", gen |-> 0, keep |-> {}, todo |-> <<>>, page |-> {}, of |-> 0]

Cached(c) == {k \in DOMAIN c : c[k] # 0}
EmptyCache == [k \in Version \X Page |-> 0]

Init ==
  /\ version = 1
  /\ session = 0
  /\ cache = EmptyCache
  /\ gen = 0
  /\ screen = "off"
  /\ app = [gen |-> 0, window |-> {}]
  /\ calls = [t \in Prefetches \cup Loads |-> NoCall]
  /\ clears = [sent |-> 0, marked |-> 0]
  /\ visits = 0
  /\ mixed = {} /\ spill = 0
  /\ extra = [t \in Prefetches |-> 0]

-----------------------------------------------------------------------------
(* The reading screen.  A definition used nowhere that stands before another *)
(* is that one with a bug in it: some property has to notice the exchange.   *)

Open ==
  /\ screen = "off"
  /\ visits < MaxVisits
  /\ screen' = "on"
  /\ session' = version
  /\ visits' = visits + 1
  /\ spill' = 0
  /\ UNCHANGED <<version, cache, gen, app, calls, clears, mixed, extra>>

\* warmWindow: a window that has changed gets a new generation and a prefetch.
Warm(t, w) ==
  /\ screen # "off"
  /\ calls[t].pc = "idle"
  /\ Range(w) # app.window
  /\ app.gen < MaxGen
  /\ app' = [gen |-> app.gen + 1, window |-> Range(w)]
  /\ calls' = [calls EXCEPT ![t] = [NoCall EXCEPT !.pc = "sent", !.gen = app.gen + 1,
                                                  !.keep = Range(w), !.todo = w]]
  /\ UNCHANGED <<version, session, cache, gen, screen, clears, visits, mixed, spill, extra>>

FingerprintByPath(v) == 1
Fingerprint(v) == v
Readable == session # 0
Hit(p) == cache[<<Fingerprint(version), p>>] # 0

\* load_reader_page of a page that is not cached, up to its bytes; without a
\* session it is an error. A page that is cached is served, which changes nothing.
StartLoad(t, p) ==
  /\ screen # "off"
  /\ calls[t].pc = "idle"
  /\ Readable /\ ~ Hit(p)
  /\ calls' = [calls EXCEPT ![t] = [NoCall EXCEPT !.pc = "write", !.page = {p}, !.of = session]]
  /\ UNCHANGED <<version, session, cache, gen, screen, app, clears, visits, mixed, spill, extra>>

\* The screen is left: the session is closed, and only then (exit awaits it)
\* does clearComic forget the generation and send a clear nobody waits for.
LeaveOpen ==
  /\ screen = "on"
  /\ screen' = "leaving"
  /\ UNCHANGED <<version, session, cache, gen, app, calls, clears, visits, mixed, spill, extra>>

Leave ==
  /\ screen = "on"
  /\ screen' = "leaving"
  /\ session' = 0
  /\ UNCHANGED <<version, cache, gen, app, calls, clears, visits, mixed, spill, extra>>

ClearComic ==
  /\ screen = "leaving"
  /\ screen' = "off"
  /\ app' = [gen |-> 0, window |-> {}]
  /\ clears' = [clears EXCEPT !.sent = @ + 1]
  /\ UNCHANGED <<version, session, cache, gen, calls, visits, mixed, spill, extra>>

\* A sync or a trash closes the session by force.
Drop ==
  /\ session # 0
  /\ session' = 0
  /\ UNCHANGED <<version, cache, gen, screen, app, calls, clears, visits, mixed, spill, extra>>

-----------------------------------------------------------------------------
(* Prefetch and page load *)

\* A new generation g is stored: the count of a call it revives starts again.
Counted(g) == [t \in Prefetches |-> IF calls[t].gen = g THEN 0 ELSE extra[t]]

Begin(t) ==
  /\ calls[t].pc = "sent"
  /\ gen' = calls[t].gen
  /\ calls' = [calls EXCEPT ![t].pc = "check"]
  /\ extra' = Counted(calls[t].gen)
  /\ UNCHANGED <<version, session, cache, screen, app, clears, visits, mixed, spill>>

CurrentOnce(t) == Range(calls[t].todo) # calls[t].keep \/ gen = calls[t].gen
Current(t) == gen = calls[t].gen

\* Before every page: still the current generation?
Check(t) ==
  /\ calls[t].pc = "check"
  /\ IF Current(t)
     THEN calls' = [calls EXCEPT ![t].pc = "fetch", ![t].todo = Tail(@), ![t].page = {Head(calls[t].todo)}]
     ELSE calls' = [calls EXCEPT ![t].pc = "last", ![t].todo = <<>>]
  /\ UNCHANGED <<version, session, cache, gen, screen, app, clears, visits, mixed, spill, extra>>

Done(t) ==
  IF t \in Loads THEN NoCall
  ELSE [calls[t] EXCEPT !.pc = IF calls[t].todo = <<>> THEN "last" ELSE "check",
                        !.page = {}, !.of = 0]

\* A page is looked up in the cache; else its bytes are read from the session,
\* which is an error when that is closed.
Fetch(t) ==
  /\ calls[t].pc = "fetch"
  /\ \E p \in calls[t].page :
       calls' = [calls EXCEPT ![t] = IF Hit(p) \/ ~ Readable THEN Done(t)
                                     ELSE [@ EXCEPT !.pc = "write", !.of = session]]
  /\ UNCHANGED <<version, session, cache, gen, screen, app, clears, visits, mixed, spill, extra>>

\* write_page replaces the page with one rename, or fails.
Write(t) ==
  /\ calls[t].pc = "write"
  /\ cache' = [k \in DOMAIN cache |->
                 IF k \in {Fingerprint(version)} \X calls[t].page THEN calls[t].of ELSE cache[k]]
  /\ calls' = [calls EXCEPT ![t] = Done(t)]
  /\ extra' = IF t \in Prefetches /\ gen # calls[t].gen THEN [extra EXCEPT ![t] = @ + 1] ELSE extra
  /\ UNCHANGED <<version, session, gen, screen, app, clears, visits, mixed, spill>>

WriteFails(t) ==
  /\ calls[t].pc = "write"
  /\ calls' = [calls EXCEPT ![t] = Done(t)]
  /\ UNCHANGED <<version, session, cache, gen, screen, app, clears, visits, mixed, spill, extra>>

\* After the last page, the others are evicted if the generation is current.
Last(t) ==
  /\ calls[t].pc = "last"
  /\ calls' = [calls EXCEPT ![t] = IF Current(t) THEN [@ EXCEPT !.pc = "evict"] ELSE NoCall]
  /\ extra' = IF Current(t) THEN extra ELSE [extra EXCEPT ![t] = 0]
  /\ UNCHANGED <<version, session, cache, gen, screen, app, clears, visits, mixed, spill>>

Evict(t) ==
  /\ calls[t].pc = "evict"
  /\ cache' = [k \in DOMAIN cache |->
                 IF k[1] = Fingerprint(version) /\ k[2] \notin calls[t].keep THEN 0 ELSE cache[k]]
  /\ calls' = [calls EXCEPT ![t] = NoCall]
  /\ extra' = [extra EXCEPT ![t] = 0]
  /\ UNCHANGED <<version, session, gen, screen, app, clears, visits, mixed, spill>>

-----------------------------------------------------------------------------
(* clear_reader_page_cache *)

Writing == {t \in DOMAIN calls : calls[t].pc = "write"}

MarkClear ==
  /\ clears.sent > 0
  /\ clears' = [sent |-> clears.sent - 1, marked |-> clears.marked + 1]
  /\ gen' = Cancelled
  /\ UNCHANGED <<version, session, cache, screen, app, calls, visits, mixed, spill, extra>>

\* clear_comic removes what it can: a page that is still open may stay.
RemoveTree ==
  /\ clears.marked > 0
  /\ clears' = [clears EXCEPT !.marked = @ - 1]
  /\ \E stuck \in SUBSET Cached(cache) :
       /\ Cardinality(stuck) <= MaxStuck
       /\ cache' = [k \in DOMAIN cache |-> IF k \in stuck THEN cache[k] ELSE 0]
       /\ spill' = IF screen = "off" THEN Cardinality(stuck) + Cardinality(Writing) ELSE 0
  /\ UNCHANGED <<version, session, gen, screen, app, calls, visits, mixed, extra>>

-----------------------------------------------------------------------------
(* The source file changes; the process ends and starts again, with the cache *)
(* on disk as it was.                                                         *)

Change ==
  /\ version < MaxVersion
  /\ version' = version + 1
  /\ mixed' = IF session # 0 \/ Writing # {} THEN mixed \cup {version + 1} ELSE mixed
  /\ UNCHANGED <<session, cache, gen, screen, app, calls, clears, visits, spill, extra>>

Crash ==
  /\ screen # "off"
  /\ visits < MaxVisits
  /\ visits' = visits + 1
  /\ session' = 0 /\ gen' = 0 /\ screen' = "off"
  /\ app' = [gen |-> 0, window |-> {}]
  /\ calls' = [t \in DOMAIN calls |-> NoCall]
  /\ clears' = [sent |-> 0, marked |-> 0]
  /\ spill' = Cardinality(Cached(cache))
  /\ extra' = [t \in Prefetches |-> 0]
  /\ UNCHANGED <<version, cache, mixed>>

Next ==
  \/ Open \/ Leave \/ ClearComic \/ Drop
  \/ \E t \in Prefetches : \/ \E w \in Window : Warm(t, w)
                           \/ Begin(t) \/ Check(t) \/ Fetch(t) \/ Last(t) \/ Evict(t)
  \/ \E t \in Loads, p \in Page : StartLoad(t, p)
  \/ \E t \in Prefetches \cup Loads : Write(t) \/ WriteFails(t)
  \/ MarkClear \/ RemoveTree
  \/ Change \/ Crash

Spec == Init /\ [][Next]_vars

-----------------------------------------------------------------------------
(* Properties *)

\* The variables have their types, and a load that fetches has a page.
TypeOK ==
  /\ version \in Version /\ session \in {0} \cup Version
  /\ cache \in [Version \X Page -> {0} \cup Version]
  /\ gen \in 0 .. Cancelled
  /\ screen \in {"off", "on", "leaving"}
  /\ app \in [gen : 0 .. MaxGen, window : SUBSET Page]
  /\ calls \in [Prefetches \cup Loads -> Call]
  /\ \A t \in DOMAIN calls : calls[t].pc = "write" => calls[t].of # 0
  /\ clears \in [sent : 0 .. MaxVisits, marked : 0 .. MaxVisits]
  /\ visits \in 0 .. MaxVisits
  /\ mixed \subseteq Version /\ spill \in Nat
  /\ extra \in [Prefetches -> Nat]

\* After the screen is left and its clears are done, no more pages are left
\* behind than could not be removed and there were calls with the bytes of a
\* page in hand when the tree was (after a crash, than were cached): nothing is
\* read any more once the session is closed, so nobody else can write.
LeftBehindBounded ==
  screen = "off" /\ clears.sent + clears.marked = 0 =>
    Cardinality(Cached(cache)) <= spill

\* A prefetch that is overtaken by another or by a clear writes one more page
\* at most, however late its thread runs, unless its generation is current again.
AtMostOneMore == \A t \in Prefetches : extra[t] <= 1

\* A page is cached under the fingerprint of the content it was read from,
\* unless the file took that fingerprint while an older content was being read;
\* so a page of an older file is served in no other case, in this visit, a
\* later one or after a crash.
PagesOfTheirVersion ==
  \A k \in Cached(cache) : cache[k] = k[1] \/ k[1] \in mixed
=============================================================================
