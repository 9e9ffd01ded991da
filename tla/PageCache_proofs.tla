-------------------------- MODULE PageCache_proofs --------------------------
(***************************************************************************)
(* Proofs about PageCache for any pages, windows, calls and bounds: the    *)
(* types, that an overtaken prefetch writes one more page at most, that a  *)
(* page is filed under the content it was read from, and how many pages a  *)
(* visit leaves behind.                                                    *)
(***************************************************************************)
EXTENDS PageCache, FiniteSetTheorems, TLAPS

-----------------------------------------------------------------------------
(* Types *)

\* A call that will look at its next page has one, a page load is never anywhere
\* but at its write, and every clear under way belongs to a visit.
Shape ==
  /\ \A t \in Prefetches \cup Loads :
       calls[t].pc \in {"sent", "check"} => calls[t].todo # <<>>
  /\ \A t \in Loads : calls[t].pc \in {"idle", "write"}
  /\ clears.sent + clears.marked + (IF screen = "off" THEN 0 ELSE 1) <= visits

TypeInv == TypeOK /\ Shape

LEMMA EmptyType == EmptyCache \in [Version \X Page -> {0} \cup Version]
  BY DEF EmptyCache

LEMMA WindowRange == \A w \in Window : w \in Seq(Page) /\ w # <<>> /\ Range(w) \in SUBSET Page
<1> SUFFICES ASSUME NEW w \in Window PROVE w \in Seq(Page) /\ w # <<>> /\ Range(w) \in SUBSET Page
  OBVIOUS
<1>1. w \in Seq(Page) /\ w # <<>>
  BY PageCacheAssumption
<1>2. QED
  BY <1>1 DEF Range

LEMMA Numbers == MaxVersion \in Nat \ {0} /\ MaxGen \in Nat \ {0} /\ MaxVisits \in Nat /\ 1 \in Version
  BY PageCacheAssumption DEF Version

LEMMA NoCallType == NoCall \in Call /\ NoCall.pc = "idle" /\ NoCall.gen = 0
<1>1. <<>> \in Seq(Page) /\ 0 \in 0 .. MaxGen
  BY Numbers
<1>2. QED
  BY <1>1 DEF NoCall, Call

\* The counts that stand for what is left behind are counts of finite sets.
LEMMA CountsType ==
  ASSUME TypeOK
  PROVE  /\ IsFiniteSet(Writing) /\ IsFiniteSet(Cached(cache))
         /\ Cardinality(Writing) \in Nat /\ Cardinality(Cached(cache)) \in Nat
<1>1. Writing \subseteq Prefetches \cup Loads
  BY DEF Writing, TypeOK
<1>2. Cached(cache) \subseteq Version \X Page
  BY DEF Cached, TypeOK
<1>3. IsFiniteSet(Version)
  BY Numbers, FS_Interval DEF Version
<1>4. IsFiniteSet(Version \X Page)
  BY <1>3, PageCacheAssumption, FS_Product
<1>5. IsFiniteSet(Writing) /\ IsFiniteSet(Cached(cache))
  BY <1>1, <1>2, <1>4, PageCacheAssumption, FS_Subset
<1>6. QED
  BY <1>5, FS_CardinalityType

LEMMA InitType == Init => TypeInv
<1> SUFFICES ASSUME Init PROVE TypeInv
  OBVIOUS
<1>1. calls \in [Prefetches \cup Loads -> Call] /\ \A t \in Prefetches \cup Loads : calls[t].pc = "idle"
  BY NoCallType DEF Init
<1>2. TypeOK
  BY <1>1, Numbers, EmptyType DEF Init, TypeOK, Cancelled
<1>3. Shape
  BY <1>1, Numbers DEF Init, Shape
<1>4. QED
  BY <1>2, <1>3 DEF TypeInv

\* A step of one call that does not touch the screen or the clears.
LEMMA CallStep ==
  ASSUME TypeInv, NEW t \in Prefetches \cup Loads, NEW c \in Call,
         calls' = [calls EXCEPT ![t] = c],
         c.pc = "write" => c.of # 0,
         c.pc \in {"sent", "check"} => c.todo # <<>>,
         t \in Loads => c.pc \in {"idle", "write"},
         cache' \in [Version \X Page -> {0} \cup Version],
         gen' \in 0 .. Cancelled, app' \in [gen : 0 .. MaxGen, window : SUBSET Page],
         extra' \in [Prefetches -> Nat],
         UNCHANGED <<version, session, screen, clears, visits, mixed, spill>>
  PROVE  TypeInv'
<1>1. /\ calls' \in [Prefetches \cup Loads -> Call]
      /\ calls'[t] = c /\ \A u \in Prefetches \cup Loads : u # t => calls'[u] = calls[u]
  BY DEF TypeInv, TypeOK
<1>2. TypeOK'
  BY <1>1 DEF TypeInv, TypeOK
<1>3. Shape'
  BY <1>1 DEF TypeInv, Shape
<1>4. QED
  BY <1>2, <1>3 DEF TypeInv

\* A step that leaves the calls alone.
LEMMA ScreenStep ==
  ASSUME TypeInv, calls' = calls,
         version' \in Version, session' \in {0} \cup Version,
         cache' \in [Version \X Page -> {0} \cup Version],
         gen' \in 0 .. Cancelled, screen' \in {"off", "on", "leaving"},
         app' \in [gen : 0 .. MaxGen, window : SUBSET Page],
         clears' \in [sent : Nat, marked : Nat], visits' \in 0 .. MaxVisits,
         clears'.sent + clears'.marked + (IF screen' = "off" THEN 0 ELSE 1) <= visits',
         mixed' \subseteq Version, spill' \in Nat, extra' = extra
  PROVE  TypeInv'
<1>1. clears' \in [sent : 0 .. MaxVisits, marked : 0 .. MaxVisits]
  BY Numbers
<1>2. TypeOK'
  BY <1>1 DEF TypeInv, TypeOK
<1>3. Shape'
  BY DEF TypeInv, Shape
<1>4. QED
  BY <1>2, <1>3 DEF TypeInv

\* What a call becomes when its page is done.
LEMMA DoneType ==
  ASSUME TypeInv, NEW t \in Prefetches \cup Loads
  PROVE  /\ Done(t) \in Call /\ Done(t).pc # "write"
         /\ Done(t).pc = "check" => Done(t).todo # <<>>
         /\ Done(t).pc # "sent" /\ (t \in Loads => Done(t).pc = "idle")
         /\ t \in Prefetches => Done(t).pc \in {"last", "check"} /\ Done(t).gen = calls[t].gen
<1>1. calls[t] \in Call
  BY DEF TypeInv, TypeOK
<1>2. CASE t \in Loads
  BY <1>2, NoCallType, PageCacheAssumption DEF Done
<1>3. CASE t \notin Loads
  BY <1>1, <1>3 DEF Done, Call
<1>4. QED
  BY <1>2, <1>3

LEMMA ScreenType ==
  ASSUME TypeInv, Open \/ Leave \/ ClearComic \/ Drop \/ MarkClear \/ RemoveTree \/ Change
  PROVE  TypeInv'
<1>0. /\ version \in Version /\ session \in {0} \cup Version
      /\ cache \in [Version \X Page -> {0} \cup Version]
      /\ gen \in 0 .. Cancelled /\ screen \in {"off", "on", "leaving"}
      /\ app \in [gen : 0 .. MaxGen, window : SUBSET Page]
      /\ clears \in [sent : 0 .. MaxVisits, marked : 0 .. MaxVisits] /\ visits \in 0 .. MaxVisits
      /\ clears.sent + clears.marked + (IF screen = "off" THEN 0 ELSE 1) <= visits
      /\ mixed \subseteq Version /\ spill \in Nat
  BY DEF TypeInv, TypeOK, Shape
<1>a. clears.sent \in Nat /\ clears.marked \in Nat /\ visits \in Nat /\ clears \in [sent : Nat, marked : Nat]
  BY <1>0, Numbers
<1>1. CASE Open
  BY <1>0, <1>1, <1>a, Numbers, ScreenStep DEF Open
<1>2. CASE Leave
  BY <1>0, <1>2, <1>a, ScreenStep DEF Leave
<1>3. CASE ClearComic
  <2>1. /\ screen = "leaving" /\ screen' = "off" /\ app' = [gen |-> 0, window |-> {}]
        /\ clears' = [clears EXCEPT !.sent = @ + 1]
    BY <1>3 DEF ClearComic
  <2>2. app' \in [gen : 0 .. MaxGen, window : SUBSET Page]
    BY <2>1, Numbers
  <2>3. /\ clears' \in [sent : Nat, marked : Nat]
        /\ clears'.sent + clears'.marked + 0 <= visits
    BY <1>0, <1>a, <2>1
  <2>4. QED
    BY <1>0, <1>3, <2>1, <2>2, <2>3, ScreenStep DEF ClearComic
<1>4. CASE Drop
  BY <1>0, <1>4, <1>a, ScreenStep DEF Drop
<1>5. CASE MarkClear
  <2>1. clears.sent > 0 /\ clears' = [sent |-> clears.sent - 1, marked |-> clears.marked + 1] /\ gen' = Cancelled
    BY <1>5 DEF MarkClear
  <2>2. /\ clears' \in [sent : Nat, marked : Nat]
        /\ clears'.sent + clears'.marked = clears.sent + clears.marked
    BY <1>a, <2>1
  <2>3. gen' \in 0 .. Cancelled
    BY <2>1, Numbers DEF Cancelled
  <2>4. QED
    BY <1>0, <1>5, <2>2, <2>3, ScreenStep DEF MarkClear
<1>6. CASE RemoveTree
  <2>1. clears.marked > 0 /\ clears' = [clears EXCEPT !.marked = @ - 1]
    BY <1>6 DEF RemoveTree
  <2>2. /\ clears' \in [sent : Nat, marked : Nat]
        /\ clears'.sent + clears'.marked + (IF screen = "off" THEN 0 ELSE 1) <= visits
    BY <1>0, <1>a, <2>1
  <2>3. spill' \in Nat /\ cache' \in [Version \X Page -> {0} \cup Version]
    <3>1. PICK stuck \in SUBSET Cached(cache) :
            /\ cache' = [k \in DOMAIN cache |-> IF k \in stuck THEN cache[k] ELSE 0]
            /\ spill' = IF screen = "off" THEN Cardinality(stuck) + Cardinality(Writing) ELSE 0
      BY <1>6 DEF RemoveTree
    <3>2. Cardinality(stuck) \in Nat /\ Cardinality(Writing) \in Nat
      BY CountsType, FS_Subset, FS_CardinalityType DEF TypeInv
    <3>3. cache' \in [Version \X Page -> {0} \cup Version]
      BY <1>0, <3>1
    <3>4. QED
      BY <3>1, <3>2, <3>3
  <2>4. QED
    BY <1>0, <1>6, <2>2, <2>3, ScreenStep DEF RemoveTree
<1>7. CASE Change
  <2>1. version + 1 \in Version
    BY <1>0, <1>7, Numbers DEF Change, Version
  <2>2. QED
    BY <1>0, <1>7, <1>a, <2>1, ScreenStep DEF Change
<1>8. QED
  BY <1>1, <1>2, <1>3, <1>4, <1>5, <1>6, <1>7

LEMMA PrefetchType ==
  ASSUME TypeInv, NEW t \in Prefetches,
         (\E w \in Window : Warm(t, w)) \/ Begin(t) \/ Check(t) \/ Fetch(t) \/ Last(t) \/ Evict(t)
  PROVE  TypeInv'
<1>0. /\ calls[t] \in Call /\ cache \in [Version \X Page -> {0} \cup Version]
      /\ gen \in 0 .. Cancelled /\ app \in [gen : 0 .. MaxGen, window : SUBSET Page]
      /\ extra \in [Prefetches -> Nat] /\ session \in {0} \cup Version
      /\ calls[t].pc \in {"sent", "check"} => calls[t].todo # <<>>
      /\ t \notin Loads /\ calls[t].gen \in 0 .. MaxGen
  BY PageCacheAssumption DEF TypeInv, TypeOK, Shape, Call
<1>1. ASSUME NEW w \in Window, Warm(t, w) PROVE TypeInv'
  <2> DEFINE c == [NoCall EXCEPT !.pc = "sent", !.gen = app.gen + 1, !.keep = Range(w), !.todo = w]
  <2>1. app.gen + 1 \in 0 .. MaxGen
    <3>1. app.gen \in 0 .. MaxGen /\ app.gen < MaxGen
      BY <1>0, <1>1 DEF Warm
    <3>2. QED
      BY <3>1, Numbers
  <2>2. c \in Call /\ c.pc = "sent" /\ c.todo = w
    BY <2>1, WindowRange, NoCallType DEF Call
  <2>3. app' \in [gen : 0 .. MaxGen, window : SUBSET Page]
    BY <1>1, <2>1, WindowRange DEF Warm
  <2>4. calls' = [calls EXCEPT ![t] = c]
    BY <1>1 DEF Warm
  <2>5. QED
    BY <1>0, <1>1, <2>2, <2>3, <2>4, WindowRange, CallStep DEF Warm
<1>2. CASE Begin(t)
  <2> DEFINE c == [calls[t] EXCEPT !.pc = "check"]
  <2>1. c \in Call /\ c.pc = "check" /\ c.todo = calls[t].todo
    BY <1>0 DEF Call
  <2>2. calls' = [calls EXCEPT ![t] = c] /\ calls[t].pc = "sent"
    BY <1>2 DEF Begin
  <2>3. gen' \in 0 .. Cancelled
    BY <1>0, <1>2, Numbers DEF Begin, Cancelled
  <2>4. extra' \in [Prefetches -> Nat]
    BY <1>0, <1>2 DEF Begin, Counted
  <2>5. QED
    BY <1>0, <1>2, <2>1, <2>2, <2>3, <2>4, CallStep DEF Begin
<1>3. CASE Check(t)
  <2> DEFINE c == [calls[t] EXCEPT !.pc = "fetch", !.todo = Tail(@), !.page = {Head(calls[t].todo)}]
             d == [calls[t] EXCEPT !.pc = "last", !.todo = <<>>]
  <2>1. calls[t].todo \in Seq(Page) /\ calls[t].todo # <<>>
    BY <1>0, <1>3 DEF Check, Call
  <2>2. Tail(calls[t].todo) \in Seq(Page) /\ Head(calls[t].todo) \in Page
    BY <2>1
  <2>3. c \in Call /\ c.pc = "fetch" /\ d \in Call /\ d.pc = "last"
    <3>1. <<>> \in Seq(Page) /\ {Head(calls[t].todo)} \in SUBSET Page
      BY <2>2
    <3>2. QED
      BY <1>0, <2>2, <3>1 DEF Call
  <2>4. calls' = [calls EXCEPT ![t] = c] \/ calls' = [calls EXCEPT ![t] = d]
    BY <1>3 DEF Check
  <2>5. CASE calls' = [calls EXCEPT ![t] = c]
    BY <1>0, <1>3, <2>3, <2>5, CallStep DEF Check
  <2>6. CASE calls' = [calls EXCEPT ![t] = d]
    BY <1>0, <1>3, <2>3, <2>6, CallStep DEF Check
  <2>7. QED
    BY <2>4, <2>5, <2>6
<1>4. CASE Fetch(t)
  <2> DEFINE c == [calls[t] EXCEPT !.pc = "write", !.of = session]
  <2>1. c \in Call /\ c.pc = "write" /\ c.of = session
    BY <1>0 DEF Call
  <2>2. calls' = [calls EXCEPT ![t] = Done(t)] \/ (calls' = [calls EXCEPT ![t] = c] /\ Readable)
    BY <1>4 DEF Fetch
  <2>3. CASE calls' = [calls EXCEPT ![t] = Done(t)]
    <3>1. /\ Done(t) \in Call /\ Done(t).pc # "write" /\ Done(t).pc # "sent"
          /\ Done(t).pc = "check" => Done(t).todo # <<>>
      BY DoneType
    <3>2. QED
      BY <1>0, <1>4, <2>3, <3>1, CallStep DEF Fetch
  <2>4. CASE calls' = [calls EXCEPT ![t] = c] /\ Readable
    BY <1>0, <1>4, <2>1, <2>4, CallStep DEF Fetch, Readable
  <2>5. QED
    BY <2>2, <2>3, <2>4
<1>5. CASE Last(t)
  <2> DEFINE c == [calls[t] EXCEPT !.pc = "evict"]
  <2>1. c \in Call /\ c.pc = "evict"
    BY <1>0 DEF Call
  <2>2. extra' \in [Prefetches -> Nat]
    BY <1>0, <1>5 DEF Last
  <2>3. calls' = [calls EXCEPT ![t] = c] \/ calls' = [calls EXCEPT ![t] = NoCall]
    BY <1>5 DEF Last
  <2>4. CASE calls' = [calls EXCEPT ![t] = c]
    BY <1>0, <1>5, <2>1, <2>2, <2>4, CallStep DEF Last
  <2>5. CASE calls' = [calls EXCEPT ![t] = NoCall]
    BY <1>0, <1>5, <2>2, <2>5, NoCallType, CallStep DEF Last
  <2>6. QED
    BY <2>3, <2>4, <2>5
<1>6. CASE Evict(t)
  <2>1. cache' \in [Version \X Page -> {0} \cup Version] /\ extra' \in [Prefetches -> Nat]
    BY <1>0, <1>6 DEF Evict
  <2>2. QED
    BY <1>0, <1>6, <2>1, NoCallType, CallStep DEF Evict
<1>7. QED
  BY <1>1, <1>2, <1>3, <1>4, <1>5, <1>6

LEMMA LoadType ==
  ASSUME TypeInv, NEW t \in Loads, NEW p \in Page, StartLoad(t, p)
  PROVE  TypeInv'
<1> DEFINE c == [NoCall EXCEPT !.pc = "write", !.page = {p}, !.of = session]
<1>1. session \in {0} \cup Version /\ session # 0
  BY DEF TypeInv, TypeOK, StartLoad, Readable
<1>2. c \in Call /\ c.pc = "write" /\ c.of # 0
  BY <1>1, NoCallType DEF Call
<1>3. calls' = [calls EXCEPT ![t] = c]
  BY DEF StartLoad
<1>4. QED
  BY <1>2, <1>3, CallStep DEF StartLoad, TypeInv, TypeOK

LEMMA WriteType ==
  ASSUME TypeInv, NEW t \in Prefetches \cup Loads, Write(t) \/ WriteFails(t)
  PROVE  TypeInv'
<1>1. /\ Done(t) \in Call /\ Done(t).pc # "write" /\ Done(t).pc # "sent"
      /\ Done(t).pc = "check" => Done(t).todo # <<>>
      /\ t \in Loads => Done(t).pc = "idle"
  BY DoneType
<1>2. calls' = [calls EXCEPT ![t] = Done(t)]
  BY DEF Write, WriteFails
<1>3. cache' \in [Version \X Page -> {0} \cup Version]
  BY DEF TypeInv, TypeOK, Write, WriteFails, Call
<1>4. extra' \in [Prefetches -> Nat]
  BY DEF TypeInv, TypeOK, Write, WriteFails
<1>5. QED
  BY <1>1, <1>2, <1>3, <1>4, CallStep DEF TypeInv, TypeOK, Write, WriteFails

LEMMA CrashType == TypeInv /\ Crash => TypeInv'
<1> SUFFICES ASSUME TypeInv, Crash PROVE TypeInv'
  OBVIOUS
<1>1. calls' \in [Prefetches \cup Loads -> Call] /\ \A t \in Prefetches \cup Loads : calls'[t].pc = "idle"
  BY NoCallType DEF TypeInv, TypeOK, Crash
<1>2. app' \in [gen : 0 .. MaxGen, window : SUBSET Page] /\ gen' \in 0 .. Cancelled
  BY Numbers DEF Crash, Cancelled
<1>3. visits' \in 0 .. MaxVisits /\ spill' \in Nat
  BY CountsType, Numbers DEF TypeInv, TypeOK, Crash
<1>4. clears' \in [sent : 0 .. MaxVisits, marked : 0 .. MaxVisits] /\ clears'.sent + clears'.marked = 0
  BY Numbers DEF Crash
<1>5. TypeOK'
  BY <1>1, <1>2, <1>3, <1>4 DEF TypeInv, TypeOK, Crash
<1>6. Shape'
  BY <1>1, <1>3, <1>4 DEF Shape, Crash
<1>7. QED
  BY <1>5, <1>6 DEF TypeInv

LEMMA NextType == TypeInv /\ [Next]_vars => TypeInv'
<1> SUFFICES ASSUME TypeInv, [Next]_vars PROVE TypeInv'
  OBVIOUS
<1>1. CASE UNCHANGED vars
  BY <1>1 DEF vars, TypeInv, TypeOK, Shape
<1>2. CASE Next
  BY <1>2, ScreenType, PrefetchType, LoadType, WriteType, CrashType DEF Next
<1>3. QED
  BY <1>1, <1>2

\* The types hold in every state.
THEOREM SpecType == Spec => []TypeOK
<1>1. TypeInv => TypeOK
  BY DEF TypeInv
<1>2. QED
  BY <1>1, InitType, NextType, PTL DEF Spec

-----------------------------------------------------------------------------
(* Overtaken prefetches *)

\* A prefetch has written nothing extra before it looked at the generation, nor
\* while it holds a page, nor as long as its generation is the current one.
Overtaken ==
  \A t \in Prefetches :
    /\ extra[t] <= 1
    /\ calls[t].pc \in {"idle", "sent", "fetch", "write"} => extra[t] = 0
    /\ gen = calls[t].gen => extra[t] = 0

\* A step of one prefetch that stores no generation.
LEMMA OvertakenStep ==
  ASSUME TypeInv, Overtaken, NEW t \in Prefetches, NEW c \in Call,
         gen' = gen, calls' = [calls EXCEPT ![t] = c],
         \A u \in Prefetches : u # t => extra'[u] = extra[u],
         extra'[t] <= 1,
         c.pc \in {"idle", "sent", "fetch", "write"} => extra'[t] = 0,
         gen = c.gen => extra'[t] = 0
  PROVE  Overtaken'
<1>1. /\ calls'[t] = c
      /\ \A u \in Prefetches : u # t => calls'[u] = calls[u]
  BY DEF TypeInv, TypeOK
<1>2. QED
  BY <1>1 DEF Overtaken

LEMMA OvertakenPrefetch ==
  ASSUME TypeInv, Overtaken, NEW t \in Prefetches,
         \/ \E w \in Window : Warm(t, w)
         \/ Check(t) \/ Fetch(t) \/ Last(t) \/ Evict(t) \/ Write(t) \/ WriteFails(t)
  PROVE  Overtaken'
<1>0. /\ calls[t] \in Call /\ extra \in [Prefetches -> Nat] /\ t \notin Loads
      /\ extra = [extra EXCEPT ![t] = extra[t]] /\ extra[t] \in Nat /\ extra[t] <= 1
      /\ calls[t].pc \in {"idle", "sent", "fetch", "write"} => extra[t] = 0
      /\ gen = calls[t].gen => extra[t] = 0
  BY PageCacheAssumption DEF TypeInv, TypeOK, Overtaken
<1>z. ASSUME extra' = [extra EXCEPT ![t] = 0]
      PROVE  extra'[t] = 0 /\ extra'[t] <= 1 /\ \A u \in Prefetches : u # t => extra'[u] = extra[u]
  BY <1>0, <1>z
<1>o. ASSUME extra' = [extra EXCEPT ![t] = 1]
      PROVE  extra'[t] <= 1 /\ \A u \in Prefetches : u # t => extra'[u] = extra[u]
  BY <1>0, <1>o
<1>s. ASSUME extra' = [extra EXCEPT ![t] = extra[t]]
      PROVE  extra'[t] = extra[t] /\ \A u \in Prefetches : u # t => extra'[u] = extra[u]
  BY <1>0, <1>s
<1>d. /\ Done(t) \in Call /\ Done(t).pc \in {"last", "check"} /\ Done(t).gen = calls[t].gen
  BY DoneType
<1>1. ASSUME NEW w \in Window, Warm(t, w) PROVE Overtaken'
  <2> DEFINE c == [NoCall EXCEPT !.pc = "sent", !.gen = app.gen + 1, !.keep = Range(w), !.todo = w]
  <2>1. app.gen + 1 \in 0 .. MaxGen
    <3>1. app.gen \in 0 .. MaxGen /\ app.gen < MaxGen
      BY <1>1 DEF Warm, TypeInv, TypeOK
    <3>2. QED
      BY <3>1, Numbers
  <2>2. c \in Call
    BY <2>1, WindowRange, NoCallType DEF Call
  <2>3. /\ calls' = [calls EXCEPT ![t] = c] /\ calls[t].pc = "idle"
        /\ gen' = gen /\ extra' = [extra EXCEPT ![t] = 0]
    BY <1>0, <1>1 DEF Warm
  <2>4. QED
    BY <2>2, <2>3, <1>z, OvertakenStep
<1>2. CASE Check(t)
  <2> DEFINE c == [calls[t] EXCEPT !.pc = "fetch", !.todo = Tail(@), !.page = {Head(calls[t].todo)}]
             d == [calls[t] EXCEPT !.pc = "last", !.todo = <<>>]
  <2>1. TypeInv' /\ calls'[t] \in Call
    BY <1>2, PrefetchType DEF TypeInv, TypeOK
  <2>2. c.pc = "fetch" /\ c.gen = calls[t].gen /\ d.pc = "last" /\ d.gen = calls[t].gen
    BY <1>0 DEF Call
  <2>3. gen' = gen /\ extra' = [extra EXCEPT ![t] = extra[t]]
    BY <1>0, <1>2 DEF Check
  <2>4. CASE Current(t)
    <3>1. calls' = [calls EXCEPT ![t] = c] /\ extra[t] = 0
      BY <1>0, <1>2, <2>4 DEF Check, Current
    <3>2. c \in Call
      BY <2>1, <3>1 DEF TypeInv, TypeOK
    <3>3. QED
      BY <1>0, <2>2, <2>3, <3>1, <3>2, <1>s, OvertakenStep
  <2>5. CASE ~ Current(t)
    <3>1. calls' = [calls EXCEPT ![t] = d]
      BY <1>2, <2>5 DEF Check
    <3>2. d \in Call
      BY <2>1, <3>1 DEF TypeInv, TypeOK
    <3>3. QED
      BY <1>0, <2>2, <2>3, <3>1, <3>2, <1>s, OvertakenStep
  <2>6. QED
    BY <2>4, <2>5
<1>3. CASE Fetch(t)
  <2> DEFINE c == [calls[t] EXCEPT !.pc = "write", !.of = session]
  <2>1. c \in Call /\ c.gen = calls[t].gen
    BY <1>0 DEF Call, TypeInv, TypeOK
  <2>2. /\ calls' = [calls EXCEPT ![t] = Done(t)] \/ calls' = [calls EXCEPT ![t] = c]
        /\ calls[t].pc = "fetch" /\ gen' = gen /\ extra' = [extra EXCEPT ![t] = extra[t]]
    BY <1>0, <1>3 DEF Fetch
  <2>3. QED
    BY <1>0, <1>d, <2>1, <2>2, <1>s, OvertakenStep
<1>4. CASE Last(t)
  <2> DEFINE c == [calls[t] EXCEPT !.pc = "evict"]
  <2>1. c \in Call /\ c.gen = calls[t].gen /\ c.pc = "evict"
    BY <1>0 DEF Call
  <2>2. CASE Current(t)
    <3>1. calls' = [calls EXCEPT ![t] = c] /\ gen' = gen /\ extra' = [extra EXCEPT ![t] = extra[t]]
      BY <1>0, <1>4, <2>2 DEF Last
    <3>2. QED
      BY <1>0, <2>1, <3>1, <1>s, OvertakenStep
  <2>3. CASE ~ Current(t)
    <3>1. calls' = [calls EXCEPT ![t] = NoCall] /\ gen' = gen /\ extra' = [extra EXCEPT ![t] = 0]
      BY <1>4, <2>3 DEF Last
    <3>2. QED
      BY NoCallType, <3>1, <1>z, OvertakenStep
  <2>4. QED
    BY <2>2, <2>3
<1>5. CASE Evict(t)
  <2>1. calls' = [calls EXCEPT ![t] = NoCall] /\ gen' = gen /\ extra' = [extra EXCEPT ![t] = 0]
    BY <1>5 DEF Evict
  <2>2. QED
    BY NoCallType, <2>1, <1>z, OvertakenStep
<1>6. CASE Write(t) \/ WriteFails(t)
  <2>1. /\ calls' = [calls EXCEPT ![t] = Done(t)] /\ gen' = gen
        /\ calls[t].pc = "write" /\ extra[t] = 0
    BY <1>0, <1>6 DEF Write, WriteFails
  <2>2. \/ extra' = [extra EXCEPT ![t] = 0]
        \/ gen # calls[t].gen /\ extra' = [extra EXCEPT ![t] = 1]
    BY <1>0, <1>6, <2>1 DEF Write, WriteFails
  <2>3. QED
    <3>1. CASE extra' = [extra EXCEPT ![t] = 0]
      BY <1>d, <1>z, <2>1, <3>1, OvertakenStep
    <3>2. CASE gen # calls[t].gen /\ extra' = [extra EXCEPT ![t] = 1]
      BY <1>d, <1>o, <2>1, <3>2, OvertakenStep
    <3>3. QED
      BY <2>2, <3>1, <3>2
<1>7. QED
  BY <1>1, <1>2, <1>3, <1>4, <1>5, <1>6

\* A prefetch that stores its generation takes no other's: a call that has the
\* same one starts its count again.
LEMMA OvertakenBegin ==
  ASSUME TypeInv, Overtaken, NEW t \in Prefetches, Begin(t)
  PROVE  Overtaken'
<1>1. /\ \A u \in Prefetches : calls'[u].gen = calls[u].gen
      /\ \A u \in Prefetches : u # t => calls'[u].pc = calls[u].pc
      /\ calls'[t].pc = "check"
  BY DEF Begin, TypeInv, TypeOK, Call
<1>2. \A u \in Prefetches : extra'[u] = IF calls[u].gen = gen' THEN 0 ELSE extra[u]
  BY DEF Begin, Counted
<1>3. QED
  BY <1>1, <1>2 DEF Overtaken

LEMMA OvertakenNext == TypeInv /\ Overtaken /\ [Next]_vars => Overtaken'
<1> SUFFICES ASSUME TypeInv, Overtaken, [Next]_vars PROVE Overtaken'
  OBVIOUS
<1>1. CASE UNCHANGED <<gen, extra>> /\ \A t \in Prefetches : calls'[t] = calls[t]
  BY <1>1 DEF Overtaken
<1>2. ASSUME NEW t \in Loads,
             (\E p \in Page : StartLoad(t, p)) \/ Write(t) \/ WriteFails(t)
      PROVE  Overtaken'
  <2>1. t \notin Prefetches
    BY PageCacheAssumption
  <2>2. UNCHANGED <<gen, extra>> /\ \A u \in Prefetches : calls'[u] = calls[u]
    BY <1>2, <2>1 DEF StartLoad, Write, WriteFails, TypeInv, TypeOK
  <2>3. QED
    BY <1>1, <2>2
<1>3. CASE MarkClear
  <2>1. \A t \in Prefetches : calls[t].gen \in 0 .. MaxGen
    BY DEF TypeInv, TypeOK, Call
  <2>2. \A t \in Prefetches : calls[t].gen # gen' /\ calls'[t] = calls[t] /\ extra'[t] = extra[t]
    BY <1>3, <2>1, Numbers DEF MarkClear, Cancelled
  <2>3. QED
    BY <2>2 DEF Overtaken
<1>4. CASE Crash
  BY <1>4 DEF Crash, Overtaken
<1>5. CASE Open \/ Leave \/ ClearComic \/ Drop \/ RemoveTree \/ Change
  BY <1>1, <1>5 DEF Open, Leave, ClearComic, Drop, RemoveTree, Change
<1>6. CASE UNCHANGED vars
  BY <1>1, <1>6 DEF vars
<1>7. QED
  BY <1>2, <1>3, <1>4, <1>5, <1>6, OvertakenPrefetch, OvertakenBegin DEF Next

\* An overtaken prefetch writes one more page at most, for any number of them,
\* any windows and however their threads are scheduled.
THEOREM SpecAtMostOneMore == Spec => []AtMostOneMore
<1>1. Init => Overtaken
  BY NoCallType DEF Init, Overtaken
<1>2. Overtaken => AtMostOneMore
  BY DEF Overtaken, AtMostOneMore
<1>3. QED
  BY <1>1, <1>2, InitType, NextType, OvertakenNext, PTL DEF Spec

-----------------------------------------------------------------------------
(* Pages and the content they were read from *)

\* What is in use is of the file's present content, or that is a mixed one.
InUse(v) == v = version \/ version \in mixed
Sources ==
  /\ session # 0 => InUse(session)
  /\ \A t \in Prefetches \cup Loads : calls[t].pc = "write" => InUse(calls[t].of)
Filed == Sources /\ PagesOfTheirVersion

LEMMA FiledNext == TypeInv /\ Filed /\ [Next]_vars => Filed'
<1> SUFFICES ASSUME TypeInv, Filed, [Next]_vars PROVE Filed'
  OBVIOUS
<1>0. /\ calls \in [Prefetches \cup Loads -> Call] /\ DOMAIN cache = Version \X Page
      /\ cache \in [Version \X Page -> {0} \cup Version] /\ version \in Version
  BY DEF TypeInv, TypeOK
\* pages stay or go
<1>1. ASSUME \A k \in Cached(cache') : k \in Cached(cache) /\ cache'[k] = cache[k], mixed \subseteq mixed'
      PROVE  PagesOfTheirVersion'
  BY <1>1 DEF Filed, PagesOfTheirVersion
<1>2. ASSUME UNCHANGED <<version, mixed>>, session' \in {0, session},
             \A t \in Prefetches \cup Loads :
               calls'[t].pc = "write" => \/ calls'[t] = calls[t]
                                         \/ calls'[t].of = session /\ session # 0
      PROVE  Sources'
  BY <1>2 DEF Filed, Sources, InUse
<1>3. ASSUME NEW t \in Prefetches \cup Loads, NEW c, calls' = [calls EXCEPT ![t] = c],
             c.pc = "write" => c.of = session /\ session # 0,
             UNCHANGED <<version, mixed, session>>
      PROVE  Sources'
  BY <1>0, <1>2, <1>3
<1>4. CASE Open
  BY <1>1, <1>4 DEF Open, Sources, InUse, Filed
<1>5. CASE Leave \/ ClearComic \/ Drop \/ MarkClear
  BY <1>1, <1>2, <1>5 DEF Leave, ClearComic, Drop, MarkClear, Filed
<1>6. CASE RemoveTree
  <2>1. \A k \in Cached(cache') : k \in Cached(cache) /\ cache'[k] = cache[k]
    BY <1>6 DEF RemoveTree, Cached
  <2>2. Sources'
    BY <1>2, <1>6 DEF RemoveTree
  <2>3. QED
    BY <1>1, <1>6, <2>1, <2>2 DEF RemoveTree, Filed
<1>7. CASE Change
  <2>1. cache' = cache /\ mixed \subseteq mixed' /\ session' = session /\ calls' = calls
    BY <1>7 DEF Change
  <2>2. CASE session # 0 \/ Writing # {}
    <3>1. version' \in mixed'
      BY <1>7, <2>2 DEF Change
    <3>2. QED
      BY <1>1, <2>1, <3>1 DEF Filed, Sources, InUse
  <2>3. CASE session = 0 /\ Writing = {}
    BY <1>0, <1>1, <2>1, <2>3 DEF Filed, Sources, Writing
  <2>4. QED
    BY <2>2, <2>3
<1>8. CASE Crash
  <2>1. \A t \in Prefetches \cup Loads : calls'[t].pc = "idle"
    BY <1>0, <1>8, NoCallType DEF Crash
  <2>2. QED
    BY <1>1, <1>8, <2>1 DEF Crash, Filed, Sources
<1>9. ASSUME NEW t \in Prefetches,
             \/ \E w \in Window : Warm(t, w)
             \/ Begin(t) \/ Check(t) \/ Last(t)
      PROVE  Filed'
  <2>1. \E c : calls' = [calls EXCEPT ![t] = c] /\ c.pc # "write"
    <3>0. calls[t] \in Call
      BY <1>0
    <3>a. ASSUME NEW c \in Call, calls' = [calls EXCEPT ![t] = c], c.pc # "write"
          PROVE  \E x : calls' = [calls EXCEPT ![t] = x] /\ x.pc # "write"
      BY <3>a
    <3>b. calls' \in [Prefetches \cup Loads -> Call]
      BY <1>9, PrefetchType DEF TypeInv, TypeOK
    <3>c. ASSUME NEW c, calls' = [calls EXCEPT ![t] = c] PROVE c \in Call
      BY <1>0, <3>b, <3>c
    <3>1. ASSUME NEW w \in Window, Warm(t, w) PROVE \E c : calls' = [calls EXCEPT ![t] = c] /\ c.pc # "write"
      <4> DEFINE c == [NoCall EXCEPT !.pc = "sent", !.gen = app.gen + 1, !.keep = Range(w), !.todo = w]
      <4>1. calls' = [calls EXCEPT ![t] = c] /\ c.pc = "sent"
        BY <3>1, NoCallType DEF Warm, Call
      <4>2. QED
        BY <3>a, <3>c, <4>1
    <3>2. CASE Begin(t)
      <4> DEFINE c == [calls[t] EXCEPT !.pc = "check"]
      <4>1. calls' = [calls EXCEPT ![t] = c] /\ c.pc = "check"
        BY <3>0, <3>2 DEF Begin, Call
      <4>2. QED
        BY <3>a, <3>c, <4>1
    <3>3. CASE Check(t)
      <4> DEFINE c == [calls[t] EXCEPT !.pc = "fetch", !.todo = Tail(@), !.page = {Head(calls[t].todo)}]
                 d == [calls[t] EXCEPT !.pc = "last", !.todo = <<>>]
      <4>1. /\ calls' = [calls EXCEPT ![t] = c] \/ calls' = [calls EXCEPT ![t] = d]
            /\ c.pc = "fetch" /\ d.pc = "last"
        BY <3>0, <3>3 DEF Check, Call
      <4>2. QED
        BY <3>a, <3>c, <4>1
    <3>4. CASE Last(t)
      <4> DEFINE c == [calls[t] EXCEPT !.pc = "evict"]
      <4>1. /\ calls' = [calls EXCEPT ![t] = c] \/ calls' = [calls EXCEPT ![t] = NoCall]
            /\ c.pc = "evict"
        BY <3>0, <3>4 DEF Last, Call
      <4>2. QED
        BY <3>a, <3>c, <4>1, NoCallType
    <3>5. QED
      BY <1>9, <3>1, <3>2, <3>3, <3>4
  <2>a. PICK c : calls' = [calls EXCEPT ![t] = c] /\ c.pc # "write"
    BY <2>1
  <2>2. UNCHANGED <<version, mixed, session, cache>>
    BY <1>9 DEF Warm, Begin, Check, Last
  <2>3. QED
    BY <1>1, <1>3, <2>a, <2>2 DEF Filed
<1>10. ASSUME NEW t \in Prefetches, Fetch(t) PROVE Filed'
  <2> DEFINE c == [calls[t] EXCEPT !.pc = "write", !.of = session]
  <2>1. c.of = session
    BY <1>0 DEF Call
  <2>2. /\ UNCHANGED <<version, mixed, session, cache>>
        /\ calls' = [calls EXCEPT ![t] = Done(t)] \/ (calls' = [calls EXCEPT ![t] = c] /\ session # 0)
    BY <1>10 DEF Fetch, Readable
  <2>3. Done(t).pc # "write"
    BY DoneType
  <2>4. Sources'
    BY <1>3, <2>1, <2>2, <2>3
  <2>5. QED
    BY <1>1, <2>2, <2>4 DEF Filed
<1>11. ASSUME NEW t \in Prefetches, Evict(t) PROVE Filed'
  <2>1. \A k \in Cached(cache') : k \in Cached(cache) /\ cache'[k] = cache[k]
    BY <1>11 DEF Evict, Cached
  <2>2. Sources'
    BY <1>3, <1>11, NoCallType DEF Evict
  <2>3. QED
    BY <1>1, <1>11, <2>1, <2>2 DEF Evict, Filed
<1>12. ASSUME NEW t \in Loads, NEW p \in Page, StartLoad(t, p) PROVE Filed'
  <2> DEFINE c == [NoCall EXCEPT !.pc = "write", !.page = {p}, !.of = session]
  <2>1. c.of = session
    BY DEF NoCall
  <2>2. Sources'
    BY <1>3, <1>12, <2>1 DEF StartLoad, Readable
  <2>3. QED
    BY <1>1, <1>12, <2>2 DEF StartLoad, Filed
<1>13. ASSUME NEW t \in Prefetches \cup Loads, Write(t) \/ WriteFails(t) PROVE Filed'
  <2>1. /\ UNCHANGED <<version, mixed, session>> /\ calls[t].pc = "write"
        /\ calls' = [calls EXCEPT ![t] = Done(t)]
    BY <1>13 DEF Write, WriteFails
  <2>2. Done(t).pc # "write"
    BY DoneType
  <2>3. Sources'
    BY <1>3, <2>1, <2>2
  <2>4. InUse(calls[t].of)
    BY <2>1 DEF Filed, Sources
  <2>5. CASE Write(t)
    <3>1. cache' = [k \in DOMAIN cache |->
                      IF k \in {version} \X calls[t].page THEN calls[t].of ELSE cache[k]]
      BY <2>5 DEF Write, Fingerprint
    <3>2. SUFFICES ASSUME NEW k \in Cached(cache') PROVE cache'[k] = k[1] \/ k[1] \in mixed
      BY <2>1, <2>3 DEF Filed, PagesOfTheirVersion
    <3>3. CASE k \in {version} \X calls[t].page
      BY <2>4, <3>1, <3>3 DEF Cached, InUse
    <3>4. CASE k \notin {version} \X calls[t].page
      BY <3>1, <3>4 DEF Cached, Filed, PagesOfTheirVersion
    <3>5. QED
      BY <3>3, <3>4
  <2>6. CASE WriteFails(t)
    BY <1>1, <2>1, <2>3, <2>6 DEF WriteFails, Filed
  <2>7. QED
    BY <1>13, <2>5, <2>6
<1>14. CASE UNCHANGED vars
  BY <1>1, <1>2, <1>14 DEF vars, Filed
<1>15. QED
  BY <1>4, <1>5, <1>6, <1>7, <1>8, <1>9, <1>10, <1>11, <1>12, <1>13, <1>14 DEF Next

\* A page is filed under the content it was read from, except a content that the
\* file took while an older one was being read, in any number of visits.
THEOREM SpecPagesOfTheirVersion == Spec => []PagesOfTheirVersion
<1>1. Init => Filed
  BY NoCallType DEF Init, Filed, Sources, PagesOfTheirVersion, Cached, EmptyCache
<1>2. Filed => PagesOfTheirVersion
  BY DEF Filed
<1>3. QED
  BY <1>1, <1>2, InitType, NextType, FiledNext, PTL DEF Spec

-----------------------------------------------------------------------------
(* What a visit leaves behind *)

\* Only an open reading screen has a session to read from, and a call that holds
\* a page holds one.
Held ==
  /\ session # 0 => screen = "on"
  /\ \A t \in Prefetches \cup Loads :
       calls[t].pc \in {"fetch", "write"} => \E p \in Page : calls[t].page = {p}

\* With the screen off and its clears done, each cached page and each call that
\* still has one to write is accounted for.
Left ==
  screen = "off" /\ clears.sent + clears.marked = 0 =>
    Cardinality(Cached(cache)) + Cardinality(Writing) <= spill

\* A call that goes on keeps what the others hold.
LEMMA HeldStep ==
  ASSUME TypeInv, Held, NEW t \in Prefetches \cup Loads, NEW c,
         calls' = [calls EXCEPT ![t] = c], UNCHANGED <<session, screen>>,
         c.pc \in {"fetch", "write"} => \E p \in Page : c.page = {p}
  PROVE  Held'
<1>1. calls'[t] = c /\ \A u \in Prefetches \cup Loads : u # t => calls'[u] = calls[u]
  BY DEF TypeInv, TypeOK
<1>2. QED
  BY <1>1 DEF Held

LEMMA HeldNext == TypeInv /\ Held /\ [Next]_vars => Held'
<1> SUFFICES ASSUME TypeInv, Held, [Next]_vars PROVE Held'
  OBVIOUS
<1>0. /\ calls \in [Prefetches \cup Loads -> Call]
      /\ \A t \in Prefetches \cup Loads : calls[t] \in Call
  BY DEF TypeInv, TypeOK
<1>1. ASSUME calls' = calls, session' # 0 => screen' = "on" PROVE Held'
  BY <1>1 DEF Held
<1>2. ASSUME NEW t \in Prefetches,
             \/ \E w \in Window : Warm(t, w)
             \/ Begin(t) \/ Check(t) \/ Fetch(t) \/ Last(t) \/ Evict(t)
      PROVE  Held'
  <2>0. UNCHANGED <<session, screen>> /\ calls[t] \in Call
    BY <1>0, <1>2 DEF Warm, Begin, Check, Fetch, Last, Evict
  <2>1. ASSUME NEW w \in Window, Warm(t, w) PROVE Held'
    <3> DEFINE c == [NoCall EXCEPT !.pc = "sent", !.gen = app.gen + 1, !.keep = Range(w), !.todo = w]
    <3>1. calls' = [calls EXCEPT ![t] = c] /\ c.pc = "sent"
      BY <2>1 DEF Warm, NoCall
    <3> HIDE DEF c
    <3>2. QED
      BY <2>0, <3>1, HeldStep
  <2>2. CASE Begin(t)
    <3> DEFINE c == [calls[t] EXCEPT !.pc = "check"]
    <3>1. calls' = [calls EXCEPT ![t] = c] /\ c.pc = "check"
      BY <2>0, <2>2 DEF Begin, Call
    <3> HIDE DEF c
    <3>2. QED
      BY <2>0, <3>1, HeldStep
  <2>3. CASE Check(t)
    <3> DEFINE c == [calls[t] EXCEPT !.pc = "fetch", !.todo = Tail(@), !.page = {Head(calls[t].todo)}]
               d == [calls[t] EXCEPT !.pc = "last", !.todo = <<>>]
    <3>1. /\ calls' = [calls EXCEPT ![t] = c] \/ calls' = [calls EXCEPT ![t] = d]
          /\ c.page = {Head(calls[t].todo)} /\ d.pc = "last"
      BY <2>0, <2>3 DEF Check, Call
    <3>2. Head(calls[t].todo) \in Page
      <4>1. calls[t].todo \in Seq(Page) /\ calls[t].todo # <<>>
        BY <2>0, <2>3 DEF Check, Call, TypeInv, Shape
      <4>2. QED
        BY <4>1
    <3> HIDE DEF c, d
    <3>3. QED
      BY <2>0, <3>1, <3>2, HeldStep
  <2>4. CASE Fetch(t)
    <3> DEFINE c == [calls[t] EXCEPT !.pc = "write", !.of = session]
    <3>1. /\ calls' = [calls EXCEPT ![t] = c] \/ calls' = [calls EXCEPT ![t] = Done(t)]
          /\ calls[t].pc = "fetch" /\ c.page = calls[t].page
      BY <2>0, <2>4 DEF Fetch, Call
    <3>2. Done(t).pc \in {"last", "check"}
      BY DoneType
    <3>3. \E p \in Page : c.page = {p}
      BY <3>1 DEF Held
    <3> HIDE DEF c
    <3>4. QED
      BY <2>0, <3>1, <3>2, <3>3, HeldStep
  <2>5. CASE Last(t) \/ Evict(t)
    <3> DEFINE c == [calls[t] EXCEPT !.pc = "evict"]
    <3>1. /\ calls' = [calls EXCEPT ![t] = c] \/ calls' = [calls EXCEPT ![t] = NoCall]
          /\ c.pc = "evict"
      BY <2>0, <2>5 DEF Last, Evict, Call
    <3> HIDE DEF c
    <3>2. QED
      BY <2>0, <3>1, NoCallType, HeldStep
  <2>6. QED
    BY <1>2, <2>1, <2>2, <2>3, <2>4, <2>5
<1>3. ASSUME NEW t \in Loads, NEW p \in Page, StartLoad(t, p) PROVE Held'
  <2> DEFINE c == [NoCall EXCEPT !.pc = "write", !.page = {p}, !.of = session]
  <2>1. calls' = [calls EXCEPT ![t] = c] /\ c.page = {p} /\ UNCHANGED <<session, screen>>
    BY <1>3 DEF StartLoad, NoCall
  <2> HIDE DEF c
  <2>2. QED
    BY <2>1, HeldStep
<1>4. ASSUME NEW t \in Prefetches \cup Loads, Write(t) \/ WriteFails(t) PROVE Held'
  <2>1. calls' = [calls EXCEPT ![t] = Done(t)] /\ UNCHANGED <<session, screen>>
    BY <1>4 DEF Write, WriteFails
  <2>2. Done(t).pc \notin {"fetch", "write"}
    BY DoneType
  <2>3. QED
    BY <2>1, <2>2, HeldStep
<1>5. CASE Crash
  BY <1>0, <1>5, NoCallType DEF Crash, Held
<1>6. CASE Open \/ Leave \/ ClearComic \/ Drop \/ MarkClear \/ RemoveTree \/ Change \/ UNCHANGED vars
  BY <1>1, <1>6 DEF Open, Leave, ClearComic, Drop, MarkClear, RemoveTree, Change, vars, Held
<1>7. QED
  BY <1>2, <1>3, <1>4, <1>5, <1>6 DEF Next

\* A step that caches no page and lets no call reach a write leaves no more.
LEMMA LeftStays ==
  ASSUME TypeInv, Left, Cached(cache') \subseteq Cached(cache), Writing' \subseteq Writing,
         UNCHANGED <<screen, clears, spill>>
  PROVE  Left'
<1>1. PICK p, q, w, v : /\ p = Cached(cache) /\ q = Cached(cache')
                        /\ w = Writing /\ v = Writing'
  OBVIOUS
<1>2. /\ Cardinality(q) <= Cardinality(p) /\ Cardinality(v) <= Cardinality(w)
      /\ Cardinality(q) \in Nat /\ Cardinality(v) \in Nat
      /\ Cardinality(p) \in Nat /\ Cardinality(w) \in Nat
  <2>1. IsFiniteSet(p) /\ IsFiniteSet(w) /\ q \in SUBSET p /\ v \in SUBSET w
    BY <1>1, CountsType DEF TypeInv
  <2>2. QED
    BY <2>1, FS_Subset, FS_CardinalityType
<1>3. (Cardinality(Cached(cache)))' = Cardinality(q) /\ Cardinality(Writing)' = Cardinality(v)
  BY <1>1
<1>4. spill \in Nat
  BY DEF TypeInv, TypeOK
<1>5. QED
  BY <1>1, <1>2, <1>3, <1>4 DEF Left

\* A call that goes on without a page to write is one writer less, or none.
LEMMA WritingStep ==
  ASSUME TypeInv, NEW t \in Prefetches \cup Loads, NEW c,
         calls' = [calls EXCEPT ![t] = c], c.pc # "write"
  PROVE  Writing' = Writing \ {t}
<1>1. calls'[t] = c /\ \A u \in Prefetches \cup Loads : u # t => calls'[u] = calls[u]
  BY DEF TypeInv, TypeOK
<1>2. DOMAIN calls = Prefetches \cup Loads /\ DOMAIN calls' = Prefetches \cup Loads
  BY DEF TypeInv, TypeOK
<1>3. QED
  BY <1>1, <1>2 DEF Writing

\* A write files one page and is one writer less.
LEMMA LeftWrite ==
  ASSUME TypeInv, Held, Left, NEW t \in Prefetches \cup Loads, Write(t)
  PROVE  Left'
<1>1. PICK p \in Page : calls[t].page = {p}
  BY DEF Write, Held
<1>2. PICK k, a, b, w, v : /\ k = <<version, p>> /\ a = Cached(cache) /\ b = Cached(cache')
                           /\ w = Writing /\ v = Writing'
  OBVIOUS
<1>3. b \subseteq a \cup {k}
  BY <1>1, <1>2 DEF Write, Fingerprint, Cached
<1>4. v = w \ {t} /\ t \in w
  <2>1. calls' = [calls EXCEPT ![t] = Done(t)] /\ calls[t].pc = "write" /\ t \in DOMAIN calls
    BY DEF Write, TypeInv, TypeOK
  <2>2. Done(t).pc # "write"
    BY DoneType
  <2>3. QED
    BY <1>2, <2>1, <2>2, WritingStep DEF Writing
<1>5. IsFiniteSet(a) /\ IsFiniteSet(w) /\ Cardinality(a) \in Nat /\ Cardinality(w) \in Nat
  BY <1>2, CountsType DEF TypeInv
<1>6. /\ Cardinality(v) = Cardinality(w) - 1
  BY <1>4, <1>5, FS_RemoveElement
<1>7. Cardinality(b) <= Cardinality(a) + 1 /\ Cardinality(b) \in Nat
  <2>1. IsFiniteSet(a \cup {k}) /\ Cardinality(a \cup {k}) \in {Cardinality(a), Cardinality(a) + 1}
    BY <1>5, FS_AddElement
  <2>2. IsFiniteSet(b) /\ Cardinality(b) <= Cardinality(a \cup {k})
    BY <1>3, <2>1, FS_Subset
  <2>3. Cardinality(b) \in Nat
    BY <2>2, FS_CardinalityType
  <2>4. QED
    BY <1>5, <2>1, <2>2, <2>3
<1>8. (Cardinality(Cached(cache)))' = Cardinality(b) /\ Cardinality(Writing)' = Cardinality(v)
  BY <1>2
<1>9. spill \in Nat /\ UNCHANGED <<screen, clears, spill>>
  BY DEF TypeInv, TypeOK, Write
<1>10. QED
  BY <1>2, <1>5, <1>6, <1>7, <1>8, <1>9 DEF Left

LEMMA LeftNext == TypeInv /\ Held /\ Left /\ [Next]_vars => Left'
<1> SUFFICES ASSUME TypeInv, Held, Left, [Next]_vars PROVE Left'
  OBVIOUS
<1>0. /\ calls \in [Prefetches \cup Loads -> Call]
      /\ \A t \in Prefetches \cup Loads : calls[t] \in Call
      /\ clears.sent \in Nat /\ clears.marked \in Nat
  BY Numbers DEF TypeInv, TypeOK
<1>1. ASSUME UNCHANGED <<calls, cache, screen, clears, spill>> PROVE Left'
  BY <1>1, LeftStays DEF Writing
<1>2. ASSUME screen' # "off" PROVE Left'
  BY <1>2 DEF Left
<1>3. ASSUME NEW t \in Prefetches \cup Loads, NEW c, calls' = [calls EXCEPT ![t] = c],
             c.pc # "write", Cached(cache') \subseteq Cached(cache),
             UNCHANGED <<screen, clears, spill>>
      PROVE  Left'
  BY <1>3, WritingStep, LeftStays
<1>4. CASE Open \/ Leave \/ Drop
  BY <1>2, <1>4 DEF Open, Leave, Drop, Held
<1>5. CASE ClearComic \/ MarkClear
  <2>1. clears'.sent + clears'.marked # 0
    BY <1>0, <1>5 DEF ClearComic, MarkClear, TypeInv, TypeOK
  <2>2. QED
    BY <2>1 DEF Left
<1>6. CASE RemoveTree
  <2>1. PICK stuck \in SUBSET Cached(cache) :
          /\ cache' = [k \in DOMAIN cache |-> IF k \in stuck THEN cache[k] ELSE 0]
          /\ spill' = IF screen = "off" THEN Cardinality(stuck) + Cardinality(Writing) ELSE 0
    BY <1>6 DEF RemoveTree
  <2>2. Cached(cache') = stuck /\ calls' = calls /\ screen' = screen
    BY <1>6, <2>1 DEF RemoveTree, Cached
  <2>3. Cardinality(Cached(cache)') = Cardinality(stuck)
    BY <2>2
  <2>4. Cardinality(Writing)' = Cardinality(Writing) /\ Cardinality(Writing) \in Nat
    BY <2>2, CountsType DEF Writing, TypeInv
  <2>5. QED
    BY <2>1, <2>2, <2>3, <2>4 DEF Left
<1>7. CASE Crash
  <2>1. /\ cache' = cache /\ spill' = Cardinality(Cached(cache))
        /\ Cardinality(Cached(cache)) \in Nat
    BY <1>7, CountsType DEF Crash, TypeInv
  <2>2. Writing' = {}
    BY <1>0, <1>7, NoCallType DEF Crash, Writing
  <2>3. Cardinality(Writing)' = 0
    BY <2>2, FS_EmptySet
  <2>4. QED
    BY <2>1, <2>3 DEF Left
<1>8. ASSUME NEW t \in Prefetches,
             \/ \E w \in Window : Warm(t, w)
             \/ Begin(t) \/ Check(t) \/ Fetch(t) \/ Last(t) \/ Evict(t)
      PROVE  Left'
  <2>0. calls[t] \in Call
    BY <1>0
  <2>1. ASSUME NEW w \in Window, Warm(t, w) PROVE Left'
    BY <1>2, <2>1 DEF Warm
  <2>2. CASE Begin(t)
    <3> DEFINE c == [calls[t] EXCEPT !.pc = "check"]
    <3>1. /\ calls' = [calls EXCEPT ![t] = c] /\ c.pc = "check"
          /\ UNCHANGED <<cache, screen, clears, spill>>
      BY <2>0, <2>2 DEF Begin, Call
    <3> HIDE DEF c
    <3>2. QED
      BY <1>3, <3>1
  <2>3. CASE Check(t)
    <3> DEFINE c == [calls[t] EXCEPT !.pc = "fetch", !.todo = Tail(@), !.page = {Head(calls[t].todo)}]
               d == [calls[t] EXCEPT !.pc = "last", !.todo = <<>>]
    <3>1. /\ calls' = [calls EXCEPT ![t] = c] \/ calls' = [calls EXCEPT ![t] = d]
          /\ c.pc = "fetch" /\ d.pc = "last" /\ UNCHANGED <<cache, screen, clears, spill>>
      BY <2>0, <2>3 DEF Check, Call
    <3> HIDE DEF c, d
    <3>2. QED
      BY <1>3, <3>1
  <2>4. CASE Fetch(t)
    <3>1. \/ calls' = [calls EXCEPT ![t] = Done(t)] /\ UNCHANGED <<cache, screen, clears, spill>>
          \/ screen' = "on"
      BY <2>4 DEF Fetch, Readable, Held
    <3>2. Done(t).pc # "write"
      BY DoneType
    <3>3. QED
      BY <1>2, <1>3, <3>1, <3>2
  <2>5. CASE Last(t)
    <3> DEFINE c == [calls[t] EXCEPT !.pc = "evict"]
    <3>1. /\ calls' = [calls EXCEPT ![t] = c] \/ calls' = [calls EXCEPT ![t] = NoCall]
          /\ c.pc = "evict" /\ UNCHANGED <<cache, screen, clears, spill>>
      BY <2>0, <2>5 DEF Last, Call
    <3> HIDE DEF c
    <3>2. QED
      BY <1>3, <3>1, NoCallType
  <2>6. CASE Evict(t)
    <3>1. /\ calls' = [calls EXCEPT ![t] = NoCall] /\ UNCHANGED <<screen, clears, spill>>
          /\ Cached(cache') \subseteq Cached(cache)
      BY <2>6 DEF Evict, Cached
    <3>2. QED
      BY <1>3, <3>1, NoCallType
  <2>7. QED
    BY <1>8, <2>1, <2>2, <2>3, <2>4, <2>5, <2>6
<1>9. ASSUME NEW t \in Loads, NEW p \in Page, StartLoad(t, p) PROVE Left'
  BY <1>2, <1>9 DEF StartLoad
<1>10. ASSUME NEW t \in Prefetches \cup Loads, Write(t) \/ WriteFails(t) PROVE Left'
  <2>1. CASE WriteFails(t)
    <3>1. /\ calls' = [calls EXCEPT ![t] = Done(t)] /\ UNCHANGED <<cache, screen, clears, spill>>
          /\ Done(t).pc # "write"
      BY <2>1, DoneType DEF WriteFails
    <3>2. QED
      BY <1>3, <3>1
  <2>2. QED
    BY <1>10, <2>1, LeftWrite
<1>11. CASE Change
  BY <1>1, <1>11 DEF Change
<1>12. CASE UNCHANGED vars
  BY <1>1, <1>12 DEF vars
<1>13. QED
  BY <1>4, <1>5, <1>6, <1>7, <1>8, <1>9, <1>10, <1>11, <1>12 DEF Next

\* However many calls are under way when the screen is left, no more pages stay
\* behind than there were writes in hand when the tree was removed.
THEOREM SpecLeftBehindBounded == Spec => []LeftBehindBounded
<1>1. Init => Held /\ Left
  <2> SUFFICES ASSUME Init PROVE Held /\ Left
    OBVIOUS
  <2>1. Cached(cache) = {} /\ Writing = {}
    BY NoCallType DEF Init, Cached, EmptyCache, Writing
  <2>2. QED
    BY <2>1, NoCallType, FS_EmptySet DEF Init, Held, Left
<1>2. TypeInv /\ Left => LeftBehindBounded
  <2> SUFFICES ASSUME TypeInv, Left, screen = "off", clears.sent + clears.marked = 0
               PROVE  Cardinality(Cached(cache)) <= spill
    BY DEF LeftBehindBounded
  <2>1. Cardinality(Cached(cache)) \in Nat /\ Cardinality(Writing) \in Nat /\ spill \in Nat
    BY CountsType DEF TypeInv, TypeOK
  <2>2. QED
    BY <2>1 DEF Left
<1>3. QED
  BY <1>1, <1>2, InitType, NextType, HeldNext, LeftNext, PTL DEF Spec
=============================================================================
