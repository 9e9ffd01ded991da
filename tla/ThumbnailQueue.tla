---------------------------- MODULE ThumbnailQueue ----------------------------
(***************************************************************************)
(* The thumbnail queue of thumbnail/queue.rs: three lanes by priority, two *)
(* workers that park on a tokio Notify when they find nothing to do, and   *)
(* callers that enqueue, wake the workers and, for a visible cover, wait   *)
(* up to two seconds.  Below it the covers of table comic_thumbnails,      *)
(* which the generation of a worker and the choice of the user both write. *)
(*                                                                         *)
(* The queue is a Mutex; every step between two acquisitions of it, and    *)
(* every read or write of the database or of the file, is an action.       *)
(* Left out: the events of the broadcast channel, the count of failures.   *)
(***************************************************************************)
EXTENDS Integers, Sequences, FiniteSets, SequencesExt

CONSTANTS
    Comics,
    Workers,        \* WORKER_COUNT of them
    Askers,         \* concurrent calls of ensure_thumbnail and of a library sync
    MaxAsks,        \* bound: calls
    MaxChanges,     \* bound: steps of files, covers and clocks
    NoCover, NoComic, NoPriority, Page

Critical == 0
High == 1
Low == 2
Priority == {Critical, High, Low}

\* of: the version of the file recorded with the cover; shows: what it is a
\* picture of, a version of the file or the page that the user chose.
Cover == [of : Nat, shows : Nat \cup {Page}, user : BOOLEAN]
WorkerStep == {"pop", "miss", "parked", "check", "stat", "render", "store",
               "finish", "answer", "chain", "nudge"}
WorkerState == [at : WorkerStep, on : Comics \cup {NoComic}, critical : BOOLEAN,
                stat : Nat, shows : Nat, ok : BOOLEAN]
AskerStep == {"idle", "enqueue", "nudge", "register", "waiting"}
AskerState == [at : AskerStep, on : Comics \cup {NoComic}, prio : Priority]

ASSUME QueueAssumption ==
    /\ IsFiniteSet(Comics)
    /\ NoCover \notin Cover /\ NoComic \notin Comics
    /\ NoPriority \notin Priority /\ Page \notin Nat
    /\ MaxAsks \in Nat /\ MaxChanges \in Nat

VARIABLES
    version,    \* of the file of each comic; it grows with every change
    missing,    \* comics whose file is not there
    known,      \* comics with a row
    cover,      \* table comic_thumbnails
    beaten,     \* observed: covers set while a picture of the file was being rendered
    lane,       \* QueueInner.critical, high, low
    priorities, \* QueueInner.priorities
    inFlight,   \* QueueInner.in_flight
    negative,   \* QueueInner.negative_cache, entries younger than 600 s
    waiters,    \* QueueInner.waiters: the calls a comic will wake
    total, done,    \* QueueInner.stats
    permit,     \* notify_workers: a wake-up stored by notify_one
    worker, asker,
    asked, changed  \* what has been used of the bounds

files == <<version, missing, known, cover, beaten>>
queue == <<lane, priorities, inFlight, negative, waiters, total, done>>
vars == <<version, missing, known, cover, beaten, lane, priorities, inFlight, negative,
          waiters, total, done, permit, worker, asker, asked, changed>>

IdleWorker == [at |-> "pop", on |-> NoComic, critical |-> FALSE,
               stat |-> 0, shows |-> 0, ok |-> FALSE]
IdleAsker == [at |-> "idle", on |-> NoComic, prio |-> Low]

Init ==
    /\ version = [c \in Comics |-> 0]
    /\ missing = {}
    /\ known = Comics
    /\ cover = [c \in Comics |-> NoCover] /\ beaten = {}
    /\ lane = [p \in Priority |-> <<>>]
    /\ priorities = [c \in Comics |-> NoPriority]
    /\ inFlight = {} /\ negative = {}
    /\ waiters = [c \in Comics |-> {}]
    /\ total = 0 /\ done = 0
    /\ permit = FALSE
    /\ worker = [w \in Workers |-> IdleWorker]
    /\ asker = [k \in Askers |-> IdleAsker]
    /\ asked = 0 /\ changed = 0

-----------------------------------------------------------------------------
\* A definition that precedes another and is used nowhere is that one with a
\* bug planted in it: a property has to notice the exchange.

Queued(c) == priorities[c] # NoPriority
HasPending == \E p \in Priority : lane[p] # <<>>

\* thumbnail_needs_generation; a missing file needs none.
NeedsGenerationAnyway(c) == c \notin missing
NeedsGeneration(c) ==
    /\ c \notin missing
    /\ cover[c] # NoCover => ~cover[c].user /\ cover[c].of # version[c]

\* notify_waiters wakes who is parked and leaves nothing for who is about to.
WakeAll ==
    worker' = [w \in Workers |-> IF worker[w].at = "parked" THEN IdleWorker ELSE worker[w]]

Go(w, step) == worker' = [worker EXCEPT ![w].at = step]
Outcome(w, b) == worker' = [worker EXCEPT ![w].at = "finish", ![w].ok = b]

-----------------------------------------------------------------------------
\* worker_loop

\* pop_next, under the lock: the first of the most urgent lane.
Pop(w) ==
    /\ worker[w].at = "pop"
    /\ \/ /\ HasPending
          /\ LET p == CHOOSE q \in Priority :
                        lane[q] # <<>> /\ \A r \in Priority : lane[r] # <<>> => q <= r
                 c == Head(lane[p])
             IN  /\ lane' = [lane EXCEPT ![p] = Tail(@)]
                 /\ priorities' = [priorities EXCEPT ![c] = NoPriority]
                 /\ inFlight' = inFlight \cup {c}
                 /\ worker' = [worker EXCEPT ![w] = [IdleWorker EXCEPT
                                 !.at = "check", !.on = c, !.critical = (p = Critical)]]
       \/ /\ ~HasPending
          /\ Go(w, "miss")
          /\ UNCHANGED <<lane, priorities, inFlight>>
    /\ UNCHANGED <<files, negative, waiters, total, done, permit, asker, asked, changed>>

\* notified().await takes the stored wake-up or parks.
Park(w) ==
    /\ worker[w].at = "miss"
    /\ permit' = FALSE
    /\ Go(w, IF permit THEN "pop" ELSE "parked")
    /\ UNCHANGED <<files, queue, asker, asked, changed>>

\* generate_for_comic_id up to store_thumbnail_for_comic
Check(w) ==
    LET c == worker[w].on IN
    /\ worker[w].at = "check"
    /\ IF c \notin known THEN Outcome(w, FALSE)
       ELSE IF ~NeedsGeneration(c) THEN Outcome(w, TRUE)
       ELSE IF ~worker[w].critical /\ c \in negative THEN Outcome(w, FALSE)
       ELSE Go(w, "stat")
    /\ UNCHANGED <<files, queue, permit, asker, asked, changed>>

\* store_thumbnail_for_comic: the stat is taken before the picture is rendered.
Stat(w) ==
    LET c == worker[w].on IN
    /\ worker[w].at = "stat"
    /\ IF c \in missing THEN Outcome(w, FALSE)
       ELSE worker' = [worker EXCEPT ![w].at = "render", ![w].stat = version[c]]
    /\ UNCHANGED <<files, queue, permit, asker, asked, changed>>

Render(w) ==
    LET c == worker[w].on IN
    /\ worker[w].at = "render"
    /\ IF c \in missing THEN Outcome(w, FALSE)
       ELSE worker' = [worker EXCEPT ![w].at = "store", ![w].shows = version[c]]
    /\ UNCHANGED <<files, queue, permit, asker, asked, changed>>

\* The row is upserted, all but is_user_set; a comic that is gone rejects it.
GeneratedAfterwards(c, s) ==
    [of |-> version[c], shows |-> s.shows, user |-> cover[c] # NoCover /\ cover[c].user]
Generated(c, s) ==
    [of |-> s.stat, shows |-> s.shows, user |-> cover[c] # NoCover /\ cover[c].user]

Store(w) ==
    LET c == worker[w].on IN
    /\ worker[w].at = "store"
    /\ IF c \in known
       THEN /\ cover' = [cover EXCEPT ![c] = Generated(c, worker[w])]
            /\ Outcome(w, TRUE)
       ELSE Outcome(w, FALSE) /\ UNCHANGED cover
    /\ UNCHANGED <<version, missing, known, beaten, queue, permit, asker, asked, changed>>

\* A read of the file or of the database fails.
GenerateFails(w) ==
    /\ worker[w].at \in {"check", "stat", "render", "store"}
    /\ Outcome(w, FALSE)
    /\ UNCHANGED <<files, queue, permit, asker, asked, changed>>

\* process_one after the generation, under the lock.
Finish(w) ==
    LET c == worker[w].on IN
    /\ worker[w].at = "finish"
    /\ inFlight' = inFlight \ {c}
    /\ negative' = IF worker[w].ok THEN negative \ {c} ELSE negative \cup {c}
    /\ done' = done + 1
    /\ Go(w, "answer")
    /\ UNCHANGED <<files, lane, priorities, waiters, total, permit, asker, asked, changed>>

\* The calls that wait for this comic return.
Answer(w) ==
    LET c == worker[w].on IN
    /\ worker[w].at = "answer"
    /\ waiters' = [waiters EXCEPT ![c] = {}]
    /\ asker' = [k \in Askers |->
         IF k \in waiters[c] /\ asker[k].at = "waiting" /\ asker[k].on = c
         THEN IdleAsker ELSE asker[k]]
    /\ Go(w, "chain")
    /\ UNCHANGED <<files, lane, priorities, inFlight, negative, total, done, permit,
                   asked, changed>>

\* has_pending under the lock, notify_one outside: it wakes one who is parked
\* or leaves a permit.
ChainThenParks(w) ==
    /\ worker[w].at = "chain"
    /\ Go(w, "parked")
    /\ UNCHANGED <<files, queue, permit, asker, asked, changed>>
Chain(w) ==
    /\ worker[w].at = "chain"
    /\ worker' = [worker EXCEPT ![w] =
         IF HasPending THEN [IdleWorker EXCEPT !.at = "nudge"] ELSE IdleWorker]
    /\ UNCHANGED <<files, queue, permit, asker, asked, changed>>

Nudge(w) ==
    /\ worker[w].at = "nudge"
    /\ \/ \E u \in Workers :
             /\ worker[u].at = "parked"
             /\ worker' = [worker EXCEPT ![w] = IdleWorker, ![u] = IdleWorker]
             /\ UNCHANGED permit
       \/ /\ \A u \in Workers : worker[u].at # "parked"
          /\ worker' = [worker EXCEPT ![w] = IdleWorker]
          /\ permit' = TRUE
    /\ UNCHANGED <<files, queue, asker, asked, changed>>

-----------------------------------------------------------------------------
\* ensure_thumbnail and enqueue_thumbnails_low

\* A comic without a cover gets past the early returns.
Ask(k, c, p) ==
    /\ asker[k].at = "idle" /\ asked < MaxAsks
    /\ cover[c] = NoCover
    /\ p = Critical \/ c \notin negative
    /\ c \in known /\ NeedsGeneration(c)
    /\ asker' = [asker EXCEPT ![k] = [at |-> "enqueue", on |-> c, prio |-> p]]
    /\ asked' = asked + 1
    /\ UNCHANGED <<files, queue, permit, worker, changed>>

\* A comic in progress is left alone, a queued one only moves up.  There is
\* always work pending afterwards, so that enqueue answers true.
SkipsQueuedOnly(c, p) == Queued(c) /\ p >= priorities[c]
Skips(c, p) == c \in inFlight \/ (Queued(c) /\ p >= priorities[c])

\* VecDeque::retain, as a function of how much of the list has been looked at.
Kept(s, C) ==
    LET f[n \in 0..Len(s)] ==
            IF n = 0 THEN <<>>
            ELSE IF s[n] \in C THEN f[n - 1] ELSE Append(f[n - 1], s[n])
    IN  f[Len(s)]
LanesWithout(c) == [p \in Priority |-> Kept(lane[p], {c})]

Enqueue(k) ==
    LET c == asker[k].on p == asker[k].prio IN
    /\ asker[k].at = "enqueue"
    /\ IF Skips(c, p)
       THEN UNCHANGED <<lane, priorities>>
       ELSE /\ lane' = [LanesWithout(c) EXCEPT ![p] = Append(@, c)]
            /\ priorities' = [priorities EXCEPT ![c] = p]
    /\ asker' = [asker EXCEPT ![k].at = "nudge"]
    /\ UNCHANGED <<files, inFlight, negative, waiters, total, done, permit, worker,
                   asked, changed>>

\* enqueue_batch_low: what a library sync found without an up-to-date cover.
Fresh(batch) == Kept(batch, {c \in Comics : Queued(c)} \cup inFlight)
CountedAll(batch) == Len(batch)
Counted(batch) == Len(Fresh(batch))

EnqueueBatch(k, batch) ==
    /\ asker[k].at = "idle" /\ asked < MaxAsks
    /\ lane' = [lane EXCEPT ![Low] = @ \o Fresh(batch)]
    /\ priorities' = [c \in Comics |->
         IF Contains(Fresh(batch), c) THEN Low ELSE priorities[c]]
    /\ total' = total + Counted(batch)
    /\ asker' = [asker EXCEPT ![k] = [IdleAsker EXCEPT !.at = "nudge"]]
    /\ asked' = asked + 1
    /\ UNCHANGED <<files, inFlight, negative, waiters, done, permit, worker, changed>>

\* notify_waiters, outside the lock; only a critical call waits.
NudgeAll(k) ==
    /\ asker[k].at = "nudge"
    /\ WakeAll
    /\ asker' = [asker EXCEPT ![k] =
         IF @.prio = Critical THEN [@ EXCEPT !.at = "register"] ELSE IdleAsker]
    /\ UNCHANGED <<files, queue, permit, asked, changed>>

Register(k) ==
    /\ asker[k].at = "register"
    /\ waiters' = [waiters EXCEPT ![asker[k].on] = @ \cup {k}]
    /\ asker' = [asker EXCEPT ![k].at = "waiting"]
    /\ UNCHANGED <<files, lane, priorities, inFlight, negative, total, done, permit,
                   worker, asked, changed>>

\* CRITICAL_WAIT_TIMEOUT; the sender stays behind in waiters.
WaitTimesOut(k) ==
    /\ asker[k].at = "waiting"
    /\ asker' = [asker EXCEPT ![k] = IdleAsker]
    /\ UNCHANGED <<files, queue, permit, worker, asked, changed>>

-----------------------------------------------------------------------------
\* Files, covers and clocks.

Change ==
    /\ changed < MaxChanges
    /\ changed' = changed + 1
    /\ UNCHANGED <<lane, priorities, inFlight, waiters, total, done, permit, worker,
                   asker, asked>>

FileChanges(c) ==
    /\ Change
    /\ version' = [version EXCEPT ![c] = @ + 1]
    /\ missing' \in {missing \ {c}, missing \cup {c}}
    /\ UNCHANGED <<known, cover, beaten, negative>>

\* A purge or a sync deletes the comic, and its cover with it.
ComicDeleted(c) ==
    /\ Change
    /\ c \in known
    /\ known' = known \ {c}
    /\ cover' = [cover EXCEPT ![c] = NoCover]
    /\ UNCHANGED <<version, missing, beaten, negative>>

\* set_comic_thumbnail_from_page
Rendering(w, c) == worker[w].on = c /\ worker[w].at \in {"stat", "render", "store"}
SetCover(c) ==
    /\ Change
    /\ c \in known \ missing
    /\ cover' = [cover EXCEPT ![c] = [of |-> version[c], shows |-> Page, user |-> TRUE]]
    /\ beaten' = IF \E w \in Workers : Rendering(w, c) THEN beaten \cup {c} ELSE beaten \ {c}
    /\ UNCHANGED <<version, missing, known, negative>>

\* delete_thumbnails_by_comic_ids
DeleteCover(c) ==
    /\ Change
    /\ cover[c] # NoCover
    /\ cover' = [cover EXCEPT ![c] = NoCover]
    /\ UNCHANGED <<version, missing, known, beaten, negative>>

\* NEGATIVE_CACHE_RETRY has elapsed.
NegativeExpires(c) ==
    /\ Change
    /\ c \in negative
    /\ negative' = negative \ {c}
    /\ UNCHANGED files

-----------------------------------------------------------------------------
WorkerNext(w) ==
    \/ Pop(w) \/ Park(w)
    \/ Check(w) \/ Stat(w) \/ Render(w) \/ Store(w) \/ GenerateFails(w)
    \/ Finish(w) \/ Answer(w) \/ Chain(w) \/ Nudge(w)

Batches == {b \in UNION {[1..n -> Comics] : n \in 1..Cardinality(Comics)} : IsInjective(b)}
AskerNext(k) == Enqueue(k) \/ NudgeAll(k) \/ Register(k) \/ WaitTimesOut(k)
AskerStarts(k) ==
    \/ \E c \in Comics, p \in Priority : Ask(k, c, p)
    \/ \E b \in Batches : EnqueueBatch(k, b)

Next ==
    \/ \E w \in Workers : WorkerNext(w)
    \/ \E k \in Askers : AskerNext(k) \/ AskerStarts(k)
    \/ \E c \in Comics : \/ FileChanges(c) \/ ComicDeleted(c)
                         \/ SetCover(c) \/ DeleteCover(c) \/ NegativeExpires(c)

Spec == Init /\ [][Next]_vars

\* Workers and calls are tasks of the runtime: each goes on when it can.  A
\* parked worker cannot.
FairSpec ==
    /\ Spec
    /\ \A w \in Workers : WF_vars(WorkerNext(w))
    /\ \A k \in Askers : WF_vars(AskerNext(k))

-----------------------------------------------------------------------------
\* Properties.

\* The types: of the files and covers, of the queue, and of the workers and calls.
FilesTypeOK ==
    /\ version \in [Comics -> Nat]
    /\ missing \in SUBSET Comics /\ known \in SUBSET Comics
    /\ cover \in [Comics -> Cover \cup {NoCover}] /\ beaten \in SUBSET Comics
QueueTypeOK ==
    /\ lane \in [Priority -> Seq(Comics)]
    /\ priorities \in [Comics -> Priority \cup {NoPriority}]
    /\ inFlight \in SUBSET Comics /\ negative \in SUBSET Comics
    /\ waiters \in [Comics -> SUBSET Askers]
    /\ total \in Nat /\ done \in Nat
CallTypeOK ==
    /\ permit \in BOOLEAN
    /\ worker \in [Workers -> WorkerState]
    /\ asker \in [Askers -> AskerState]
    /\ asked \in Nat /\ changed \in Nat
\* Every variable has its type.
TypeOK == FilesTypeOK /\ QueueTypeOK /\ CallTypeOK

\* A comic waits in one lane, once, the one of its priority.
LanesMatchPriorities ==
    \A p \in Priority :
        /\ IsInjective(lane[p])
        /\ \A c \in Comics : Contains(lane[p], c) <=> priorities[c] = p

\* No comic is generated by two workers at a time, nor queued again while one
\* generates it; in_flight is what the workers hold.
Holds(w, c) == worker[w].on = c /\ worker[w].at \in {"check", "stat", "render", "store", "finish"}
SingleFlight ==
    \A c \in Comics :
        /\ c \in inFlight => ~Queued(c)
        /\ c \in inFlight <=> \E w \in Workers : Holds(w, c)
        /\ \A w, u \in Workers : Holds(w, c) /\ Holds(u, c) => w = u

\* The queue's four structures agree while workers and calls interleave: what
\* is queued waits once, what is generated is generated once, and nothing both.
QueueCoherent == LanesMatchPriorities /\ SingleFlight

\* A generated cover that records the file's present version shows that
\* version: a file that changes while it is rendered is rendered again.
CurrentCoverIsTrue ==
    \A c \in Comics :
        /\ cover[c] # NoCover /\ ~cover[c].user
        /\ cover[c].of = version[c]
        => cover[c].shows = version[c]

\* A cover that the user set shows the page of his choice: the queue does not
\* render it again, but for a rendering that was under way when he set it,
\* which store_thumbnail_for_comic writes over it without looking.
UserCoverKept ==
    \A c \in Comics : cover[c] # NoCover /\ cover[c].user => cover[c].shows = Page \/ c \in beaten

\* Each comic counted in the progress total is queued, in progress or counted
\* as done, so that the progress reaches its end.
CountedWorkIsDone ==
    total <= done + Cardinality({c \in Comics : Queued(c)} \cup inFlight)

\* What is queued while a worker is awake gets its turn.  Without that premise
\* it need not: a worker that found nothing and has not parked yet (line 141)
\* misses notify_waiters.
Awake(w) == worker[w].at \notin {"miss", "parked"}
AwakeWorkerDrains ==
    \A c \in Comics : Queued(c) /\ (\E w \in Workers : Awake(w)) ~> ~Queued(c)
=============================================================================
