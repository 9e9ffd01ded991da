---------------------------- MODULE RevisionPoller ----------------------------
(***************************************************************************)
(* How the screens learn that the library has changed: revision.rs, with   *)
(* the connections of db.rs and the watch loops that every list of the app *)
(* runs (author/mod.rs watch_authors and its like).                        *)
(*                                                                         *)
(* One task polls PRAGMA data_version on a connection kept for that and    *)
(* sends a generation through a tokio watch channel when it differs from   *)
(* the last one.  Numbers of two connections cannot be compared, so an     *)
(* epoch tells them apart; a first number, and the first of an epoch, is   *)
(* taken as a baseline and not as a change.                                *)
(***************************************************************************)
EXTENDS Naturals

CONSTANTS
  Files,      \* database files
  Watchers,   \* watch loops
  MaxWrites,  \* bound on the commits to a file
  MaxOpens    \* bound on the calls of init_db and shutdown_db together

ASSUME RevisionPollerAssumption == MaxWrites \in Nat /\ MaxOpens \in Nat

VARIABLES
  content,  \* commits each file has had
  main,     \* DB_CONN: the file it is on, a set with at most one
  spare,    \* DB_VERSION_CONN: its file, a set with at most one, and the commits before it was opened
  epoch,    \* VERSION_CONNECTION_EPOCH
  opening,  \* init_db has changed the main connection and not yet the other
  opens,    \* calls of init_db and shutdown_db so far
  gen,      \* the value in the watch channel
  poller,   \* the task: where it is, its baseline, and the read under way
  watch     \* the watch loops: where each is, the value it has seen, what it shows, and
            \* (history) whether a baseline has swallowed a commit it does not show

vars == <<content, main, spare, epoch, opening, opens, gen, poller, watch>>

Nothing == [file |-> {}, at |-> 0]
View == [file : SUBSET Files, at : Nat]

\* What data_version says of a connection: the commits since it was opened.
Reading(e, v, shown) == [epoch |-> e, version |-> v, of |-> shown]
NoReading == Reading(0, 0, Nothing)
Readings == [epoch : Nat, version : Nat, of : View]
Poller == [pc : {"unborn", "start", "asked", "sleep"}, last : Readings, now : Readings]
Loop == [pc : {"off", "read", "wait"}, seen : Nat, shown : View, missed : BOOLEAN]

\* The types of the variables; the poller never remembers a connection that has
\* not been opened, nor a list a generation that has not been sent.
TypeOK ==
  /\ content \in [Files -> 0 .. MaxWrites]
  /\ main \in SUBSET Files
  /\ spare \in View
  /\ epoch \in 0 .. MaxOpens
  /\ opening \in BOOLEAN
  /\ opens \in 0 .. MaxOpens
  /\ gen \in Nat
  /\ poller \in Poller
  /\ watch \in [Watchers -> Loop]
  \* baselines are of connections there have been, and nobody has seen what was not sent
  /\ poller.last.epoch <= epoch /\ poller.now.epoch <= epoch
  /\ \A w \in Watchers : watch[w].seen <= gen

Init ==
  /\ content = [f \in Files |-> 0]
  /\ main = {}
  /\ spare = Nothing
  /\ epoch = 0 /\ opening = FALSE /\ opens = 0
  /\ gen = 0
  /\ poller = [pc |-> "unborn", last |-> NoReading, now |-> NoReading]
  /\ watch = [w \in Watchers |-> [pc |-> "off", seen |-> 0, shown |-> Nothing, missed |-> FALSE]]

-----------------------------------------------------------------------------
(* The connections *)

\* The content that a query on the main connection finds.
Current == [file |-> main, at |-> IF main = {} THEN 0 ELSE content[CHOOSE f \in Files : main = {f}]]

Commit ==
  /\ \E f \in main :
       /\ content[f] < MaxWrites
       /\ content' = [content EXCEPT ![f] = @ + 1]
  /\ UNCHANGED <<main, spare, epoch, opening, opens, gen, poller, watch>>

\* init_db: the main connection first, then the one for the versions, which may fail.
OpenMain(f) ==
  /\ ~ opening /\ opens < MaxOpens
  /\ main' = {f}
  /\ opening' = TRUE
  /\ opens' = opens + 1
  /\ UNCHANGED <<content, spare, epoch, gen, poller, watch>>

OpenSpare ==
  /\ opening
  /\ opening' = FALSE
  /\ spare' = Current
  /\ epoch' = epoch + 1
  /\ UNCHANGED <<content, main, opens, gen, poller, watch>>

OpenSpareFails ==
  /\ opening
  /\ opening' = FALSE
  /\ UNCHANGED <<content, main, spare, epoch, opens, gen, poller, watch>>

\* shutdown_db closes both.
Shutdown ==
  /\ ~ opening /\ opens < MaxOpens
  /\ main # {}
  /\ main' = {}
  /\ spare' = Nothing
  /\ opens' = opens + 1
  /\ UNCHANGED <<content, epoch, opening, gen, poller, watch>>

-----------------------------------------------------------------------------
(* The poller.  A definition used nowhere that stands before another is that *)
(* one with a bug in it: some property has to notice the exchange.           *)

Listened == \E w \in Watchers : watch[w].pc # "off"

\* read_versioned: the epoch, then the number, which is lost if there is no
\* connection. The very first read does not wait for a listener.
Ask ==
  /\ poller.pc \in {"start", "sleep"}
  /\ poller.pc = "start" \/ Listened
  /\ IF spare.file = {}
     THEN poller' = [poller EXCEPT !.pc = "sleep"]
     ELSE LET at == content[CHOOSE f \in Files : spare.file = {f}]
          IN poller' = [poller EXCEPT !.pc = "asked",
                          !.now = Reading(epoch, at - spare.at, [file |-> spare.file, at |-> at])]
  /\ UNCHANGED <<content, main, spare, epoch, opening, opens, gen, watch>>

\* A number read on a connection that is not the current one any more.
VoidAdopts ==
  /\ poller.pc = "asked"
  /\ poller.now.epoch # epoch
  /\ poller' = [poller EXCEPT !.pc = "sleep", !.last = [poller.now EXCEPT !.epoch = epoch], !.now = NoReading]
  /\ UNCHANGED <<content, main, spare, epoch, opening, opens, gen, watch>>

VoidEnds ==
  /\ poller.pc = "asked"
  /\ poller.now.epoch # epoch
  /\ poller' = [poller EXCEPT !.pc = "unborn", !.now = NoReading]
  /\ UNCHANGED <<content, main, spare, epoch, opening, opens, gen, watch>>

Void ==
  /\ poller.pc = "asked"
  /\ poller.now.epoch # epoch
  /\ poller' = [poller EXCEPT !.pc = "sleep", !.now = NoReading]
  /\ UNCHANGED <<content, main, spare, epoch, opening, opens, gen, watch>>

\* Another number on the same connection: tell everybody.
AnyChanged == poller.last # NoReading /\ poller.last.version # poller.now.version
Changed ==
  /\ poller.last # NoReading
  /\ poller.last.epoch = poller.now.epoch /\ poller.last.version # poller.now.version

Notify ==
  /\ poller.pc = "asked"
  /\ poller.now.epoch = epoch
  /\ Changed
  /\ gen' = gen + 1
  /\ poller' = [poller EXCEPT !.pc = "sleep", !.last = poller.now, !.now = NoReading]
  /\ UNCHANGED <<content, main, spare, epoch, opening, opens, watch>>

\* A baseline: whoever shows something older than it is not told.
Adopt ==
  /\ poller.pc = "asked"
  /\ poller.now.epoch = epoch
  /\ ~ Changed
  /\ poller' = [poller EXCEPT !.pc = "sleep", !.last = poller.now, !.now = NoReading]
  /\ watch' = [w \in Watchers |->
                 IF /\ poller.last.epoch # epoch /\ watch[w].pc = "wait"
                    /\ watch[w].shown.file = poller.now.of.file /\ watch[w].shown.at < poller.now.of.at
                 THEN [watch[w] EXCEPT !.missed = TRUE]
                 ELSE watch[w]]
  /\ UNCHANGED <<content, main, spare, epoch, opening, opens, gen>>

-----------------------------------------------------------------------------
(* The watch loops *)

\* Subscribe first, then read: subscribing starts the poller.
Subscribe(w) ==
  /\ watch[w].pc = "off"
  /\ watch' = [watch EXCEPT ![w] = [pc |-> "read", seen |-> gen, shown |-> Nothing, missed |-> FALSE]]
  /\ poller' = IF poller.pc = "unborn" THEN [poller EXCEPT !.pc = "start"] ELSE poller
  /\ UNCHANGED <<content, main, spare, epoch, opening, opens, gen>>

\* A read on a closed database ends the loop.
Read(w) ==
  /\ watch[w].pc = "read"
  /\ watch' = [watch EXCEPT ![w] =
       IF main = {} THEN [pc |-> "off", seen |-> 0, shown |-> Nothing, missed |-> FALSE]
       ELSE [@ EXCEPT !.pc = "wait", !.shown = Current, !.missed = FALSE]]
  /\ UNCHANGED <<content, main, spare, epoch, opening, opens, gen, poller>>

\* changed() returns and marks the value as seen, and then the loop reads.
Wake(w) ==
  /\ watch[w].pc = "wait"
  /\ watch[w].seen # gen
  /\ watch' = [watch EXCEPT ![w].pc = "read", ![w].seen = gen]
  /\ UNCHANGED <<content, main, spare, epoch, opening, opens, gen, poller>>

\* The screen goes away and drops its stream.
Cancel(w) ==
  /\ watch[w].pc # "off"
  /\ watch' = [watch EXCEPT ![w] = [pc |-> "off", seen |-> 0, shown |-> Nothing, missed |-> FALSE]]
  /\ UNCHANGED <<content, main, spare, epoch, opening, opens, gen, poller>>

Next ==
  \/ Commit \/ (\E f \in Files : OpenMain(f)) \/ OpenSpare \/ OpenSpareFails \/ Shutdown
  \/ Ask \/ Void \/ Notify \/ Adopt
  \/ \E w \in Watchers : Subscribe(w) \/ Read(w) \/ Wake(w) \/ Cancel(w)

\* The poller's loop sleeps and goes on; a woken task and a query proceed.
Fairness ==
  /\ WF_vars(Ask) /\ WF_vars(Void) /\ WF_vars(Notify) /\ WF_vars(Adopt)
  /\ WF_vars(OpenSpare \/ OpenSpareFails)
  /\ \A w \in Watchers : WF_vars(Read(w)) /\ WF_vars(Wake(w))

Spec == Init /\ [][Next]_vars
FairSpec == Spec /\ Fairness

-----------------------------------------------------------------------------
(* Properties *)

\* The poller watches the database that the screens read.
Watched == main # {} /\ ~ opening /\ spare.file = main

\* A list that waits and shows an older state of the database; one that shows
\* another file waits for a commit to this one, as the app restarts then.
Stale(w) == watch[w].pc = "wait" /\ watch[w].shown.file = main /\ watch[w].shown # Current

\* Such a list will be told: the channel holds a value it has not seen, or the
\* poller's next number will differ from its baseline; except where a baseline
\* swallowed the commit.
Told(w) ==
  \/ watch[w].seen # gen
  \/ poller.last.epoch # epoch              \* a baseline is still to come
  \/ poller.last.version # Current.at - spare.at
NoLostChange ==
  Watched => \A w \in Watchers : Stale(w) /\ ~ watch[w].missed => Told(w)

\* A generation is sent for commits only, on one file, since the baseline.
SentForCommitsOnly ==
  [][gen' # gen => /\ poller.last.of.file = poller.now.of.file
                   /\ poller.last.of.at < poller.now.of.at]_vars

\* Such a list comes to show the database as it is, or goes away, unless a
\* baseline swallowed the commit or the poller watches another file.
ListsCatchUp ==
  \A w \in Watchers :
    Stale(w) ~> (watch[w].pc = "off" \/ watch[w].shown = Current \/ watch[w].missed \/ ~ Watched)
=============================================================================
