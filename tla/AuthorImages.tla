----------------------------- MODULE AuthorImages -----------------------------
(***************************************************************************)
(* The platform images of one author: the links of author/mod.rs, the      *)
(* refresh of author/platform_images.rs, and the files it keeps through    *)
(* image_cache.rs.                                                         *)
(*                                                                         *)
(* A refresh asks each link's platform for the profile, downloads the      *)
(* image and records it in author_image_cache and in a file named by the   *)
(* link alone.  A change of the link's url starts a new version of it.     *)
(* Refreshes and changes of links take a lock per author; deleting the     *)
(* author does not.  Both slots of a link (avatar, background) are treated *)
(* alike, one after the other; the model has one.                          *)
(***************************************************************************)
EXTENDS Naturals, Sequences, FiniteSets

CONSTANTS
  MaxLinks,   \* bound on the links the author ever has
  Urls,       \* profile urls of the platforms that are asked for images
  Images,     \* image urls
  Calls,      \* calls and background refreshes in progress at a time
  MaxVersion, \* bound on the versions of a link
  MaxHarm,    \* bound on process deaths and failed deletions of files
  MaxNews     \* bound on the profiles that change at their platform

ASSUME AuthorImagesAssumption ==
  /\ MaxLinks \in Nat /\ MaxVersion \in Nat \ {0} /\ MaxHarm \in Nat /\ MaxNews \in Nat

VARIABLES
  seq,      \* the last author_links.id given out; none is given out twice
  author,   \* the row of authors is there
  link,     \* author_links: url and version, version 0 before and after its life
  row,      \* author_image_cache: the url it is of, its image, the link's version, whether it is due
  file,     \* platform_image/<link>: the image in it and the url it was fetched for, or none
  profile,  \* the image each profile shows at its platform, a set with at most one
  lock,     \* the call that holds the author's refresh lock, a set with at most one
  job,      \* the calls
  harm,     \* process deaths and failed deletions so far
  news,     \* changes of profiles so far
  excused,  \* history: links that went with the author, or whose files outlived a failed or cut off deletion
  raced,    \* history: links whose url was changed by a call that had compared it with an older one
  unrecorded \* history: links whose file was written last by a refresh that ended before it recorded it

vars == <<seq, author, link, row, file, profile, lock, job, harm, news, excused, raced, unrecorded>>

Links == 1 .. MaxLinks
NoLink == [url |-> {}, version |-> 0]
NoRow == [url |-> {}, image |-> {}, version |-> 0, due |-> FALSE]
NoFile == [image |-> {}, url |-> {}]
Target == [id : Links, url : SUBSET Urls, version : 1 .. MaxVersion]
Job == [pc : {"idle", "wait", "next", "check", "compare", "recheck", "write", "record", "update", "clear"},
        todo : Seq(Target), image : SUBSET Images, url : SUBSET Urls, differs : BOOLEAN,
        then : {"idle", "wait"}]
Idle == [pc |-> "idle", todo |-> <<>>, image |-> {}, url |-> {}, differs |-> FALSE, then |-> "idle"]

\* The types, that what belongs to a link lives as long as the link, and that
\* the lock is held by the one call that is at work.
TypeOK ==
  /\ seq \in 0 .. MaxLinks /\ author \in BOOLEAN
  /\ link \in [Links -> [url : SUBSET Urls, version : 0 .. MaxVersion]]
  /\ row \in [Links -> [url : SUBSET Urls, image : SUBSET Images, version : 0 .. MaxVersion, due : BOOLEAN]]
  /\ file \in [Links -> [image : SUBSET Images, url : SUBSET Urls]]
  /\ profile \in [Urls -> SUBSET Images]
  /\ lock \in SUBSET Calls
  /\ job \in [Calls -> Job]
  /\ harm \in 0 .. MaxHarm /\ news \in 0 .. MaxNews
  /\ excused \subseteq Links /\ raced \subseteq Links /\ unrecorded \subseteq Links
  \* a row and a version live exactly as long as their link
  /\ \A l \in Links : link[l] = NoLink \/ (l <= seq /\ link[l].url # {} /\ link[l].version > 0)
  /\ \A l \in Links : link[l] = NoLink => row[l] = NoRow
  \* the lock is with the one call that is at work under it
  /\ lock = {c \in Calls : job[c].pc \notin {"idle", "wait", "update"}}
  /\ Cardinality(lock) <= 1

Init ==
  /\ seq = 0 /\ author = TRUE
  /\ link = [l \in Links |-> NoLink]
  /\ row = [l \in Links |-> NoRow]
  /\ file = [l \in Links |-> NoFile]
  /\ profile \in [Urls -> {{i} : i \in Images}]
  /\ lock = {}
  /\ job = [c \in Calls |-> Idle]
  /\ harm = 0 /\ news = 0
  /\ excused = {} /\ raced = {} /\ unrecorded = {}

-----------------------------------------------------------------------------
(* Changes of links.  A definition used nowhere that stands before another   *)
(* is that one with a bug in it: some property has to notice the exchange.   *)

Unlocked == TRUE
Free == lock = {}

\* add_author_link: no lock; its last step schedules a refresh.
AddLink(c, u) ==
  /\ job[c].pc = "idle"
  /\ author
  /\ seq < MaxLinks
  /\ seq' = seq + 1
  /\ link' = [link EXCEPT ![seq + 1] = [url |-> {u}, version |-> 1]]
  /\ job' = [job EXCEPT ![c] = [Idle EXCEPT !.pc = "wait"]]
  /\ UNCHANGED <<author, row, file, profile, lock, harm, news, excused, raced, unrecorded>>

\* update_author_link compares the urls before it takes the lock.
StartUpdate(c, l, u) ==
  /\ job[c].pc = "idle"
  /\ link[l] # NoLink
  /\ job' = [job EXCEPT ![c] = [Idle EXCEPT !.pc = "update",
                 !.todo = <<[id |-> l, url |-> link[l].url, version |-> link[l].version]>>,
                 !.url = {u}, !.differs = link[l].url # {u}]]
  /\ UNCHANGED <<seq, author, link, row, file, profile, lock, harm, news, excused, raced, unrecorded>>

Update(c) ==
  LET l == Head(job[c].todo).id
      bump == IF link[l].url # job[c].url THEN 1 ELSE 0
  IN /\ job[c].pc = "update"
     /\ Free
     /\ IF link[l] = NoLink
        THEN /\ job' = [job EXCEPT ![c] = Idle]
             /\ UNCHANGED <<link, row, lock, raced>>
        ELSE /\ link[l].version + bump <= MaxVersion
             /\ link' = [link EXCEPT ![l] = [url |-> job[c].url, version |-> @.version + bump]]
             /\ row' = IF job[c].differs THEN [row EXCEPT ![l] = NoRow] ELSE row
             /\ raced' = IF bump = 1 /\ ~ job[c].differs THEN raced \cup {l} ELSE raced
             /\ lock' = lock \cup {c}
             /\ job' = [job EXCEPT ![c].pc = "clear", ![c].then = "wait"]
     /\ UNCHANGED <<seq, author, file, profile, harm, news, excused, unrecorded>>

\* delete_author_link, up to its commit; the cached row goes with the link.
DeleteLinkKeepsFile(c, l) ==
  /\ job[c].pc = "idle"
  /\ Free
  /\ link[l] # NoLink
  /\ link' = [link EXCEPT ![l] = NoLink]
  /\ row' = [row EXCEPT ![l] = NoRow]
  /\ UNCHANGED <<seq, author, file, profile, lock, job, harm, news, excused, raced, unrecorded>>

DeleteLink(c, l) ==
  /\ job[c].pc = "idle"
  /\ Free
  /\ link[l] # NoLink
  /\ link' = [link EXCEPT ![l] = NoLink]
  /\ row' = [row EXCEPT ![l] = NoRow]
  /\ lock' = lock \cup {c}
  /\ job' = [job EXCEPT ![c] = [Idle EXCEPT !.pc = "clear", !.differs = TRUE,
                 !.todo = <<[id |-> l, url |-> link[l].url, version |-> link[l].version]>>]]
  /\ UNCHANGED <<seq, author, file, profile, harm, news, excused, raced, unrecorded>>

\* What both do after the commit: the file goes if it can, then the lock.
Clear(c) ==
  LET l == Head(job[c].todo).id
  IN /\ job[c].pc = "clear"
     /\ \/ /\ file' = IF job[c].differs THEN [file EXCEPT ![l] = NoFile] ELSE file
           /\ UNCHANGED <<harm, excused>>
        \/ /\ job[c].differs /\ harm < MaxHarm
           /\ harm' = harm + 1
           /\ excused' = excused \cup {l}
           /\ UNCHANGED file
     /\ lock' = lock \ {c}
     /\ job' = [job EXCEPT ![c] = [Idle EXCEPT !.pc = job[c].then]]
     /\ UNCHANGED <<seq, author, link, row, profile, news, raced, unrecorded>>

\* delete_authors_by_names: no refresh lock, no file.
DeleteAuthor ==
  /\ author
  /\ author' = FALSE
  /\ excused' = excused \cup {l \in Links : link[l] # NoLink}
  /\ link' = [l \in Links |-> NoLink]
  /\ row' = [l \in Links |-> NoRow]
  /\ UNCHANGED <<seq, file, profile, lock, job, harm, news, raced, unrecorded>>

-----------------------------------------------------------------------------
(* The refresh *)

\* get_author_detail asks for a refresh, as adding and changing a link do.
Schedule(c) ==
  /\ job[c].pc = "idle"
  /\ author
  /\ job' = [job EXCEPT ![c] = [Idle EXCEPT !.pc = "wait"]]
  /\ UNCHANGED <<seq, author, link, row, file, profile, lock, harm, news, excused, raced, unrecorded>>

Targets ==
  LET live == {l \in Links : link[l] # NoLink}
      target(l) == [id |-> l, url |-> link[l].url, version |-> link[l].version]
  IN [n \in 1 .. Cardinality(live) |->
        target(CHOOSE l \in live : Cardinality({m \in live : m < l}) = n - 1)]

Start(c) ==
  /\ job[c].pc = "wait"
  /\ Free
  /\ lock' = lock \cup {c}
  /\ job' = [job EXCEPT ![c] = [Idle EXCEPT !.pc = "next", !.todo = Targets]]
  /\ UNCHANGED <<seq, author, link, row, file, profile, harm, news, excused, raced, unrecorded>>

Finish(c) ==
  /\ job[c].pc = "next"
  /\ job[c].todo = <<>>
  /\ lock' = lock \ {c}
  /\ job' = [job EXCEPT ![c] = Idle]
  /\ UNCHANGED <<seq, author, link, row, file, profile, harm, news, excused, raced, unrecorded>>

\* The next link: nothing more is done for this one.
Skip(c) == job' = [job EXCEPT ![c].pc = "next", ![c].todo = Tail(@), ![c].image = {}]

IsCurrent(t) == link[t.id].url = t.url /\ link[t.id].version = t.version
IsFresh(t) ==
  /\ row[t.id].version = t.version /\ row[t.id].url = t.url /\ ~ row[t.id].due
  /\ row[t.id].image # {} => file[t.id] # NoFile

\* link_cache_is_fresh and fetch_platform_profile, which may fail.
Fetch(c) ==
  LET t == Head(job[c].todo)
  IN /\ job[c].pc = "next"
     /\ job[c].todo # <<>>
     /\ \/ Skip(c)
        \/ /\ ~ IsFresh(t)
           /\ job' = [job EXCEPT ![c].pc = "check", ![c].image = profile[CHOOSE u \in Urls : t.url = {u}]]
     /\ UNCHANGED <<seq, author, link, row, file, profile, lock, harm, news, excused, raced, unrecorded>>

Check(c) ==
  /\ job[c].pc = "check"
  /\ IF IsCurrent(Head(job[c].todo)) THEN job' = [job EXCEPT ![c].pc = "compare"] ELSE Skip(c)
  /\ UNCHANGED <<seq, author, link, row, file, profile, lock, harm, news, excused, raced, unrecorded>>

\* upsert_cache_row, which looks at the link once more.
Upsert(t, image) ==
  row' = IF IsCurrent(t)
         THEN [row EXCEPT ![t.id] = [url |-> t.url, image |-> image, version |-> t.version, due |-> FALSE]]
         ELSE row

\* No image, the image that is there already, or a download that may fail.
Compare(c) ==
  LET t == Head(job[c].todo)
      r == row[t.id]
  IN /\ job[c].pc = "compare"
     /\ IF job[c].image = {}
        THEN Upsert(t, {}) /\ Skip(c)
        ELSE IF r.image = job[c].image /\ file[t.id] # NoFile
        THEN /\ row' = IF IsCurrent(t)
                       THEN [row EXCEPT ![t.id].version = t.version, ![t.id].due = FALSE]
                       ELSE row
             /\ Skip(c)
        ELSE /\ \/ Skip(c)
                \/ job' = [job EXCEPT ![c].pc = "recheck"]
             /\ UNCHANGED row
     /\ UNCHANGED <<seq, author, link, file, profile, lock, harm, news, excused, raced, unrecorded>>

RecheckRecordsFirst(c) ==
  /\ job[c].pc = "recheck"
  /\ Upsert(Head(job[c].todo), job[c].image)
  /\ job' = [job EXCEPT ![c].pc = "write"]
  /\ UNCHANGED <<seq, author, link, file, profile, lock, harm, news, excused, raced, unrecorded>>

Recheck(c) ==
  /\ job[c].pc = "recheck"
  /\ IF IsCurrent(Head(job[c].todo)) THEN job' = [job EXCEPT ![c].pc = "write"] ELSE Skip(c)
  /\ UNCHANGED <<seq, author, link, row, file, profile, lock, harm, news, excused, raced, unrecorded>>

Write(c) ==
  LET t == Head(job[c].todo)
  IN /\ job[c].pc = "write"
     /\ file' = [file EXCEPT ![t.id] = [image |-> job[c].image, url |-> t.url]]
     /\ job' = [job EXCEPT ![c].pc = "record"]
     /\ UNCHANGED <<seq, author, link, row, profile, lock, harm, news, excused, raced, unrecorded>>

Record(c) ==
  /\ job[c].pc = "record"
  /\ Upsert(Head(job[c].todo), job[c].image)
  /\ Skip(c)
  /\ unrecorded' = unrecorded \ {Head(job[c].todo).id}
  /\ UNCHANGED <<seq, author, link, file, profile, lock, harm, news, excused, raced>>

\* A query, a statement or a file that fails ends the whole call, a refresh
\* or a change of a link before its commit.
Fail(c) ==
  /\ job[c].pc \in {"next", "check", "compare", "recheck", "write", "record", "update"}
  /\ lock' = lock \ {c}
  /\ job' = [job EXCEPT ![c] = Idle]
  /\ unrecorded' = IF job[c].pc = "record" THEN unrecorded \cup {Head(job[c].todo).id} ELSE unrecorded
  /\ UNCHANGED <<seq, author, link, row, file, profile, harm, news, excused, raced>>

-----------------------------------------------------------------------------
(* Around them *)

\* enforce_limit removes the files that were read longest ago.
Evict(l) ==
  /\ file[l] # NoFile
  /\ file' = [file EXCEPT ![l] = NoFile]
  /\ UNCHANGED <<seq, author, link, row, profile, lock, job, harm, news, excused, raced, unrecorded>>

\* Seven days pass.
Expire(l) ==
  /\ row[l] # NoRow /\ ~ row[l].due
  /\ row' = [row EXCEPT ![l].due = TRUE]
  /\ UNCHANGED <<seq, author, link, file, profile, lock, job, harm, news, excused, raced, unrecorded>>

\* A profile changes at its platform.
Publish(u, image) ==
  /\ news < MaxNews
  /\ profile[u] # image
  /\ profile' = [profile EXCEPT ![u] = image]
  /\ news' = news + 1
  /\ UNCHANGED <<seq, author, link, row, file, lock, job, harm, excused, raced, unrecorded>>

\* The process ends; the files of links under way are left as they are.
Crash ==
  /\ harm < MaxHarm
  /\ harm' = harm + 1
  /\ job' = [c \in Calls |-> Idle]
  /\ lock' = {}
  /\ excused' = excused \cup {Head(job[c].todo).id : c \in {d \in Calls : job[d].pc = "clear"}}
  /\ unrecorded' = unrecorded \cup {Head(job[c].todo).id : c \in {d \in Calls : job[d].pc = "record"}}
  /\ UNCHANGED <<seq, author, link, row, file, profile, news, raced>>

Next ==
  \/ \E c \in Calls :
       \/ \E u \in Urls : AddLink(c, u)
       \/ \E l \in Links, u \in Urls : StartUpdate(c, l, u)
       \/ \E l \in Links : DeleteLink(c, l)
       \/ Update(c) \/ Clear(c)
       \/ Schedule(c) \/ Start(c) \/ Finish(c)
       \/ Fetch(c) \/ Check(c) \/ Compare(c) \/ Recheck(c) \/ Write(c) \/ Record(c) \/ Fail(c)
  \/ DeleteAuthor
  \/ \E l \in Links : Evict(l) \/ Expire(l)
  \/ \E u \in Urls, image \in {{}} \cup {{i} : i \in Images} : Publish(u, image)
  \/ Crash

Spec == Init /\ [][Next]_vars

-----------------------------------------------------------------------------
(* Properties *)

\* resolve_cached_author_image: the links whose image the app is shown.
Stamped(l) == row[l] # NoRow /\ row[l].version = link[l].version
Served(l) ==
  /\ Stamped(l) /\ row[l].url = link[l].url
  /\ row[l].image # {} /\ file[l] # NoFile

\* The bytes shown for a link come from the profile the link names now, never
\* from one it named before: a refresh that was overtaken by a change of the
\* link must not put its image over the one of the next refresh.  And a row
\* that carries its link's version is shown, and counts as fresh, for its url:
\* only a change by a call that had compared the url with an older one leaves
\* a row that every refresh stamps and none serves.  If on top of it a refresh
\* ended between the file and that row, a later change back to the row's url
\* shows it with the file of the other.
ServedImageIsOfLink ==
  \A l \in Links :
    /\ Served(l) => file[l].url = link[l].url \/ (l \in raced /\ l \in unrecorded)
    /\ Stamped(l) /\ l \notin raced => row[l].url = link[l].url

\* Outside a refresh, the image a row names is the one in the file, as long as
\* the refresh that wrote the file last got to its row: a process that died or
\* an upsert that failed between the two leaves the new image under the old row.
RowNamesItsFile ==
  \A l \in Links :
    Served(l) /\ l \notin unrecorded /\ (\A c \in lock : job[c].pc # "record") =>
      file[l].image = row[l].image

\* A file whose link is gone is on its way out, unless the link went with its
\* author (which takes no lock), or a death or an error kept the file.
OrphansAreExplained ==
  \A l \in Links :
    link[l] = NoLink /\ file[l] # NoFile =>
      l \in excused \/ \E c \in lock : job[c].pc = "clear" /\ Head(job[c].todo).id = l
=============================================================================
