------------------------- MODULE AuthorImages_proofs -------------------------
(***************************************************************************)
(* Proofs about AuthorImages for any links, platforms, images, calls and   *)
(* bounds: the types, that the image served for a link is of the profile   *)
(* the link names, that a row names the image in its file, and that files  *)
(* outlive their link only for the reasons the module states.              *)
(***************************************************************************)
EXTENDS AuthorImages, FiniteSetTheorems, TLAPS

-----------------------------------------------------------------------------
(* Calls and the lock *)

Steps == {"idle", "wait", "next", "check", "compare", "recheck", "write", "record", "update", "clear"}
Versions == 0 .. MaxVersion
LinkRows == [url : SUBSET Urls, version : Versions]
CacheRows == [url : SUBSET Urls, image : SUBSET Images, version : Versions, due : BOOLEAN]
Files == [image : SUBSET Images, url : SUBSET Urls]
Singles == {{u} : u \in Urls}

\* A call's link: it was there when the call took it up, and its id is not
\* given out again.
KnownTo(n) == {t \in Target : t.id <= n /\ t.url \in Singles}
Now(c) == Head(job[c].todo)

\* What a call knows at its step, when n links have been created.
CallFits(j, n) ==
    /\ j \in Job /\ j.todo \in Seq(KnownTo(n))
    /\ j.pc \in {"check", "compare", "recheck", "write", "record", "update", "clear"} => j.todo # <<>>
    /\ j.pc \in {"recheck", "write", "record"} => j.image # {}
    /\ j.pc = "update" => j.url \in Singles
CallsOK == job = [c \in Calls |-> job[c]] /\ \A c \in Calls : CallFits(job[c], seq)

AtWork(j) == j.pc \notin {"idle", "wait", "update"}
LockOK == lock = {c \in Calls : AtWork(job[c])} /\ \A c, d \in lock : c = d

LEMMA Versions0 == 0 \in Versions /\ 1 \in Versions
  BY AuthorImagesAssumption DEF Versions

LEMMA NoneTypes == /\ NoLink \in LinkRows /\ NoLink.url = {} /\ NoLink.version = 0
                   /\ NoRow \in CacheRows /\ NoRow.url = {} /\ NoRow.image = {} /\ NoRow.version = 0
                   /\ NoRow.due = FALSE
                   /\ NoFile \in Files /\ NoFile.image = {} /\ NoFile.url = {}
  BY Versions0 DEF NoLink, NoRow, NoFile, LinkRows, CacheRows, Files

LEMMA KnownGrows ==
  ASSUME NEW n \in Nat, NEW m \in Nat, n <= m, NEW j, CallFits(j, n)
  PROVE  CallFits(j, m)
<1>1. KnownTo(n) \subseteq KnownTo(m)
  <2>1. \A t \in Target : t.id \in Nat
    BY AuthorImagesAssumption DEF Target, Links
  <2>2. QED
    BY <2>1 DEF KnownTo
<1>2. j.todo \in Seq(KnownTo(m))
  <2>1. PICK s \in Seq(KnownTo(n)) : s = j.todo
    BY DEF CallFits
  <2>2. s \in Seq(KnownTo(m))
    BY <1>1, <2>1
  <2>3. QED
    BY <2>1, <2>2
<1>3. QED
  BY <1>2 DEF CallFits

\* The link that a call is at.
LEMMA NowFacts ==
  ASSUME CallsOK, NEW c \in Calls, job[c].todo # <<>>
  PROVE  Now(c) \in KnownTo(seq) /\ Tail(job[c].todo) \in Seq(KnownTo(seq))
<1>1. PICK s \in Seq(KnownTo(seq)) : s = job[c].todo
  BY DEF CallsOK, CallFits
<1>2. Head(s) \in KnownTo(seq) /\ Tail(s) \in Seq(KnownTo(seq))
  BY <1>1
<1>3. QED
  BY <1>1, <1>2 DEF Now

LEMMA OneGoes ==
  ASSUME CallsOK, NEW c \in Calls, NEW j, job' = [job EXCEPT ![c] = j],
         seq \in Nat, seq' \in Nat, seq <= seq', CallFits(j, seq')
  PROVE  CallsOK' /\ job'[c] = j /\ \A d \in Calls \ {c} : job'[d] = job[d]
<1>1. job'[c] = j /\ \A d \in Calls \ {c} : job'[d] = job[d]
  BY DEF CallsOK
<1>2. job' = [d \in Calls |-> job'[d]]
  BY DEF CallsOK
<1>3. \A d \in Calls : CallFits(job'[d], seq')
  BY <1>1, KnownGrows DEF CallsOK
<1>4. QED
  BY <1>1, <1>2, <1>3 DEF CallsOK

LEMMA OneMoves ==
  ASSUME CallsOK, NEW c \in Calls, NEW j, job' = [job EXCEPT ![c] = j],
         seq \in Nat, UNCHANGED seq, CallFits(j, seq)
  PROVE  CallsOK' /\ job'[c] = j /\ \A d \in Calls \ {c} : job'[d] = job[d]
<1>1. seq' \in Nat /\ seq <= seq' /\ CallFits(j, seq')
  OBVIOUS
<1>2. QED
  BY <1>1, OneGoes

\* A call whose record is job[c] with another step.
LEMMA StepRecord ==
  ASSUME NEW j \in Job, NEW p \in Steps
  PROVE  LET r == [j EXCEPT !.pc = p]
         IN  /\ r \in Job /\ r.pc = p
             /\ r.todo = j.todo /\ r.image = j.image /\ r.url = j.url /\ r.differs = j.differs
  BY DEF Job, Steps

LEMMA IdleFits ==
  ASSUME NEW n
  PROVE  /\ CallFits(Idle, n) /\ Idle.pc = "idle"
         /\ CallFits([Idle EXCEPT !.pc = "wait"], n) /\ [Idle EXCEPT !.pc = "wait"].pc = "wait"
<1>1. <<>> \in Seq(KnownTo(n)) /\ <<>> \in Seq(Target)
  OBVIOUS
<1>2. QED
  BY <1>1 DEF CallFits, Idle, Job

LEMMA LockKept ==
  ASSUME LockOK, NEW c \in Calls, NEW j, job'[c] = j, \A d \in Calls \ {c} : job'[d] = job[d],
         AtWork(j) <=> AtWork(job[c]), UNCHANGED lock
  PROVE  LockOK'
  BY DEF LockOK, AtWork

LEMMA LockTaken ==
  ASSUME LockOK, Free, NEW c \in Calls, NEW j, job'[c] = j, \A d \in Calls \ {c} : job'[d] = job[d],
         AtWork(j), lock' = lock \cup {c}
  PROVE  LockOK'
  BY DEF LockOK, AtWork, Free

LEMMA LockFreed ==
  ASSUME LockOK, NEW c \in Calls, NEW j, job'[c] = j, \A d \in Calls \ {c} : job'[d] = job[d],
         ~ AtWork(j), lock' = lock \ {c}
  PROVE  LockOK'
  BY DEF LockOK, AtWork

-----------------------------------------------------------------------------
(* The links of a refresh *)

FilesOK ==
    /\ seq \in 0 .. MaxLinks /\ author \in BOOLEAN
    /\ link \in [Links -> LinkRows] /\ row \in [Links -> CacheRows] /\ file \in [Links -> Files]
    /\ profile \in [Urls -> SUBSET Images]
    /\ harm \in 0 .. MaxHarm /\ news \in 0 .. MaxNews
    /\ excused \in SUBSET Links /\ raced \in SUBSET Links /\ unrecorded \in SUBSET Links

\* A link has one url and a version, and a row only while it is there.
LinksOK ==
    \A l \in Links :
        /\ link[l] = NoLink \/ (l <= seq /\ link[l].url \in Singles /\ link[l].version \in Versions \ {0})
        /\ link[l] = NoLink => row[l] = NoRow

Types == FilesOK /\ LinksOK /\ CallsOK /\ LockOK

LEMMA LinksFinite ==
  ASSUME NEW S, S \subseteq Links
  PROVE  IsFiniteSet(S) /\ Cardinality(S) \in Nat /\ \A l \in S : l \in Nat
<1>1. MaxLinks \in Int /\ 1 \in Int
  BY AuthorImagesAssumption
<1>2. IsFiniteSet(1 .. MaxLinks)
  BY <1>1, FS_Interval
<1>3. S \in SUBSET (1 .. MaxLinks)
  BY DEF Links
<1>4. IsFiniteSet(S)
  BY <1>2, <1>3, FS_Subset
<1>5. QED
  BY <1>1, <1>3, <1>4, FS_CardinalityType

\* Numbers are ranked by how many of the set are below: each rank is taken.
LEMMA Ranks ==
  ASSUME NEW S, S \subseteq Links, NEW n \in 1 .. Cardinality(S)
  PROVE  \E l \in S : Cardinality({m \in S : m < l}) = n - 1
<1>1. IsFiniteSet(S) /\ Cardinality(S) \in Nat /\ \A l \in S : l \in Nat
  BY LinksFinite
<1> DEFINE Below(l) == {m \in S : m < l}
           N == Cardinality(S)
           rank == [l \in S |-> Cardinality(Below(l))]
<1>2. \A l \in S : IsFiniteSet(Below(l)) /\ Cardinality(Below(l)) \in Nat
  <2>1. \A l \in S : Below(l) \in SUBSET S
    OBVIOUS
  <2> HIDE DEF Below
  <2>2. QED
    BY <1>1, <2>1, FS_Subset, FS_CardinalityType
<1>3. ASSUME NEW k \in S, NEW T, IsFiniteSet(T), Below(k) \cup {k} \subseteq T
      PROVE  Cardinality(Below(k)) + 1 <= Cardinality(T)
  <2>1. k \notin Below(k)
    BY <1>1
  <2> HIDE DEF Below
  <2>2. Cardinality(Below(k) \cup {k}) = Cardinality(Below(k)) + 1
    BY <1>2, <2>1, FS_AddElement
  <2>3. Cardinality(Below(k) \cup {k}) <= Cardinality(T)
    BY <1>3, FS_Subset
  <2>4. QED
    BY <2>2, <2>3
<1>4. \A l \in S : Cardinality(Below(l)) + 1 <= N
  <2>1. \A l \in S : Below(l) \cup {l} \subseteq S
    OBVIOUS
  <2> HIDE DEF Below
  <2>2. QED
    BY <1>1, <1>3, <2>1
<1>5. \A k, l \in S : k < l => Cardinality(Below(k)) < Cardinality(Below(l))
  <2>1. \A k, l \in S : k < l => Below(k) \cup {k} \subseteq Below(l)
    BY <1>1
  <2> HIDE DEF Below
  <2>2. ASSUME NEW k \in S, NEW l \in S, k < l PROVE Cardinality(Below(k)) < Cardinality(Below(l))
    <3>1. Cardinality(Below(k)) + 1 <= Cardinality(Below(l))
      BY <1>2, <1>3, <2>1, <2>2
    <3>2. QED
      BY <1>2, <3>1
  <2>3. QED
    BY <2>2
<1>6. rank \in Injection(S, 0 .. N - 1)
  <2>1. \A l \in S : rank[l] = Cardinality(Below(l)) /\ rank[l] \in 0 .. N - 1
    <3> HIDE DEF Below
    <3>1. QED
      BY <1>1, <1>2, <1>4
  <2>2. \A k, l \in S : rank[k] = rank[l] => k = l
    <3> SUFFICES ASSUME NEW k \in S, NEW l \in S, rank[k] = rank[l], k # l PROVE FALSE
      OBVIOUS
    <3>1. rank[k] \in Nat /\ rank[l] \in Nat
      BY <2>1
    <3>2. k < l \/ l < k
      BY <1>1
    <3>3. rank[k] < rank[l] \/ rank[l] < rank[k]
      BY <1>5, <2>1, <3>2
    <3> HIDE DEF rank
    <3>4. QED
      BY <3>1, <3>3
  <2>3. rank = [l \in S |-> rank[l]]
    OBVIOUS
  <2> HIDE DEF rank
  <2>4. rank \in [S -> 0 .. N - 1] /\ DOMAIN rank = S
    BY <2>1, <2>3
  <2>5. QED
    BY <2>2, <2>4 DEF Injection, IsInjective
<1>7. IsFiniteSet(0 .. N - 1) /\ Cardinality(0 .. N - 1) = N
  <2>1. /\ IsFiniteSet(0 .. N - 1)
        /\ Cardinality(0 .. N - 1) = IF 0 > N - 1 THEN 0 ELSE N - 1 - 0 + 1
    <3>1. 0 \in Int /\ N - 1 \in Int
      BY <1>1
    <3> HIDE DEF N
    <3>2. QED
      BY <3>1, FS_Interval
  <2>2. QED
    BY <1>1, <2>1
<1>8. rank \in Surjection(S, 0 .. N - 1)
  <2> HIDE DEF rank
  <2>1. QED
    BY <1>6, <1>7, FS_Injection
<1>9. PICK l \in S : rank[l] = n - 1
  <2>1. n - 1 \in 0 .. N - 1
    BY <1>1
  <2> HIDE DEF rank
  <2>2. QED
    BY <1>8, <2>1 DEF Surjection
<1>10. QED
  BY <1>9

LEMMA TargetsFacts ==
  ASSUME FilesOK, LinksOK
  PROVE  Targets \in Seq(KnownTo(seq))
<1> DEFINE live == {l \in Links : link[l] # NoLink}
           target(l) == [id |-> l, url |-> link[l].url, version |-> link[l].version]
           rank(l) == Cardinality({m \in live : m < l})
           at(n) == CHOOSE l \in live : rank(l) = n - 1
<1>1. \A l \in live : target(l) \in KnownTo(seq)
  BY DEF LinksOK, KnownTo, Target, Singles, Versions, Links
<1>2. Cardinality(live) \in Nat
  <2>1. live \subseteq Links
    OBVIOUS
  <2> HIDE DEF live
  <2>2. QED
    BY <2>1, LinksFinite
<1>3. \A n \in 1 .. Cardinality(live) : at(n) \in live
  <2>1. live \subseteq Links
    OBVIOUS
  <2>2. ASSUME NEW n \in 1 .. Cardinality(live) PROVE \E l \in live : rank(l) = n - 1
    <3> HIDE DEF live
    <3>1. QED
      BY <2>1, <2>2, Ranks
  <2> HIDE DEF live, rank
  <2>3. QED
    BY <2>2
<1>4. Targets = [n \in 1 .. Cardinality(live) |-> target(at(n))]
  BY DEF Targets
<1> HIDE DEF live, target, at
<1>5. QED
  BY <1>1, <1>2, <1>3, <1>4

-----------------------------------------------------------------------------
(* What a step does to its call *)

OthersStay(c) == \A d \in Calls \ {c} : job'[d] = job[d]

\* The call keeps its link and goes to another step.
LEMMA StepFacts ==
  ASSUME CallsOK, seq \in Nat, UNCHANGED seq, NEW c \in Calls, NEW p \in Steps,
         job' = [job EXCEPT ![c].pc = p], job[c].todo # <<>>,
         p \in {"recheck", "write", "record"} => job[c].image # {}, p # "update"
  PROVE  /\ CallsOK' /\ OthersStay(c)
         /\ job'[c].pc = p /\ Now(c)' = Now(c) /\ job'[c].image = job[c].image
<1> DEFINE r == [job[c] EXCEPT !.pc = p]
<1>1. /\ r \in Job /\ r.pc = p
      /\ r.todo = job[c].todo /\ r.image = job[c].image /\ r.url = job[c].url
  BY StepRecord DEF CallsOK, CallFits
<1>2. job' = [job EXCEPT ![c] = r]
  OBVIOUS
<1> HIDE DEF r
<1>3. CallFits(r, seq)
  BY <1>1 DEF CallsOK, CallFits
<1>4. CallsOK' /\ job'[c] = r /\ \A d \in Calls \ {c} : job'[d] = job[d]
  BY <1>2, <1>3, OneMoves
<1>5. QED
  BY <1>1, <1>4 DEF Now, OthersStay

\* The call is done with its link.
LEMMA SkipFacts ==
  ASSUME CallsOK, seq \in Nat, UNCHANGED seq, NEW c \in Calls, Skip(c), job[c].todo # <<>>
  PROVE  CallsOK' /\ OthersStay(c) /\ job'[c].pc = "next"
<1> DEFINE r1 == [job[c] EXCEPT !.pc = "next"]
           r2 == [r1 EXCEPT !.todo = Tail(job[c].todo)]
           r3 == [r2 EXCEPT !.image = {}]
<1>1. job' = [job EXCEPT ![c] = r3]
  <2>1. r3 = [job[c] EXCEPT !.pc = "next", !.todo = Tail(job[c].todo), !.image = {}]
    OBVIOUS
  <2>2. QED
    BY <2>1 DEF Skip
<1>2. r1 \in Job /\ r1.pc = "next"
  BY StepRecord DEF CallsOK, CallFits, Steps
<1> HIDE DEF r1
<1>3. PICK s : s = Tail(job[c].todo)
  OBVIOUS
<1>4. s \in Seq(KnownTo(seq)) /\ s \in Seq(Target)
  <2>1. s \in Seq(KnownTo(seq))
    BY <1>3, NowFacts
  <2>2. KnownTo(seq) \subseteq Target
    BY DEF KnownTo
  <2>3. QED
    BY <2>1, <2>2
<1>5. r2 \in Job /\ r2.pc = "next" /\ r2.todo = s
  BY <1>2, <1>3, <1>4 DEF Job
<1> HIDE DEF r2
<1>6. r3 \in Job /\ r3.pc = "next" /\ r3.todo = s
  BY <1>5 DEF Job
<1> HIDE DEF r3
<1>7. CallFits(r3, seq)
  BY <1>4, <1>6 DEF CallFits
<1>8. QED
  BY <1>1, <1>6, <1>7, OneMoves DEF OthersStay

\* The call has ended, or waits for the lock.
LEMMA EndFacts ==
  ASSUME CallsOK, seq \in Nat, seq' \in Nat, seq <= seq', NEW c \in Calls,
         job' = [job EXCEPT ![c] = Idle] \/ job' = [job EXCEPT ![c] = [Idle EXCEPT !.pc = "wait"]]
  PROVE  CallsOK' /\ OthersStay(c) /\ job'[c].pc \in {"idle", "wait"}
<1>1. CASE job' = [job EXCEPT ![c] = Idle]
  BY <1>1, OneGoes, IdleFits DEF OthersStay
<1>2. CASE job' = [job EXCEPT ![c] = [Idle EXCEPT !.pc = "wait"]]
  <2>1. PICK j : j = [Idle EXCEPT !.pc = "wait"]
    OBVIOUS
  <2>2. CallFits(j, seq') /\ j.pc = "wait"
    BY <2>1, IdleFits
  <2>3. QED
    BY <1>2, <2>1, <2>2, OneGoes DEF OthersStay
<1>3. QED
  BY <1>1, <1>2

LEMMA EndsNow ==
  ASSUME CallsOK, seq \in Nat, UNCHANGED seq, NEW c \in Calls,
         job' = [job EXCEPT ![c] = Idle] \/ job' = [job EXCEPT ![c] = [Idle EXCEPT !.pc = "wait"]]
  PROVE  CallsOK' /\ OthersStay(c) /\ job'[c].pc \in {"idle", "wait"}
<1>1. seq' \in Nat /\ seq <= seq'
  OBVIOUS
<1>2. QED
  BY <1>1, EndFacts

\* One field of a call's record changes.
LEMMA FieldRecords ==
  ASSUME NEW j \in Job
  PROVE  /\ \A s \in Seq(Target) :
              LET r == [j EXCEPT !.todo = s]
              IN  r \in Job /\ r.todo = s /\ r.pc = j.pc /\ r.url = j.url /\ r.differs = j.differs
         /\ \A x \in SUBSET Urls :
              LET r == [j EXCEPT !.url = x]
              IN  r \in Job /\ r.url = x /\ r.pc = j.pc /\ r.todo = j.todo /\ r.differs = j.differs
         /\ \A b \in BOOLEAN :
              LET r == [j EXCEPT !.differs = b]
              IN  r \in Job /\ r.differs = b /\ r.pc = j.pc /\ r.todo = j.todo /\ r.url = j.url
<1>1. ASSUME NEW s \in Seq(Target)
      PROVE  LET r == [j EXCEPT !.todo = s]
             IN  r \in Job /\ r.todo = s /\ r.pc = j.pc /\ r.url = j.url /\ r.differs = j.differs
  BY DEF Job
<1>2. ASSUME NEW x \in SUBSET Urls
      PROVE  LET r == [j EXCEPT !.url = x]
             IN  r \in Job /\ r.url = x /\ r.pc = j.pc /\ r.todo = j.todo /\ r.differs = j.differs
  BY DEF Job
<1>3. ASSUME NEW b \in BOOLEAN
      PROVE  LET r == [j EXCEPT !.differs = b]
             IN  r \in Job /\ r.differs = b /\ r.pc = j.pc /\ r.todo = j.todo /\ r.url = j.url
  BY DEF Job
<1>4. QED
  BY <1>1, <1>2, <1>3

\* The link l as a call takes it up.
Taken(l) == [id |-> l, url |-> link[l].url, version |-> link[l].version]

LEMMA TakenFacts ==
  ASSUME FilesOK, LinksOK, NEW l \in Links, link[l] # NoLink
  PROVE  /\ seq \in Nat /\ Idle \in Job
         /\ <<Taken(l)>> \in Seq(KnownTo(seq)) /\ <<Taken(l)>> \in Seq(Target)
         /\ <<Taken(l)>> # <<>> /\ Head(<<Taken(l)>>).id = l
<1>1. PICK t : t = Taken(l)
  OBVIOUS
<1>2. t \in KnownTo(seq) /\ t \in Target /\ t.id = l
  BY <1>1 DEF Taken, LinksOK, KnownTo, Target, Singles, Versions
<1>3. <<t>> \in Seq(KnownTo(seq)) /\ <<t>> \in Seq(Target) /\ <<t>> # <<>> /\ Head(<<t>>) = t
  BY <1>2
<1>4. seq \in Nat
  BY AuthorImagesAssumption DEF FilesOK
<1>5. Idle \in Job
  BY IdleFits DEF CallFits
<1>6. QED
  BY <1>1, <1>2, <1>3, <1>4, <1>5

LEMMA StartUpdateFacts ==
  ASSUME FilesOK, LinksOK, CallsOK, NEW c \in Calls, NEW l \in Links, NEW u \in Urls, StartUpdate(c, l, u)
  PROVE  /\ CallsOK' /\ OthersStay(c)
         /\ job'[c].pc = "update" /\ Now(c)'.id = l /\ job'[c].url = {u}
         /\ job'[c].differs <=> link[l].url # {u}
<1>1. PICK b \in BOOLEAN : b = (link[l].url # {u})
  OBVIOUS
<1>2. PICK s : s = <<Taken(l)>>
  OBVIOUS
<1> DEFINE r1 == [Idle EXCEPT !.pc = "update"]
           r2 == [r1 EXCEPT !.todo = s]
           r3 == [r2 EXCEPT !.url = {u}]
           r4 == [r3 EXCEPT !.differs = b]
<1>3. job' = [job EXCEPT ![c] = r4] /\ UNCHANGED seq /\ link[l] # NoLink
  <2>1. /\ job' = [job EXCEPT ![c] = [Idle EXCEPT !.pc = "update", !.todo = <<Taken(l)>>, !.url = {u},
                                                  !.differs = link[l].url # {u}]]
        /\ UNCHANGED seq /\ link[l] # NoLink
    BY DEF StartUpdate, Taken
  <2>2. job' = [job EXCEPT ![c] = [Idle EXCEPT !.pc = "update", !.todo = s, !.url = {u}, !.differs = b]]
    BY <1>1, <1>2, <2>1
  <2>3. r4 = [Idle EXCEPT !.pc = "update", !.todo = s, !.url = {u}, !.differs = b]
    OBVIOUS
  <2> HIDE DEF r4
  <2>4. QED
    BY <2>1, <2>2, <2>3
<1>4. /\ seq \in Nat /\ Idle \in Job /\ s \in Seq(KnownTo(seq)) /\ s \in Seq(Target)
      /\ s # <<>> /\ Head(s).id = l
  BY <1>2, <1>3, TakenFacts
<1>5. {u} \in SUBSET Urls /\ {u} \in Singles
  BY DEF Singles
<1>6. r1 \in Job /\ r1.pc = "update"
  BY <1>4, StepRecord DEF Steps
<1> HIDE DEF r1
<1>7. r2 \in Job /\ r2.pc = "update" /\ r2.todo = s
  BY <1>4, <1>6, FieldRecords
<1> HIDE DEF r2
<1>8. r3 \in Job /\ r3.pc = "update" /\ r3.todo = s /\ r3.url = {u}
  <2>1. PICK x : x = {u}
    OBVIOUS
  <2>2. [r2 EXCEPT !.url = x] \in Job /\ [r2 EXCEPT !.url = x].pc = "update"
        /\ [r2 EXCEPT !.url = x].todo = s /\ [r2 EXCEPT !.url = x].url = x
    BY <1>5, <1>7, <2>1, FieldRecords
  <2>3. QED
    BY <2>1, <2>2
<1> HIDE DEF r3
<1>9. r4 \in Job /\ r4.pc = "update" /\ r4.todo = s /\ r4.url = {u} /\ r4.differs = b
  BY <1>8, FieldRecords
<1> HIDE DEF r4
<1>10. CallFits(r4, seq)
  BY <1>4, <1>5, <1>9 DEF CallFits
<1>11. CallsOK' /\ job'[c] = r4 /\ \A d \in Calls \ {c} : job'[d] = job[d]
  BY <1>3, <1>4, <1>10, OneMoves
<1>12. QED
  BY <1>1, <1>4, <1>9, <1>11 DEF OthersStay, Now

LEMMA DeleteLinkFacts ==
  ASSUME FilesOK, LinksOK, CallsOK, NEW c \in Calls, NEW l \in Links, DeleteLink(c, l)
  PROVE  /\ CallsOK' /\ OthersStay(c)
         /\ job'[c].pc = "clear" /\ Now(c)'.id = l /\ job'[c].differs
<1>1. PICK s : s = <<Taken(l)>>
  OBVIOUS
<1> DEFINE r1 == [Idle EXCEPT !.pc = "clear"]
           r2 == [r1 EXCEPT !.differs = TRUE]
           r3 == [r2 EXCEPT !.todo = s]
<1>2. job' = [job EXCEPT ![c] = r3] /\ UNCHANGED seq /\ link[l] # NoLink
  <2>1. /\ job' = [job EXCEPT ![c] = [Idle EXCEPT !.pc = "clear", !.differs = TRUE, !.todo = <<Taken(l)>>]]
        /\ UNCHANGED seq /\ link[l] # NoLink
    BY DEF DeleteLink, Taken
  <2>2. job' = [job EXCEPT ![c] = [Idle EXCEPT !.pc = "clear", !.differs = TRUE, !.todo = s]]
    BY <1>1, <2>1
  <2>3. r3 = [Idle EXCEPT !.pc = "clear", !.differs = TRUE, !.todo = s]
    OBVIOUS
  <2> HIDE DEF r3
  <2>4. QED
    BY <2>1, <2>2, <2>3
<1>3. /\ seq \in Nat /\ Idle \in Job /\ s \in Seq(KnownTo(seq)) /\ s \in Seq(Target)
      /\ s # <<>> /\ Head(s).id = l
  BY <1>1, <1>2, TakenFacts
<1>4. r1 \in Job /\ r1.pc = "clear"
  BY <1>3, StepRecord DEF Steps
<1> HIDE DEF r1
<1>5. r2 \in Job /\ r2.pc = "clear" /\ r2.differs = TRUE
  BY <1>4, FieldRecords
<1> HIDE DEF r2
<1>6. r3 \in Job /\ r3.pc = "clear" /\ r3.differs = TRUE /\ r3.todo = s
  BY <1>3, <1>5, FieldRecords
<1> HIDE DEF r3
<1>7. CallFits(r3, seq)
  BY <1>3, <1>6 DEF CallFits
<1>8. CallsOK' /\ job'[c] = r3 /\ \A d \in Calls \ {c} : job'[d] = job[d]
  BY <1>2, <1>3, <1>7, OneMoves
<1>9. QED
  BY <1>3, <1>6, <1>8 DEF OthersStay, Now

\* A call that changed its link clears up after it.
LEMMA UpdateFacts ==
  ASSUME CallsOK, seq \in Nat, UNCHANGED seq, NEW c \in Calls,
         job' = [job EXCEPT ![c].pc = "clear", ![c].then = "wait"], job[c].todo # <<>>
  PROVE  /\ CallsOK' /\ OthersStay(c)
         /\ job'[c].pc = "clear" /\ Now(c)' = Now(c) /\ job'[c].differs = job[c].differs
<1> DEFINE r1 == [job[c] EXCEPT !.pc = "clear"]
           r2 == [r1 EXCEPT !.then = "wait"]
<1>1. job' = [job EXCEPT ![c] = r2]
  OBVIOUS
<1>2. r1 \in Job /\ r1.pc = "clear" /\ r1.todo = job[c].todo /\ r1.differs = job[c].differs
  BY StepRecord DEF CallsOK, CallFits, Steps
<1> HIDE DEF r1
<1>3. r2 \in Job /\ r2.pc = "clear" /\ r2.todo = job[c].todo /\ r2.differs = job[c].differs
  BY <1>2 DEF Job
<1> HIDE DEF r2
<1>4. CallFits(r2, seq)
  BY <1>3 DEF CallFits, CallsOK
<1>5. CallsOK' /\ job'[c] = r2 /\ \A d \in Calls \ {c} : job'[d] = job[d]
  BY <1>1, <1>4, OneMoves
<1>6. QED
  BY <1>3, <1>5 DEF OthersStay, Now

LEMMA ClearFacts ==
  ASSUME CallsOK, seq \in Nat, UNCHANGED seq, NEW c \in Calls,
         job' = [job EXCEPT ![c] = [Idle EXCEPT !.pc = job[c].then]]
  PROVE  CallsOK' /\ OthersStay(c) /\ job'[c].pc \in {"idle", "wait"}
<1>1. PICK p \in {"idle", "wait"} : p = job[c].then
  BY DEF CallsOK, CallFits, Job
<1> DEFINE r == [Idle EXCEPT !.pc = p]
<1>2. job' = [job EXCEPT ![c] = r]
  BY <1>1
<1>3. Idle \in Job /\ Idle.todo = <<>> /\ Idle.image = {}
  BY IdleFits DEF CallFits, Idle
<1>4. r \in Job /\ r.pc = p /\ r.todo = <<>>
  <2>1. p \in Steps
    BY DEF Steps
  <2>2. QED
    BY <1>3, <2>1, StepRecord
<1> HIDE DEF r
<1>5. CallFits(r, seq)
  BY <1>4 DEF CallFits
<1>6. QED
  BY <1>2, <1>4, <1>5, OneMoves DEF OthersStay

LEMMA StartFacts ==
  ASSUME FilesOK, LinksOK, CallsOK, UNCHANGED seq, NEW c \in Calls,
         job' = [job EXCEPT ![c] = [Idle EXCEPT !.pc = "next", !.todo = Targets]]
  PROVE  CallsOK' /\ OthersStay(c) /\ job'[c].pc = "next"
<1>1. PICK s : s = Targets
  OBVIOUS
<1> DEFINE r1 == [Idle EXCEPT !.pc = "next"]
           r2 == [r1 EXCEPT !.todo = s]
<1>2. job' = [job EXCEPT ![c] = r2]
  BY <1>1
<1>3. s \in Seq(KnownTo(seq)) /\ s \in Seq(Target) /\ seq \in Nat
  <2>1. s \in Seq(KnownTo(seq))
    BY <1>1, TargetsFacts
  <2>2. KnownTo(seq) \subseteq Target
    BY DEF KnownTo
  <2>3. QED
    BY <2>1, <2>2, AuthorImagesAssumption DEF FilesOK
<1>4. r1 \in Job /\ r1.pc = "next"
  BY StepRecord, IdleFits DEF Steps, CallFits
<1> HIDE DEF r1
<1>5. r2 \in Job /\ r2.pc = "next" /\ r2.todo = s
  BY <1>3, <1>4, FieldRecords
<1> HIDE DEF r2
<1>6. CallFits(r2, seq)
  BY <1>3, <1>5 DEF CallFits
<1>7. QED
  BY <1>2, <1>3, <1>5, <1>6, OneMoves DEF OthersStay

LEMMA FetchFacts ==
  ASSUME FilesOK, CallsOK, NEW c \in Calls, Fetch(c)
  PROVE  CallsOK' /\ OthersStay(c) /\ job'[c].pc \in {"next", "check"}
<1>1. seq \in Nat /\ UNCHANGED seq /\ job[c].todo # <<>>
  BY AuthorImagesAssumption DEF FilesOK, Fetch
<1>2. CASE Skip(c)
  BY <1>1, <1>2, SkipFacts
<1>3. CASE job' = [job EXCEPT ![c].pc = "check", ![c].image = profile[CHOOSE u \in Urls : Head(job[c].todo).url = {u}]]
  <2>1. Now(c).url \in Singles
    BY <1>1, NowFacts DEF KnownTo
  <2>2. \E u \in Urls : Head(job[c].todo).url = {u}
    BY <2>1 DEF Singles, Now
  <2>3. PICK x \in SUBSET Images : x = profile[CHOOSE u \in Urls : Head(job[c].todo).url = {u}]
    BY <2>2 DEF FilesOK
  <2> DEFINE r1 == [job[c] EXCEPT !.pc = "check"]
             r2 == [r1 EXCEPT !.image = x]
  <2>4. job' = [job EXCEPT ![c] = r2]
    <3>1. job' = [job EXCEPT ![c].pc = "check", ![c].image = x]
      BY <1>3, <2>3
    <3>2. QED
      BY <3>1
  <2>5. r1 \in Job /\ r1.pc = "check" /\ r1.todo = job[c].todo
    BY StepRecord DEF CallsOK, CallFits, Steps
  <2> HIDE DEF r1
  <2>6. r2 \in Job /\ r2.pc = "check" /\ r2.todo = job[c].todo
    BY <2>5 DEF Job
  <2> HIDE DEF r2
  <2>7. CallFits(r2, seq)
    BY <1>1, <2>6 DEF CallFits, CallsOK
  <2>8. QED
    BY <1>1, <2>4, <2>6, <2>7, OneMoves DEF OthersStay
<1>4. QED
  BY <1>2, <1>3 DEF Fetch

\* The refresh asks whether its link is still the one it took up.
LEMMA CheckFacts ==
  ASSUME FilesOK, CallsOK, NEW c \in Calls, Check(c) \/ Recheck(c)
  PROVE  /\ CallsOK' /\ OthersStay(c)
         /\ job'[c].pc \in {"next", "compare", "write"}
         /\ job'[c].pc = "write" => IsCurrent(Now(c)) /\ Now(c)' = Now(c)
<1>1. seq \in Nat /\ UNCHANGED seq /\ job[c].pc \in {"check", "recheck"}
  BY AuthorImagesAssumption DEF FilesOK, Check, Recheck
<1>2. job[c].todo # <<>> /\ (job[c].pc = "recheck" => job[c].image # {})
  BY <1>1 DEF CallsOK, CallFits
<1>3. CASE Skip(c)
  BY <1>1, <1>2, <1>3, SkipFacts
<1>4. CASE Check(c) /\ job' = [job EXCEPT ![c].pc = "compare"]
  BY <1>1, <1>2, <1>4, StepFacts DEF Steps
<1>5. CASE Recheck(c) /\ IsCurrent(Now(c)) /\ job' = [job EXCEPT ![c].pc = "write"]
  <2>1. job[c].image # {}
    BY <1>2, <1>5 DEF Recheck
  <2>2. QED
    BY <1>1, <1>2, <1>5, <2>1, StepFacts DEF Steps
<1>6. QED
  BY <1>3, <1>4, <1>5 DEF Check, Recheck, Now

LEMMA CompareFacts ==
  ASSUME FilesOK, CallsOK, NEW c \in Calls, Compare(c) \/ Write(c) \/ Record(c)
  PROVE  /\ CallsOK' /\ OthersStay(c) /\ Now(c) \in KnownTo(seq)
         /\ Compare(c) => job'[c].pc \in {"next", "recheck"}
         /\ Record(c) => job'[c].pc = "next"
         /\ Write(c) => job'[c].pc = "record" /\ Now(c)' = Now(c) /\ job'[c].image = job[c].image
<1>1. /\ seq \in Nat /\ UNCHANGED seq
      /\ Compare(c) => job[c].pc = "compare"
      /\ Write(c) => job[c].pc = "write"
      /\ Record(c) => job[c].pc = "record"
  <2>1. seq \in Nat
    BY AuthorImagesAssumption DEF FilesOK
  <2>2. Compare(c) => job[c].pc = "compare" /\ UNCHANGED seq
    BY DEF Compare
  <2>3. Write(c) => job[c].pc = "write" /\ UNCHANGED seq
    BY DEF Write
  <2>4. Record(c) => job[c].pc = "record" /\ UNCHANGED seq
    BY DEF Record
  <2>5. QED
    BY <2>1, <2>2, <2>3, <2>4
<1>2. job[c].todo # <<>>
  BY <1>1 DEF CallsOK, CallFits
<1>3. Now(c) \in KnownTo(seq)
  BY <1>2, NowFacts
<1>4. CASE Compare(c)
  <2>1. CASE Skip(c)
    BY <1>1, <1>2, <1>3, <1>4, <2>1, SkipFacts
  <2>2. CASE job[c].image # {} /\ job' = [job EXCEPT ![c].pc = "recheck"]
    BY <1>1, <1>2, <1>3, <1>4, <2>2, StepFacts DEF Steps
  <2>3. QED
    BY <1>4, <2>1, <2>2 DEF Compare
<1>5. CASE Write(c)
  <2>1. job[c].image # {} /\ job' = [job EXCEPT ![c].pc = "record"]
    BY <1>1, <1>5 DEF CallsOK, CallFits, Write
  <2>2. QED
    BY <1>1, <1>2, <1>3, <1>5, <2>1, StepFacts DEF Steps
<1>6. CASE Record(c)
  BY <1>1, <1>2, <1>3, <1>6, SkipFacts DEF Record
<1>7. QED
  BY <1>4, <1>5, <1>6

-----------------------------------------------------------------------------
(* The types hold in every state *)

others == <<author, profile, harm, news, excused, raced, unrecorded>>
tables == <<seq, link, row, file>>

LEMMA IdsKnown ==
  ASSUME FilesOK, NEW t \in KnownTo(seq)
  PROVE  /\ seq \in Nat /\ t.id \in Links /\ t.id <= seq /\ t.url \in Singles /\ t.url # {}
         /\ t.version \in Versions \ {0} /\ t.url \in SUBSET Urls
<1>1. seq \in Nat
  BY AuthorImagesAssumption DEF FilesOK
<1>2. t \in Target /\ t.id <= seq /\ t.url \in Singles
  BY DEF KnownTo
<1>3. t.id \in Links /\ t.version \in Versions \ {0} /\ t.url \in SUBSET Urls
  BY <1>2 DEF Target, Versions
<1>4. t.url # {}
  BY <1>2 DEF Singles
<1>5. QED
  BY <1>1, <1>2, <1>3, <1>4

\* A link that is not there has no url and no version.
LEMMA CurrentIsThere ==
  ASSUME FilesOK, NEW t \in KnownTo(seq), IsCurrent(t)
  PROVE  link[t.id] # NoLink
  BY IdsKnown, NoneTypes DEF IsCurrent

LEMMA UpsertFacts ==
  ASSUME FilesOK, LinksOK, NEW t \in KnownTo(seq), NEW image \in SUBSET Images, Upsert(t, image),
         UNCHANGED link
  PROVE  /\ row' \in [Links -> CacheRows]
         /\ \A l \in Links \ {t.id} : row'[l] = row[l]
         /\ ~ IsCurrent(t) => row' = row
         /\ IsCurrent(t) => /\ row'[t.id].url = t.url /\ row'[t.id].image = image
                            /\ row'[t.id].version = t.version
         /\ \A l \in Links : link[l] = NoLink => row'[l] = row[l]
<1>1. t.id \in Links /\ t.url \in SUBSET Urls /\ t.version \in Versions /\ row \in [Links -> CacheRows]
  BY IdsKnown DEF FilesOK
<1> DEFINE r == [url |-> t.url, image |-> image, version |-> t.version, due |-> FALSE]
<1>2. r \in CacheRows /\ r.url = t.url /\ r.image = image /\ r.version = t.version
  BY <1>1 DEF CacheRows
<1>3. row' = IF IsCurrent(t) THEN [row EXCEPT ![t.id] = r] ELSE row
  BY DEF Upsert
<1> HIDE DEF r
<1>4. IsCurrent(t) => link[t.id] # NoLink
  BY CurrentIsThere
<1>5. QED
  BY <1>1, <1>2, <1>3, <1>4

\* A cached image that is still right is stamped with the version of the link.
LEMMA StampFacts ==
  ASSUME FilesOK, NEW t \in KnownTo(seq), IsCurrent(t),
         row' = [row EXCEPT ![t.id].version = t.version, ![t.id].due = FALSE]
  PROVE  /\ row' \in [Links -> CacheRows]
         /\ \A l \in Links \ {t.id} : row'[l] = row[l]
         /\ row'[t.id].url = row[t.id].url /\ row'[t.id].image = row[t.id].image
         /\ \A l \in Links : link[l] = NoLink => row'[l] = row[l]
<1>1. t.id \in Links /\ t.version \in Versions /\ row \in [Links -> CacheRows]
  BY IdsKnown DEF FilesOK
<1> DEFINE r1 == [row[t.id] EXCEPT !.version = t.version]
           r2 == [r1 EXCEPT !.due = FALSE]
<1>2. row' = [row EXCEPT ![t.id] = r2]
  OBVIOUS
<1>3. r1 \in CacheRows /\ r1.url = row[t.id].url /\ r1.image = row[t.id].image
  BY <1>1 DEF CacheRows
<1> HIDE DEF r1
<1>4. r2 \in CacheRows /\ r2.url = row[t.id].url /\ r2.image = row[t.id].image
  BY <1>3 DEF CacheRows
<1> HIDE DEF r2
<1>5. QED
  BY <1>1, <1>2, <1>4, CurrentIsThere

\* The row after Compare: upserted without an image, stamped or left alone.
LEMMA CompareRow ==
  ASSUME FilesOK, LinksOK, CallsOK, NEW c \in Calls, Compare(c)
  PROVE  /\ row' \in [Links -> CacheRows]
         /\ \A l \in Links : link[l] = NoLink => row'[l] = row[l]
         /\ \A l \in Links :
              \/ row'[l] = row[l]
              \/ row'[l].image = {} /\ row'[l].url = link[l].url
              \/ row'[l].url = row[l].url /\ row'[l].image = row[l].image /\ row[l].image # {}
<1>1. PICK t \in KnownTo(seq) : t = Now(c)
  BY CompareFacts
<1>2. row \in [Links -> CacheRows] /\ {} \in SUBSET Images
  BY DEF FilesOK
<1>3. CASE Upsert(t, {})
  <2>1. UNCHANGED link
    BY DEF Compare
  <2>2. QED
    BY <1>2, <1>3, <2>1, UpsertFacts DEF IsCurrent
<1>4. CASE row' = row
  BY <1>2, <1>4
<1>5. CASE /\ IsCurrent(t) /\ row[t.id].image # {}
           /\ row' = [row EXCEPT ![t.id].version = t.version, ![t.id].due = FALSE]
  BY <1>5, StampFacts
<1>6. QED
  BY <1>1, <1>3, <1>4, <1>5 DEF Compare, Now

LEMMA TablesStay ==
  ASSUME FilesOK, LinksOK, UNCHANGED tables, UNCHANGED others
  PROVE  FilesOK' /\ LinksOK'
  BY DEF FilesOK, LinksOK, tables, others

LEMMA InitTypes == Init => Types
<1> SUFFICES ASSUME Init PROVE Types
  OBVIOUS
<1>1. FilesOK
  BY NoneTypes, AuthorImagesAssumption DEF Init, FilesOK, Links
<1>2. LinksOK
  BY DEF Init, LinksOK
<1>3. CallsOK
  BY IdleFits DEF Init, CallsOK
<1>4. LockOK
  BY IdleFits DEF Init, LockOK, AtWork
<1>5. QED
  BY <1>1, <1>2, <1>3, <1>4 DEF Types

\* The steps of a call that change neither tables nor files.
LEMMA MoveTypes ==
  ASSUME Types, NEW c \in Calls,
         \/ Schedule(c) \/ Fetch(c) \/ Check(c) \/ Recheck(c) \/ Start(c) \/ Finish(c)
         \/ \E l \in Links, u \in Urls : StartUpdate(c, l, u)
  PROVE  Types' /\ OthersStay(c)
<1>0. FilesOK /\ LinksOK /\ CallsOK /\ LockOK /\ seq \in Nat
  BY AuthorImagesAssumption DEF Types, FilesOK
<1>1. UNCHANGED tables /\ UNCHANGED others
  BY DEF Schedule, Fetch, Check, Recheck, Start, Finish, StartUpdate, tables, others
<1>2. FilesOK' /\ LinksOK' /\ UNCHANGED seq
  BY <1>0, <1>1, TablesStay DEF tables
<1>3. CASE Schedule(c) \/ (\E l \in Links, u \in Urls : StartUpdate(c, l, u))
  <2>1. CallsOK' /\ OthersStay(c) /\ ~ AtWork(job[c]) /\ ~ AtWork(job'[c]) /\ UNCHANGED lock
    <3>1. CASE Schedule(c)
      BY <1>0, <1>2, <3>1, EndsNow DEF Schedule, AtWork
    <3>2. ASSUME NEW l \in Links, NEW u \in Urls, StartUpdate(c, l, u)
          PROVE  CallsOK' /\ OthersStay(c) /\ ~ AtWork(job[c]) /\ ~ AtWork(job'[c]) /\ UNCHANGED lock
      <4>1. CallsOK' /\ OthersStay(c) /\ job'[c].pc = "update"
        BY <1>0, <3>2, StartUpdateFacts
      <4>2. QED
        BY <3>2, <4>1 DEF StartUpdate, AtWork
    <3>3. QED
      BY <1>3, <3>1, <3>2
  <2>2. LockOK'
    BY <1>0, <2>1, LockKept DEF OthersStay
  <2>3. QED
    BY <1>2, <2>1, <2>2 DEF Types
<1>4. CASE Fetch(c) \/ Check(c) \/ Recheck(c)
  <2>1. CallsOK' /\ OthersStay(c)
    BY <1>0, <1>4, FetchFacts, CheckFacts
  <2>2. AtWork(job[c])
    BY <1>4 DEF Fetch, Check, Recheck, AtWork
  <2>3. AtWork(job'[c])
    BY <1>0, <1>4, FetchFacts, CheckFacts DEF AtWork
  <2>4. LockOK'
    BY <1>0, <1>4, <2>1, <2>2, <2>3, LockKept DEF OthersStay, Fetch, Check, Recheck
  <2>5. QED
    BY <1>2, <2>1, <2>4 DEF Types
<1>5. CASE Start(c)
  <2>1. /\ Free /\ lock' = lock \cup {c}
        /\ job' = [job EXCEPT ![c] = [Idle EXCEPT !.pc = "next", !.todo = Targets]]
    BY <1>5 DEF Start
  <2>2. CallsOK' /\ OthersStay(c) /\ AtWork(job'[c])
    BY <1>0, <1>2, <2>1, StartFacts DEF AtWork
  <2>3. LockOK'
    BY <1>0, <2>1, <2>2, LockTaken DEF OthersStay
  <2>4. QED
    BY <1>2, <2>2, <2>3 DEF Types
<1>6. CASE Finish(c)
  <2>1. lock' = lock \ {c} /\ job' = [job EXCEPT ![c] = Idle]
    BY <1>6 DEF Finish
  <2>2. CallsOK' /\ OthersStay(c) /\ ~ AtWork(job'[c])
    BY <1>0, <1>2, <2>1, EndsNow DEF AtWork
  <2>3. LockOK'
    BY <1>0, <2>1, <2>2, LockFreed DEF OthersStay
  <2>4. QED
    BY <1>2, <2>2, <2>3 DEF Types
<1>7. QED
  BY <1>3, <1>4, <1>5, <1>6

\* The call ends where it is; only at its record is a link left behind.
LEMMA FailTypes ==
  ASSUME Types, NEW c \in Calls, Fail(c)
  PROVE  /\ Types' /\ OthersStay(c) /\ job'[c].pc = "idle"
         /\ UNCHANGED <<link, row, file, excused, raced>>
         /\ job[c].pc # "clear"
         /\ job[c].pc # "record" => UNCHANGED unrecorded
         /\ job[c].pc = "record" =>
              Now(c).id \in Links /\ unrecorded' = unrecorded \cup {Now(c).id}
<1>0. FilesOK /\ LinksOK /\ CallsOK /\ LockOK /\ seq \in Nat
  BY AuthorImagesAssumption DEF Types, FilesOK
<1>1. /\ lock' = lock \ {c} /\ job' = [job EXCEPT ![c] = Idle] /\ job[c].pc # "clear"
      /\ UNCHANGED <<seq, author, link, row, file, profile, harm, news, excused, raced>>
      /\ unrecorded' = IF job[c].pc = "record" THEN unrecorded \cup {Now(c).id} ELSE unrecorded
  BY DEF Fail, Now
<1>2. CallsOK' /\ OthersStay(c)
  BY <1>0, <1>1, EndsNow
<1>3. job'[c].pc = "idle"
  BY <1>0, <1>1, IdleFits DEF CallsOK
<1>4. LockOK'
  BY <1>0, <1>1, <1>2, <1>3, LockFreed DEF OthersStay, AtWork
<1>5. job[c].pc = "record" => Now(c).id \in Links
  <2>1. job[c].pc = "record" => job[c].todo # <<>>
    BY <1>0 DEF CallsOK, CallFits
  <2>2. QED
    BY <1>0, <2>1, NowFacts, IdsKnown
<1>6. FilesOK' /\ LinksOK'
  BY <1>0, <1>1, <1>5 DEF FilesOK, LinksOK
<1>7. QED
  BY <1>1, <1>2, <1>3, <1>4, <1>5, <1>6 DEF Types

LEMMA AddLinkTypes ==
  ASSUME Types, NEW c \in Calls, NEW u \in Urls, AddLink(c, u)
  PROVE  /\ Types' /\ OthersStay(c) /\ job'[c].pc = "wait"
         /\ link[seq + 1] = NoLink /\ row[seq + 1] = NoRow /\ seq + 1 \in Links
         /\ link'[seq + 1] # NoLink
         /\ \A l \in Links \ {seq + 1} : link'[l] = link[l]
<1>0. FilesOK /\ LinksOK /\ CallsOK /\ LockOK /\ seq \in Nat /\ MaxLinks \in Nat
  BY AuthorImagesAssumption DEF Types, FilesOK
<1>1. /\ job[c].pc = "idle" /\ seq < MaxLinks /\ seq' = seq + 1
      /\ link' = [link EXCEPT ![seq + 1] = [url |-> {u}, version |-> 1]]
      /\ job' = [job EXCEPT ![c] = [Idle EXCEPT !.pc = "wait"]]
      /\ UNCHANGED <<author, row, file, profile, lock, harm, news, excused, raced, unrecorded>>
  BY DEF AddLink
<1>2. seq + 1 \in Links /\ seq' \in Nat /\ seq <= seq' /\ seq' \in 0 .. MaxLinks
  BY <1>0, <1>1 DEF Links
<1>3. CallsOK' /\ OthersStay(c) /\ job'[c].pc = "wait"
  <2>1. CallsOK' /\ OthersStay(c)
    BY <1>0, <1>1, <1>2, EndFacts
  <2>2. job'[c].pc = "wait"
    <3>1. PICK j : j = [Idle EXCEPT !.pc = "wait"]
      OBVIOUS
    <3>2. j.pc = "wait" /\ job' = [job EXCEPT ![c] = j]
      BY <1>1, <3>1, IdleFits
    <3>3. QED
      BY <1>0, <3>2 DEF CallsOK
  <2>3. QED
    BY <2>1, <2>2
<1>4. LockOK'
  BY <1>0, <1>1, <1>3, LockKept DEF OthersStay, AtWork
<1>5. link[seq + 1] = NoLink /\ row[seq + 1] = NoRow
  BY <1>0, <1>2 DEF LinksOK
<1> DEFINE n == [url |-> {u}, version |-> 1]
<1>6. n \in LinkRows /\ n.url \in Singles /\ n.version \in Versions \ {0} /\ n # NoLink
  BY Versions0 DEF LinkRows, Singles, NoLink
<1>7. link' = [link EXCEPT ![seq + 1] = n]
  BY <1>1
<1> HIDE DEF n
<1>8. link' \in [Links -> LinkRows] /\ link'[seq + 1] = n /\ \A l \in Links \ {seq + 1} : link'[l] = link[l]
  BY <1>0, <1>2, <1>6, <1>7 DEF FilesOK
<1>9. FilesOK'
  BY <1>0, <1>1, <1>2, <1>8 DEF FilesOK
<1>10. LinksOK'
  <2> SUFFICES ASSUME NEW l \in Links
               PROVE  /\ link'[l] = NoLink \/ (l <= seq' /\ link'[l].url \in Singles
                                               /\ link'[l].version \in Versions \ {0})
                      /\ link'[l] = NoLink => row'[l] = NoRow
    BY DEF LinksOK
  <2>1. CASE l = seq + 1
    <3>1. l <= seq' /\ link'[l] = n
      BY <1>0, <1>1, <1>8, <2>1
    <3>2. QED
      BY <1>6, <3>1
  <2>2. CASE l # seq + 1
    <3>1. l \in Nat /\ (l <= seq => l <= seq')
      BY <1>0, <1>1 DEF Links
    <3>2. QED
      BY <1>0, <1>1, <1>8, <2>2, <3>1 DEF LinksOK
  <2>3. QED
    BY <2>1, <2>2
<1>11. QED
  BY <1>2, <1>3, <1>4, <1>5, <1>6, <1>8, <1>9, <1>10 DEF Types

\* Either the link has gone and the call ends, or it changes under the lock.
LEMMA UpdateTypes ==
  ASSUME Types, NEW c \in Calls, Update(c)
  PROVE  /\ Types' /\ OthersStay(c) /\ Free /\ job[c].pc = "update"
         /\ Now(c).id \in Links /\ job[c].url \in Singles
         /\ UNCHANGED <<seq, author, file, profile, harm, news, excused, unrecorded>>
         /\ \/ UNCHANGED <<link, row, raced>> /\ job'[c].pc = "idle"
            \/ /\ link[Now(c).id] # NoLink
               /\ job'[c].pc = "clear" /\ Now(c)' = Now(c) /\ job'[c].differs = job[c].differs
               /\ link'[Now(c).id] # NoLink /\ link'[Now(c).id].url = job[c].url
               /\ \A l \in Links \ {Now(c).id} : link'[l] = link[l] /\ row'[l] = row[l]
               /\ row'[Now(c).id] = IF job[c].differs THEN NoRow ELSE row[Now(c).id]
               /\ raced' = IF link[Now(c).id].url # job[c].url /\ ~ job[c].differs
                           THEN raced \cup {Now(c).id} ELSE raced
<1>0. FilesOK /\ LinksOK /\ CallsOK /\ LockOK /\ seq \in Nat /\ MaxVersion \in Nat
  BY AuthorImagesAssumption DEF Types, FilesOK
<1>1. /\ job[c].pc = "update" /\ Free
      /\ UNCHANGED <<seq, author, file, profile, harm, news, excused, unrecorded>>
  BY DEF Update
<1>2. job[c].todo # <<>> /\ job[c].url \in Singles
  BY <1>0, <1>1 DEF CallsOK, CallFits
<1>3. PICK l \in Links : l = Now(c).id
  BY <1>0, <1>2, NowFacts, IdsKnown
<1>4. CASE link[l] = NoLink
  <2>1. UNCHANGED <<link, row, lock, raced>> /\ job' = [job EXCEPT ![c] = Idle]
    BY <1>3, <1>4 DEF Update, Now
  <2>2. CallsOK' /\ OthersStay(c) /\ job'[c].pc = "idle"
    <3>1. CallsOK' /\ OthersStay(c)
      BY <1>0, <1>1, <2>1, EndsNow
    <3>2. job'[c] = Idle
      BY <1>0, <2>1 DEF CallsOK
    <3>3. QED
      BY <3>1, <3>2, IdleFits
  <2>3. LockOK'
    BY <1>0, <1>1, <2>1, <2>2, LockKept DEF OthersStay, AtWork
  <2>4. FilesOK' /\ LinksOK'
    BY <1>0, <1>1, <2>1, TablesStay DEF tables, others
  <2>5. QED
    BY <1>1, <1>2, <1>3, <2>1, <2>2, <2>3, <2>4 DEF Types
<1>5. CASE link[l] # NoLink
  <2>1. PICK bump \in {0, 1} : bump = IF link[l].url # job[c].url THEN 1 ELSE 0
    OBVIOUS
  <2>2. /\ link[l].version + bump <= MaxVersion
        /\ link' = [link EXCEPT ![l] = [url |-> job[c].url, version |-> link[l].version + bump]]
        /\ row' = IF job[c].differs THEN [row EXCEPT ![l] = NoRow] ELSE row
        /\ raced' = IF bump = 1 /\ ~ job[c].differs THEN raced \cup {l} ELSE raced
        /\ lock' = lock \cup {c}
        /\ job' = [job EXCEPT ![c].pc = "clear", ![c].then = "wait"]
    BY <1>3, <1>5, <2>1 DEF Update, Now
  <2>3. /\ CallsOK' /\ OthersStay(c)
        /\ job'[c].pc = "clear" /\ Now(c)' = Now(c) /\ job'[c].differs = job[c].differs
    BY <1>0, <1>1, <1>2, <2>2, UpdateFacts
  <2>4. LockOK'
    BY <1>0, <1>1, <2>2, <2>3, LockTaken DEF OthersStay, AtWork
  <2> DEFINE n == [url |-> job[c].url, version |-> link[l].version + bump]
  <2>5. /\ n \in LinkRows /\ n.url = job[c].url /\ n.url \in Singles /\ n.version \in Versions \ {0}
        /\ n # NoLink
    <3>1. link[l].version \in Versions \ {0} /\ job[c].url \in SUBSET Urls
      BY <1>0, <1>2, <1>5 DEF LinksOK, Singles
    <3>2. link[l].version + bump \in Versions \ {0}
      BY <1>0, <2>1, <2>2, <3>1 DEF Versions
    <3>3. n.version # NoLink.version
      BY <3>2, NoneTypes
    <3>4. QED
      BY <1>2, <3>1, <3>2, <3>3 DEF LinkRows
  <2>6. link' = [link EXCEPT ![l] = n]
    BY <2>2
  <2> HIDE DEF n
  <2>7. link' \in [Links -> LinkRows] /\ link'[l] = n /\ \A k \in Links \ {l} : link'[k] = link[k]
    BY <1>0, <2>5, <2>6 DEF FilesOK
  <2>8. /\ row' \in [Links -> CacheRows] /\ \A k \in Links \ {l} : row'[k] = row[k]
        /\ row'[l] = IF job[c].differs THEN NoRow ELSE row[l]
    BY <1>0, <2>2, NoneTypes DEF FilesOK
  <2>9. FilesOK'
    BY <1>0, <1>1, <2>2, <2>7, <2>8 DEF FilesOK
  <2>10. LinksOK'
    BY <1>0, <1>1, <1>5, <2>5, <2>7, <2>8 DEF LinksOK
  <2>11. raced' = IF link[l].url # job[c].url /\ ~ job[c].differs THEN raced \cup {l} ELSE raced
    BY <2>1, <2>2
  <2>12. QED
    BY <1>1, <1>2, <1>3, <1>5, <2>3, <2>4, <2>5, <2>7, <2>8, <2>9, <2>10, <2>11 DEF Types
<1>6. QED
  BY <1>4, <1>5

LEMMA DeleteLinkTypes ==
  ASSUME Types, NEW c \in Calls, NEW l \in Links, DeleteLink(c, l)
  PROVE  /\ Types' /\ OthersStay(c) /\ Free
         /\ job'[c].pc = "clear" /\ Now(c)'.id = l /\ job'[c].differs
         /\ link'[l] = NoLink /\ row'[l] = NoRow
         /\ \A k \in Links \ {l} : link'[k] = link[k] /\ row'[k] = row[k]
<1>0. FilesOK /\ LinksOK /\ CallsOK /\ LockOK
  BY DEF Types
<1>1. /\ Free /\ lock' = lock \cup {c}
      /\ link' = [link EXCEPT ![l] = NoLink] /\ row' = [row EXCEPT ![l] = NoRow]
      /\ UNCHANGED <<seq, author, file, profile, harm, news, excused, raced, unrecorded>>
  BY DEF DeleteLink
<1>2. /\ CallsOK' /\ OthersStay(c)
      /\ job'[c].pc = "clear" /\ Now(c)'.id = l /\ job'[c].differs
  BY <1>0, DeleteLinkFacts
<1>3. LockOK'
  BY <1>0, <1>1, <1>2, LockTaken DEF OthersStay, AtWork
<1>4. /\ link' \in [Links -> LinkRows] /\ row' \in [Links -> CacheRows]
      /\ link'[l] = NoLink /\ row'[l] = NoRow
      /\ \A k \in Links \ {l} : link'[k] = link[k] /\ row'[k] = row[k]
  BY <1>0, <1>1, NoneTypes DEF FilesOK
<1>5. FilesOK' /\ LinksOK'
  BY <1>0, <1>1, <1>4 DEF FilesOK, LinksOK
<1>6. QED
  BY <1>1, <1>2, <1>3, <1>4, <1>5 DEF Types

LEMMA ClearTypes ==
  ASSUME Types, NEW c \in Calls, Clear(c)
  PROVE  /\ Types' /\ OthersStay(c) /\ job[c].pc = "clear" /\ job'[c].pc \in {"idle", "wait"}
         /\ Now(c).id \in Links
         /\ UNCHANGED <<seq, author, link, row, profile, news, raced, unrecorded>>
         /\ \A l \in Links \ {Now(c).id} : file'[l] = file[l]
         /\ excused \subseteq excused'
         /\ \/ job[c].differs /\ file'[Now(c).id] = NoFile
            \/ ~ job[c].differs /\ file' = file
            \/ Now(c).id \in excused' /\ file' = file
<1>0. FilesOK /\ LinksOK /\ CallsOK /\ LockOK /\ seq \in Nat /\ MaxHarm \in Nat
  BY AuthorImagesAssumption DEF Types, FilesOK
<1>1. /\ job[c].pc = "clear" /\ lock' = lock \ {c}
      /\ job' = [job EXCEPT ![c] = [Idle EXCEPT !.pc = job[c].then]]
      /\ UNCHANGED <<seq, author, link, row, profile, news, raced, unrecorded>>
  BY DEF Clear
<1>2. CallsOK' /\ OthersStay(c) /\ job'[c].pc \in {"idle", "wait"}
  BY <1>0, <1>1, ClearFacts
<1>3. LockOK'
  BY <1>0, <1>1, <1>2, LockFreed DEF OthersStay, AtWork
<1>4. PICK l \in Links : l = Now(c).id
  <2>1. job[c].todo # <<>>
    BY <1>0, <1>1 DEF CallsOK, CallFits
  <2>2. QED
    BY <1>0, <2>1, NowFacts, IdsKnown
<1>5. \/ file' = [file EXCEPT ![l] = NoFile] /\ job[c].differs /\ UNCHANGED <<harm, excused>>
      \/ file' = file /\ ~ job[c].differs /\ UNCHANGED <<harm, excused>>
      \/ file' = file /\ harm < MaxHarm /\ harm' = harm + 1 /\ excused' = excused \cup {l}
  BY <1>4 DEF Clear, Now
<1>6. /\ file' \in [Links -> Files] /\ \A k \in Links \ {l} : file'[k] = file[k]
      /\ harm' \in 0 .. MaxHarm /\ excused' \in SUBSET Links /\ excused \subseteq excused'
      /\ \/ job[c].differs /\ file'[l] = NoFile
         \/ ~ job[c].differs /\ file' = file
         \/ l \in excused' /\ file' = file
  BY <1>0, <1>5, NoneTypes DEF FilesOK
<1>7. FilesOK' /\ LinksOK'
  BY <1>0, <1>1, <1>6 DEF FilesOK, LinksOK
<1>8. QED
  BY <1>1, <1>2, <1>3, <1>4, <1>6, <1>7 DEF Types

\* The steps of a refresh at its link.
LEMMA RefreshTypes ==
  ASSUME Types, NEW c \in Calls, Compare(c) \/ Write(c) \/ Record(c)
  PROVE  Types' /\ OthersStay(c)
<1>0. FilesOK /\ LinksOK /\ CallsOK /\ LockOK
  BY DEF Types
<1>1. /\ UNCHANGED <<seq, author, link, profile, lock, harm, news, excused, raced>>
      /\ job[c].pc \in {"compare", "write", "record"}
  <2>1. CASE Compare(c)
    BY <2>1 DEF Compare
  <2>2. CASE Write(c)
    BY <2>2 DEF Write
  <2>3. CASE Record(c)
    BY <2>3 DEF Record
  <2>4. QED
    BY <2>1, <2>2, <2>3
<1>2. CallsOK' /\ OthersStay(c) /\ job'[c].pc \in {"next", "recheck", "record"}
  BY <1>0, CompareFacts
<1>3. LockOK'
  BY <1>0, <1>1, <1>2, LockKept DEF OthersStay, AtWork
<1>4. PICK t \in KnownTo(seq) : t = Now(c)
  BY <1>0, CompareFacts
<1>5. t.id \in Links /\ t.url \in SUBSET Urls /\ job[c].image \in SUBSET Images
  BY <1>0, IdsKnown DEF CallsOK, CallFits, Job
<1>6. /\ row' \in [Links -> CacheRows] /\ \A l \in Links : link[l] = NoLink => row'[l] = row[l]
      /\ file' \in [Links -> Files] /\ unrecorded' \in SUBSET Links
  <2>1. CASE Compare(c)
    BY <1>0, <2>1, CompareRow DEF Compare, FilesOK
  <2>2. CASE Write(c)
    <3>1. /\ file' = [file EXCEPT ![t.id] = [image |-> job[c].image, url |-> t.url]] /\ row' = row
          /\ UNCHANGED unrecorded
      BY <1>4, <2>2 DEF Write, Now
    <3>2. [image |-> job[c].image, url |-> t.url] \in Files
      BY <1>5 DEF Files
    <3>3. QED
      BY <1>0, <1>5, <3>1, <3>2 DEF FilesOK
  <2>3. CASE Record(c)
    <3>1. Upsert(t, job[c].image) /\ UNCHANGED link /\ file' = file /\ unrecorded' = unrecorded \ {t.id}
      BY <1>4, <2>3 DEF Record, Now
    <3>2. QED
      BY <1>0, <1>5, <3>1, UpsertFacts DEF FilesOK
  <2>4. QED
    BY <2>1, <2>2, <2>3
<1>7. FilesOK' /\ LinksOK'
  BY <1>0, <1>1, <1>6 DEF FilesOK, LinksOK
<1>8. QED
  BY <1>2, <1>3, <1>7 DEF Types

LEMMA AroundTypes ==
  ASSUME Types,
         \/ DeleteAuthor
         \/ \E l \in Links : Evict(l) \/ Expire(l)
         \/ \E u \in Urls, image \in {{}} \cup {{i} : i \in Images} : Publish(u, image)
         \/ Crash
  PROVE  Types'
<1>0. /\ FilesOK /\ LinksOK /\ CallsOK /\ LockOK
      /\ harm \in Nat /\ MaxHarm \in Nat /\ news \in Nat /\ MaxNews \in Nat
  BY AuthorImagesAssumption DEF Types, FilesOK
<1>1. CASE DeleteAuthor
  <2>1. UNCHANGED <<seq, file, profile, lock, job, harm, news, raced, unrecorded>>
    BY <1>1 DEF DeleteAuthor
  <2>2. FilesOK'
    BY <1>0, <1>1, <2>1, NoneTypes DEF FilesOK, DeleteAuthor
  <2>3. LinksOK'
    BY <1>1 DEF LinksOK, DeleteAuthor
  <2>4. QED
    BY <1>0, <2>1, <2>2, <2>3 DEF Types, CallsOK, LockOK
<1>2. ASSUME NEW l \in Links, Evict(l) PROVE Types'
  <2>1. UNCHANGED <<seq, author, link, row, profile, lock, job, harm, news, excused, raced, unrecorded>>
    BY <1>2 DEF Evict
  <2>2. FilesOK'
    BY <1>0, <1>2, <2>1, NoneTypes DEF FilesOK, Evict
  <2>3. QED
    BY <1>0, <2>1, <2>2 DEF Types, CallsOK, LockOK, LinksOK
<1>3. ASSUME NEW l \in Links, Expire(l) PROVE Types'
  <2>1. /\ UNCHANGED <<seq, author, link, file, profile, lock, job, harm, news, excused, raced, unrecorded>>
        /\ row[l] # NoRow
    BY <1>3 DEF Expire
  <2> DEFINE r == [row[l] EXCEPT !.due = TRUE]
  <2>2. r \in CacheRows
    BY <1>0 DEF FilesOK, CacheRows
  <2>3. row' = [row EXCEPT ![l] = r]
    BY <1>3 DEF Expire
  <2> HIDE DEF r
  <2>4. row' \in [Links -> CacheRows] /\ \A k \in Links \ {l} : row'[k] = row[k]
    BY <1>0, <2>2, <2>3 DEF FilesOK
  <2>5. FilesOK' /\ LinksOK'
    BY <1>0, <2>1, <2>4 DEF FilesOK, LinksOK
  <2>6. QED
    BY <1>0, <2>1, <2>5 DEF Types, CallsOK, LockOK
<1>4. ASSUME NEW u \in Urls, NEW image \in {{}} \cup {{i} : i \in Images}, Publish(u, image)
      PROVE  Types'
  <2>1. /\ UNCHANGED <<seq, author, link, row, file, lock, job, harm, excused, raced, unrecorded>>
        /\ profile' = [profile EXCEPT ![u] = image] /\ news < MaxNews /\ news' = news + 1
    BY <1>4 DEF Publish
  <2>2. image \in SUBSET Images
    OBVIOUS
  <2>3. profile' \in [Urls -> SUBSET Images] /\ news' \in 0 .. MaxNews
    BY <1>0, <2>1, <2>2 DEF FilesOK
  <2>4. FilesOK'
    BY <1>0, <2>1, <2>3 DEF FilesOK
  <2>5. QED
    BY <1>0, <2>1, <2>4 DEF Types, CallsOK, LockOK, LinksOK
<1>5. CASE Crash
  <2>1. /\ UNCHANGED <<seq, author, link, row, file, profile, news, raced>>
        /\ harm < MaxHarm /\ harm' = harm + 1 /\ job' = [c \in Calls |-> Idle] /\ lock' = {}
        /\ excused' = excused \cup {Now(c).id : c \in {d \in Calls : job[d].pc = "clear"}}
        /\ unrecorded' = unrecorded \cup {Now(c).id : c \in {d \in Calls : job[d].pc = "record"}}
    BY <1>5 DEF Crash, Now
  <2>2. \A c \in Calls : job[c].pc \in {"clear", "record"} => Now(c).id \in Links
    <3>1. \A c \in Calls : job[c].pc \in {"clear", "record"} => job[c].todo # <<>>
      BY <1>0 DEF CallsOK, CallFits
    <3>2. QED
      BY <1>0, <3>1, NowFacts, IdsKnown
  <2>3. excused' \in SUBSET Links /\ unrecorded' \in SUBSET Links
    BY <1>0, <2>1, <2>2 DEF FilesOK
  <2>4. FilesOK' /\ LinksOK'
    BY <1>0, <2>1, <2>3 DEF FilesOK, LinksOK
  <2>5. CallsOK' /\ LockOK'
    BY <2>1, IdleFits DEF CallsOK, LockOK, AtWork
  <2>6. QED
    BY <2>4, <2>5 DEF Types
<1>6. QED
  BY <1>1, <1>2, <1>3, <1>4, <1>5

\* One conjunct for each group of steps that the lemmas treat alike.
LEMMA NextGroups ==
  ASSUME Next
  PROVE  \/ \E c \in Calls :
              \/ Schedule(c) \/ Fetch(c) \/ Check(c) \/ Recheck(c) \/ Start(c) \/ Finish(c)
              \/ \E l \in Links, u \in Urls : StartUpdate(c, l, u)
         \/ \E c \in Calls : Compare(c) \/ Write(c) \/ Record(c)
         \/ \E c \in Calls : \/ \E u \in Urls : AddLink(c, u)
                             \/ \E l \in Links : DeleteLink(c, l)
                             \/ Update(c) \/ Clear(c) \/ Fail(c)
         \/ \/ DeleteAuthor
            \/ \E l \in Links : Evict(l) \/ Expire(l)
            \/ \E u \in Urls, image \in {{}} \cup {{i} : i \in Images} : Publish(u, image)
            \/ Crash
  BY DEF Next

LEMMA NextTypes == Types /\ [Next]_vars => Types'
<1> SUFFICES ASSUME Types, [Next]_vars PROVE Types'
  OBVIOUS
<1>1. CASE UNCHANGED vars
  BY <1>1 DEF vars, Types, FilesOK, LinksOK, CallsOK, LockOK
<1>2. CASE Next
  BY <1>2, NextGroups, MoveTypes, RefreshTypes, AddLinkTypes, DeleteLinkTypes, UpdateTypes,
     ClearTypes, FailTypes, AroundTypes
<1>3. QED
  BY <1>1, <1>2

\* The types; a link's row goes with the link, and the call that is at work
\* under the author's lock is the only one.
THEOREM SpecTypeOK == Spec => []TypeOK
<1>1. Types => TypeOK
  <2> SUFFICES ASSUME Types PROVE TypeOK
    OBVIOUS
  <2>1. lock = {c \in Calls : job[c].pc \notin {"idle", "wait", "update"}}
    BY DEF Types, LockOK, AtWork
  <2>2. Cardinality(lock) <= 1
    <3>1. lock = {} \/ \E c : lock = {c}
      BY DEF Types, LockOK
    <3>2. QED
      BY <3>1, FS_EmptySet, FS_Singleton
  <2>3. \A l \in Links : /\ link[l] = NoLink \/ (l <= seq /\ link[l].url # {} /\ link[l].version > 0)
                         /\ link[l] = NoLink => row[l] = NoRow
    BY AuthorImagesAssumption DEF Types, LinksOK, Singles, Versions
  <2>4. job \in [Calls -> Job]
    BY DEF Types, CallsOK, CallFits
  <2>5. QED
    BY <2>1, <2>2, <2>3, <2>4 DEF Types, FilesOK, LinkRows, CacheRows, Files, Versions, TypeOK
<1>2. QED
  BY <1>1, InitTypes, NextTypes, PTL DEF Spec

-----------------------------------------------------------------------------
(* Links, rows and files *)

Recording(l) == \E c \in Calls : job[c].pc = "record" /\ Now(c).id = l

\* What a refresh writes for is the present link, or one that went with its author.
Rechecked ==
    \A c \in Calls : job[c].pc \in {"write", "record"} =>
        IsCurrent(Now(c)) \/ (link[Now(c).id] = NoLink /\ Now(c).id \in excused)

\* What it has written and not recorded is still there, or evicted.
Written ==
    \A c \in Calls : job[c].pc = "record" =>
        \/ file[Now(c).id] = NoFile
        \/ file[Now(c).id].image = job[c].image /\ file[Now(c).id].url = Now(c).url

\* A row is of its link's url, but for the race of two changes.
RowsOfLinks == \A l \in Links : row[l] # NoRow /\ l \notin raced => row[l].url = link[l].url

\* An image that was recorded is the one in the file, and of the same url.
\* Only a refresh that ends between the two parts them: the file is then of the
\* link's present url, and the row too, but for the race of two changes.
RowsOfFiles ==
    \A l \in Links : row[l].image # {} /\ file[l] # NoFile /\ ~ Recording(l) =>
        /\ l \notin unrecorded => file[l].image = row[l].image
        /\ l \notin unrecorded \/ l \notin raced => file[l].url = row[l].url

\* Who clears up after a change that keeps the url has a link, or one that went
\* with its author.
Cleared ==
    \A c \in Calls : job[c].pc = "clear" /\ ~ job[c].differs /\ link[Now(c).id] = NoLink =>
        Now(c).id \in excused

OrphansKnown ==
    \A l \in Links : link[l] = NoLink /\ file[l] # NoFile =>
        l \in excused \/ \E c \in Calls : job[c].pc = "clear" /\ Now(c).id = l

Kept == Rechecked /\ Written /\ RowsOfLinks /\ RowsOfFiles /\ Cleared /\ OrphansKnown

LEMMA NowStays ==
  ASSUME NEW c, OthersStay(c)
  PROVE  \A d \in Calls \ {c} : job'[d] = job[d] /\ Now(d)' = Now(d)
  BY DEF OthersStay, Now

\* The link of a call that is at one.
LEMMA AtLink ==
  ASSUME Types, NEW c \in Calls,
         job[c].pc \in {"check", "compare", "recheck", "write", "record", "update", "clear"}
  PROVE  Now(c) \in KnownTo(seq) /\ Now(c).id \in Links /\ seq \in Nat /\ Now(c).id <= seq
<1>1. job[c].todo # <<>>
  BY DEF Types, CallsOK, CallFits
<1>2. Now(c) \in KnownTo(seq)
  BY <1>1, NowFacts DEF Types
<1>3. QED
  BY <1>2, IdsKnown DEF Types

\* Under the lock a call is alone.
LEMMA Alone ==
  ASSUME Types, NEW c \in Calls, AtWork(job[c])
  PROVE  \A d \in Calls \ {c} : ~ AtWork(job[d])
  BY DEF Types, LockOK

LEMMA NobodyAtWork ==
  ASSUME Types, Free
  PROVE  \A d \in Calls : ~ AtWork(job[d])
  BY DEF Types, LockOK, Free

\* A call moves on without touching anything else.
LEMMA MoveKept ==
  ASSUME Kept, NEW c \in Calls, OthersStay(c), UNCHANGED <<link, row, file, excused, raced, unrecorded>>,
         job[c].pc \notin {"record", "clear"}, job'[c].pc \notin {"record", "clear"},
         job'[c].pc = "write" => IsCurrent(Now(c)'),
         job'[c].pc = "update" /\ ~ job'[c].differs => job'[c].url = link[Now(c)'.id].url
  PROVE  Kept'
<1>1. \A d \in Calls \ {c} : job'[d] = job[d] /\ Now(d)' = Now(d)
  BY NowStays
<1>2. Rechecked'
  <2> SUFFICES ASSUME NEW d \in Calls, job'[d].pc \in {"write", "record"}
               PROVE  IsCurrent(Now(d)') \/ (link[Now(d)'.id] = NoLink /\ Now(d)'.id \in excused)
    BY DEF Rechecked, IsCurrent
  <2>1. QED
    BY <1>1 DEF Kept, Rechecked
<1>3. Written'
  BY <1>1 DEF Kept, Written
<1>4. RowsOfLinks'
  BY DEF Kept, RowsOfLinks
<1>5. \A l \in Links : Recording(l)' <=> Recording(l)
  BY <1>1 DEF Recording
<1>6. RowsOfFiles'
  BY <1>1, <1>5 DEF Kept, RowsOfFiles
<1>7. Cleared' /\ OrphansKnown'
  BY <1>1 DEF Kept, Cleared, OrphansKnown
<1>8. QED
  BY <1>2, <1>3, <1>4, <1>6, <1>7 DEF Kept

LEMMA MovesKept ==
  ASSUME Types, Kept, NEW c \in Calls,
         \/ Schedule(c) \/ Fetch(c) \/ Check(c) \/ Recheck(c) \/ Start(c) \/ Finish(c)
         \/ \E l \in Links, u \in Urls : StartUpdate(c, l, u)
  PROVE  Kept'
<1>0. /\ FilesOK /\ LinksOK /\ CallsOK /\ seq \in Nat /\ OthersStay(c)
      /\ UNCHANGED <<seq, link, row, file, excused, raced, unrecorded>>
  <2>1. OthersStay(c)
    BY MoveTypes
  <2>2. UNCHANGED <<seq, link, row, file, excused, raced, unrecorded>>
    BY DEF Schedule, Fetch, Check, Recheck, Start, Finish, StartUpdate
  <2>3. seq \in Nat
    BY AuthorImagesAssumption DEF Types, FilesOK
  <2>4. QED
    BY <2>1, <2>2, <2>3 DEF Types
<1>1. CASE Schedule(c) \/ Finish(c)
  <2>1. job'[c].pc \in {"idle", "wait"} /\ job[c].pc \notin {"record", "clear"}
    BY <1>0, <1>1, EndsNow DEF Schedule, Finish
  <2>2. QED
    BY <1>0, <2>1, MoveKept
<1>2. CASE Start(c)
  <2>1. job'[c].pc = "next" /\ job[c].pc = "wait"
    BY <1>0, <1>2, StartFacts DEF Start
  <2>2. QED
    BY <1>0, <2>1, MoveKept
<1>3. CASE Fetch(c)
  <2>1. job'[c].pc \in {"next", "check"} /\ job[c].pc = "next"
    BY <1>0, <1>3, FetchFacts DEF Fetch
  <2>2. QED
    BY <1>0, <2>1, MoveKept
<1>4. CASE Check(c) \/ Recheck(c)
  <2>1. /\ job'[c].pc \in {"next", "compare", "write"}
        /\ job'[c].pc = "write" => IsCurrent(Now(c)')
        /\ job[c].pc \in {"check", "recheck"}
    BY <1>0, <1>4, CheckFacts DEF Check, Recheck
  <2>2. QED
    BY <1>0, <2>1, MoveKept
<1>5. ASSUME NEW l \in Links, NEW u \in Urls, StartUpdate(c, l, u) PROVE Kept'
  <2>1. /\ job'[c].pc = "update" /\ Now(c)'.id = l /\ job'[c].url = {u}
        /\ job'[c].differs <=> link[l].url # {u}
    BY <1>0, <1>5, StartUpdateFacts
  <2>2. job[c].pc = "idle"
    BY <1>5 DEF StartUpdate
  <2>3. QED
    BY <1>0, <2>1, <2>2, MoveKept
<1>6. QED
  BY <1>1, <1>2, <1>3, <1>4, <1>5

LEMMA AddLinkKept ==
  ASSUME Types, Kept, NEW c \in Calls, NEW u \in Urls, AddLink(c, u)
  PROVE  Kept'
<1>1. /\ OthersStay(c) /\ job'[c].pc = "wait" /\ job[c].pc = "idle"
      /\ link[seq + 1] = NoLink /\ row[seq + 1] = NoRow /\ link'[seq + 1] # NoLink
      /\ \A l \in Links \ {seq + 1} : link'[l] = link[l]
      /\ UNCHANGED <<row, file, excused, raced, unrecorded>>
  BY AddLinkTypes DEF AddLink
<1>2. \A d \in Calls \ {c} : job'[d] = job[d] /\ Now(d)' = Now(d)
  BY <1>1, NowStays
<1>3. \A d \in Calls : job[d].pc \in {"write", "record", "clear"} =>
        Now(d).id \in Links /\ link'[Now(d).id] = link[Now(d).id]
  <2> SUFFICES ASSUME NEW d \in Calls, job[d].pc \in {"write", "record", "clear"}
               PROVE  Now(d).id \in Links /\ link'[Now(d).id] = link[Now(d).id]
    OBVIOUS
  <2>1. PICK i : i = Now(d).id
    OBVIOUS
  <2>2. i \in Links /\ seq \in Nat /\ i <= seq
    BY <2>1, AtLink
  <2>3. i # seq + 1
    BY <2>2 DEF Links
  <2>4. QED
    BY <1>1, <2>1, <2>2, <2>3
<1>4. Rechecked'
  <2> SUFFICES ASSUME NEW d \in Calls, job'[d].pc \in {"write", "record"}
               PROVE  IsCurrent(Now(d))' \/ (link'[Now(d)'.id] = NoLink /\ Now(d)'.id \in excused)
    BY <1>1 DEF Rechecked
  <2>1. d # c
    BY <1>1
  <2>2. QED
    BY <1>2, <1>3, <2>1 DEF Kept, Rechecked, IsCurrent
<1>5. Written' /\ Cleared'
  BY <1>1, <1>2, <1>3 DEF Kept, Written, Cleared
<1>6. NoRow.image = {}
  BY NoneTypes
<1>7. RowsOfLinks'
  BY <1>1 DEF Kept, RowsOfLinks
<1>8. \A l \in Links : Recording(l)' <=> Recording(l)
  BY <1>1, <1>2 DEF Recording
<1>9. RowsOfFiles'
  BY <1>1, <1>2, <1>6, <1>8 DEF Kept, RowsOfFiles
<1>10. OrphansKnown'
  BY <1>1, <1>2 DEF Kept, OrphansKnown
<1>11. QED
  BY <1>4, <1>5, <1>7, <1>9, <1>10 DEF Kept

LEMMA UpdateKept ==
  ASSUME Types, Kept, NEW c \in Calls, Update(c)
  PROVE  Kept'
<1>1. /\ OthersStay(c) /\ Free /\ job[c].pc = "update"
      /\ Now(c).id \in Links /\ UNCHANGED <<file, excused, unrecorded>>
  BY UpdateTypes
<1>2. \A d \in Calls \ {c} : job'[d] = job[d] /\ Now(d)' = Now(d)
  BY <1>1, NowStays
<1>3. \A d \in Calls : job[d].pc \notin {"write", "record", "clear"}
  BY <1>1, NobodyAtWork DEF AtWork
<1>4. CASE UNCHANGED <<link, row, raced>> /\ job'[c].pc = "idle"
  BY <1>1, <1>4, MoveKept
<1>5. ASSUME link[Now(c).id] # NoLink,
             job'[c].pc = "clear", Now(c)' = Now(c), job'[c].differs = job[c].differs,
             link'[Now(c).id] # NoLink, link'[Now(c).id].url = job[c].url,
             \A l \in Links \ {Now(c).id} : link'[l] = link[l] /\ row'[l] = row[l],
             row'[Now(c).id] = IF job[c].differs THEN NoRow ELSE row[Now(c).id],
             raced' = IF link[Now(c).id].url # job[c].url /\ ~ job[c].differs
                      THEN raced \cup {Now(c).id} ELSE raced
      PROVE  Kept'
  <2>1. Rechecked' /\ Written'
    BY <1>2, <1>3, <1>5 DEF Rechecked, Written
  <2>2. Cleared'
    BY <1>2, <1>3, <1>5 DEF Cleared
  <2>3. OrphansKnown'
    BY <1>1, <1>3, <1>5 DEF Kept, OrphansKnown
  <2>4. RowsOfLinks'
    <3> SUFFICES ASSUME NEW l \in Links, row'[l] # NoRow, l \notin raced'
                 PROVE  row'[l].url = link'[l].url
      BY DEF RowsOfLinks
    <3>1. CASE l = Now(c).id
      BY <1>5, <3>1 DEF Kept, RowsOfLinks
    <3>2. CASE l # Now(c).id
      BY <1>5, <3>2 DEF Kept, RowsOfLinks
    <3>3. QED
      BY <3>1, <3>2
  <2>5. RowsOfFiles'
    <3> SUFFICES ASSUME NEW l \in Links, row'[l].image # {}, file[l] # NoFile
                 PROVE  /\ l \notin unrecorded => file[l].image = row'[l].image
                        /\ l \notin unrecorded \/ l \notin raced' => file[l].url = row'[l].url
      BY <1>1 DEF RowsOfFiles
    <3>1. row'[l] = row[l]
      BY <1>5, NoneTypes
    <3>2. ~ Recording(l)
      BY <1>3 DEF Recording
    <3>3. l \notin raced' => l \notin raced
      BY <1>5
    <3>4. QED
      BY <3>1, <3>2, <3>3 DEF Kept, RowsOfFiles
  <2>6. QED
    BY <2>1, <2>2, <2>3, <2>4, <2>5 DEF Kept
<1>6. QED
  BY <1>4, <1>5, UpdateTypes

LEMMA DeleteLinkKept ==
  ASSUME Types, Kept, NEW c \in Calls, NEW l \in Links, DeleteLink(c, l)
  PROVE  Kept'
<1>1. /\ OthersStay(c) /\ Free
      /\ job'[c].pc = "clear" /\ Now(c)'.id = l /\ job'[c].differs
      /\ link'[l] = NoLink /\ row'[l] = NoRow
      /\ \A k \in Links \ {l} : link'[k] = link[k] /\ row'[k] = row[k]
      /\ UNCHANGED <<file, excused, raced, unrecorded>>
  BY DeleteLinkTypes DEF DeleteLink
<1>2. \A d \in Calls \ {c} : job'[d] = job[d] /\ Now(d)' = Now(d)
  BY <1>1, NowStays
<1>3. \A d \in Calls : job[d].pc \notin {"write", "record", "clear"}
  BY <1>1, NobodyAtWork DEF AtWork
<1>4. Rechecked' /\ Written' /\ Cleared'
  BY <1>1, <1>2, <1>3 DEF Rechecked, Written, Cleared
<1>5. RowsOfLinks'
  BY <1>1 DEF Kept, RowsOfLinks
<1>6. \A k \in Links : ~ Recording(k)
  BY <1>3 DEF Recording
<1>7. NoRow.image = {}
  BY NoneTypes
<1>8. RowsOfFiles'
  BY <1>1, <1>2, <1>6, <1>7 DEF Kept, RowsOfFiles
<1>9. OrphansKnown'
  BY <1>1, <1>3 DEF Kept, OrphansKnown
<1>10. QED
  BY <1>4, <1>5, <1>8, <1>9 DEF Kept

LEMMA ClearKept ==
  ASSUME Types, Kept, NEW c \in Calls, Clear(c)
  PROVE  Kept'
<1>1. /\ OthersStay(c) /\ job[c].pc = "clear" /\ job'[c].pc \in {"idle", "wait"}
      /\ Now(c).id \in Links
      /\ UNCHANGED <<link, row, raced, unrecorded>>
      /\ \A l \in Links \ {Now(c).id} : file'[l] = file[l]
      /\ excused \subseteq excused'
      /\ \/ job[c].differs /\ file'[Now(c).id] = NoFile
         \/ ~ job[c].differs /\ file' = file
         \/ Now(c).id \in excused' /\ file' = file
  BY ClearTypes
<1>2. \A d \in Calls \ {c} : job'[d] = job[d] /\ Now(d)' = Now(d)
  BY <1>1, NowStays
<1>3. \A l \in Links : file'[l] = file[l] \/ file'[l] = NoFile
  BY <1>1
<1>4. Rechecked'
  <2> SUFFICES ASSUME NEW d \in Calls, job'[d].pc \in {"write", "record"}
               PROVE  IsCurrent(Now(d))' \/ (link[Now(d)'.id] = NoLink /\ Now(d)'.id \in excused')
    BY <1>1 DEF Rechecked
  <2>1. QED
    BY <1>1, <1>2 DEF Kept, Rechecked, IsCurrent
<1>5. Written'
  <2> SUFFICES ASSUME NEW d \in Calls, job'[d].pc = "record"
               PROVE  \/ file'[Now(d)'.id] = NoFile
                      \/ file'[Now(d)'.id].image = job'[d].image /\ file'[Now(d)'.id].url = Now(d)'.url
    BY DEF Written
  <2>1. d # c /\ job'[d] = job[d] /\ Now(d)' = Now(d) /\ job[d].pc = "record"
    BY <1>1, <1>2
  <2>2. Now(d).id \in Links
    BY <2>1, AtLink
  <2>3. QED
    BY <1>3, <2>1, <2>2 DEF Kept, Written
<1>6. RowsOfLinks'
  BY <1>1 DEF Kept, RowsOfLinks
<1>7. \A l \in Links : Recording(l)' <=> Recording(l)
  BY <1>1, <1>2 DEF Recording
<1>9. RowsOfFiles'
  <2> SUFFICES ASSUME NEW l \in Links, row[l].image # {}, file'[l] # NoFile, ~ Recording(l)
               PROVE  /\ l \notin unrecorded' => file'[l].image = row[l].image
                      /\ l \notin unrecorded' \/ l \notin raced => file'[l].url = row[l].url
    BY <1>1, <1>7 DEF RowsOfFiles
  <2>1. file'[l] = file[l]
    BY <1>3
  <2>2. QED
    BY <1>1, <2>1 DEF Kept, RowsOfFiles
<1>10. Cleared'
  BY <1>1, <1>2 DEF Kept, Cleared
<1>11. OrphansKnown'
  <2> SUFFICES ASSUME NEW l \in Links, link[l] = NoLink, file'[l] # NoFile
               PROVE  l \in excused' \/ \E d \in Calls : job'[d].pc = "clear" /\ Now(d)'.id = l
    BY <1>1 DEF OrphansKnown
  <2>1. CASE l = Now(c).id
    BY <1>1, <2>1 DEF Kept, Cleared
  <2>2. CASE l # Now(c).id
    <3>1. l \in excused \/ \E d \in Calls : job[d].pc = "clear" /\ Now(d).id = l
      BY <1>1, <2>2 DEF Kept, OrphansKnown
    <3>2. QED
      BY <1>1, <1>2, <2>2, <3>1
  <2>3. QED
    BY <2>1, <2>2
<1>12. QED
  BY <1>4, <1>5, <1>6, <1>9, <1>10, <1>11 DEF Kept

LEMMA CompareKept ==
  ASSUME Types, Kept, NEW c \in Calls, Compare(c)
  PROVE  Kept'
<1>1. /\ OthersStay(c) /\ job[c].pc = "compare" /\ job'[c].pc \in {"next", "recheck"}
      /\ UNCHANGED <<link, file, excused, raced, unrecorded>>
  BY RefreshTypes, CompareFacts DEF Types, Compare
<1>2. \A d \in Calls \ {c} : job'[d] = job[d] /\ Now(d)' = Now(d)
  BY <1>1, NowStays
<1>3. \A l \in Links :
              \/ row'[l] = row[l]
              \/ row'[l].image = {} /\ row'[l].url = link[l].url
              \/ row'[l].url = row[l].url /\ row'[l].image = row[l].image /\ row[l].image # {}
  BY CompareRow DEF Types
<1>4. Rechecked'
  BY <1>1, <1>2 DEF Kept, Rechecked, IsCurrent
<1>5. Written' /\ Cleared' /\ OrphansKnown'
  BY <1>1, <1>2 DEF Kept, Written, Cleared, OrphansKnown
<1>6. RowsOfLinks'
  BY <1>1, <1>3, NoneTypes DEF Kept, RowsOfLinks
<1>7. \A l \in Links : Recording(l)' <=> Recording(l)
  BY <1>1, <1>2 DEF Recording
<1>9. RowsOfFiles'
  <2> SUFFICES ASSUME NEW l \in Links, row'[l].image # {}, file[l] # NoFile, ~ Recording(l)
               PROVE  /\ l \notin unrecorded => file[l].image = row'[l].image
                      /\ l \notin unrecorded \/ l \notin raced => file[l].url = row'[l].url
    BY <1>1, <1>7 DEF RowsOfFiles
  <2>1. row'[l].image = row[l].image /\ row'[l].url = row[l].url
    BY <1>3
  <2>2. QED
    BY <2>1 DEF Kept, RowsOfFiles
<1>10. QED
  BY <1>4, <1>5, <1>6, <1>9 DEF Kept

LEMMA WriteKept ==
  ASSUME Types, Kept, NEW c \in Calls, Write(c)
  PROVE  Kept'
<1>1. /\ OthersStay(c) /\ job[c].pc = "write" /\ job'[c].pc = "record"
      /\ Now(c)' = Now(c) /\ job'[c].image = job[c].image
      /\ UNCHANGED <<link, row, excused, raced, unrecorded>>
  BY RefreshTypes, CompareFacts DEF Types, Write
<1>2. \A d \in Calls \ {c} : job'[d] = job[d] /\ Now(d)' = Now(d)
  BY <1>1, NowStays
<1>3. \A d \in Calls \ {c} : job[d].pc \notin {"write", "record", "clear"}
  BY <1>1, Alone DEF AtWork
<1>4. PICK i \in Links : i = Now(c).id
  BY <1>1, AtLink
<1>5. /\ file'[i].image = job[c].image /\ file'[i].url = Now(c).url
      /\ \A l \in Links \ {i} : file'[l] = file[l]
  <2> DEFINE n == [image |-> job[c].image, url |-> Now(c).url]
  <2>1. file' = [file EXCEPT ![i] = n]
    BY <1>4 DEF Write, Now
  <2>2. n.image = job[c].image /\ n.url = Now(c).url
    OBVIOUS
  <2> HIDE DEF n
  <2>3. QED
    BY <1>4, <2>1, <2>2 DEF Types, FilesOK
<1>6. Rechecked'
  <2>1. IsCurrent(Now(c)) \/ (link[i] = NoLink /\ i \in excused)
    BY <1>1, <1>4 DEF Kept, Rechecked
  <2>2. QED
    BY <1>1, <1>2, <1>3, <1>4, <2>1 DEF Rechecked, IsCurrent
<1>7. Written'
  BY <1>1, <1>2, <1>3, <1>4, <1>5 DEF Written
<1>8. RowsOfLinks'
  BY <1>1 DEF Kept, RowsOfLinks
<1>9. Recording(i)' /\ \A l \in Links \ {i} : Recording(l)' <=> Recording(l)
  BY <1>1, <1>2, <1>4 DEF Recording
<1>10. RowsOfFiles'
  <2> SUFFICES ASSUME NEW l \in Links, row[l].image # {}, file'[l] # NoFile, ~ Recording(l)'
               PROVE  /\ l \notin unrecorded => file'[l].image = row[l].image
                      /\ l \notin unrecorded \/ l \notin raced => file'[l].url = row[l].url
    BY <1>1 DEF RowsOfFiles
  <2>1. l # i /\ ~ Recording(l) /\ file'[l] = file[l]
    BY <1>5, <1>9
  <2>2. QED
    BY <2>1 DEF Kept, RowsOfFiles
<1>11. Cleared'
  BY <1>1, <1>2, <1>3 DEF Cleared
<1>12. OrphansKnown'
  <2> SUFFICES ASSUME NEW l \in Links, link[l] = NoLink, file'[l] # NoFile
               PROVE  l \in excused
    BY <1>1 DEF OrphansKnown
  <2>1. CASE l = i
    <3>1. ~ IsCurrent(Now(c))
      BY <1>1, <1>4, <2>1, AtLink, CurrentIsThere DEF Types
    <3>2. QED
      BY <1>1, <1>4, <2>1, <3>1 DEF Kept, Rechecked
  <2>2. CASE l # i
    BY <1>1, <1>3, <1>5, <2>2 DEF Kept, OrphansKnown
  <2>3. QED
    BY <2>1, <2>2
<1>13. QED
  BY <1>6, <1>7, <1>8, <1>10, <1>11, <1>12 DEF Kept

LEMMA RecordKept ==
  ASSUME Types, Kept, NEW c \in Calls, Record(c)
  PROVE  Kept'
<1>1. /\ OthersStay(c) /\ job[c].pc = "record" /\ job'[c].pc = "next"
      /\ UNCHANGED <<link, file, excused, raced>> /\ unrecorded' = unrecorded \ {Now(c).id}
  BY RefreshTypes, CompareFacts DEF Types, Record, Now
<1>2. \A d \in Calls \ {c} : job'[d] = job[d] /\ Now(d)' = Now(d)
  BY <1>1, NowStays
<1>3. PICK t \in KnownTo(seq) : t = Now(c)
  BY <1>1, AtLink
<1>4. t.id \in Links /\ (IsCurrent(t) => link[t.id] # NoLink /\ link[t.id].url = t.url)
  BY IdsKnown, CurrentIsThere DEF Types, IsCurrent
<1>5. /\ \A l \in Links \ {t.id} : row'[l] = row[l]
      /\ ~ IsCurrent(t) => row' = row
      /\ IsCurrent(t) => row'[t.id].url = t.url /\ row'[t.id].image = job[c].image
  <2>1. Upsert(t, job[c].image) /\ UNCHANGED link
    BY <1>3 DEF Record, Now
  <2>2. job[c].image \in SUBSET Images
    BY DEF Types, CallsOK, CallFits, Job
  <2>3. QED
    BY <2>1, <2>2, UpsertFacts DEF Types
<1>6. Rechecked'
  BY <1>1, <1>2 DEF Kept, Rechecked, IsCurrent
<1>7. Written' /\ Cleared' /\ OrphansKnown'
  BY <1>1, <1>2 DEF Kept, Written, Cleared, OrphansKnown
<1>8. RowsOfLinks'
  BY <1>1, <1>4, <1>5 DEF Kept, RowsOfLinks
<1>9. \A l \in Links \ {t.id} : Recording(l)' <=> Recording(l)
  BY <1>1, <1>2, <1>3 DEF Recording
<1>11. RowsOfFiles'
  <2> SUFFICES ASSUME NEW l \in Links, row'[l].image # {}, file[l] # NoFile, ~ Recording(l)'
               PROVE  /\ l \notin unrecorded' => file[l].image = row'[l].image
                      /\ l \notin unrecorded' \/ l \notin raced => file[l].url = row'[l].url
    BY <1>1 DEF RowsOfFiles
  <2>1. CASE l = t.id
    <3>1. IsCurrent(t)
      <4>1. link[l] = NoLink => row'[l].image = {}
        BY <1>5, <2>1, NoneTypes, <1>4 DEF Types, LinksOK
      <4>2. QED
        BY <1>1, <1>3, <2>1, <4>1 DEF Kept, Rechecked
    <3>2. file[l].image = job[c].image /\ file[l].url = t.url
      BY <1>1, <1>3, <2>1 DEF Kept, Written
    <3>3. QED
      BY <1>5, <2>1, <3>1, <3>2
  <2>2. CASE l # t.id
    <3>1. row'[l] = row[l] /\ ~ Recording(l) /\ (l \in unrecorded <=> l \in unrecorded')
      BY <1>1, <1>3, <1>5, <1>9, <2>2
    <3>2. QED
      BY <3>1 DEF Kept, RowsOfFiles
  <2>3. QED
    BY <2>1, <2>2
<1>12. QED
  BY <1>6, <1>7, <1>8, <1>11 DEF Kept

\* What a refresh has written and not recorded is of the link's url, and so of
\* the url of the row, but for the race of two changes.
LEMMA UnrecordedFile ==
  ASSUME Types, Kept, NEW l \in Links, Recording(l), row[l].image # {}, file[l] # NoFile
  PROVE  l \notin raced => file[l].url = row[l].url
<1>1. PICK d \in Calls : job[d].pc = "record" /\ Now(d).id = l
  BY DEF Recording
<1>2. link[l] # NoLink
  BY NoneTypes DEF Types, LinksOK
<1>3. IsCurrent(Now(d))
  BY <1>1, <1>2 DEF Kept, Rechecked
<1>4. file[l].url = link[l].url
  BY <1>1, <1>3 DEF Kept, Written, IsCurrent
<1>5. row[l] # NoRow
  BY NoneTypes
<1>6. QED
  BY <1>4, <1>5 DEF Kept, RowsOfLinks

LEMMA FailKept ==
  ASSUME Types, Kept, NEW c \in Calls, Fail(c)
  PROVE  Kept'
<1>1. /\ OthersStay(c) /\ job'[c].pc = "idle" /\ job[c].pc # "clear"
      /\ UNCHANGED <<link, row, file, excused, raced>>
      /\ job[c].pc # "record" => UNCHANGED unrecorded
      /\ job[c].pc = "record" => unrecorded' = unrecorded \cup {Now(c).id}
  BY FailTypes
<1>2. CASE job[c].pc # "record"
  BY <1>1, <1>2, MoveKept
<1>3. CASE job[c].pc = "record"
  <2>1. \A d \in Calls \ {c} : job'[d] = job[d] /\ Now(d)' = Now(d)
    BY <1>1, NowStays
  <2>2. Rechecked' /\ Written' /\ Cleared' /\ OrphansKnown'
    BY <1>1, <2>1 DEF Kept, Rechecked, Written, Cleared, OrphansKnown, IsCurrent
  <2>3. RowsOfLinks'
    BY <1>1 DEF Kept, RowsOfLinks
  <2>4. RowsOfFiles'
    <3> SUFFICES ASSUME NEW l \in Links, row[l].image # {}, file[l] # NoFile, ~ Recording(l)'
                 PROVE  /\ l \notin unrecorded' => file[l].image = row[l].image
                        /\ l \notin unrecorded' \/ l \notin raced => file[l].url = row[l].url
      BY <1>1 DEF RowsOfFiles
    <3>1. CASE l = Now(c).id
      BY <1>1, <1>3, <3>1, UnrecordedFile DEF Recording
    <3>2. CASE l # Now(c).id
      <4>1. ~ Recording(l)
        BY <1>1, <2>1, <3>2 DEF Recording
      <4>2. QED
        BY <1>1, <1>3, <3>2, <4>1 DEF Kept, RowsOfFiles
    <3>3. QED
      BY <3>1, <3>2
  <2>5. QED
    BY <2>2, <2>3, <2>4 DEF Kept
<1>4. QED
  BY <1>2, <1>3

LEMMA AroundKept ==
  ASSUME Types, Kept,
         \/ DeleteAuthor
         \/ \E l \in Links : Evict(l) \/ Expire(l)
         \/ \E u \in Urls, image \in {{}} \cup {{i} : i \in Images} : Publish(u, image)
         \/ Crash
  PROVE  Kept'
<1>0. /\ link \in [Links -> LinkRows] /\ row \in [Links -> CacheRows] /\ file \in [Links -> Files]
      /\ NoRow.image = {}
  BY NoneTypes DEF Types, FilesOK
<1>1. CASE DeleteAuthor
  <2>1. /\ UNCHANGED <<file, job, raced>> /\ excused \subseteq excused'
        /\ \A l \in Links : /\ link'[l] = NoLink /\ row'[l] = NoRow
                            /\ link[l] # NoLink => l \in excused'
    BY <1>1 DEF DeleteAuthor
  <2>2. \A d \in Calls : Now(d)' = Now(d) /\ job'[d] = job[d]
    BY <2>1 DEF Now
  <2>3. \A d \in Calls : job[d].pc \in {"write", "record", "clear"} => Now(d).id \in Links
    BY AtLink
  <2>4. Rechecked'
    <3> SUFFICES ASSUME NEW d \in Calls, job[d].pc \in {"write", "record"}
                 PROVE  link'[Now(d).id] = NoLink /\ Now(d).id \in excused'
      BY <2>2 DEF Rechecked
    <3>1. IsCurrent(Now(d)) => link[Now(d).id] # NoLink
      BY AtLink, CurrentIsThere DEF Types
    <3>2. QED
      BY <2>1, <2>3, <3>1 DEF Kept, Rechecked
  <2>5. Written'
    BY <2>1, <2>2 DEF Kept, Written
  <2>6. RowsOfLinks' /\ RowsOfFiles'
    BY <1>0, <2>1 DEF RowsOfLinks, RowsOfFiles
  <2>7. Cleared'
    BY <2>1, <2>2, <2>3 DEF Kept, Cleared
  <2>8. OrphansKnown'
    BY <2>1, <2>2 DEF Kept, OrphansKnown
  <2>9. QED
    BY <2>4, <2>5, <2>6, <2>7, <2>8 DEF Kept
<1>2. ASSUME UNCHANGED <<link, job, excused, raced, unrecorded>>,
             \A l \in Links : file'[l] = file[l] \/ file'[l] = NoFile,
             \A l \in Links : \/ row'[l] = row[l]
                              \/ row[l] # NoRow /\ row'[l].url = row[l].url /\ row'[l].image = row[l].image
      PROVE  Kept'
  <2>1. \A d \in Calls : Now(d)' = Now(d) /\ job'[d] = job[d]
    BY <1>2 DEF Now
  <2>2. Rechecked' /\ Cleared'
    BY <1>2, <2>1 DEF Kept, Rechecked, Cleared, IsCurrent
  <2>3. Written'
    <3>1. \A d \in Calls : job[d].pc = "record" => Now(d).id \in Links
      BY AtLink
    <3>2. QED
      BY <1>2, <2>1, <3>1 DEF Kept, Written
  <2>4. RowsOfLinks'
    BY <1>2 DEF Kept, RowsOfLinks
  <2>5. \A l \in Links : Recording(l)' <=> Recording(l)
    BY <2>1 DEF Recording
  <2>6. RowsOfFiles'
    <3> SUFFICES ASSUME NEW l \in Links, row'[l].image # {}, file'[l] # NoFile, ~ Recording(l)
                 PROVE  /\ l \notin unrecorded => file'[l].image = row'[l].image
                        /\ l \notin unrecorded \/ l \notin raced => file'[l].url = row'[l].url
      BY <1>2, <2>5 DEF RowsOfFiles
    <3>1. file'[l] = file[l] /\ row'[l].url = row[l].url /\ row'[l].image = row[l].image
      BY <1>2
    <3>2. QED
      BY <2>1, <3>1 DEF Kept, RowsOfFiles
  <2>7. OrphansKnown'
    BY <1>2, <2>1 DEF Kept, OrphansKnown
  <2>8. QED
    BY <2>2, <2>3, <2>4, <2>6, <2>7 DEF Kept
<1>3. ASSUME NEW l \in Links, Evict(l) PROVE Kept'
  <2>1. /\ UNCHANGED <<link, row, job, excused, raced, unrecorded>>
        /\ \A k \in Links : file'[k] = file[k] \/ file'[k] = NoFile
    BY <1>0, <1>3 DEF Evict
  <2>2. QED
    BY <1>2, <2>1
<1>4. ASSUME NEW l \in Links, Expire(l) PROVE Kept'
  <2>1. UNCHANGED <<link, file, job, excused, raced, unrecorded>> /\ row[l] # NoRow
    BY <1>4 DEF Expire
  <2> DEFINE r == [row[l] EXCEPT !.due = TRUE]
  <2>2. r.url = row[l].url /\ r.image = row[l].image
    BY <1>0 DEF CacheRows
  <2>3. row' = [row EXCEPT ![l] = r]
    BY <1>4 DEF Expire
  <2> HIDE DEF r
  <2>4. \A k \in Links : \/ row'[k] = row[k]
                         \/ row[k] # NoRow /\ row'[k].url = row[k].url /\ row'[k].image = row[k].image
    BY <1>0, <2>1, <2>2, <2>3
  <2>5. QED
    BY <1>2, <2>1, <2>4
<1>5. ASSUME NEW u \in Urls, NEW image, Publish(u, image) PROVE Kept'
  <2>1. UNCHANGED <<link, row, file, job, excused, raced, unrecorded>>
    BY <1>5 DEF Publish
  <2>2. QED
    BY <1>2, <2>1
<1>6. CASE Crash
  <2>1. /\ UNCHANGED <<link, row, file, raced>>
        /\ job' = [c \in Calls |-> Idle]
        /\ excused' = excused \cup {Now(c).id : c \in {d \in Calls : job[d].pc = "clear"}}
        /\ unrecorded' = unrecorded \cup {Now(c).id : c \in {d \in Calls : job[d].pc = "record"}}
    BY <1>6 DEF Crash, Now
  <2>2. \A d \in Calls : job'[d].pc = "idle"
    BY <2>1, IdleFits
  <2>3. /\ excused \subseteq excused' /\ \A d \in Calls : job[d].pc = "clear" => Now(d).id \in excused'
        /\ unrecorded \subseteq unrecorded' /\ \A l \in Links : Recording(l) => l \in unrecorded'
    BY <2>1 DEF Recording
  <2>4. Rechecked' /\ Written' /\ Cleared'
    BY <2>2 DEF Rechecked, Written, Cleared
  <2>5. RowsOfLinks'
    BY <2>1 DEF Kept, RowsOfLinks
  <2>6. RowsOfFiles'
    <3> SUFFICES ASSUME NEW l \in Links, row[l].image # {}, file[l] # NoFile
                 PROVE  /\ l \notin unrecorded' => file[l].image = row[l].image
                        /\ l \notin unrecorded' \/ l \notin raced => file[l].url = row[l].url
      BY <2>1 DEF RowsOfFiles
    <3>1. CASE Recording(l)
      BY <2>3, <3>1, UnrecordedFile
    <3>2. CASE ~ Recording(l)
      BY <2>3, <3>2 DEF Kept, RowsOfFiles
    <3>3. QED
      BY <3>1, <3>2
  <2>7. OrphansKnown'
    BY <2>1, <2>3 DEF Kept, OrphansKnown
  <2>8. QED
    BY <2>4, <2>5, <2>6, <2>7 DEF Kept
<1>7. QED
  BY <1>1, <1>3, <1>4, <1>5, <1>6

LEMMA InitKept == Init => Kept
<1> SUFFICES ASSUME Init PROVE Kept
  OBVIOUS
<1>1. \A c \in Calls : job[c].pc = "idle"
  BY IdleFits DEF Init
<1>2. Rechecked /\ Written /\ Cleared
  BY <1>1 DEF Rechecked, Written, Cleared
<1>3. RowsOfLinks /\ RowsOfFiles /\ OrphansKnown
  BY DEF Init, RowsOfLinks, RowsOfFiles, OrphansKnown
<1>4. QED
  BY <1>2, <1>3 DEF Kept

LEMMA NextKept == Types /\ Kept /\ [Next]_vars => Kept'
<1> SUFFICES ASSUME Types, Kept, [Next]_vars PROVE Kept'
  OBVIOUS
<1>1. CASE UNCHANGED vars
  <2>1. \A d \in Calls : Now(d)' = Now(d) /\ job'[d] = job[d]
    BY <1>1 DEF vars, Now
  <2>2. UNCHANGED <<link, row, file, excused, raced, unrecorded>>
    BY <1>1 DEF vars
  <2>3. QED
    BY <2>1, <2>2 DEF Kept, Rechecked, Written, RowsOfLinks, RowsOfFiles, Cleared, OrphansKnown,
                      Recording, IsCurrent
<1>2. CASE Next
  BY <1>2, NextGroups, MovesKept, CompareKept, WriteKept, RecordKept, AddLinkKept, DeleteLinkKept,
     UpdateKept, ClearKept, FailKept, AroundKept
<1>3. QED
  BY <1>1, <1>2

LEMMA SpecKept == Spec => [](Types /\ Kept)
  BY InitTypes, InitKept, NextTypes, NextKept, PTL DEF Spec

\* Whatever changes of the link, refreshes, deaths, failures and deletions
\* interleave, a link is served an image of the profile it names, and a row
\* stamped with its version is of its url, but for the race of two changes.
THEOREM SpecServedImageIsOfLink == Spec => []ServedImageIsOfLink
<1>1. Types /\ Kept => ServedImageIsOfLink
  <2> SUFFICES ASSUME Types, Kept, NEW l \in Links
               PROVE  /\ Served(l) => file[l].url = link[l].url \/ (l \in raced /\ l \in unrecorded)
                      /\ Stamped(l) /\ l \notin raced => row[l].url = link[l].url
    BY DEF ServedImageIsOfLink
  <2>1. ASSUME Served(l), ~ (l \in raced /\ l \in unrecorded) PROVE file[l].url = link[l].url
    <3>1. row[l] # NoRow /\ row[l].url = link[l].url /\ row[l].image # {} /\ file[l] # NoFile
      BY <2>1 DEF Served, Stamped
    <3>2. CASE Recording(l)
      <4>1. PICK d \in Calls : job[d].pc = "record" /\ Now(d).id = l
        BY <3>2 DEF Recording
      <4>2. link[l] # NoLink
        BY <3>1 DEF Types, LinksOK
      <4>3. QED
        BY <3>1, <4>1, <4>2 DEF Kept, Rechecked, Written, IsCurrent
    <3>3. CASE ~ Recording(l)
      BY <2>1, <3>1, <3>3 DEF Kept, RowsOfFiles
    <3>4. QED
      BY <3>2, <3>3
  <2>2. Stamped(l) /\ l \notin raced => row[l].url = link[l].url
    BY DEF Stamped, Kept, RowsOfLinks
  <2>3. QED
    BY <2>1, <2>2
<1>2. QED
  BY <1>1, SpecKept, PTL

\* Outside a refresh that is between the two, a served row names the image that
\* is in the file, unless the refresh that wrote the file last ended before its row:
\* the process died, or the upsert failed.
THEOREM SpecRowNamesItsFile == Spec => []RowNamesItsFile
<1>1. Types /\ Kept => RowNamesItsFile
  <2> SUFFICES ASSUME Types, Kept, NEW l \in Links, Served(l), l \notin unrecorded,
                      \A c \in lock : job[c].pc # "record"
               PROVE  file[l].image = row[l].image
    BY DEF RowNamesItsFile
  <2>1. ~ Recording(l)
    BY DEF Recording, Types, LockOK, AtWork
  <2>2. QED
    BY <2>1 DEF Served, Kept, RowsOfFiles
<1>2. QED
  BY <1>1, SpecKept, PTL

\* A file without a link is being removed, or its link went with the author, or
\* a death or a failed deletion left it.
THEOREM SpecOrphansAreExplained == Spec => []OrphansAreExplained
<1>1. Types /\ Kept => OrphansAreExplained
  BY DEF Types, LockOK, AtWork, Kept, OrphansKnown, Now, OrphansAreExplained
<1>2. QED
  BY <1>1, SpecKept, PTL
=============================================================================
