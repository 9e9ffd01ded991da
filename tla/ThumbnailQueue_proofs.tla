------------------------ MODULE ThumbnailQueue_proofs ------------------------
(***************************************************************************)
(* Proofs about ThumbnailQueue for any comics, workers, calls and bounds:  *)
(* the types, that lanes, priorities, in_flight and the workers agree, that*)
(* the progress accounts for every comic it counted, and that covers show  *)
(* what they say.                                                          *)
(*                                                                         *)
(* What retain leaves of a list is an induction over its length, by the    *)
(* least length that fails (the same lemmas serve ReaderSessions_proofs).  *)
(***************************************************************************)
EXTENDS ThumbnailQueue, FiniteSetTheorems, WellFoundedInduction, TLAPS

-----------------------------------------------------------------------------
(* Lists *)

Listed(s) == {s[i] : i \in 1 .. Len(s)}
Distinct(s) == \A i, j \in 1 .. Len(s) : s[i] = s[j] => i = j

LEMMA LeastNat ==
  ASSUME NEW T, T \subseteq Nat, T # {}
  PROVE  \E n \in T : \A m \in T : n <= m
<1>1. ASSUME NEW R, \A m, n \in Nat : m < n => <<m, n>> \in R,
             \E n \in T : \A m \in T : <<m, n>> \notin R
      PROVE  \E n \in T : \A m \in T : n <= m
  <2>1. PICK n \in T : \A m \in T : <<m, n>> \notin R
    BY <1>1
  <2>2. ASSUME NEW m \in T PROVE n <= m
    <3>1. m \in Nat /\ n \in Nat
      OBVIOUS
    <3>2. <<m, n>> \notin R
      BY <2>1
    <3>3. ~ (m < n)
      BY <1>1, <3>1, <3>2
    <3>4. QED
      BY <3>1, <3>3
  <2>3. QED
    BY <2>2
<1>2. \A m, n \in Nat : m < n => <<m, n>> \in OpToRel(<, Nat)
  BY Zenon DEF OpToRel
<1>3. \E n \in T : \A m \in T : <<m, n>> \notin OpToRel(<, Nat)
  BY NatLessThanWellFounded, WFMin
<1>4. QED
  BY <1>1, <1>2, <1>3, Zenon

\* f is the recursive function of Kept, as far as n.
Keeps(f, s, C, n) ==
  /\ f = [i \in 0 .. n |-> f[i]]
  /\ f[0] = <<>>
  /\ \A i \in 1 .. n : f[i] = IF s[i] \in C THEN f[i - 1] ELSE Append(f[i - 1], s[i])

LEMMA KeepsExists ==
  ASSUME NEW s, Len(s) \in Nat, NEW C
  PROVE  \E f : Keeps(f, s, C, Len(s))
<1> DEFINE T == {n \in 0 .. Len(s) : ~ \E f : Keeps(f, s, C, n)}
<1> SUFFICES ASSUME T # {} PROVE FALSE
  OBVIOUS
<1>1. PICK n \in T : \A m \in T : n <= m
  <2>1. T \subseteq Nat
    OBVIOUS
  <2> HIDE DEF T
  <2>2. QED
    BY <2>1, LeastNat
<1>2. n # 0
  <2>1. Keeps([i \in 0 .. 0 |-> <<>>], s, C, 0)
    BY DEF Keeps
  <2>2. QED
    BY <2>1
<1>3. n - 1 \in 0 .. Len(s) /\ n - 1 \notin T
  BY <1>1, <1>2
<1>4. PICK f : Keeps(f, s, C, n - 1)
  BY <1>3
<1> DEFINE g == [i \in 0 .. n |-> IF i < n THEN f[i]
                                 ELSE IF s[i] \in C THEN f[i - 1] ELSE Append(f[i - 1], s[i])]
<1>5. Keeps(g, s, C, n)
  <2>0. n \in Nat /\ n > 0
    BY <1>2, <1>3
  <2>1. \A i \in 0 .. n : i # n => g[i] = f[i]
    BY <2>0
  <2>2. g[0] = <<>>
    BY <1>4, <2>0, <2>1 DEF Keeps
  <2>3. ASSUME NEW i \in 1 .. n
        PROVE  g[i] = IF s[i] \in C THEN g[i - 1] ELSE Append(g[i - 1], s[i])
    <3>1. g[i - 1] = f[i - 1]
      BY <2>0, <2>1
    <3>2. CASE i = n
      BY <3>1, <3>2, <2>0
    <3>3. CASE i # n
      <4>1. i \in 1 .. n - 1
        BY <3>3, <2>0
      <4>2. f[i] = IF s[i] \in C THEN f[i - 1] ELSE Append(f[i - 1], s[i])
        BY <4>1, <1>4 DEF Keeps
      <4>3. g[i] = f[i]
        BY <3>3, <2>0, <2>1
      <4> HIDE DEF g
      <4>4. QED
        BY <3>1, <4>2, <4>3
    <3>4. QED
      BY <3>2, <3>3
  <2>4. g = [i \in 0 .. n |-> g[i]]
    OBVIOUS
  <2> HIDE DEF g
  <2>5. QED
    BY <2>2, <2>3, <2>4 DEF Keeps
<1>6. QED
  BY <1>5

LEMMA KeptKeeps ==
  ASSUME NEW s, Len(s) \in Nat, NEW C
  PROVE  \E f : Keeps(f, s, C, Len(s)) /\ Kept(s, C) = f[Len(s)]
<1> DEFINE Body(f) == [n \in 0 .. Len(s) |->
                         IF n = 0 THEN <<>>
                         ELSE IF s[n] \in C THEN f[n - 1] ELSE Append(f[n - 1], s[n])]
           F == CHOOSE f : f = Body(f)
<1>1. PICK g : Keeps(g, s, C, Len(s))
  BY KeepsExists
<1>2. g = Body(g)
  <2>1. \A i \in 0 .. Len(s) : i # 0 => i \in 1 .. Len(s)
    OBVIOUS
  <2>2. \A i \in 0 .. Len(s) : g[i] = Body(g)[i]
    BY <1>1, <2>1 DEF Keeps
  <2>3. g = [i \in 0 .. Len(s) |-> g[i]]
    BY <1>1 DEF Keeps
  <2>4. Body(g) = [i \in 0 .. Len(s) |-> Body(g)[i]]
    OBVIOUS
  <2> HIDE DEF Body
  <2>5. QED
    BY <2>2, <2>3, <2>4
<1>3. F = Body(F)
  BY <1>2
<1>4. Kept(s, C) = F[Len(s)]
  BY DEF Kept
<1> HIDE DEF F
<1>5. Keeps(F, s, C, Len(s))
  <2>1. F = [i \in 0 .. Len(s) |-> F[i]]
    BY <1>3
  <2>2. F[0] = <<>>
    BY <1>3
  <2>3. ASSUME NEW i \in 1 .. Len(s)
        PROVE  F[i] = IF s[i] \in C THEN F[i - 1] ELSE Append(F[i - 1], s[i])
    <3>1. i \in 0 .. Len(s) /\ i # 0
      OBVIOUS
    <3>2. F[i] = Body(F)[i]
      BY <1>3
    <3>3. QED
      BY <3>1, <3>2
  <2>4. QED
    BY <2>1, <2>2, <2>3 DEF Keeps
<1>6. QED
  BY <1>4, <1>5

\* What is kept of the first n entries is what is listed there and not in C, in
\* entries that are different when those of the list are.
KeepsWell(f, s, C, S, n) ==
  /\ f[n] \in Seq(S)
  /\ Listed(f[n]) = {s[i] : i \in 1 .. n} \ C
  /\ Distinct(s) => Distinct(f[n])

LEMMA AppendFacts ==
  ASSUME NEW S, NEW s \in Seq(S), NEW e \in S
  PROVE  /\ Append(s, e) \in Seq(S)
         /\ Listed(Append(s, e)) = Listed(s) \cup {e}
         /\ Distinct(s) /\ e \notin Listed(s) => Distinct(Append(s, e))
<1>1. /\ Append(s, e) \in Seq(S)
      /\ Len(Append(s, e)) = Len(s) + 1
      /\ \A i \in 1 .. Len(s) : Append(s, e)[i] = s[i]
      /\ Append(s, e)[Len(s) + 1] = e
      /\ Len(s) \in Nat
  OBVIOUS
<1> DEFINE t == Append(s, e)
<1> HIDE DEF t
<1>2. \A i \in 1 .. Len(s) + 1 : i \in 1 .. Len(s) \/ i = Len(s) + 1
  BY <1>1
<1>3. Listed(t) = Listed(s) \cup {e}
  <2>1. \A x \in Listed(t) : x \in Listed(s) \cup {e}
    BY <1>1, <1>2 DEF Listed, t
  <2>2. ASSUME NEW x \in Listed(s) PROVE x \in Listed(t)
    <3>1. PICK i \in 1 .. Len(s) : x = s[i]
      BY DEF Listed
    <3>2. i \in 1 .. Len(t) /\ t[i] = x
      BY <1>1, <3>1 DEF t
    <3>3. QED
      BY <3>2 DEF Listed
  <2>3. e \in Listed(t)
    <3>1. Len(s) + 1 \in 1 .. Len(t) /\ t[Len(s) + 1] = e
      BY <1>1 DEF t
    <3>2. QED
      BY <3>1 DEF Listed
  <2>4. QED
    BY <2>1, <2>2, <2>3
<1>4. ASSUME Distinct(s), e \notin Listed(s) PROVE Distinct(t)
  <2>1. \A i \in 1 .. Len(s) : s[i] # e
    BY <1>4 DEF Listed
  <2>2. SUFFICES ASSUME NEW i \in 1 .. Len(t), NEW j \in 1 .. Len(t), t[i] = t[j] PROVE i = j
    BY DEF Distinct
  <2>3. CASE i \in 1 .. Len(s) /\ j \in 1 .. Len(s)
    BY <1>1, <1>4, <2>2, <2>3 DEF Distinct, t
  <2>4. QED
    BY <1>1, <1>2, <2>1, <2>2, <2>3 DEF t
<1>5. QED
  BY <1>1, <1>3, <1>4 DEF t

LEMMA KeptFacts ==
  ASSUME NEW S, NEW s \in Seq(S), NEW C
  PROVE  /\ Kept(s, C) \in Seq(S)
         /\ Listed(Kept(s, C)) = Listed(s) \ C
         /\ Distinct(s) => Distinct(Kept(s, C))
<1>1. Len(s) \in Nat /\ \A i \in 1 .. Len(s) : s[i] \in S
  OBVIOUS
<1>2. PICK f : Keeps(f, s, C, Len(s)) /\ Kept(s, C) = f[Len(s)]
  BY <1>1, KeptKeeps
<1> DEFINE T == {n \in 0 .. Len(s) : ~ KeepsWell(f, s, C, S, n)}
<1>3. T = {}
  <2> SUFFICES ASSUME T # {} PROVE FALSE
    OBVIOUS
  <2>1. PICK n \in T : \A m \in T : n <= m
    <3>1. T \subseteq Nat
      BY <1>1
    <3> HIDE DEF T
    <3>2. QED
      BY <3>1, LeastNat
  <2>2. n # 0
    <3>1. Listed(<<>>) = {} /\ Distinct(<<>>) /\ <<>> \in Seq(S)
      BY DEF Listed, Distinct
    <3>2. f[0] = <<>>
      BY <1>2 DEF Keeps
    <3>3. {s[i] : i \in 1 .. 0} = {}
      OBVIOUS
    <3>4. KeepsWell(f, s, C, S, 0)
      BY <3>1, <3>2, <3>3 DEF KeepsWell
    <3>5. QED
      BY <3>4
  <2>3. n \in 1 .. Len(s) /\ n - 1 \in 0 .. Len(s) /\ n - 1 \notin T
    BY <1>1, <2>1, <2>2
  <2>4. KeepsWell(f, s, C, S, n - 1)
    BY <2>3
  <2>5. f[n] = IF s[n] \in C THEN f[n - 1] ELSE Append(f[n - 1], s[n])
    BY <1>2, <2>3 DEF Keeps
  <2>6. {s[i] : i \in 1 .. n} = {s[i] : i \in 1 .. n - 1} \cup {s[n]}
    <3>1. \A i \in 1 .. n : i \in 1 .. n - 1 \/ i = n
      BY <2>3
    <3>2. \A i \in 1 .. n - 1 : i \in 1 .. n
      BY <2>3
    <3>3. n \in 1 .. n
      BY <2>3
    <3>4. QED
      BY <3>1, <3>2, <3>3
  <2>7. ~ KeepsWell(f, s, C, S, n)
    OBVIOUS
  <2> HIDE DEF T
  <2>8. CASE s[n] \in C
    BY <2>4, <2>5, <2>6, <2>7, <2>8 DEF KeepsWell
  <2>9. CASE s[n] \notin C
    <3>1. s[n] \in S
      BY <1>1, <2>3
    <3>2. f[n] = Append(f[n - 1], s[n]) /\ f[n - 1] \in Seq(S)
      BY <2>4, <2>5, <2>9 DEF KeepsWell
    <3>3. /\ f[n] \in Seq(S)
          /\ Listed(f[n]) = Listed(f[n - 1]) \cup {s[n]}
          /\ Distinct(f[n - 1]) /\ s[n] \notin Listed(f[n - 1]) => Distinct(f[n])
      BY <3>1, <3>2, AppendFacts
    <3>4. ASSUME Distinct(s) PROVE s[n] \notin Listed(f[n - 1])
      <4>1. \A i \in 1 .. n - 1 : i \in 1 .. Len(s) /\ i # n
        BY <1>1, <2>3
      <4>2. \A i \in 1 .. n - 1 : s[i] # s[n]
        BY <2>3, <3>4, <4>1 DEF Distinct
      <4>3. s[n] \notin {s[i] : i \in 1 .. n - 1}
        BY <4>2
      <4>4. QED
        BY <2>4, <4>3 DEF KeepsWell
    <3>5. Listed(f[n]) = {s[i] : i \in 1 .. n} \ C
      BY <2>4, <2>6, <2>9, <3>3 DEF KeepsWell
    <3>6. QED
      BY <2>4, <2>7, <3>3, <3>4, <3>5 DEF KeepsWell
  <2>10. QED
    BY <2>8, <2>9
<1>4. KeepsWell(f, s, C, S, Len(s))
  BY <1>1, <1>3
<1>5. QED
  BY <1>2, <1>4 DEF KeepsWell, Listed

-----------------------------------------------------------------------------
(* Types *)

\* A worker that is past its queue, and a call that is about to touch it, have
\* a comic.
WorkersHold ==
    \A w \in Workers :
        worker[w].at \in {"check", "stat", "render", "store", "finish", "answer"} => worker[w].on \in Comics
AskersHold ==
    \A k \in Askers :
        asker[k].at \in {"enqueue", "register"} \/ (asker[k].at = "nudge" /\ asker[k].prio = Critical)
        => asker[k].on \in Comics

LEMMA PriorityType ==
  /\ Critical = 0 /\ High = 1 /\ Low = 2
  /\ Priority = {0, 1, 2}
  /\ NoPriority \notin Priority
  BY QueueAssumption DEF Critical, High, Low, Priority

LEMMA IdleTypes ==
  /\ IdleWorker \in WorkerState /\ IdleWorker.at = "pop" /\ IdleWorker.on = NoComic
  /\ IdleAsker \in AskerState /\ IdleAsker.at = "idle" /\ IdleAsker.on = NoComic /\ IdleAsker.prio = Low
  BY PriorityType DEF IdleWorker, WorkerState, WorkerStep, IdleAsker, AskerState, AskerStep

\* A worker that only goes to another step.
LEMMA GoFacts ==
  ASSUME worker \in [Workers -> WorkerState], NEW w \in Workers, NEW step \in WorkerStep, Go(w, step)
  PROVE  /\ worker' \in [Workers -> WorkerState]
         /\ worker'[w].at = step /\ worker'[w].on = worker[w].on
         /\ worker'[w].stat = worker[w].stat /\ worker'[w].shows = worker[w].shows
         /\ \A u \in Workers \ {w} : worker'[u] = worker[u]
<1> DEFINE s == [worker[w] EXCEPT !.at = step]
<1>1. worker' = [worker EXCEPT ![w] = s]
  BY DEF Go
<1>2. /\ s \in WorkerState /\ s.at = step /\ s.on = worker[w].on
      /\ s.stat = worker[w].stat /\ s.shows = worker[w].shows
  BY DEF WorkerState
<1> HIDE DEF s
<1>3. QED
  BY <1>1, <1>2

LEMMA OutcomeFacts ==
  ASSUME worker \in [Workers -> WorkerState], NEW w \in Workers, NEW b \in BOOLEAN, Outcome(w, b)
  PROVE  /\ worker' \in [Workers -> WorkerState]
         /\ worker'[w].at = "finish" /\ worker'[w].on = worker[w].on
         /\ \A u \in Workers \ {w} : worker'[u] = worker[u]
<1> DEFINE r == [worker[w] EXCEPT !.at = "finish"]
           s == [r EXCEPT !.ok = b]
<1>1. worker' = [worker EXCEPT ![w] = s]
  BY DEF Outcome
<1>2. r \in WorkerState /\ r.at = "finish" /\ r.on = worker[w].on
  BY DEF WorkerState, WorkerStep
<1> HIDE DEF r
<1>3. s \in WorkerState /\ s.at = "finish" /\ s.on = worker[w].on
  BY <1>2 DEF WorkerState
<1> HIDE DEF s
<1>4. QED
  BY <1>1, <1>3

-----------------------------------------------------------------------------
(* What a step does to the workers *)

\* One worker goes on with the comic it has.
Works(w) ==
    /\ worker' \in [Workers -> WorkerState]
    /\ \A u \in Workers \ {w} : worker'[u] = worker[u]
    /\ worker[w].at \in {"check", "stat", "render", "store"}
    /\ worker'[w].at \in {"stat", "render", "store", "finish"}
    /\ worker'[w].on = worker[w].on

\* Workers without a comic in progress change, and get none.
Quiet ==
    /\ worker' \in [Workers -> WorkerState]
    /\ \A u \in Workers :
         \/ worker'[u] = worker[u]
         \/ /\ worker[u].at \in {"pop", "miss", "parked", "answer", "chain", "nudge"}
            /\ worker'[u].at \in {"pop", "miss", "parked", "chain", "nudge"}

LEMMA CheckFacts ==
  ASSUME worker \in [Workers -> WorkerState], NEW w \in Workers, Check(w)
  PROVE  /\ Works(w) /\ worker'[w].at \in {"stat", "finish"}
         /\ worker'[w].at = "stat" => worker[w].on \in known /\ NeedsGeneration(worker[w].on)
<1>1. worker[w].at = "check"
  BY DEF Check
<1>2. \/ Outcome(w, FALSE) \/ Outcome(w, TRUE)
      \/ Go(w, "stat") /\ worker[w].on \in known /\ NeedsGeneration(worker[w].on)
  BY DEF Check
<1>3. CASE Outcome(w, FALSE) \/ Outcome(w, TRUE)
  BY <1>1, <1>3, OutcomeFacts DEF Works
<1>4. CASE Go(w, "stat") /\ worker[w].on \in known /\ NeedsGeneration(worker[w].on)
  BY <1>1, <1>4, GoFacts DEF Works, WorkerStep
<1>5. QED
  BY <1>2, <1>3, <1>4

LEMMA StatFacts ==
  ASSUME worker \in [Workers -> WorkerState], version \in [Comics -> Nat], WorkersHold,
         NEW w \in Workers, Stat(w)
  PROVE  /\ Works(w) /\ worker'[w].at \in {"render", "finish"}
         /\ worker'[w].at = "render" => worker'[w].stat = version[worker[w].on]
<1>1. worker[w].at = "stat" /\ worker[w].on \in Comics
  BY DEF Stat, WorkersHold
<1>2. CASE Outcome(w, FALSE)
  BY <1>1, <1>2, OutcomeFacts DEF Works
<1>3. CASE worker' = [worker EXCEPT ![w].at = "render", ![w].stat = version[worker[w].on]]
  <2> DEFINE r == [worker[w] EXCEPT !.at = "render"]
             s == [r EXCEPT !.stat = version[worker[w].on]]
  <2>1. worker' = [worker EXCEPT ![w] = s]
    BY <1>3
  <2>2. r \in WorkerState /\ r.at = "render" /\ r.on = worker[w].on
    BY DEF WorkerState, WorkerStep
  <2> HIDE DEF r
  <2>3. /\ s \in WorkerState /\ s.at = "render" /\ s.on = worker[w].on
        /\ s.stat = version[worker[w].on]
    BY <1>1, <2>2 DEF WorkerState
  <2> HIDE DEF s
  <2>4. QED
    BY <1>1, <2>1, <2>3 DEF Works
<1>4. QED
  BY <1>2, <1>3 DEF Stat

LEMMA RenderFacts ==
  ASSUME worker \in [Workers -> WorkerState], version \in [Comics -> Nat], WorkersHold,
         NEW w \in Workers, Render(w)
  PROVE  /\ Works(w) /\ worker'[w].at \in {"store", "finish"} /\ worker[w].at = "render"
         /\ worker'[w].at = "store" => /\ worker'[w].shows = version[worker[w].on]
                                       /\ worker'[w].stat = worker[w].stat
<1>1. worker[w].at = "render" /\ worker[w].on \in Comics
  BY DEF Render, WorkersHold
<1>2. CASE Outcome(w, FALSE)
  BY <1>1, <1>2, OutcomeFacts DEF Works
<1>3. CASE worker' = [worker EXCEPT ![w].at = "store", ![w].shows = version[worker[w].on]]
  <2> DEFINE r == [worker[w] EXCEPT !.at = "store"]
             s == [r EXCEPT !.shows = version[worker[w].on]]
  <2>1. worker' = [worker EXCEPT ![w] = s]
    BY <1>3
  <2>2. r \in WorkerState /\ r.at = "store" /\ r.on = worker[w].on /\ r.stat = worker[w].stat
    BY DEF WorkerState, WorkerStep
  <2> HIDE DEF r
  <2>3. /\ s \in WorkerState /\ s.at = "store" /\ s.on = worker[w].on
        /\ s.shows = version[worker[w].on] /\ s.stat = worker[w].stat
    BY <1>1, <2>2 DEF WorkerState
  <2> HIDE DEF s
  <2>4. QED
    BY <1>1, <2>1, <2>3 DEF Works
<1>4. QED
  BY <1>2, <1>3 DEF Render

LEMMA StoreFacts ==
  ASSUME worker \in [Workers -> WorkerState], NEW w \in Workers, Store(w) \/ GenerateFails(w)
  PROVE  Works(w) /\ worker'[w].at = "finish"
<1>1. worker[w].at \in {"check", "stat", "render", "store"}
  BY DEF Store, GenerateFails
<1>2. Outcome(w, FALSE) \/ Outcome(w, TRUE)
  BY DEF Store, GenerateFails
<1>3. QED
  BY <1>1, <1>2, OutcomeFacts DEF Works

LEMMA ChainFacts ==
  ASSUME worker \in [Workers -> WorkerState], NEW w \in Workers,
         Park(w) \/ Answer(w) \/ Chain(w)
  PROVE  Quiet
<1>1. CASE Park(w)
  <2>1. worker[w].at = "miss" /\ (Go(w, "pop") \/ Go(w, "parked"))
    BY <1>1 DEF Park
  <2>2. QED
    BY <2>1, GoFacts DEF Quiet, WorkerStep
<1>2. CASE Answer(w)
  <2>1. worker[w].at = "answer" /\ Go(w, "chain")
    BY <1>2 DEF Answer
  <2>2. QED
    BY <2>1, GoFacts DEF Quiet, WorkerStep
<1>3. CASE Chain(w)
  <2>1. PICK s : /\ worker' = [worker EXCEPT ![w] = s] /\ worker[w].at = "chain"
                 /\ s = [IdleWorker EXCEPT !.at = "nudge"] \/ s = IdleWorker
    BY <1>3 DEF Chain
  <2>2. s \in WorkerState /\ s.at \in {"nudge", "pop"}
    BY <2>1, IdleTypes DEF WorkerState, WorkerStep
  <2>3. QED
    BY <2>1, <2>2 DEF Quiet
<1>4. QED
  BY <1>1, <1>2, <1>3

LEMMA NudgeFacts ==
  ASSUME worker \in [Workers -> WorkerState], NEW w \in Workers, Nudge(w)
  PROVE  Quiet
<1>1. worker[w].at = "nudge"
  BY DEF Nudge
<1>2. CASE worker' = [worker EXCEPT ![w] = IdleWorker]
  BY <1>1, <1>2, IdleTypes DEF Quiet
<1>3. ASSUME NEW u \in Workers, worker[u].at = "parked",
             worker' = [worker EXCEPT ![w] = IdleWorker, ![u] = IdleWorker]
      PROVE  Quiet
  BY <1>1, <1>3, IdleTypes DEF Quiet
<1>4. QED
  BY <1>2, <1>3 DEF Nudge

LEMMA WakeFacts ==
  ASSUME worker \in [Workers -> WorkerState], WakeAll
  PROVE  Quiet
<1>1. \A w \in Workers : worker'[w] = IF worker[w].at = "parked" THEN IdleWorker ELSE worker[w]
  BY DEF WakeAll
<1>2. worker' \in [Workers -> WorkerState]
  BY IdleTypes DEF WakeAll
<1>3. QED
  BY <1>1, <1>2, IdleTypes DEF Quiet

\* The first of a lane that is not empty.
LEMMA PopFacts ==
  ASSUME worker \in [Workers -> WorkerState], lane \in [Priority -> Seq(Comics)],
         NEW w \in Workers, Pop(w)
  PROVE  \/ \E p \in Priority, c \in Comics :
              /\ lane[p] # <<>> /\ c = Head(lane[p])
              /\ lane' = [lane EXCEPT ![p] = Tail(lane[p])]
              /\ priorities' = [priorities EXCEPT ![c] = NoPriority]
              /\ inFlight' = inFlight \cup {c}
              /\ worker' \in [Workers -> WorkerState]
              /\ worker[w].at = "pop" /\ worker'[w].at = "check" /\ worker'[w].on = c
              /\ \A u \in Workers \ {w} : worker'[u] = worker[u]
         \/ Quiet /\ UNCHANGED <<lane, priorities, inFlight>>
<1> DEFINE Urgent(q) == lane[q] # <<>> /\ \A r \in Priority : lane[r] # <<>> => q <= r
           p == CHOOSE q \in Priority : Urgent(q)
           c == Head(lane[p])
<1>1. CASE HasPending
  <2>1. \E q \in Priority : Urgent(q)
    <3>1. PICK q \in Priority : lane[q] # <<>>
      BY <1>1 DEF HasPending
    <3>2. CASE lane[0] # <<>>
      BY <3>2, PriorityType
    <3>3. CASE lane[0] = <<>> /\ lane[1] # <<>>
      BY <3>3, PriorityType
    <3>4. CASE lane[0] = <<>> /\ lane[1] = <<>>
      BY <3>1, <3>4, PriorityType
    <3>5. QED
      BY <3>2, <3>3, <3>4
  <2>2. p \in Priority /\ lane[p] # <<>>
    BY <2>1
  <2>3. PICK q \in Priority : q = p
    BY <2>2
  <2>4. PICK d : d = Head(lane[q])
    OBVIOUS
  <2>5. d \in Comics
    BY <2>2, <2>3, <2>4
  <2>6. /\ worker[w].at = "pop"
        /\ lane' = [lane EXCEPT ![p] = Tail(@)]
        /\ priorities' = [priorities EXCEPT ![c] = NoPriority]
        /\ inFlight' = inFlight \cup {c}
        /\ worker' = [worker EXCEPT ![w] = [IdleWorker EXCEPT
                        !.at = "check", !.on = c, !.critical = (p = Critical)]]
    BY <1>1 DEF Pop
  <2>7. /\ lane[q] # <<>>
        /\ lane' = [lane EXCEPT ![q] = Tail(lane[q])]
        /\ priorities' = [priorities EXCEPT ![d] = NoPriority]
        /\ inFlight' = inFlight \cup {d}
        /\ worker' = [worker EXCEPT ![w] = [IdleWorker EXCEPT
                        !.at = "check", !.on = d, !.critical = (q = Critical)]]
    BY <2>2, <2>3, <2>4, <2>6
  <2>8. \E b \in BOOLEAN : worker' = [worker EXCEPT ![w] = [IdleWorker EXCEPT
                        !.at = "check", !.on = d, !.critical = b]]
    BY <2>7
  <2>9. PICK b \in BOOLEAN : worker' = [worker EXCEPT ![w] = [IdleWorker EXCEPT
                        !.at = "check", !.on = d, !.critical = b]]
    BY <2>8
  <2> DEFINE s == [IdleWorker EXCEPT !.at = "check", !.on = d, !.critical = b]
  <2>10. s \in WorkerState /\ s.at = "check" /\ s.on = d
    BY <2>5 DEF IdleWorker, WorkerState, WorkerStep
  <2>11. worker' = [worker EXCEPT ![w] = s]
    BY <2>9
  <2> HIDE DEF s
  <2>12. /\ worker' \in [Workers -> WorkerState]
         /\ worker'[w].at = "check" /\ worker'[w].on = d
         /\ \A u \in Workers \ {w} : worker'[u] = worker[u]
    BY <2>10, <2>11
  <2> HIDE DEF p, c
  <2>13. QED
    BY <2>4, <2>5, <2>6, <2>7, <2>12
<1>2. CASE ~ HasPending
  <2>1. worker[w].at = "pop" /\ Go(w, "miss") /\ UNCHANGED <<lane, priorities, inFlight>>
    BY <1>2 DEF Pop
  <2>2. QED
    BY <2>1, GoFacts DEF Quiet, WorkerStep
<1>3. QED
  BY <1>1, <1>2

-----------------------------------------------------------------------------
(* What a step does to the calls and to the lanes *)

CallsOK == asker \in [Askers -> AskerState] /\ AskersHold

\* One call goes on.
LEMMA CallFacts ==
  ASSUME CallsOK, NEW k \in Askers, NEW s \in AskerState, asker' = [asker EXCEPT ![k] = s],
         s.at \in {"enqueue", "register"} \/ (s.at = "nudge" /\ s.prio = Critical) => s.on \in Comics
  PROVE  CallsOK'
<1>1. asker' \in [Askers -> AskerState]
  BY DEF CallsOK
<1>2. asker'[k] = s /\ \A l \in Askers \ {k} : asker'[l] = asker[l]
  BY DEF CallsOK
<1>3. QED
  BY <1>1, <1>2 DEF CallsOK, AskersHold

LEMMA CallGoes ==
  ASSUME CallsOK, NEW k \in Askers, NEW step \in AskerStep, asker' = [asker EXCEPT ![k].at = step],
         step \in {"enqueue", "register"} \/ (step = "nudge" /\ asker[k].prio = Critical)
           => asker[k].on \in Comics
  PROVE  CallsOK'
<1> DEFINE s == [asker[k] EXCEPT !.at = step]
<1>1. asker' = [asker EXCEPT ![k] = s]
  OBVIOUS
<1>2. s \in AskerState /\ s.at = step /\ s.on = asker[k].on /\ s.prio = asker[k].prio
  BY DEF CallsOK, AskerState
<1> HIDE DEF s
<1>3. QED
  BY <1>1, <1>2, CallFacts

LEMMA CallsStay == CallsOK /\ UNCHANGED asker => CallsOK'
  BY DEF CallsOK, AskersHold

LEMMA IdleCall ==
  ASSUME CallsOK, NEW k \in Askers, asker' = [asker EXCEPT ![k] = IdleAsker]
  PROVE  CallsOK'
  BY CallFacts, IdleTypes

LEMMA AskerSteps ==
  ASSUME CallsOK, NEW k \in Askers,
         \/ AskerNext(k)
         \/ \E c \in Comics, p \in Priority : Ask(k, c, p)
         \/ \E b \in Batches : EnqueueBatch(k, b)
  PROVE  CallsOK'
<1>1. CASE Enqueue(k)
  <2>1. asker[k].at = "enqueue" /\ asker' = [asker EXCEPT ![k].at = "nudge"]
    BY <1>1 DEF Enqueue
  <2>2. asker[k].on \in Comics
    BY <2>1 DEF CallsOK, AskersHold
  <2>3. QED
    BY <2>1, <2>2, CallGoes DEF AskerStep
<1>2. CASE NudgeAll(k)
  <2>1. CASE asker[k].prio = Critical
    <3>1. asker[k].at = "nudge" /\ asker' = [asker EXCEPT ![k].at = "register"]
      BY <1>2, <2>1 DEF NudgeAll
    <3>2. asker[k].on \in Comics
      BY <2>1, <3>1 DEF CallsOK, AskersHold
    <3>3. QED
      BY <3>1, <3>2, CallGoes DEF AskerStep
  <2>2. CASE asker[k].prio # Critical
    BY <1>2, <2>2, IdleCall DEF NudgeAll
  <2>3. QED
    BY <2>1, <2>2
<1>3. CASE Register(k)
  BY <1>3, CallGoes DEF Register, AskerStep
<1>4. CASE WaitTimesOut(k)
  BY <1>4, IdleCall DEF WaitTimesOut
<1>5. ASSUME NEW c \in Comics, NEW p \in Priority, Ask(k, c, p) PROVE CallsOK'
  <2>1. [at |-> "enqueue", on |-> c, prio |-> p] \in AskerState
    BY DEF AskerState, AskerStep
  <2>2. QED
    BY <1>5, <2>1, CallFacts DEF Ask
<1>6. ASSUME NEW b \in Batches, EnqueueBatch(k, b) PROVE CallsOK'
  <2> DEFINE s == [IdleAsker EXCEPT !.at = "nudge"]
  <2>1. asker' = [asker EXCEPT ![k] = s]
    BY <1>6 DEF EnqueueBatch
  <2>2. s \in AskerState /\ s.at = "nudge" /\ s.prio # Critical
    BY PriorityType DEF IdleAsker, AskerState, AskerStep
  <2> HIDE DEF s
  <2>3. QED
    BY <2>1, <2>2, CallFacts
<1>7. QED
  BY <1>1, <1>2, <1>3, <1>4, <1>5, <1>6 DEF AskerNext

LEMMA AnswerCalls ==
  ASSUME CallsOK, NEW w \in Workers, Answer(w)
  PROVE  CallsOK'
<1>1. \A k \in Askers : asker'[k] = IdleAsker \/ asker'[k] = asker[k]
  BY DEF Answer
<1>2. asker' \in [Askers -> AskerState]
  <2>1. \E F : asker' = [k \in Askers |-> IF k \in F THEN IdleAsker ELSE asker[k]]
    <3>1. asker' = [k \in Askers |->
            IF k \in {l \in Askers : l \in waiters[worker[w].on] /\ asker[l].at = "waiting"
                                     /\ asker[l].on = worker[w].on}
            THEN IdleAsker ELSE asker[k]]
      BY DEF Answer
    <3>2. QED
      BY <3>1
  <2>2. QED
    BY <2>1, IdleTypes DEF CallsOK
<1>3. QED
  BY <1>1, <1>2, IdleTypes DEF CallsOK, AskersHold

\* Injective lists are those with distinct entries; what they contain is listed.
LEMMA ListForms ==
  ASSUME NEW s \in Seq(Comics)
  PROVE  /\ IsInjective(s) <=> Distinct(s)
         /\ \A c : Contains(s, c) <=> c \in Listed(s)
<1>1. DOMAIN s = 1 .. Len(s)
  OBVIOUS
<1>2. QED
  BY <1>1 DEF IsInjective, Distinct, Contains, Listed

LEMMA BatchType ==
  ASSUME NEW b \in Batches
  PROVE  b \in Seq(Comics) /\ Distinct(b)
<1>1. PICK n \in 1 .. Cardinality(Comics) : b \in [1 .. n -> Comics]
  BY DEF Batches
<1>2. Cardinality(Comics) \in Nat /\ n \in Nat
  BY QueueAssumption, FS_CardinalityType
<1>3. b \in Seq(Comics)
  BY <1>1, <1>2
<1>4. IsInjective(b)
  BY DEF Batches
<1>5. QED
  BY <1>3, <1>4, ListForms

\* What a batch adds: comics that are neither queued nor in progress, once each.
LEMMA FreshFacts ==
  ASSUME NEW b \in Batches
  PROVE  /\ Fresh(b) \in Seq(Comics) /\ Distinct(Fresh(b)) /\ Counted(b) \in Nat
         /\ Listed(Fresh(b)) \subseteq Comics
         /\ \A c \in Listed(Fresh(b)) : ~ Queued(c) /\ c \notin inFlight
<1> DEFINE busy == {c \in Comics : Queued(c)} \cup inFlight
<1>1. b \in Seq(Comics) /\ Distinct(b)
  BY BatchType
<1>2. Fresh(b) = Kept(b, busy)
  BY DEF Fresh
<1> HIDE DEF busy
<1>3. /\ Fresh(b) \in Seq(Comics) /\ Distinct(Fresh(b))
      /\ Listed(Fresh(b)) = Listed(b) \ busy
  BY <1>1, <1>2, KeptFacts
<1>4. Counted(b) \in Nat
  BY <1>3 DEF Counted
<1>5. Listed(b) \subseteq Comics
  BY <1>1 DEF Listed
<1>6. QED
  BY <1>3, <1>4, <1>5 DEF busy

\* A list with its retained part of another entry appended.
LEMMA WithoutFacts ==
  ASSUME lane \in [Priority -> Seq(Comics)], NEW c \in Comics, NEW q \in Priority
  PROVE  /\ LanesWithout(c)[q] \in Seq(Comics)
         /\ Listed(LanesWithout(c)[q]) = Listed(lane[q]) \ {c}
         /\ Distinct(lane[q]) => Distinct(LanesWithout(c)[q])
<1>1. LanesWithout(c)[q] = Kept(lane[q], {c}) /\ lane[q] \in Seq(Comics)
  BY DEF LanesWithout
<1>2. QED
  BY <1>1, KeptFacts

LEMMA MovedType ==
  ASSUME lane \in [Priority -> Seq(Comics)], NEW c \in Comics, NEW p \in Priority
  PROVE  [LanesWithout(c) EXCEPT ![p] = Append(@, c)] \in [Priority -> Seq(Comics)]
<1>1. LanesWithout(c) \in [Priority -> Seq(Comics)]
  <2>1. LanesWithout(c) = [q \in Priority |-> LanesWithout(c)[q]]
    BY DEF LanesWithout
  <2>2. QED
    BY <2>1, WithoutFacts
<1>2. PICK l : l = LanesWithout(c)
  OBVIOUS
<1>3. l \in [Priority -> Seq(Comics)] /\ Append(l[p], c) \in Seq(Comics)
  BY <1>1, <1>2
<1>4. QED
  BY <1>2, <1>3

LEMMA BatchLaneType ==
  ASSUME lane \in [Priority -> Seq(Comics)], NEW b \in Batches
  PROVE  [lane EXCEPT ![Low] = @ \o Fresh(b)] \in [Priority -> Seq(Comics)]
<1>1. Fresh(b) \in Seq(Comics) /\ Low \in Priority
  BY FreshFacts DEF Priority
<1>2. PICK s \in Seq(Comics) : s = Fresh(b)
  BY <1>1
<1>3. lane[Low] \o s \in Seq(Comics)
  BY <1>1
<1>4. QED
  BY <1>2, <1>3

-----------------------------------------------------------------------------
(* The types hold in every state *)

WorkersOK == worker \in [Workers -> WorkerState] /\ WorkersHold
Rest == permit \in BOOLEAN /\ asked \in Nat /\ changed \in Nat
Types == FilesTypeOK /\ QueueTypeOK /\ WorkersOK /\ CallsOK /\ Rest

LEMMA WorkersStay ==
  ASSUME WorkersOK, Quiet \/ (\E w \in Workers : Works(w)) \/ UNCHANGED worker
  PROVE  WorkersOK'
<1>1. CASE Quiet
  BY <1>1 DEF WorkersOK, WorkersHold, Quiet
<1>2. ASSUME NEW w \in Workers, Works(w) PROVE WorkersOK'
  BY <1>2 DEF WorkersOK, WorkersHold, Works
<1>3. CASE UNCHANGED worker
  BY <1>3 DEF WorkersOK, WorkersHold
<1>4. QED
  BY <1>1, <1>2, <1>3

LEMMA FilesStay == FilesTypeOK /\ UNCHANGED files => FilesTypeOK'
  BY DEF FilesTypeOK, files

LEMMA QueueStays == QueueTypeOK /\ UNCHANGED queue => QueueTypeOK'
  BY DEF QueueTypeOK, queue

LEMMA InitTypes == Init => Types
<1> SUFFICES ASSUME Init PROVE Types
  OBVIOUS
<1>1. FilesTypeOK
  BY DEF Init, FilesTypeOK
<1>2. QueueTypeOK
  BY DEF Init, QueueTypeOK
<1>3. WorkersOK /\ CallsOK /\ Rest
  BY IdleTypes DEF Init, WorkersOK, WorkersHold, CallsOK, AskersHold, Rest
<1>4. QED
  BY <1>1, <1>2, <1>3 DEF Types

LEMMA GeneratedType ==
  ASSUME FilesTypeOK, WorkersOK, NEW w \in Workers, worker[w].on \in Comics
  PROVE  Generated(worker[w].on, worker[w]) \in Cover
<1>1. worker[w].stat \in Nat /\ worker[w].shows \in Nat
  BY DEF WorkersOK, WorkerState
<1>2. (cover[worker[w].on] # NoCover /\ cover[worker[w].on].user) \in BOOLEAN
  OBVIOUS
<1>3. PICK o \in BOOLEAN : o = (cover[worker[w].on] # NoCover /\ cover[worker[w].on].user)
  BY <1>2
<1>4. Generated(worker[w].on, worker[w]) = [of |-> worker[w].stat, shows |-> worker[w].shows, user |-> o]
  BY <1>3 DEF Generated
<1>5. QED
  BY <1>1, <1>4 DEF Cover

LEMMA WorkerTypes ==
  ASSUME Types, NEW w \in Workers, WorkerNext(w)
  PROVE  Types'
<1>0. /\ FilesTypeOK /\ QueueTypeOK /\ WorkersOK /\ CallsOK /\ Rest
      /\ worker \in [Workers -> WorkerState] /\ WorkersHold /\ version \in [Comics -> Nat]
  BY DEF Types, WorkersOK, FilesTypeOK
<1>1. CASE Pop(w)
  <2>1. UNCHANGED <<files, negative, waiters, total, done, permit, asker, asked, changed>>
    BY <1>1 DEF Pop
  <2>2. lane \in [Priority -> Seq(Comics)] /\ priorities \in [Comics -> Priority \cup {NoPriority}]
        /\ inFlight \in SUBSET Comics
    BY <1>0 DEF QueueTypeOK
  <2>3. QueueTypeOK' /\ WorkersOK'
    <3>1. CASE Quiet /\ UNCHANGED <<lane, priorities, inFlight>>
      BY <1>0, <2>1, <3>1, WorkersStay DEF QueueTypeOK
    <3>2. ASSUME NEW p \in Priority, NEW c \in Comics,
                 lane[p] # <<>>,
                 lane' = [lane EXCEPT ![p] = Tail(lane[p])],
                 priorities' = [priorities EXCEPT ![c] = NoPriority],
                 inFlight' = inFlight \cup {c},
                 worker' \in [Workers -> WorkerState],
                 worker'[w].at = "check", worker'[w].on = c,
                 \A u \in Workers \ {w} : worker'[u] = worker[u]
          PROVE  QueueTypeOK' /\ WorkersOK'
      <4>1. Tail(lane[p]) \in Seq(Comics)
        BY <2>2, <3>2
      <4>2. lane' \in [Priority -> Seq(Comics)]
        BY <2>2, <3>2, <4>1
      <4>3. priorities' \in [Comics -> Priority \cup {NoPriority}]
        BY <2>2, <3>2
      <4>4. QueueTypeOK'
        BY <1>0, <2>1, <2>2, <3>2, <4>2, <4>3 DEF QueueTypeOK
      <4>5. WorkersOK'
        BY <1>0, <3>2 DEF WorkersOK, WorkersHold
      <4>6. QED
        BY <4>4, <4>5
    <3>3. QED
      BY <1>0, <1>1, <2>2, <3>1, <3>2, PopFacts
  <2>4. FilesTypeOK' /\ CallsOK' /\ Rest'
    BY <1>0, <2>1, FilesStay, CallsStay DEF Rest
  <2>5. QED
    BY <2>3, <2>4 DEF Types
<1>2. CASE Park(w) \/ Chain(w) \/ Nudge(w)
  <2>1. UNCHANGED <<files, queue, asker, asked, changed>>
    BY <1>2 DEF Park, Chain, Nudge
  <2>2. permit' \in BOOLEAN
    BY <1>0, <1>2 DEF Park, Chain, Nudge, Rest
  <2>3. WorkersOK'
    BY <1>0, <1>2, ChainFacts, NudgeFacts, WorkersStay
  <2>4. QED
    BY <1>0, <2>1, <2>2, <2>3, FilesStay, QueueStays, CallsStay DEF Types, Rest
<1>3. CASE Check(w) \/ Stat(w) \/ Render(w) \/ GenerateFails(w)
  <2>1. UNCHANGED <<files, queue, permit, asker, asked, changed>>
    BY <1>3 DEF Check, Stat, Render, GenerateFails
  <2>2. Works(w)
    BY <1>0, <1>3, CheckFacts, StatFacts, RenderFacts, StoreFacts
  <2>3. QED
    BY <1>0, <2>1, <2>2, WorkersStay, FilesStay, QueueStays, CallsStay DEF Types, Rest
<1>4. CASE Store(w)
  <2>1. UNCHANGED <<version, missing, known, beaten, queue, permit, asker, asked, changed>>
    BY <1>4 DEF Store
  <2>2. Works(w) /\ worker[w].on \in Comics
    BY <1>0, <1>4, StoreFacts DEF Store, WorkersHold
  <2>3. cover' \in [Comics -> Cover \cup {NoCover}]
    <3>1. Generated(worker[w].on, worker[w]) \in Cover
      BY <1>0, <2>2, GeneratedType
    <3>2. cover' = cover \/ cover' = [cover EXCEPT ![worker[w].on] = Generated(worker[w].on, worker[w])]
      BY <1>4 DEF Store
    <3>3. QED
      BY <1>0, <3>1, <3>2 DEF FilesTypeOK
  <2>4. FilesTypeOK'
    BY <1>0, <2>1, <2>3 DEF FilesTypeOK
  <2>5. QED
    BY <1>0, <2>1, <2>2, <2>4, WorkersStay, QueueStays, CallsStay DEF Types, Rest
<1>5. CASE Finish(w)
  <2>1. /\ UNCHANGED <<files, lane, priorities, waiters, total, permit, asker, asked, changed>>
        /\ inFlight' = inFlight \ {worker[w].on} /\ done' = done + 1
        /\ worker[w].at = "finish" /\ Go(w, "answer")
        /\ negative' \subseteq negative \cup {worker[w].on}
    BY <1>5 DEF Finish
  <2>2. worker[w].on \in Comics
    BY <1>0, <2>1 DEF WorkersHold
  <2>3. WorkersOK'
    BY <1>0, <2>1, <2>2, GoFacts DEF WorkersOK, WorkersHold, WorkerStep
  <2>4. QueueTypeOK'
    BY <1>0, <2>1, <2>2 DEF QueueTypeOK
  <2>5. QED
    BY <1>0, <2>1, <2>3, <2>4, FilesStay, CallsStay DEF Types, Rest
<1>6. CASE Answer(w)
  <2>1. /\ UNCHANGED <<files, lane, priorities, inFlight, negative, total, done, permit, asked, changed>>
        /\ waiters' = [waiters EXCEPT ![worker[w].on] = {}]
    BY <1>6 DEF Answer
  <2>2. QueueTypeOK'
    BY <1>0, <2>1 DEF QueueTypeOK
  <2>3. WorkersOK' /\ CallsOK'
    BY <1>0, <1>6, ChainFacts, WorkersStay, AnswerCalls
  <2>4. QED
    BY <1>0, <2>1, <2>2, <2>3, FilesStay DEF Types, Rest
<1>7. QED
  BY <1>1, <1>2, <1>3, <1>4, <1>5, <1>6 DEF WorkerNext

LEMMA AskerTypes ==
  ASSUME Types, NEW k \in Askers, AskerNext(k) \/ AskerStarts(k)
  PROVE  Types'
<1>0. /\ FilesTypeOK /\ QueueTypeOK /\ WorkersOK /\ CallsOK /\ Rest
      /\ worker \in [Workers -> WorkerState] /\ lane \in [Priority -> Seq(Comics)]
      /\ priorities \in [Comics -> Priority \cup {NoPriority}]
  BY DEF Types, WorkersOK, QueueTypeOK
<1>1. CallsOK'
  BY <1>0, AskerSteps DEF AskerStarts
<1>2. CASE Enqueue(k)
  <2>1. UNCHANGED <<files, inFlight, negative, waiters, total, done, permit, worker, asked, changed>>
    BY <1>2 DEF Enqueue
  <2>2. asker[k].on \in Comics /\ asker[k].prio \in Priority
    BY <1>0, <1>2 DEF Enqueue, CallsOK, AskersHold, AskerState
  <2>3. lane' \in [Priority -> Seq(Comics)] /\ priorities' \in [Comics -> Priority \cup {NoPriority}]
    <3>1. CASE UNCHANGED <<lane, priorities>>
      BY <1>0, <3>1
    <3>2. CASE ~ UNCHANGED <<lane, priorities>>
      <4>1. PICK c \in Comics, p \in Priority : c = asker[k].on /\ p = asker[k].prio
        BY <2>2
      <4>2. /\ lane' = [LanesWithout(c) EXCEPT ![p] = Append(@, c)]
            /\ priorities' = [priorities EXCEPT ![c] = p]
        BY <1>2, <3>2, <4>1 DEF Enqueue
      <4>3. lane' \in [Priority -> Seq(Comics)]
        BY <1>0, <4>2, MovedType
      <4>4. QED
        BY <1>0, <4>2, <4>3
    <3>3. QED
      BY <3>1, <3>2
  <2>4. QueueTypeOK'
    BY <1>0, <2>1, <2>3 DEF QueueTypeOK
  <2>5. QED
    BY <1>0, <1>1, <2>1, <2>4, FilesStay, WorkersStay DEF Types, Rest
<1>3. CASE NudgeAll(k)
  BY <1>0, <1>1, <1>3, WakeFacts, WorkersStay, FilesStay, QueueStays
  DEF NudgeAll, Types, Rest
<1>4. CASE Register(k)
  <2>1. /\ UNCHANGED <<files, lane, priorities, inFlight, negative, total, done, permit, worker, asked, changed>>
        /\ waiters' = [waiters EXCEPT ![asker[k].on] = @ \cup {k}]
    BY <1>4 DEF Register
  <2>2. asker[k].on \in Comics
    BY <1>0, <1>4 DEF Register, CallsOK, AskersHold
  <2>3. QueueTypeOK'
    BY <1>0, <2>1, <2>2 DEF QueueTypeOK
  <2>4. QED
    BY <1>0, <1>1, <2>1, <2>3, FilesStay, WorkersStay DEF Types, Rest
<1>5. CASE WaitTimesOut(k)
  BY <1>0, <1>1, <1>5, WorkersStay, FilesStay, QueueStays
  DEF WaitTimesOut, Types, Rest
<1>6. ASSUME NEW c \in Comics, NEW p \in Priority, Ask(k, c, p) PROVE Types'
  BY <1>0, <1>1, <1>6, WorkersStay, FilesStay, QueueStays
  DEF Ask, Types, Rest
<1>7. ASSUME NEW b \in Batches, EnqueueBatch(k, b) PROVE Types'
  <2>1. /\ UNCHANGED <<files, inFlight, negative, waiters, done, permit, worker, changed>>
        /\ lane' = [lane EXCEPT ![Low] = @ \o Fresh(b)]
        /\ priorities' = [c \in Comics |-> IF Contains(Fresh(b), c) THEN Low ELSE priorities[c]]
        /\ total' = total + Counted(b) /\ asked' = asked + 1
    BY <1>7 DEF EnqueueBatch
  <2>2. lane' \in [Priority -> Seq(Comics)] /\ Low \in Priority
    BY <1>0, <2>1, BatchLaneType DEF Priority
  <2>3. priorities' \in [Comics -> Priority \cup {NoPriority}]
    BY <1>0, <2>1, <2>2
  <2>4. Counted(b) \in Nat
    BY FreshFacts
  <2>5. QueueTypeOK'
    BY <1>0, <2>1, <2>2, <2>3, <2>4 DEF QueueTypeOK
  <2>6. QED
    BY <1>0, <1>1, <2>1, <2>5, FilesStay, WorkersStay DEF Types, Rest
<1>8. QED
  BY <1>2, <1>3, <1>4, <1>5, <1>6, <1>7 DEF AskerNext, AskerStarts

LEMMA FileTypes ==
  ASSUME Types, NEW c \in Comics,
         FileChanges(c) \/ ComicDeleted(c) \/ SetCover(c) \/ DeleteCover(c) \/ NegativeExpires(c)
  PROVE  Types'
<1>0. FilesTypeOK /\ QueueTypeOK /\ WorkersOK /\ CallsOK /\ Rest
  BY DEF Types
<1>1. /\ UNCHANGED <<lane, priorities, inFlight, waiters, total, done, permit, worker, asker, asked>>
      /\ changed' = changed + 1 /\ negative' \subseteq negative
  BY DEF FileChanges, ComicDeleted, SetCover, DeleteCover, NegativeExpires, Change
<1>2. FilesTypeOK'
  <2>1. CASE FileChanges(c)
    BY <1>0, <2>1 DEF FileChanges, FilesTypeOK
  <2>2. CASE ComicDeleted(c) \/ DeleteCover(c)
    BY <1>0, <2>2 DEF ComicDeleted, DeleteCover, FilesTypeOK
  <2>3. CASE SetCover(c)
    <3>1. [of |-> version[c], shows |-> Page, user |-> TRUE] \in Cover
      BY <1>0 DEF FilesTypeOK, Cover
    <3>2. QED
      BY <1>0, <2>3, <3>1 DEF SetCover, FilesTypeOK
  <2>4. CASE NegativeExpires(c)
    BY <1>0, <2>4, FilesStay DEF NegativeExpires
  <2>5. QED
    BY <2>1, <2>2, <2>3, <2>4
<1>3. QueueTypeOK'
  BY <1>0, <1>1 DEF QueueTypeOK
<1>4. QED
  BY <1>0, <1>1, <1>2, <1>3, WorkersStay, CallsStay DEF Types, Rest

LEMMA NextTypes == Types /\ [Next]_vars => Types'
<1> SUFFICES ASSUME Types, [Next]_vars PROVE Types'
  OBVIOUS
<1>1. CASE UNCHANGED vars
  BY <1>1 DEF vars, Types, FilesTypeOK, QueueTypeOK, WorkersOK, WorkersHold, CallsOK, AskersHold, Rest
<1>2. CASE Next
  BY <1>2, WorkerTypes, AskerTypes, FileTypes DEF Next
<1>3. QED
  BY <1>1, <1>2

\* The types hold in every state, and who works on a comic has one.
THEOREM SpecTypeOK == Spec => []TypeOK
<1>1. Types => TypeOK
  BY DEF Types, TypeOK, CallTypeOK, WorkersOK, CallsOK, Rest
<1>2. QED
  BY <1>1, InitTypes, NextTypes, PTL DEF Spec

-----------------------------------------------------------------------------
(* Lanes, priorities, in_flight and workers agree *)

LEMMA TailFacts ==
  ASSUME NEW s \in Seq(Comics), s # <<>>, Distinct(s)
  PROVE  /\ Distinct(Tail(s)) /\ Head(s) \in Listed(s)
         /\ Listed(Tail(s)) = Listed(s) \ {Head(s)}
<1>1. /\ Len(s) \in Nat /\ Len(s) >= 1 /\ Head(s) = s[1]
      /\ Tail(s) \in Seq(Comics) /\ Len(Tail(s)) = Len(s) - 1
      /\ \A i \in 1 .. Len(s) - 1 : Tail(s)[i] = s[i + 1]
  OBVIOUS
<1> DEFINE t == Tail(s)
<1>2. Len(t) = Len(s) - 1 /\ \A i \in 1 .. Len(s) - 1 : t[i] = s[i + 1]
  BY <1>1
<1> HIDE DEF t
<1>3. Distinct(t)
  BY <1>1, <1>2 DEF Distinct
<1>4. Head(s) \in Listed(s)
  BY <1>1 DEF Listed
<1>5. ASSUME NEW x \in Listed(t) PROVE x \in Listed(s) /\ x # Head(s)
  <2>1. PICK i \in 1 .. Len(s) - 1 : x = t[i]
    BY <1>2 DEF Listed
  <2>2. i + 1 \in 1 .. Len(s) /\ i + 1 # 1 /\ x = s[i + 1]
    BY <1>1, <1>2, <2>1
  <2>3. QED
    BY <1>1, <2>2 DEF Listed, Distinct
<1>6. ASSUME NEW x \in Listed(s), x # Head(s) PROVE x \in Listed(t)
  <2>1. PICK i \in 1 .. Len(s) : x = s[i]
    BY DEF Listed
  <2>2. PICK j : j = i - 1
    OBVIOUS
  <2>3. j \in 1 .. Len(s) - 1 /\ j + 1 = i
    BY <1>1, <1>6, <2>1, <2>2
  <2>4. t[j] = x
    BY <1>2, <2>1, <2>3
  <2>5. QED
    BY <1>2, <2>3, <2>4 DEF Listed
<1>7. QED
  BY <1>3, <1>4, <1>5, <1>6 DEF t

LEMMA ConcatFacts ==
  ASSUME NEW s \in Seq(Comics), NEW t \in Seq(Comics)
  PROVE  /\ Listed(s \o t) = Listed(s) \cup Listed(t)
         /\ Distinct(s) /\ Distinct(t) /\ Listed(s) \cap Listed(t) = {} => Distinct(s \o t)
<1>1. Len(s) \in Nat /\ Len(t) \in Nat
  OBVIOUS
<1> DEFINE r == s \o t
<1>2. Len(r) = Len(s) + Len(t)
  BY <1>1
<1>3. \A i \in 1 .. Len(s) : r[i] = s[i]
  BY <1>1
<1>4. \A i \in 1 .. Len(r) : i > Len(s) => i - Len(s) \in 1 .. Len(t) /\ r[i] = t[i - Len(s)]
  BY <1>1
<1> HIDE DEF r
<1>5. ASSUME NEW x \in Listed(r) PROVE x \in Listed(s) \cup Listed(t)
  <2>1. PICK i \in 1 .. Len(r) : x = r[i]
    BY DEF Listed
  <2>2. CASE i \in 1 .. Len(s)
    BY <1>3, <2>1, <2>2 DEF Listed
  <2>3. CASE i > Len(s)
    BY <1>4, <2>1, <2>3 DEF Listed
  <2>4. QED
    BY <1>1, <1>2, <2>2, <2>3
<1>6. ASSUME NEW x \in Listed(s) PROVE x \in Listed(r)
  <2>1. PICK i \in 1 .. Len(s) : x = s[i]
    BY DEF Listed
  <2>2. i \in 1 .. Len(r) /\ r[i] = x
    BY <1>1, <1>2, <1>3, <2>1
  <2>3. QED
    BY <2>2 DEF Listed
<1>7. ASSUME NEW x \in Listed(t) PROVE x \in Listed(r)
  <2>1. PICK i \in 1 .. Len(t) : x = t[i]
    BY DEF Listed
  <2>2. PICK j : j = Len(s) + i
    OBVIOUS
  <2>3. j \in 1 .. Len(r) /\ j > Len(s) /\ j - Len(s) = i
    BY <1>1, <1>2, <2>2
  <2>4. r[j] = x
    BY <1>4, <2>1, <2>3
  <2>5. QED
    BY <2>3, <2>4 DEF Listed
<1>8. ASSUME Distinct(s), Distinct(t), Listed(s) \cap Listed(t) = {} PROVE Distinct(r)
  <2> SUFFICES ASSUME NEW i \in 1 .. Len(r), NEW j \in 1 .. Len(r), r[i] = r[j] PROVE i = j
    BY DEF Distinct
  <2>1. \A k \in 1 .. Len(s) : s[k] \in Listed(s)
    BY DEF Listed
  <2>2. \A k \in 1 .. Len(t) : t[k] \in Listed(t)
    BY DEF Listed
  <2>3. CASE i \in 1 .. Len(s) /\ j \in 1 .. Len(s)
    BY <1>3, <1>8, <2>3 DEF Distinct
  <2>4. CASE i > Len(s) /\ j > Len(s)
    <3>1. /\ i - Len(s) \in 1 .. Len(t) /\ j - Len(s) \in 1 .. Len(t)
          /\ t[i - Len(s)] = t[j - Len(s)]
      BY <1>4, <2>4
    <3>2. i - Len(s) = j - Len(s)
      BY <1>8, <3>1 DEF Distinct
    <3>3. QED
      BY <1>1, <1>2, <3>2
  <2>5. CASE i \in 1 .. Len(s) /\ j > Len(s)
    BY <1>3, <1>4, <1>8, <2>1, <2>2, <2>5
  <2>6. CASE i > Len(s) /\ j \in 1 .. Len(s)
    BY <1>3, <1>4, <1>8, <2>1, <2>2, <2>6
  <2>7. QED
    BY <1>1, <1>2, <2>3, <2>4, <2>5, <2>6
<1>9. Listed(r) = Listed(s) \cup Listed(t)
  BY <1>5, <1>6, <1>7
<1>10. QED
  BY <1>8, <1>9 DEF r

\* The lanes as sets: each comic that is queued is listed once, in the lane of
\* its priority.
Lanes ==
    \A p \in Priority :
        /\ Distinct(lane[p])
        /\ \A c \in Comics : c \in Listed(lane[p]) <=> priorities[c] = p

LEMMA LanesForm ==
  ASSUME QueueTypeOK
  PROVE  Lanes <=> LanesMatchPriorities
<1>1. \A p \in Priority : lane[p] \in Seq(Comics)
  BY DEF QueueTypeOK
<1>2. QED
  BY <1>1, ListForms DEF Lanes, LanesMatchPriorities

LEMMA PopLanes ==
  ASSUME QueueTypeOK, Lanes, NEW p \in Priority, lane[p] # <<>>, NEW c, c = Head(lane[p]),
         lane' = [lane EXCEPT ![p] = Tail(lane[p])],
         priorities' = [priorities EXCEPT ![c] = NoPriority]
  PROVE  Lanes' /\ c \in Comics /\ priorities[c] = p
<1>1. /\ lane[p] \in Seq(Comics) /\ Distinct(lane[p]) /\ c \in Comics
      /\ \A d \in Comics : d \in Listed(lane[p]) <=> priorities[d] = p
  BY DEF QueueTypeOK, Lanes
<1>2. PICK s \in Seq(Comics) : s = Tail(lane[p])
  <2>1. PICK t \in Seq(Comics) : t = lane[p]
    BY <1>1
  <2>2. Tail(t) \in Seq(Comics)
    BY <2>1
  <2>3. QED
    BY <2>1, <2>2
<1>3. Distinct(s) /\ c \in Listed(lane[p]) /\ Listed(s) = Listed(lane[p]) \ {c}
  BY <1>1, <1>2, TailFacts
<1>4. priorities[c] = p
  BY <1>1, <1>3
<1>5. /\ lane'[p] = s /\ \A q \in Priority \ {p} : lane'[q] = lane[q]
      /\ priorities'[c] = NoPriority /\ \A d \in Comics \ {c} : priorities'[d] = priorities[d]
  BY <1>1, <1>2 DEF QueueTypeOK
<1>6. ASSUME NEW q \in Priority
      PROVE  /\ Distinct(lane'[q])
             /\ \A d \in Comics : d \in Listed(lane'[q]) <=> priorities'[d] = q
  <2>1. CASE q = p
    BY <1>1, <1>3, <1>5, <2>1, PriorityType
  <2>2. CASE q # p
    BY <1>4, <1>5, <2>2, PriorityType DEF Lanes
  <2>3. QED
    BY <2>1, <2>2
<1>7. QED
  BY <1>1, <1>4, <1>6 DEF Lanes

LEMMA EnqueueLanes ==
  ASSUME QueueTypeOK, Lanes, NEW c \in Comics, NEW p \in Priority,
         lane' = [LanesWithout(c) EXCEPT ![p] = Append(@, c)],
         priorities' = [priorities EXCEPT ![c] = p]
  PROVE  Lanes'
<1>1. lane \in [Priority -> Seq(Comics)]
  BY DEF QueueTypeOK
<1>2. PICK l \in [Priority -> Seq(Comics)] : l = LanesWithout(c)
  <2>1. LanesWithout(c) = [q \in Priority |-> LanesWithout(c)[q]]
    BY DEF LanesWithout
  <2>2. LanesWithout(c) \in [Priority -> Seq(Comics)]
    BY <1>1, <2>1, WithoutFacts
  <2>3. QED
    BY <2>2
<1>3. \A q \in Priority : Listed(l[q]) = Listed(lane[q]) \ {c} /\ Distinct(l[q])
  BY <1>1, <1>2, WithoutFacts DEF Lanes
<1>4. /\ lane'[p] = Append(l[p], c) /\ \A q \in Priority \ {p} : lane'[q] = l[q]
      /\ priorities'[c] = p /\ \A d \in Comics \ {c} : priorities'[d] = priorities[d]
  BY <1>2 DEF QueueTypeOK
<1>5. Listed(lane'[p]) = Listed(l[p]) \cup {c} /\ Distinct(lane'[p])
  <2>1. PICK s \in Seq(Comics) : s = l[p]
    BY <1>2
  <2>2. Distinct(s) /\ c \notin Listed(s)
    BY <1>3, <2>1
  <2>3. Listed(Append(s, c)) = Listed(s) \cup {c} /\ Distinct(Append(s, c))
    BY <2>2, AppendFacts
  <2>4. QED
    BY <1>4, <2>1, <2>3
<1>6. ASSUME NEW q \in Priority
      PROVE  /\ Distinct(lane'[q])
             /\ \A d \in Comics : d \in Listed(lane'[q]) <=> priorities'[d] = q
  <2>1. CASE q = p
    BY <1>3, <1>4, <1>5, <2>1 DEF Lanes
  <2>2. CASE q # p
    BY <1>3, <1>4, <2>2 DEF Lanes
  <2>3. QED
    BY <2>1, <2>2
<1>7. QED
  BY <1>6 DEF Lanes

LEMMA BatchLanes ==
  ASSUME QueueTypeOK, Lanes, NEW b \in Batches,
         lane' = [lane EXCEPT ![Low] = @ \o Fresh(b)],
         priorities' = [c \in Comics |-> IF Contains(Fresh(b), c) THEN Low ELSE priorities[c]]
  PROVE  /\ Lanes'
         /\ \A c \in Comics : priorities'[c] = IF c \in Listed(Fresh(b)) THEN Low ELSE priorities[c]
<1>1. lane \in [Priority -> Seq(Comics)] /\ Low \in Priority
  BY DEF QueueTypeOK, Priority
<1>2. PICK s \in Seq(Comics) : s = Fresh(b)
  BY FreshFacts
<1>3. Distinct(s) /\ \A c \in Listed(s) : c \in Comics /\ priorities[c] = NoPriority
  BY <1>2, FreshFacts DEF Queued
<1>4. \A c \in Comics : priorities'[c] = IF c \in Listed(s) THEN Low ELSE priorities[c]
  BY <1>2, ListForms
<1>5. lane'[Low] = lane[Low] \o s /\ \A q \in Priority \ {Low} : lane'[q] = lane[q]
  BY <1>1, <1>2
<1>6. Listed(lane[Low]) \cap Listed(s) = {}
  BY <1>1, <1>3, PriorityType DEF Lanes
<1>7. Listed(lane'[Low]) = Listed(lane[Low]) \cup Listed(s) /\ Distinct(lane'[Low])
  <2>1. PICK l \in Seq(Comics) : l = lane[Low]
    BY <1>1
  <2>2. Distinct(l) /\ Distinct(s) /\ Listed(l) \cap Listed(s) = {}
    BY <1>1, <1>3, <1>6, <2>1 DEF Lanes
  <2>3. Listed(l \o s) = Listed(l) \cup Listed(s) /\ Distinct(l \o s)
    BY <1>2, <2>2, ConcatFacts
  <2>4. QED
    BY <1>5, <2>1, <2>3
<1>8. ASSUME NEW q \in Priority
      PROVE  /\ Distinct(lane'[q])
             /\ \A d \in Comics : d \in Listed(lane'[q]) <=> priorities'[d] = q
  <2>1. CASE q = Low
    BY <1>1, <1>4, <1>7, <2>1 DEF Lanes
  <2>2. CASE q # Low
    BY <1>3, <1>4, <1>5, <2>2, PriorityType DEF Lanes
  <2>3. QED
    BY <2>1, <2>2
<1>9. QED
  BY <1>2, <1>4, <1>8 DEF Lanes

-----------------------------------------------------------------------------
(* What is generated is generated once, and not queued *)

Coherent == Lanes /\ SingleFlight

\* Who holds which comic only changes when one is popped or finished.
LEMMA HoldsStay ==
  ASSUME Quiet \/ (\E w \in Workers : Works(w)) \/ UNCHANGED worker
  PROVE  \A u \in Workers, c \in Comics : Holds(u, c)' <=> Holds(u, c)
<1>1. CASE Quiet
  BY <1>1 DEF Quiet, Holds
<1>2. ASSUME NEW w \in Workers, Works(w)
      PROVE  \A u \in Workers, c \in Comics : Holds(u, c)' <=> Holds(u, c)
  BY <1>2 DEF Works, Holds
<1>3. CASE UNCHANGED worker
  BY <1>3 DEF Holds
<1>4. QED
  BY <1>1, <1>2, <1>3

LEMMA CoherentStays ==
  ASSUME Coherent, UNCHANGED <<lane, priorities, inFlight>>,
         Quiet \/ (\E w \in Workers : Works(w)) \/ UNCHANGED worker
  PROVE  Coherent'
<1>1. Lanes'
  BY DEF Coherent, Lanes
<1>2. SingleFlight'
  BY HoldsStay DEF Coherent, SingleFlight, Queued
<1>3. QED
  BY <1>1, <1>2 DEF Coherent

LEMMA PopCoherent ==
  ASSUME Types, Coherent, NEW w \in Workers, Pop(w)
  PROVE  Coherent'
<1>0. QueueTypeOK /\ worker \in [Workers -> WorkerState] /\ lane \in [Priority -> Seq(Comics)]
  BY DEF Types, WorkersOK, QueueTypeOK
<1>1. ASSUME NEW p \in Priority, NEW c \in Comics,
             lane[p] # <<>>, c = Head(lane[p]),
             lane' = [lane EXCEPT ![p] = Tail(lane[p])],
             priorities' = [priorities EXCEPT ![c] = NoPriority],
             inFlight' = inFlight \cup {c},
             worker[w].at = "pop", worker'[w].at = "check", worker'[w].on = c,
             \A u \in Workers \ {w} : worker'[u] = worker[u]
      PROVE  Coherent'
  <2>1. Lanes' /\ priorities[c] = p
    BY <1>0, <1>1, PopLanes DEF Coherent
  <2>2. c \notin inFlight /\ \A u \in Workers : ~ Holds(u, c)
    BY <2>1, PriorityType DEF Coherent, SingleFlight, Queued
  <2>3. Holds(w, c)' /\ \A d \in Comics : ~ Holds(w, d) /\ (d # c => ~ Holds(w, d)')
    BY <1>1 DEF Holds
  <2>4. \A u \in Workers \ {w}, d \in Comics : Holds(u, d)' <=> Holds(u, d)
    BY <1>1 DEF Holds
  <2>5. priorities'[c] = NoPriority /\ \A d \in Comics \ {c} : priorities'[d] = priorities[d]
    BY <1>0, <1>1 DEF QueueTypeOK
  <2>6. SingleFlight'
    <3> SUFFICES ASSUME NEW d \in Comics
                 PROVE  /\ d \in inFlight' => priorities'[d] = NoPriority
                        /\ d \in inFlight' <=> \E u \in Workers : Holds(u, d)'
                        /\ \A u, v \in Workers : Holds(u, d)' /\ Holds(v, d)' => u = v
      BY DEF SingleFlight, Queued
    <3>1. CASE d = c
      BY <1>1, <2>2, <2>3, <2>4, <2>5, <3>1
    <3>2. CASE d # c
      <4>1. d \in inFlight' <=> d \in inFlight
        BY <1>1, <3>2
      <4>2. \A u \in Workers : Holds(u, d)' <=> Holds(u, d)
        BY <2>3, <2>4, <3>2
      <4>3. QED
        BY <2>5, <3>2, <4>1, <4>2 DEF Coherent, SingleFlight, Queued
    <3>3. QED
      BY <3>1, <3>2
  <2>7. QED
    BY <2>1, <2>6 DEF Coherent
<1>2. CASE Quiet /\ UNCHANGED <<lane, priorities, inFlight>>
  BY <1>2, CoherentStays
<1>3. QED
  BY <1>0, <1>1, <1>2, PopFacts

LEMMA FinishCoherent ==
  ASSUME Types, Coherent, NEW w \in Workers, Finish(w)
  PROVE  Coherent'
<1>1. /\ UNCHANGED <<lane, priorities>>
      /\ inFlight' = inFlight \ {worker[w].on}
      /\ worker[w].at = "finish" /\ Go(w, "answer")
  BY DEF Finish
<1>2. worker \in [Workers -> WorkerState]
  BY DEF Types, WorkersOK
<1>3. worker'[w].at = "answer" /\ \A u \in Workers \ {w} : worker'[u] = worker[u]
  BY <1>1, <1>2, GoFacts DEF WorkerStep
<1>4. PICK c \in Comics : c = worker[w].on
  BY <1>1 DEF Types, WorkersOK, WorkersHold
<1>5. Holds(w, c) /\ \A d \in Comics : (d # c => ~ Holds(w, d)) /\ ~ Holds(w, d)'
  BY <1>1, <1>3, <1>4 DEF Holds
<1>6. \A u \in Workers \ {w}, d \in Comics : Holds(u, d)' <=> Holds(u, d)
  BY <1>3 DEF Holds
<1>7. Lanes'
  BY <1>1 DEF Coherent, Lanes
<1>8. SingleFlight'
  <2> SUFFICES ASSUME NEW d \in Comics
               PROVE  /\ d \in inFlight' => priorities'[d] = NoPriority
                      /\ d \in inFlight' <=> \E u \in Workers : Holds(u, d)'
                      /\ \A u, v \in Workers : Holds(u, d)' /\ Holds(v, d)' => u = v
    BY DEF SingleFlight, Queued
  <2>1. /\ d \in inFlight => priorities[d] = NoPriority
        /\ d \in inFlight <=> \E u \in Workers : Holds(u, d)
        /\ \A u, v \in Workers : Holds(u, d) /\ Holds(v, d) => u = v
    BY DEF Coherent, SingleFlight, Queued
  <2>2. CASE d = c
    BY <1>1, <1>4, <1>5, <1>6, <2>1, <2>2
  <2>3. CASE d # c
    BY <1>1, <1>4, <1>5, <1>6, <2>1, <2>3
  <2>4. QED
    BY <2>2, <2>3
<1>9. QED
  BY <1>7, <1>8 DEF Coherent

LEMMA EnqueueCoherent ==
  ASSUME Types, Coherent, NEW k \in Askers, Enqueue(k)
  PROVE  Coherent'
<1>1. asker[k].at = "enqueue" /\ UNCHANGED <<inFlight, worker>>
  BY DEF Enqueue
<1>2. PICK c \in Comics, p \in Priority : c = asker[k].on /\ p = asker[k].prio
  BY <1>1 DEF Types, CallsOK, AskersHold, AskerState
<1>3. CASE Skips(c, p)
  BY <1>1, <1>2, <1>3, CoherentStays DEF Enqueue
<1>4. CASE ~ Skips(c, p)
  <2>1. /\ lane' = [LanesWithout(c) EXCEPT ![p] = Append(@, c)]
        /\ priorities' = [priorities EXCEPT ![c] = p]
        /\ c \notin inFlight
    BY <1>2, <1>4 DEF Enqueue, Skips
  <2>2. Lanes'
    BY <2>1, EnqueueLanes DEF Types, Coherent
  <2>3. \A d \in Comics \ {c} : priorities'[d] = priorities[d]
    BY <2>1 DEF Types, QueueTypeOK
  <2>4. SingleFlight'
    <3>1. \A d \in inFlight \cap Comics : priorities'[d] = NoPriority
      BY <2>1, <2>3 DEF Coherent, SingleFlight, Queued
    <3>2. \A u \in Workers, d \in Comics : Holds(u, d)' <=> Holds(u, d)
      BY <1>1, HoldsStay
    <3>3. QED
      BY <1>1, <3>1, <3>2 DEF Coherent, SingleFlight, Queued
  <2>5. QED
    BY <2>2, <2>4 DEF Coherent
<1>5. QED
  BY <1>3, <1>4

LEMMA BatchCoherent ==
  ASSUME Types, Coherent, NEW k \in Askers, NEW b \in Batches, EnqueueBatch(k, b)
  PROVE  Coherent'
<1>1. /\ UNCHANGED <<inFlight, worker>>
      /\ lane' = [lane EXCEPT ![Low] = @ \o Fresh(b)]
      /\ priorities' = [c \in Comics |-> IF Contains(Fresh(b), c) THEN Low ELSE priorities[c]]
  BY DEF EnqueueBatch
<1>2. /\ Lanes'
      /\ \A c \in Comics : priorities'[c] = IF c \in Listed(Fresh(b)) THEN Low ELSE priorities[c]
  BY <1>1, BatchLanes DEF Types, Coherent
<1>3. SingleFlight'
  <2>1. \A d \in inFlight \cap Comics : priorities'[d] = NoPriority
    BY <1>2, FreshFacts DEF Coherent, SingleFlight, Queued
  <2>2. \A u \in Workers, d \in Comics : Holds(u, d)' <=> Holds(u, d)
    BY <1>1, HoldsStay
  <2>3. QED
    BY <1>1, <2>1, <2>2 DEF Coherent, SingleFlight, Queued
<1>4. QED
  BY <1>2, <1>3 DEF Coherent

LEMMA InitCoherent == Init => Coherent
<1> SUFFICES ASSUME Init PROVE Coherent
  OBVIOUS
<1>1. Lanes
  BY PriorityType DEF Init, Lanes, Listed, Distinct
<1>2. SingleFlight
  BY IdleTypes DEF Init, SingleFlight, Holds, Queued
<1>3. QED
  BY <1>1, <1>2 DEF Coherent

LEMMA NextCoherent == Types /\ Coherent /\ [Next]_vars => Coherent'
<1> SUFFICES ASSUME Types, Coherent, [Next]_vars PROVE Coherent'
  OBVIOUS
<1>0. worker \in [Workers -> WorkerState] /\ WorkersHold /\ version \in [Comics -> Nat]
  BY DEF Types, WorkersOK, FilesTypeOK
<1>1. ASSUME NEW w \in Workers, WorkerNext(w) PROVE Coherent'
  <2>1. CASE Pop(w)
    BY <2>1, PopCoherent
  <2>2. CASE Finish(w)
    BY <2>2, FinishCoherent
  <2>3. CASE Check(w) \/ Stat(w) \/ Render(w) \/ Store(w) \/ GenerateFails(w)
    <3>1. UNCHANGED <<lane, priorities, inFlight>>
      BY <2>3 DEF Check, Stat, Render, Store, GenerateFails, queue
    <3>2. Works(w)
      BY <1>0, <2>3, CheckFacts, StatFacts, RenderFacts, StoreFacts
    <3>3. QED
      BY <3>1, <3>2, CoherentStays
  <2>4. CASE Park(w) \/ Answer(w) \/ Chain(w) \/ Nudge(w)
    <3>1. UNCHANGED <<lane, priorities, inFlight>>
      BY <2>4 DEF Park, Answer, Chain, Nudge, queue
    <3>2. Quiet
      BY <1>0, <2>4, ChainFacts, NudgeFacts
    <3>3. QED
      BY <3>1, <3>2, CoherentStays
  <2>5. QED
    BY <1>1, <2>1, <2>2, <2>3, <2>4 DEF WorkerNext
<1>2. ASSUME NEW k \in Askers, AskerNext(k) \/ AskerStarts(k) PROVE Coherent'
  <2>1. CASE Enqueue(k)
    BY <2>1, EnqueueCoherent
  <2>2. CASE NudgeAll(k)
    BY <1>0, <2>2, WakeFacts, CoherentStays DEF NudgeAll, queue
  <2>3. CASE Register(k) \/ WaitTimesOut(k) \/ \E c \in Comics, p \in Priority : Ask(k, c, p)
    <3>1. UNCHANGED <<lane, priorities, inFlight, worker>>
      BY <2>3 DEF Register, WaitTimesOut, Ask, queue
    <3>2. QED
      BY <3>1, CoherentStays
  <2>4. ASSUME NEW b \in Batches, EnqueueBatch(k, b) PROVE Coherent'
    BY <2>4, BatchCoherent
  <2>5. QED
    BY <1>2, <2>1, <2>2, <2>3, <2>4 DEF AskerNext, AskerStarts
<1>3. ASSUME NEW c \in Comics,
             FileChanges(c) \/ ComicDeleted(c) \/ SetCover(c) \/ DeleteCover(c) \/ NegativeExpires(c)
      PROVE  Coherent'
  <2>1. UNCHANGED <<lane, priorities, inFlight, worker>>
    BY <1>3 DEF FileChanges, ComicDeleted, SetCover, DeleteCover, NegativeExpires, Change
  <2>2. QED
    BY <2>1, CoherentStays
<1>4. CASE UNCHANGED vars
  BY <1>4, CoherentStays DEF vars
<1>5. QED
  BY <1>1, <1>2, <1>3, <1>4 DEF Next

\* Whatever workers and calls interleave, what is queued waits once, in the lane
\* of its priority, what is in progress is generated by one worker, and nothing
\* is both.
THEOREM SpecQueueCoherent == Spec => []QueueCoherent
<1>1. Types /\ Coherent => QueueCoherent
  BY LanesForm DEF Types, Coherent, QueueCoherent
<1>2. Init => Types /\ Coherent
  BY InitTypes, InitCoherent
<1>3. Types /\ Coherent /\ [Next]_vars => Types' /\ Coherent'
  BY NextTypes, NextCoherent
<1>4. QED
  BY <1>1, <1>2, <1>3, PTL DEF Spec

-----------------------------------------------------------------------------
(* Covers *)

\* A cover never records a version that the file has not had, and one that
\* records the present version shows it.
CoversOld ==
    \A c \in Comics : cover[c] # NoCover =>
        /\ cover[c].of <= version[c]
        /\ ~cover[c].user /\ cover[c].of = version[c] => cover[c].shows = version[c]

\* A picture is of a version between the one stated for it and the present one.
PicturesOld ==
    \A w \in Workers :
        /\ worker[w].at = "render" => worker[w].stat <= version[worker[w].on]
        /\ worker[w].at = "store" => /\ worker[w].stat <= worker[w].shows
                                     /\ worker[w].shows <= version[worker[w].on]

\* What is rendered has no cover of the user, unless he set it meanwhile.
UserCovers ==
    /\ UserCoverKept
    /\ \A w \in Workers, c \in Comics :
         Rendering(w, c) /\ cover[c] # NoCover /\ cover[c].user => c \in beaten

Covers == CoversOld /\ PicturesOld /\ UserCovers

\* No worker that renders, no cover and no version has changed.
LEMMA CoversStay ==
  ASSUME Covers, UNCHANGED <<version, cover, beaten>>,
         \A u \in Workers : \/ worker'[u] = worker[u]
                            \/ worker'[u].at \notin {"stat", "render", "store"}
  PROVE  Covers'
<1>1. CoversOld'
  BY DEF Covers, CoversOld
<1>2. PicturesOld'
  BY DEF Covers, PicturesOld
<1>3. UserCovers'
  BY DEF Covers, UserCovers, UserCoverKept, Rendering
<1>4. QED
  BY <1>1, <1>2, <1>3 DEF Covers

LEMMA QuietCovers ==
  ASSUME Covers, UNCHANGED <<version, cover, beaten>>, Quiet \/ UNCHANGED worker
  PROVE  Covers'
  BY CoversStay DEF Quiet

LEMMA RenderingCovers ==
  ASSUME Types, Covers, NEW w \in Workers, Check(w) \/ Stat(w) \/ Render(w) \/ GenerateFails(w)
  PROVE  Covers'
<1>0. /\ worker \in [Workers -> WorkerState] /\ WorkersHold /\ version \in [Comics -> Nat]
      /\ UNCHANGED <<version, cover, beaten>>
  BY DEF Types, WorkersOK, FilesTypeOK, Check, Stat, Render, GenerateFails, files
<1>1. Works(w)
  BY <1>0, CheckFacts, StatFacts, RenderFacts, StoreFacts
<1>2. PICK c \in Comics : c = worker[w].on /\ c = worker'[w].on
  BY <1>0, <1>1 DEF Works, WorkersHold
<1>3. version[c] \in Nat
  BY <1>0
<1>4. \A u \in Workers \ {w} : worker'[u] = worker[u]
  BY <1>1 DEF Works
<1>5. CoversOld'
  BY <1>0 DEF Covers, CoversOld
<1>6. /\ worker'[w].at = "render" => worker'[w].stat <= version[c]
      /\ worker'[w].at = "store" => /\ worker'[w].stat <= worker'[w].shows
                                    /\ worker'[w].shows <= version[c]
  <2>1. CASE Check(w) \/ GenerateFails(w)
    BY <1>0, <2>1, CheckFacts, StoreFacts
  <2>2. CASE Stat(w)
    <3>1. /\ worker'[w].at \in {"render", "finish"}
          /\ worker'[w].at = "render" => worker'[w].stat = version[worker[w].on]
      BY <1>0, <2>2, StatFacts
    <3>2. worker'[w].at = "render" => worker'[w].stat = version[c]
      BY <1>2, <3>1
    <3>3. QED
      BY <1>3, <3>1, <3>2
  <2>3. CASE Render(w)
    <3>1. /\ worker'[w].at \in {"store", "finish"} /\ worker[w].at = "render"
          /\ worker'[w].at = "store" => /\ worker'[w].shows = version[worker[w].on]
                                        /\ worker'[w].stat = worker[w].stat
      BY <1>0, <2>3, RenderFacts
    <3>2. worker[w].stat <= version[c]
      BY <1>2, <3>1 DEF Covers, PicturesOld
    <3>3. worker'[w].at = "store" => worker'[w].shows = version[c] /\ worker'[w].stat = worker[w].stat
      BY <1>2, <3>1
    <3>4. QED
      BY <1>3, <3>1, <3>2, <3>3
  <2>4. QED
    BY <2>1, <2>2, <2>3
<1>7. PicturesOld'
  BY <1>0, <1>2, <1>4, <1>6 DEF Covers, PicturesOld
<1>8. \A d \in Comics : Rendering(w, d)' => d = c
  BY <1>2 DEF Rendering
<1>9. Rendering(w, c)' /\ cover[c] # NoCover /\ cover[c].user => c \in beaten
  <2>1. CASE Check(w)
    BY <1>0, <1>2, <2>1, CheckFacts DEF Rendering, NeedsGeneration
  <2>2. CASE Stat(w) \/ Render(w)
    <3>1. Rendering(w, c)
      BY <1>2, <2>2 DEF Rendering, Stat, Render
    <3>2. QED
      BY <3>1 DEF Covers, UserCovers
  <2>3. CASE GenerateFails(w)
    BY <1>0, <2>3, StoreFacts DEF Rendering
  <2>4. QED
    BY <2>1, <2>2, <2>3
<1>10. UserCovers'
  <2>1. UserCoverKept'
    BY <1>0 DEF Covers, UserCovers, UserCoverKept
  <2>2. ASSUME NEW u \in Workers, NEW d \in Comics,
               Rendering(u, d)', cover[d] # NoCover, cover[d].user
        PROVE  d \in beaten
    <3>1. CASE u = w
      BY <1>8, <1>9, <2>2, <3>1
    <3>2. CASE u # w
      <4>1. Rendering(u, d)
        BY <1>4, <2>2, <3>2 DEF Rendering
      <4>2. QED
        BY <2>2, <4>1 DEF Covers, UserCovers
    <3>3. QED
      BY <3>1, <3>2
  <2>3. QED
    BY <1>0, <2>1, <2>2 DEF UserCovers
<1>11. QED
  BY <1>5, <1>7, <1>10 DEF Covers

LEMMA StoreCovers ==
  ASSUME Types, Covers, NEW w \in Workers, Store(w)
  PROVE  Covers'
<1>0. /\ worker \in [Workers -> WorkerState] /\ WorkersHold /\ version \in [Comics -> Nat]
      /\ cover \in [Comics -> Cover \cup {NoCover}]
      /\ UNCHANGED <<version, beaten>> /\ worker[w].at = "store"
  BY DEF Types, WorkersOK, FilesTypeOK, Store
<1>1. worker'[w].at = "finish" /\ \A u \in Workers \ {w} : worker'[u] = worker[u]
  BY <1>0, StoreFacts DEF Works
<1>2. PICK c \in Comics : c = worker[w].on
  BY <1>0 DEF WorkersHold
<1>3. CASE UNCHANGED cover
  BY <1>0, <1>1, <1>3, CoversStay
<1>4. CASE cover' = [cover EXCEPT ![c] = Generated(c, worker[w])]
  <2>1. PICK n \in Cover : n = Generated(c, worker[w])
    BY <1>2, GeneratedType DEF Types
  <2>2. /\ n.of = worker[w].stat /\ n.shows = worker[w].shows
        /\ n.user => cover[c] # NoCover /\ cover[c].user
    BY <2>1 DEF Generated
  <2>3. cover'[c] = n /\ \A d \in Comics \ {c} : cover'[d] = cover[d]
    BY <1>0, <1>4, <2>1
  <2>4. CoversOld'
    <3>1. /\ worker[w].stat \in Nat /\ worker[w].shows \in Nat /\ version[c] \in Nat
          /\ worker[w].stat <= worker[w].shows /\ worker[w].shows <= version[c]
      BY <1>0, <1>2 DEF Covers, PicturesOld, WorkerState
    <3>2. n.of <= version[c] /\ (n.of = version[c] => n.shows = version[c])
      BY <2>2, <3>1
    <3>3. QED
      BY <1>0, <2>3, <3>2 DEF Covers, CoversOld
  <2>5. PicturesOld'
    BY <1>0, <1>1 DEF Covers, PicturesOld
  <2>6. \A u \in Workers, d \in Comics : Rendering(u, d)' => Rendering(u, d)
    BY <1>1 DEF Rendering
  <2>7. n.user => c \in beaten
    <3>1. Rendering(w, c)
      BY <1>0, <1>2 DEF Rendering
    <3>2. QED
      BY <2>2, <3>1 DEF Covers, UserCovers
  <2>8. UserCovers'
    BY <1>0, <2>3, <2>6, <2>7 DEF Covers, UserCovers, UserCoverKept
  <2>9. QED
    BY <2>4, <2>5, <2>8 DEF Covers
<1>5. QED
  BY <1>2, <1>3, <1>4 DEF Store

LEMMA FileCovers ==
  ASSUME Types, Covers, NEW c \in Comics,
         FileChanges(c) \/ ComicDeleted(c) \/ SetCover(c) \/ DeleteCover(c) \/ NegativeExpires(c)
  PROVE  Covers'
<1>0. /\ worker \in [Workers -> WorkerState] /\ WorkersHold /\ version \in [Comics -> Nat]
      /\ cover \in [Comics -> Cover \cup {NoCover}] /\ UNCHANGED worker
  BY DEF Types, WorkersOK, FilesTypeOK, FileChanges, ComicDeleted, SetCover, DeleteCover,
         NegativeExpires, Change
<1>1. CASE FileChanges(c)
  <2>1. /\ version' = [version EXCEPT ![c] = @ + 1] /\ UNCHANGED <<cover, beaten>>
    BY <1>1 DEF FileChanges
  <2>2. \A d \in Comics : /\ version[d] \in Nat /\ version'[d] \in Nat
                          /\ version[d] <= version'[d] /\ (d = c => version[d] < version'[d])
                          /\ (d # c => version'[d] = version[d])
    BY <1>0, <2>1
  <2>3. CoversOld'
    <3> SUFFICES ASSUME NEW d \in Comics, cover[d] # NoCover
                 PROVE  /\ cover[d].of <= version'[d]
                        /\ ~cover[d].user /\ cover[d].of = version'[d] => cover[d].shows = version'[d]
      BY <2>1 DEF CoversOld
    <3>1. cover[d].of \in Nat /\ cover[d].of <= version[d]
      BY <1>0 DEF Covers, CoversOld, Cover
    <3>2. CASE d = c
      BY <2>2, <3>1, <3>2
    <3>3. CASE d # c
      BY <2>2, <3>1, <3>3 DEF Covers, CoversOld
    <3>4. QED
      BY <3>2, <3>3
  <2>4. PicturesOld'
    <3> SUFFICES ASSUME NEW w \in Workers, worker[w].at \in {"render", "store"}
                 PROVE  /\ worker[w].at = "render" => worker[w].stat <= version'[worker[w].on]
                        /\ worker[w].at = "store" => /\ worker[w].stat <= worker[w].shows
                                                     /\ worker[w].shows <= version'[worker[w].on]
      BY <1>0 DEF PicturesOld
    <3>1. PICK d \in Comics : d = worker[w].on
      BY <1>0 DEF WorkersHold
    <3>2. worker[w].stat \in Nat /\ worker[w].shows \in Nat
      BY <1>0 DEF WorkerState
    <3>3. QED
      BY <2>2, <3>1, <3>2 DEF Covers, PicturesOld
  <2>5. UserCovers'
    BY <1>0, <2>1 DEF Covers, UserCovers, UserCoverKept, Rendering
  <2>6. QED
    BY <2>3, <2>4, <2>5 DEF Covers
<1>2. CASE ComicDeleted(c) \/ DeleteCover(c)
  <2>1. /\ UNCHANGED <<version, beaten>>
        /\ cover'[c] = NoCover /\ \A d \in Comics \ {c} : cover'[d] = cover[d]
    BY <1>0, <1>2 DEF ComicDeleted, DeleteCover
  <2>2. CoversOld'
    BY <2>1 DEF Covers, CoversOld
  <2>3. PicturesOld'
    BY <1>0, <2>1 DEF Covers, PicturesOld
  <2>4. UserCovers'
    BY <1>0, <2>1 DEF Covers, UserCovers, UserCoverKept, Rendering
  <2>5. QED
    BY <2>2, <2>3, <2>4 DEF Covers
<1>3. CASE SetCover(c)
  <2> DEFINE n == [of |-> version[c], shows |-> Page, user |-> TRUE]
  <2>1. /\ UNCHANGED version
        /\ cover'[c] = n /\ \A d \in Comics \ {c} : cover'[d] = cover[d]
        /\ \A d \in Comics \ {c} : d \in beaten' <=> d \in beaten
        /\ (\E w \in Workers : Rendering(w, c)) => c \in beaten'
    BY <1>0, <1>3 DEF SetCover
  <2>2. n.of = version[c] /\ n.shows = Page /\ n.user = TRUE /\ version[c] <= version[c]
    BY <1>0
  <2> HIDE DEF n
  <2>3. CoversOld'
    BY <2>1, <2>2 DEF Covers, CoversOld
  <2>4. PicturesOld'
    BY <1>0, <2>1 DEF Covers, PicturesOld
  <2>5. \A w \in Workers, d \in Comics : Rendering(w, d)' <=> Rendering(w, d)
    BY <1>0 DEF Rendering
  <2>6. UserCovers'
    BY <2>1, <2>2, <2>5 DEF Covers, UserCovers, UserCoverKept
  <2>7. QED
    BY <2>3, <2>4, <2>6 DEF Covers
<1>4. CASE NegativeExpires(c)
  BY <1>0, <1>4, QuietCovers DEF NegativeExpires, files
<1>5. QED
  BY <1>1, <1>2, <1>3, <1>4

LEMMA NextCovers == Types /\ Covers /\ [Next]_vars => Covers'
<1> SUFFICES ASSUME Types, Covers, [Next]_vars PROVE Covers'
  OBVIOUS
<1>0. worker \in [Workers -> WorkerState] /\ lane \in [Priority -> Seq(Comics)]
  BY DEF Types, WorkersOK, QueueTypeOK
<1>1. ASSUME NEW w \in Workers, WorkerNext(w) PROVE Covers'
  <2>1. CASE Pop(w)
    <3>1. UNCHANGED <<version, cover, beaten>>
      BY <2>1 DEF Pop, files
    <3>2. \A u \in Workers : \/ worker'[u] = worker[u]
                             \/ worker'[u].at \notin {"stat", "render", "store"}
      BY <1>0, <2>1, PopFacts DEF Quiet
    <3>3. QED
      BY <3>1, <3>2, CoversStay
  <2>2. CASE Finish(w)
    <3>1. UNCHANGED <<version, cover, beaten>> /\ Go(w, "answer")
      BY <2>2 DEF Finish, files
    <3>2. worker'[w].at = "answer" /\ \A u \in Workers \ {w} : worker'[u] = worker[u]
      BY <1>0, <3>1, GoFacts DEF WorkerStep
    <3>3. QED
      BY <3>1, <3>2, CoversStay
  <2>3. CASE Check(w) \/ Stat(w) \/ Render(w) \/ GenerateFails(w)
    BY <2>3, RenderingCovers
  <2>4. CASE Store(w)
    BY <2>4, StoreCovers
  <2>5. CASE Park(w) \/ Answer(w) \/ Chain(w) \/ Nudge(w)
    <3>1. UNCHANGED <<version, cover, beaten>>
      BY <2>5 DEF Park, Answer, Chain, Nudge, files
    <3>2. Quiet
      BY <1>0, <2>5, ChainFacts, NudgeFacts
    <3>3. QED
      BY <3>1, <3>2, QuietCovers
  <2>6. QED
    BY <1>1, <2>1, <2>2, <2>3, <2>4, <2>5 DEF WorkerNext
<1>2. ASSUME NEW k \in Askers, AskerNext(k) \/ AskerStarts(k) PROVE Covers'
  <2>1. CASE NudgeAll(k)
    BY <1>0, <2>1, WakeFacts, QuietCovers DEF NudgeAll, files
  <2>2. CASE ~ NudgeAll(k)
    <3>1. UNCHANGED <<version, cover, beaten, worker>>
      BY <1>2, <2>2 DEF AskerNext, AskerStarts, Enqueue, Register, WaitTimesOut, Ask,
                        EnqueueBatch, files
    <3>2. QED
      BY <3>1, QuietCovers
  <2>3. QED
    BY <2>1, <2>2
<1>3. CASE UNCHANGED vars
  BY <1>3, QuietCovers DEF vars
<1>4. QED
  BY <1>1, <1>2, <1>3, FileCovers DEF Next

LEMMA InitCovers == Init => Covers
<1> SUFFICES ASSUME Init PROVE Covers
  OBVIOUS
<1>1. CoversOld /\ UserCoverKept
  BY DEF Init, CoversOld, UserCoverKept
<1>2. PicturesOld /\ \A w \in Workers, c \in Comics : ~ Rendering(w, c)
  BY IdleTypes DEF Init, PicturesOld, Rendering
<1>3. QED
  BY <1>1, <1>2 DEF Covers, UserCovers

\* A generated cover that records the present version of the file shows it: the
\* stat is taken first, and no version comes back.
THEOREM SpecCurrentCoverIsTrue == Spec => []CurrentCoverIsTrue
<1>1. Covers => CurrentCoverIsTrue
  BY DEF Covers, CoversOld, CurrentCoverIsTrue
<1>2. QED
  BY <1>1, InitTypes, InitCovers, NextTypes, NextCovers, PTL DEF Spec

\* Only a rendering that was under way when the user set his cover ever takes
\* its place.
THEOREM SpecUserCoverKept == Spec => []UserCoverKept
<1>1. Covers => UserCoverKept
  BY DEF Covers, UserCovers
<1>2. QED
  BY <1>1, InitTypes, InitCovers, NextTypes, NextCovers, PTL DEF Spec

-----------------------------------------------------------------------------
(* What the progress has counted is done or under way *)

Busy == {c \in Comics : Queued(c)} \cup inFlight

LEMMA BusyFinite ==
  ASSUME QueueTypeOK
  PROVE  IsFiniteSet(Busy) /\ Cardinality(Busy) \in Nat
<1>1. Busy \in SUBSET Comics
  BY DEF Busy, QueueTypeOK
<1>2. QED
  BY <1>1, QueueAssumption, FS_Subset, FS_CardinalityType

\* A list of different entries lists as many as it is long.
LEMMA DistinctCount ==
  ASSUME NEW s \in Seq(Comics), Distinct(s)
  PROVE  IsFiniteSet(Listed(s)) /\ Cardinality(Listed(s)) = Len(s)
<1>1. s \in [1 .. Len(s) -> Listed(s)] /\ Len(s) \in Nat
  BY DEF Listed
<1>2. \A x \in Listed(s) : \E i \in 1 .. Len(s) : s[i] = x
  BY DEF Listed
<1>3. s \in Bijection(1 .. Len(s), Listed(s))
  <2>1. IsInjective(s)
    BY <1>1 DEF IsInjective, Distinct
  <2>2. QED
    BY <1>1, <1>2, <2>1 DEF Bijection, Injection, Surjection
<1>4. ExistsBijection(1 .. Len(s), Listed(s))
  BY <1>3 DEF ExistsBijection
<1>5. IsFiniteSet(1 .. Len(s)) /\ Cardinality(1 .. Len(s)) = Len(s)
  <2>1. IsFiniteSet(1 .. Len(s)) /\ Cardinality(1 .. Len(s)) = IF 1 > Len(s) THEN 0 ELSE Len(s) - 1 + 1
    BY <1>1, FS_Interval
  <2>2. QED
    BY <1>1, <2>1
<1>6. QED
  BY <1>4, <1>5, FS_Bijection

\* The sum holds when nothing leaves the queue but into a worker's hands.
LEMMA CountsStay ==
  ASSUME QueueTypeOK, QueueTypeOK', CountedWorkIsDone, UNCHANGED <<total, done>>, Busy \subseteq Busy'
  PROVE  CountedWorkIsDone'
<1>1. PICK B : B = Busy'
  OBVIOUS
<1>2. IsFiniteSet(B) /\ Cardinality(B) \in Nat
  <2>1. B \in SUBSET Comics
    BY <1>1 DEF Busy, QueueTypeOK
  <2>2. QED
    BY <2>1, QueueAssumption, FS_Subset, FS_CardinalityType
<1>3. Cardinality(Busy) <= Cardinality(B) /\ Cardinality(Busy) \in Nat
  BY <1>1, <1>2, BusyFinite, FS_Subset
<1>4. total <= done + Cardinality(Busy) /\ total \in Nat /\ done \in Nat
  BY DEF CountedWorkIsDone, Busy, QueueTypeOK
<1>5. total' <= done' + Cardinality(B)
  BY <1>2, <1>3, <1>4
<1>6. QED
  BY <1>1, <1>5 DEF CountedWorkIsDone, Busy

LEMMA FinishCounts ==
  ASSUME Types, CountedWorkIsDone, NEW w \in Workers, Finish(w)
  PROVE  CountedWorkIsDone'
<1>1. /\ UNCHANGED <<priorities, total>> /\ done' = done + 1
      /\ inFlight' = inFlight \ {worker[w].on}
  BY DEF Finish
<1>2. PICK B : B = Busy \ {worker[w].on}
  OBVIOUS
<1>3. IsFiniteSet(Busy) /\ Cardinality(Busy) \in Nat /\ total \in Nat /\ done \in Nat
  BY BusyFinite DEF Types, QueueTypeOK
<1>4. IsFiniteSet(B) /\ Cardinality(B) >= Cardinality(Busy) - 1 /\ Cardinality(B) \in Nat
  <2>1. /\ IsFiniteSet(B)
        /\ Cardinality(B) = IF worker[w].on \in Busy THEN Cardinality(Busy) - 1 ELSE Cardinality(Busy)
    BY <1>2, <1>3, FS_RemoveElement
  <2>2. Cardinality(B) \in Nat
    BY <2>1, FS_CardinalityType
  <2> HIDE DEF Busy
  <2>3. QED
    BY <1>3, <2>1, <2>2
<1>5. PICK D : D = Busy'
  OBVIOUS
<1>6. B \subseteq D /\ D \subseteq Busy
  BY <1>1, <1>2, <1>5 DEF Busy, Queued
<1>7. IsFiniteSet(D) /\ Cardinality(D) >= Cardinality(B) /\ Cardinality(D) \in Nat
  BY <1>3, <1>4, <1>6, FS_Subset, FS_CardinalityType
<1>8. total <= done + Cardinality(Busy)
  BY DEF CountedWorkIsDone, Busy
<1>9. total' <= done' + Cardinality(D)
  BY <1>1, <1>3, <1>4, <1>7, <1>8
<1>10. QED
  BY <1>5, <1>9 DEF CountedWorkIsDone, Busy

LEMMA BatchCounts ==
  ASSUME Types, Coherent, CountedWorkIsDone, NEW k \in Askers, NEW b \in Batches, EnqueueBatch(k, b)
  PROVE  CountedWorkIsDone'
<1>1. /\ UNCHANGED <<inFlight, done>> /\ total' = total + Counted(b)
      /\ lane' = [lane EXCEPT ![Low] = @ \o Fresh(b)]
      /\ priorities' = [c \in Comics |-> IF Contains(Fresh(b), c) THEN Low ELSE priorities[c]]
  BY DEF EnqueueBatch
<1>2. \A c \in Comics : priorities'[c] = IF c \in Listed(Fresh(b)) THEN Low ELSE priorities[c]
  BY <1>1, BatchLanes DEF Types, Coherent
<1>3. PICK s \in Seq(Comics) : s = Fresh(b)
  BY FreshFacts
<1>4. /\ Distinct(s) /\ Listed(s) \subseteq Comics /\ Counted(b) = Len(s)
      /\ Listed(s) \cap Busy = {}
  BY <1>3, FreshFacts DEF Counted, Busy
<1>5. IsFiniteSet(Listed(s)) /\ Cardinality(Listed(s)) = Len(s) /\ Len(s) \in Nat
  BY <1>4, DistinctCount
<1>6. IsFiniteSet(Busy) /\ Cardinality(Busy) \in Nat /\ total \in Nat /\ done \in Nat
  BY BusyFinite DEF Types, QueueTypeOK
<1>7. Busy' = Busy \cup Listed(s)
  BY <1>1, <1>2, <1>3, <1>4, PriorityType DEF Busy, Queued
<1>8. Cardinality(Busy \cup Listed(s)) = Cardinality(Busy) + Len(s)
  <2>1. Cardinality(Busy \cap Listed(s)) = 0
    BY <1>4, FS_EmptySet
  <2>2. Cardinality(Busy \cup Listed(s)) = Cardinality(Busy) + Cardinality(Listed(s)) - Cardinality(Busy \cap Listed(s))
    BY <1>5, <1>6, FS_Union
  <2>3. QED
    BY <1>5, <1>6, <2>1, <2>2
<1>9. total <= done + Cardinality(Busy)
  BY DEF CountedWorkIsDone, Busy
<1>10. PICK D : D = Busy'
  OBVIOUS
<1>11. total' <= done' + Cardinality(D)
  BY <1>1, <1>4, <1>5, <1>6, <1>7, <1>8, <1>9, <1>10
<1>12. QED
  BY <1>10, <1>11 DEF CountedWorkIsDone, Busy

LEMMA NextCounts == Types /\ Coherent /\ CountedWorkIsDone /\ [Next]_vars => CountedWorkIsDone'
<1> SUFFICES ASSUME Types, Coherent, CountedWorkIsDone, [Next]_vars PROVE CountedWorkIsDone'
  OBVIOUS
<1>0. /\ QueueTypeOK /\ QueueTypeOK'
      /\ worker \in [Workers -> WorkerState] /\ lane \in [Priority -> Seq(Comics)]
      /\ priorities \in [Comics -> Priority \cup {NoPriority}]
  BY NextTypes DEF Types, WorkersOK, QueueTypeOK
<1>1. CASE UNCHANGED <<priorities, inFlight, total, done>>
  <2>1. Busy \subseteq Busy'
    BY <1>1 DEF Busy, Queued
  <2>2. QED
    BY <1>0, <1>1, <2>1, CountsStay
<1>2. ASSUME NEW w \in Workers, WorkerNext(w) PROVE CountedWorkIsDone'
  <2>1. CASE Pop(w)
    <3>1. UNCHANGED <<total, done>>
      BY <2>1 DEF Pop
    <3>2. ASSUME NEW c \in Comics, priorities' = [priorities EXCEPT ![c] = NoPriority],
                 inFlight' = inFlight \cup {c}
          PROVE  Busy \subseteq Busy'
      <4>1. \A d \in Comics \ {c} : priorities'[d] = priorities[d]
        BY <1>0, <3>2
      <4>2. QED
        BY <3>2, <4>1 DEF Busy, Queued
    <3>3. CASE UNCHANGED <<priorities, inFlight>>
      BY <1>1, <3>1, <3>3
    <3>4. Busy \subseteq Busy' \/ UNCHANGED <<priorities, inFlight>>
      BY <1>0, <2>1, <3>2, PopFacts
    <3>5. QED
      BY <1>0, <3>1, <3>3, <3>4, CountsStay
  <2>2. CASE Finish(w)
    BY <2>2, FinishCounts
  <2>3. CASE ~ Pop(w) /\ ~ Finish(w)
    <3>1. UNCHANGED <<priorities, inFlight, total, done>>
      BY <1>2, <2>3 DEF WorkerNext, Check, Stat, Render, Store, GenerateFails, Park, Answer,
                        Chain, Nudge, queue
    <3>2. QED
      BY <1>1, <3>1
  <2>4. QED
    BY <2>1, <2>2, <2>3
<1>3. ASSUME NEW k \in Askers, AskerNext(k) \/ AskerStarts(k) PROVE CountedWorkIsDone'
  <2>1. CASE Enqueue(k)
    <3>1. /\ UNCHANGED <<inFlight, total, done>>
          /\ \/ UNCHANGED priorities
             \/ priorities' = [priorities EXCEPT ![asker[k].on] = asker[k].prio]
          /\ asker[k].prio # NoPriority
      BY <2>1, PriorityType DEF Enqueue, Types, CallsOK, AskerState
    <3>2. Busy \subseteq Busy'
      BY <1>0, <3>1 DEF Busy, Queued
    <3>3. QED
      BY <1>0, <3>1, <3>2, CountsStay
  <2>2. ASSUME NEW b \in Batches, EnqueueBatch(k, b) PROVE CountedWorkIsDone'
    BY <2>2, BatchCounts
  <2>3. CASE \/ NudgeAll(k) \/ Register(k) \/ WaitTimesOut(k)
             \/ \E c \in Comics, p \in Priority : Ask(k, c, p)
    <3>1. UNCHANGED <<priorities, inFlight, total, done>>
      BY <2>3 DEF NudgeAll, Register, WaitTimesOut, Ask, queue
    <3>2. QED
      BY <1>1, <3>1
  <2>4. QED
    BY <1>3, <2>1, <2>2, <2>3 DEF AskerNext, AskerStarts
<1>4. ASSUME NEW c \in Comics,
             FileChanges(c) \/ ComicDeleted(c) \/ SetCover(c) \/ DeleteCover(c) \/ NegativeExpires(c)
      PROVE  CountedWorkIsDone'
  <2>1. UNCHANGED <<priorities, inFlight, total, done>>
    BY <1>4 DEF FileChanges, ComicDeleted, SetCover, DeleteCover, NegativeExpires, Change
  <2>2. QED
    BY <1>1, <2>1
<1>5. CASE UNCHANGED vars
  BY <1>1, <1>5 DEF vars
<1>6. QED
  BY <1>2, <1>3, <1>4, <1>5 DEF Next

LEMMA InitCounts == Init => CountedWorkIsDone
<1> SUFFICES ASSUME Init PROVE CountedWorkIsDone
  OBVIOUS
<1>1. total = 0 /\ done = 0 /\ QueueTypeOK
  BY InitTypes DEF Init, Types
<1>2. QED
  BY <1>1, BusyFinite DEF CountedWorkIsDone, Busy

\* Each comic that the progress total counts is queued, in progress or counted
\* as done.
THEOREM SpecCountedWorkIsDone == Spec => []CountedWorkIsDone
<1>1. Init => Types /\ Coherent /\ CountedWorkIsDone
  BY InitTypes, InitCoherent, InitCounts
<1>2. Types /\ Coherent /\ CountedWorkIsDone /\ [Next]_vars => Types' /\ Coherent' /\ CountedWorkIsDone'
  BY NextTypes, NextCoherent, NextCounts
<1>3. QED
  BY <1>1, <1>2, PTL DEF Spec
=============================================================================
