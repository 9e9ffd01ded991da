------------------------------ MODULE WriteLock ------------------------------
(***************************************************************************)
(* What library_write.rs promises to the operations that change many       *)
(* comics: at most one of them at a time, nobody waits, and the lock is    *)
(* given back however the one that has it ends.  LibraryStore implements   *)
(* this with an atomic flag, guards that are dropped, and crashes.         *)
(***************************************************************************)
CONSTANT Tasks

VARIABLES
  taken,    \* what the next operation is told
  holders   \* the operations that have the lock

vars == <<taken, holders>>

Init == taken = FALSE /\ holders = {}

\* An acquisition that finds the lock taken fails, which changes nothing.
Acquire(t) ==
  /\ ~ taken /\ holders = {}
  /\ taken' = TRUE /\ holders' = {t}

Release(t) ==
  /\ holders = {t}
  /\ taken' = FALSE /\ holders' = {}

Next == \E t \in Tasks : Acquire(t) \/ Release(t)

Spec == Init /\ [][Next]_vars

\* The lock does not stay taken.
Released == taken ~> ~ taken
=============================================================================
