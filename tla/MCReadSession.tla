---------------------------- MODULE MCReadSession -----------------------------
(* Two comics at one location, two calls and two exits. Every set of model       *)
(* values is symmetric.                                                           *)
EXTENDS ReadSession, TLC

Alike == Permutations(Comics) \cup Permutations(Callers) \cup Permutations(Exits)
===============================================================================
