----------------------------- MODULE MCPageCache -----------------------------
(* Two pages, and a window of the second or of both.                             *)
EXTENDS PageCache, TLC

Pages == {0, 1}
Windows == {<<1>>, <<0, 1>>}
Alike == Permutations(Prefetches)
=============================================================================
