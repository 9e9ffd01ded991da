---------------------------- MODULE MCFolderSeries ----------------------------
(* Whole sort orders only: the gap between two neighbours has no room at all,   *)
(* where the code's floating point numbers leave room for some fifty halvings.  *)
EXTENDS FolderSeries, TLC

Typed == {1, 3}
Alike == Permutations(Folders)
=============================================================================
