---------------------------- MODULE MCAuthorImages ----------------------------
(* Symmetry of calls, of urls and of images.                                     *)
EXTENDS AuthorImages, TLC

Alike == Permutations(Calls) \cup Permutations(Images) \cup Permutations(Urls)
=============================================================================
