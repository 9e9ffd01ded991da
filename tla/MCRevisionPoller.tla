--------------------------- MODULE MCRevisionPoller ---------------------------
(* Instance for TLC: the generation grows with the commits, which are bounded.  *)
EXTENDS RevisionPoller

=============================================================================
