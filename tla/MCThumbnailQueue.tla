-------------------------- MODULE MCThumbnailQueue --------------------------
\* Comics and concurrent calls are interchangeable, and so are the workers.
EXTENDS ThumbnailQueue, TLC

Symmetry == Permutations(Comics) \cup Permutations(Workers) \cup Permutations(Askers)
=============================================================================
