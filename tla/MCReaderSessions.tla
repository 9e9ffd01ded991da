-------------------------- MODULE MCReaderSessions --------------------------
\* Two comics, two locations and three concurrent calls, with a cap of one
\* session so that the store exceeds it.
EXTENDS ReaderSessions, TLC

Symmetry == Permutations(Comics) \cup Permutations(Paths) \cup Permutations(Callers)
=============================================================================
