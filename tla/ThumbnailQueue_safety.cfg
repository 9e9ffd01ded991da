SPECIFICATION Spec
CONSTANTS
    Comics = {c1, c2}
    Workers = {w1, w2}
    Askers = {k1, k2}
    MaxAsks = 2
    MaxChanges = 1
    NoCover = NoCover
    NoComic = NoComic
    NoPriority = NoPriority
    Page = Page
CHECK_DEADLOCK FALSE
SYMMETRY Symmetry
INVARIANTS
    QueueCoherent
    CurrentCoverIsTrue
    UserCoverKept
    CountedWorkIsDone
