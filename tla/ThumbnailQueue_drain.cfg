SPECIFICATION FairSpec
CONSTANTS
    Comics = {c1, c2}
    Workers = {w1, w2}
    Askers = {k1}
    MaxAsks = 2
    MaxChanges = 0
    NoCover = NoCover
    NoComic = NoComic
    NoPriority = NoPriority
    Page = Page
CHECK_DEADLOCK FALSE
PROPERTIES
    AwakeWorkerDrains
