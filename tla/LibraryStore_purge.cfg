SPECIFICATION FairSpec
CONSTANTS
    Comics = {c1, c2}
    Titles <- MCTitles
    Decoded <- MCDecoded
    Blank = " "
    Sizes <- MCSizes
    Resources <- MCResourcesOne
    Tasks = {t1, t2}
    Readers = {}
    MaxWork = 3
    MaxDisk = 1
    MaxEdits = 0
    MaxReads = 2
    MaxCrashes = 1
    NoFile = NoFile
    NoRow = NoRow
    NoMeta = NoMeta
    NoCopy = NoCopy
    NoComic = NoComic
    NoTitle = NoTitle
CHECK_DEADLOCK FALSE
INVARIANTS
    PurgeTargetsInTrash
PROPERTIES
    LockImplemented
    LockReleased
