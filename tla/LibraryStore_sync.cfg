SPECIFICATION Spec
CONSTANTS
    Comics = {c1, c2}
    Titles <- MCTitles
    Decoded <- MCDecoded
    Blank = " "
    Sizes <- MCSizes
    Resources <- MCResourcesEmpty
    Tasks = {t1}
    Readers = {w1}
    MaxWork = 2
    MaxDisk = 1
    MaxEdits = 1
    MaxReads = 1
    MaxCrashes = 0
    NoFile = NoFile
    NoRow = NoRow
    NoMeta = NoMeta
    NoCopy = NoCopy
    NoComic = NoComic
    NoTitle = NoTitle
CHECK_DEADLOCK FALSE
SYMMETRY Symmetry
INVARIANTS
    UnracedTitleKept
PROPERTIES
    SyncMirrorsDisk
    TrashedUntilRestored
    MovedComicKept
