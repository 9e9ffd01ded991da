SPECIFICATION Spec
CONSTANTS
    Comics = {c1, c2}
    Paths = {p1, p2}
    Callers = {t1, t2, t3}
    MaxSessions = 1
    MaxOpens = 2
    DbMayFail = TRUE
    NoSession = NoSession
    NoArg = NoArg
SYMMETRY Symmetry
INVARIANTS
    NoIdleSession
    StoreCoherent
PROPERTIES
    PathPinnedWhileInUse
