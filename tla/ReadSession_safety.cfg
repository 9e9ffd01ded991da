SPECIFICATION FlowSpec
CONSTANTS
  Comics = {c1, c2}
  Paths = {p1}
  Callers = {t1, t2}
  Exits = {e1, e2}
  MaxOthers = 1
  MaxVisits = 3
  MaxSessions = 1
  MaxOpens = 4
  DbMayFail = FALSE
  NoSession = NoSession
  NoArg = NoArg
SYMMETRY Alike
INVARIANTS SessionsAreOwned OpenedHasSession
CHECK_DEADLOCK FALSE
