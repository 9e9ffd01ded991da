SPECIFICATION Spec
CHECK_DEADLOCK FALSE
CONSTANTS
  Page <- Pages
  Window <- Windows
  Prefetches = {p1, p2}
  Loads = {l1}
  MaxVersion = 2
  MaxGen = 2
  MaxStuck = 1
  MaxVisits = 2
SYMMETRY Alike
INVARIANTS LeftBehindBounded AtMostOneMore PagesOfTheirVersion
