SPECIFICATION Spec
CHECK_DEADLOCK FALSE
CONSTANTS
  MaxLinks = 1
  Urls = {a, b}
  Images = {i, j}
  Calls = {c1, c2, c3}
  MaxVersion = 4
  MaxHarm = 1
  MaxNews = 1
SYMMETRY Alike
INVARIANTS ServedImageIsOfLink RowNamesItsFile OrphansAreExplained
