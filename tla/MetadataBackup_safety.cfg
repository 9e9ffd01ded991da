SPECIFICATION Spec
CHECK_DEADLOCK FALSE
CONSTANTS
  Rels = {x, y}
  Roots = {r, s}
  First = r
  Tags = {t, u}
  Authors = {a}
  Lists <- Singles
  Found <- FirstNamed
  Patches <- TagPatches
  Options = {TRUE}
  MaxEdits = 1
  MaxLocked = 2
  MaxScans = 1
  MaxExports = 1
  MaxSteps = 4
SYMMETRY Alike
INVARIANTS PatchRevivesNothing LinksOnce
PROPERTIES PatchDoesWhatItSays RoundTrip
