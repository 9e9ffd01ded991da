SPECIFICATION SeriesSpec
CONSTANTS
  MaxVolume = 3
  Folders = {f, g, h}
  Names = {n}
  Orders <- Typed
  Unit = 1
  MaxMoves = 2
  MaxEdits = 2
SYMMETRY Alike
INVARIANTS SeriesMirrorComics
PROPERTIES LockedOrderKept NameMovesAlong OrderTakes
