SPECIFICATION Spec
CONSTANTS
  LocalRoot <- LocalRoots
  RemoteRoot <- RemoteRoots
  File <- Files
  Format <- Formats
  FormatOf <- Archives
  MaxChanges = 2
  MaxLibraries = 2
  MaxEdited = 1
CONSTRAINT Scenes
INVARIANTS RootsDisjoint ComicsHaveLibrary
PROPERTIES RemovesOnlyMissing EditsKept RootUpdateKeepsComics SyncKeepsToItsOwn
