SPECIFICATION Spec
CONSTANTS
  p = p
  q = q
  i1 = i1
  i2 = i2
  i3 = i3
  i4 = i4
  None = None
  Paths = {p, q}
  Inodes = {i1, i2, i3, i4}
  Finders = {"sep", "fixed"}
  Holds <- MCHolds
  Pids = {0}
  PerProcess = 1
  Sources <- MCSources
  MaxHandles = 2
  MaxIndex = 2
  SavePaths = {p}
SYMMETRY Symmetry
INVARIANTS TypeOK CountsAreTheReaders AnswerIsItsOwn TotalIsOfAllFiles
PROPERTIES SavedIsThere
