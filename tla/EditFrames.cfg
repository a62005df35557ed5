SPECIFICATION Spec
CONSTANTS
  a = a
  b = b
  None = None
  Ids = {a, b}
  Operations = {"frames", "truncate", "copy"}
  Files <- MCFiles
  Inputs <- UniformInputs
  Data <- Nothing
  Counts = {}
  MaxSize = 7
INVARIANTS EditInv
PROPERTIES EditsAreAtomic CopyIsTheRange
