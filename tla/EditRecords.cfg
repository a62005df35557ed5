SPECIFICATION Spec
CONSTANTS
  a = a
  b = b
  None = None
  Ids = {a, b}
  Operations = {"records", "truncate"}
  Files <- MCFiles
  Inputs <- Nothing
  Data <- MCData
  Counts = {1, 2}
  MaxSize = 6
INVARIANTS UniformFile AddressedByDivision CacheIsTrue InterruptedAppendKeeps
PROPERTIES EditsAreAtomic
