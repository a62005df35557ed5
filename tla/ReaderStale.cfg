SPECIFICATION Spec
CONSTANTS
  Refused = Refused
  Files <- MCFiles
  MaxIndex = 8
  MaxCount = 3
  PastTheEnd = TRUE
INVARIANTS RecordIsTrue
