SPECIFICATION FairSpec
CONSTANTS
  Refused = Refused
  Files <- MCFiles
  MaxIndex = 8
  MaxCount = 3
  PastTheEnd = FALSE
INVARIANTS WindowIsNoted RecordIsTrue RangeIsTrue TotalIsTrue
PROPERTIES IteratorIsAQueue BackReturns
