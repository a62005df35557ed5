SPECIFICATION FairSpec
CONSTANTS
  Refused = Refused
  Inputs <- MCInputs
  BufSize = 2
  MaxSkip = 3
  MaxLeft = 3
INVARIANTS GrowthIsBounded
PROPERTIES ImplementsLookup CallsReturn
CHECK_DEADLOCK FALSE
