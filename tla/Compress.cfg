SPECIFICATION FairSpec
CONSTANTS
  Inputs <- MCInputs
  FrameSizes = {1, 2, 4}
  Multipliers = {1, 2}
  Givens <- MCGivens
  ReadSize = 3
  UsizeMax = 15
INVARIANTS NothingLost UniformOutput FrameTarget DrainIsIdle InspectIsTrue
PROPERTIES RetryEnds
CHECK_DEADLOCK FALSE
