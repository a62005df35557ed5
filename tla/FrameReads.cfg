SPECIFICATION Spec
CONSTANTS
  Refused = Refused
  Inputs <- MCInputs
  BufSize = 2
  Limit = 3
  Kinds <- AllKinds
  MaxIndex = 6
  MaxCount = 5
INVARIANTS IntactIsRead WalkedIsEven NoRecordCrossesAFrame
