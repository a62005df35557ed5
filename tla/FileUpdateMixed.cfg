SPECIFICATION FairSpec
CONSTANTS
  Writers = {w1, w2}
  Readers = {r1}
  Inodes = {i1, i2, i3}
  None = None
  Modes = {"copy", "inplace"}
  MaxPublished = 2
  MaxFaults = 2
INVARIANTS IInv
PROPERTIES LockReleased
