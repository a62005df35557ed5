SPECIFICATION Spec
CONSTANTS
  Writers = {w1, w2}
  Readers = {r1, r2}
  Inodes = {i1, i2, i3, i4}
  None = None
  Modes = {"copy"}
  MaxPublished = 3
  MaxFaults = 2
SYMMETRY Symmetry
INVARIANTS NoLostUpdate TargetWhole
PROPERTIES ReaderKeepsItsFile NamesAreOurs AtomicUpdate
