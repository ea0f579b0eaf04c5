SPECIFICATION Spec
CONSTANTS
  Transaction = {x1, x2, x3, x4}
  Slot = {s1, s2}
  None = None
SYMMETRY Symmetry
INVARIANTS TypeOK OneEntryEach EntriesCanGo
PROPERTY DrainedIsDone
