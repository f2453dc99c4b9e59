SPECIFICATION Spec
CONSTANTS
  t1 = t1
  t2 = t2
  b1 = b1
  b2 = b2
  s1 = s1
  s2 = s2
  Nobody = Nobody
  Main = t1
  Threads = {t1, t2}
  Blocks = {b1, b2}
  Slots = {s1, s2}
  InitialBlocks = 1
  CheckEvery = 0
  MinPercentFree = 1
  MaxRoots <- Roots
  MaxPinned = 1
CHECK_DEADLOCK FALSE
SYMMETRY CellSymmetry
INVARIANTS NoDanglingReference FreeListsAgree
PROPERTIES MarksWhatIsReachable
