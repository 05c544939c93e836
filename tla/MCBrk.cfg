CONSTANTS
  t1 = t1
  t2 = t2
  Task <- MCTask
  first = t1
  PAGE = 4
  W = 64
  BUMP_PTR = 16
  END_LIMIT = 8
  MaxBreak = 29
  Sizes <- MCSizes
SPECIFICATION Spec
INVARIANTS
  EndAligned
  BrkKeepsData
  RemIsBacked
