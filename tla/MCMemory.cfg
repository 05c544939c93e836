CONSTANTS
  sbush = sbush
  t1 = t1
  t2 = t2
  heap = heap
  NoPage = NoPage
  PageZero = PageZero
  Task <- MCTask
  VPage <- MCOnePage
  LowPage = {}
  Val <- MCVal
  zero = 0
  Unaligned <- MCAligned
  TS = 2
  TableFrames <- MCTableFrames
  WalkFrames <- MCWalkFrames
  MAX_MEM = 13
  physfree = 4000
  WP = TRUE
SPECIFICATION Spec
SYMMETRY TaskSymmetry
INVARIANTS WritablePrivate RefCntCovers TaskStructsPrivate
 
CHECK_DEADLOCK FALSE
