CONSTANTS
  t1 = t1
  t2 = t2
  Task <- MCTask
  first = t1
  Archives <- MCArchives
  BLOCK = 2
  MAX_BIN = 8
  NFD = 2
  MaxRef = 2
  Names <- MCNames
  Home <- MCHome
  Garbage <- MCGarbage
SPECIFICATION Spec
CONSTRAINT OneWanders
INVARIANTS
  IndexExact
  ListingExact
  
  RefCntExact
CHECK_DEADLOCK FALSE
