SPECIFICATION Spec
CONSTANTS
  INT = 128
  U64 = 1024
  Ints <- MCInts
  BUF = 6
  intSize = 4
  Stray <- MCStray
  Field = 3
INVARIANTS
  PrintedExact
  
