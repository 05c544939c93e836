CONSTANTS
  t1 = t1
  t2 = t2
  f1 = f1
  p1 = p1
  a = a
  b = b
  first = t1
  NUL = NUL
  Start <- MCStart
  Size <- MCSize
  Buffer <- MCBuffer
  Unused = TRUE
  PIPE = 4
  NFD = 5
  Counts = {2}
  Chunks <- StaleTail
  Seeks = {0, 2}
  MaxSeek = 2
  Dups <- PipeDups
  File <- MCFile
  Pipe <- MCPipe
  Task <- MCTask
  INITIAL_MEM = 8
SPECIFICATION Spec
CONSTRAINT FilesOrPipe
INVARIANTS
  ClosedReadsNothing
  
  
CHECK_DEADLOCK FALSE
