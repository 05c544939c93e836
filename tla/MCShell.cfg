CONSTANTS
  sbush = sbush
  c1 = c1
  c2 = c2
  f1 = f1
  p1 = p1
  p2 = p2
  a = a
  b = b
  prog = prog
  first = sbush
  NUL = NUL
  Missing = Missing
  Null = Null
  Task <- MCTask
  File <- MCFile
  Pipe <- MCPipe
  Start <- MCStart
  Size <- MCSize
  Buffer <- MCBuffer
  Chunks <- MCChunks
  Program <- MCProgram
  Lines <- MCLines
  Script <- MCScript
  Unused = TRUE
  INITIAL_MEM = 8
  PIPE = 5
  NFD = 7
  MaxBack = 1
  Counts = {1}
  Seeks = {0}
  MaxSeek = 0
  Dups = {}
SPECIFICATION ShellSpec
INVARIANTS
  PipelineDelivers
  OnlyLastOnScreen
  PromptAfterForeground

  
CHECK_DEADLOCK FALSE
