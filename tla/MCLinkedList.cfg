CONSTANTS
  n1 = n1
  n2 = n2
  n3 = n3
  n4 = n4
  runQueue = runQueue
  waitQueue = waitQueue
  NULL = NULL
  Node <- MCNode
  Heads <- MCHeads
SPECIFICATION Spec
INVARIANTS Rings ReadsAgree
