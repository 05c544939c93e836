CONSTANTS
  t1 = t1
  t2 = t2
  Task <- MCTask
  first = t1
  GPR <- MCGPR
  Val <- MCVal
  Results <- MCResults
  ReturnAddr = 2
  Entry = 3
  UserState <- MCUserState
SPECIFICATION Spec
INVARIANTS RegistersRestored 
