CONSTANTS
  idle = idle
  sbush = sbush
  t1 = t1
  t2 = t2
  t3 = t3
  NULL = NULL
  RunHead = RunHead
  WaitHead = WaitHead
  Task <- MCTask4
  SleepArgs <- MCSleepTwo
  NR_TASKS = 3
  PidMod = 5
  MaxPid = 5
SPECIFICATION FairSpec
PROPERTIES EventuallyRuns WalkEnds SleepEndsInCompany
