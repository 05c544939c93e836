CONSTANTS
  idle = idle
  sbush = sbush
  t1 = t1
  t2 = t2
  t3 = t3
  NULL = NULL
  RunHead = RunHead
  WaitHead = WaitHead
  Task <- MCTask4
  SleepArgs <- MCSleepOne
  NR_TASKS = 4
  PidMod = 65536
  MaxPid = 3
SPECIFICATION FairSpec
PROPERTIES AwakeReturns
