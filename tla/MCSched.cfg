CONSTANTS
  idle = idle
  sbush = sbush
  t1 = t1
  t2 = t2
  t3 = t3
  NULL = NULL
  RunHead = RunHead
  WaitHead = WaitHead
  Task <- MCTask
  SleepArgs <- MCSleepArgs
  NR_TASKS = 4
  PidMod = 65536
  MaxPid = 5
SPECIFICATION Spec
SYMMETRY Symmetry
INVARIANTS QueuedOnce NumTaskExact IdleRunnable PidsUnique
PROPERTIES OnlyCurrentDies ScanPinsCurrent NoLostWakeup 
