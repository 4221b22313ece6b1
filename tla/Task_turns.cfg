\* Tasks of one priority take turns and delays end, whatever tasks and interrupts do meanwhile.
SPECIFICATION FairSpec
CONSTANTS
  t1 = t1
  t2 = t2
  t3 = t3
  idle = idle
  swtmr = swtmr
  dummy = dummy
  free = free
  recycle = recycle
  sem = sem
  queue = queue
  null = null
  Task = {t1, t2, idle}
  TcbOrder <- TwoOrder
  Idle = idle
  SwtmrTask = null
  Dummy = dummy
  Lowest = 1
  Free = free
  Recycle = recycle
  Obj = {queue}
  QueueObj = {queue}
  Null = null
  Timeouts = {1, 2}
  Slice = 2
  AppPrio = {0}
  Attr = {{}, {"DETACHED"}}
  MaxLock = 1
  Calls = {"Yield", "Exit", "Delay", "Pend", "Suspend", "Lock"}
  IsrCalls = {"Wake", "Resume"}
  Permits = {}
INVARIANTS TypeOK
PROPERTIES Rotation DelayEnds
CHECK_DEADLOCK FALSE
