\* Two application tasks, every call in tasks; interrupts wake and resume.
SPECIFICATION Spec
CONSTANTS
  t1 = t1
  t2 = t2
  t3 = t3
  idle = idle
  swtmr = swtmr
  dummy = dummy
  free = free
  recycle = recycle
  sem = sem
  queue = queue
  null = null
  Task = {t1, t2, idle}
  TcbOrder <- TwoOrder
  Idle = idle
  SwtmrTask = null
  Dummy = dummy
  Lowest = 2
  Free = free
  Recycle = recycle
  Obj = {sem}
  QueueObj = {}
  Null = null
  Timeouts = {1, 2}
  Slice = 0
  AppPrio = {0, 1}
  Attr = {{}, {"DETACHED"}}
  MaxLock = 1
  Calls <- AllCalls
  IsrCalls = {"Wake", "Resume"}
  Permits = {}
INVARIANTS ListsConsistent WaitConsistent RunsHighest StackInUse NoCrash
PROPERTIES NoSwitchWhileLocked SwitchesToReady KeepsDelayList
