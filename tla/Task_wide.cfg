\* Interrupts make every call and nest inside the tick; the unusual situations too.
SPECIFICATION Spec
CONSTANTS
  t1 = t1
  t2 = t2
  t3 = t3
  idle = idle
  swtmr = swtmr
  dummy = dummy
  free = free
  recycle = recycle
  sem = sem
  queue = queue
  null = null
  Task = {t1, t2, idle}
  TcbOrder <- TwoOrder
  Idle = idle
  SwtmrTask = null
  Dummy = dummy
  Lowest = 1
  Free = free
  Recycle = recycle
  Obj = {sem}
  QueueObj = {}
  Null = null
  Timeouts = {1}
  Slice = 0
  AppPrio = {0}
  Attr = {{}, {"DETACHED"}}
  MaxLock = 1
  Calls = {"Create", "Exit", "Delay", "Yield", "Pend"}
  IsrCalls = {"Create", "Resume", "Suspend", "Delete", "Wake"}
  Permits <- PermitNames
INVARIANTS ListsConsistent
CHECK_DEADLOCK FALSE
