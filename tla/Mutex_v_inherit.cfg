\* Two tasks of different priorities and two mutexes, nested.
SPECIFICATION MuxSpec
CONSTANTS
  t1 = t1
  t2 = t2
  t3 = t3
  idle = idle
  dummy = dummy
  free = free
  recycle = recycle
  m1 = m1
  m2 = m2
  null = null
  Task = {t1, t2, idle}
  TcbOrder <- TwoOrder
  Idle = idle
  SwtmrTask = null
  Dummy = dummy
  Lowest = 2
  Free = free
  Recycle = recycle
  Obj = {m1, m2}
  QueueObj = {}
  Null = null
  Timeouts = {}
  Slice = 0
  AppPrio = {0, 1}
  Attr = {{"DETACHED"}}
  MaxLock = 1
  Calls = {"Pend", "Wake", "MuxCreate"}
  IsrCalls = {"Resume"}
  Permits = {}
  MuxOrder <- TwoMuxes
  MaxNest = 1
  LastFirst = TRUE
INVARIANTS OwnerInherits
