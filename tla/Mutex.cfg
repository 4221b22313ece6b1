\* Two tasks take two mutexes, nested and more than once, with limits that expire.
SPECIFICATION MuxSpec
CONSTANTS
  t1 = t1
  t2 = t2
  t3 = t3
  idle = idle
  dummy = dummy
  free = free
  recycle = recycle
  m1 = m1
  m2 = m2
  null = null
  Task = {t1, t2, idle}
  TcbOrder <- TwoOrder
  Idle = idle
  SwtmrTask = null
  Dummy = dummy
  Lowest = 2
  Free = free
  Recycle = recycle
  Obj = {m1, m2}
  QueueObj = {}
  Null = null
  Timeouts = {1}
  Slice = 0
  AppPrio = {0, 1}
  Attr = {{"DETACHED"}}
  MaxLock = 1
  Calls = {"Pend", "Wake", "MuxCreate"}
  IsrCalls = {"Resume", "MuxDelete"}
  Permits = {}
  MuxOrder <- TwoMuxes
  MaxNest = 2
  LastFirst = TRUE
INVARIANTS OwnersKnow WaitersHaveOwner BoostEnds
