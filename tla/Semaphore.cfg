\* Three tasks wait, with and without limit, and suspend each other while handlers post.
SPECIFICATION SemSpec
CONSTANTS
  t1 = t1
  t2 = t2
  t3 = t3
  idle = idle
  dummy = dummy
  free = free
  recycle = recycle
  s1 = s1
  s2 = s2
  null = null
  Task = {t1, t2, t3, idle}
  TcbOrder <- ThreeOrder
  Idle = idle
  SwtmrTask = null
  Dummy = dummy
  Lowest = 1
  Free = free
  Recycle = recycle
  Obj = {s1}
  QueueObj = {}
  Null = null
  Timeouts = {1}
  Slice = 0
  AppPrio = {0}
  Attr = {{"DETACHED"}}
  MaxLock = 1
  Calls = {"Pend", "Wake", "Suspend", "SemCreate"}
  IsrCalls = {"Wake", "Resume", "SemDelete"}
  Permits = {}
  SemOrder <- OneSem
  CountMax = 2
INVARIANTS SemTypeOK ResultHonest NoIdleUnit
PROPERTIES EveryWaiterServed
