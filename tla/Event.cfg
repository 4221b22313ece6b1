\* Two tasks read one event in every mode while handlers write, clear and suspend.
SPECIFICATION EventSpec
CONSTANTS
  t1 = t1
  t2 = t2
  t3 = t3
  idle = idle
  dummy = dummy
  free = free
  recycle = recycle
  e1 = e1
  null = null
  Task = {t1, t2, idle}
  TcbOrder <- TwoOrder
  Idle = idle
  SwtmrTask = null
  Dummy = dummy
  Lowest = 1
  Free = free
  Recycle = recycle
  Obj = {e1}
  QueueObj = {}
  Null = null
  Timeouts = {1}
  Slice = 0
  AppPrio = {0}
  Attr = {{"DETACHED"}}
  MaxLock = 1
  Calls = {"Pend", "Wake", "Suspend", "Delete", "EventInit", "EventClear"}
  IsrCalls = {"Wake", "Resume", "EventDestory", "EventClear"}
  Permits = {}
  Bit = {0, 1}
INVARIANTS NoMissedEvent WokenFindsBits WaitConsistent
