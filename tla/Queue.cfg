\* Two tasks read, write and allocate through a queue shorter than its pool.
SPECIFICATION QueueSpec
CONSTANTS
  t1 = t1
  t2 = t2
  t3 = t3
  idle = idle
  dummy = dummy
  free = free
  recycle = recycle
  q1 = q1
  read1 = read1
  write1 = write1
  mem1 = mem1
  b1 = b1
  b2 = b2
  b3 = b3
  null = null
  Task = {t1, t2, idle}
  TcbOrder <- TwoOrder
  Idle = idle
  SwtmrTask = null
  Dummy = dummy
  Lowest = 2
  Free = free
  Recycle = recycle
  Obj = {read1, write1, mem1}
  QueueObj = {read1, write1, mem1}
  Null = null
  Timeouts = {1}
  Slice = 0
  AppPrio = {0, 1}
  Attr = {{"DETACHED"}}
  MaxLock = 1
  Calls = {"Pend", "Wake", "QueueCreate"}
  IsrCalls = {"Wake", "QueueDelete"}
  Permits = {}
  QueueOrder <- OneQueue
  QueueLen = 2
  ReadList <- Readers
  WriteList <- Writers
  MemList <- Allocs
  BoxOrder <- ThreeBoxes
INVARIANTS NodesCounted NoIdleNode WokenFindsQueue BlocksOnce
PROPERTIES ImplementsFifo
