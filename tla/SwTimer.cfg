\* Two timers, as in the smallest configuration, used by interrupt handlers and by the timers' own.
SPECIFICATION SwTimerFairSpec
CONSTANTS
  swtmr = swtmr
  idle = idle
  dummy = dummy
  free = free
  recycle = recycle
  q1 = q1
  read1 = read1
  write1 = write1
  mem1 = mem1
  b1 = b1
  b2 = b2
  null = null
  Task = {swtmr, idle}
  TcbOrder <- NoOrder
  Idle = idle
  SwtmrTask = swtmr
  Dummy = dummy
  Lowest = 2
  Free = free
  Recycle = recycle
  Obj = {read1, write1, mem1}
  QueueObj = {read1, write1, mem1}
  Null = null
  Timeouts = {1}
  Slice = 0
  AppPrio = {1}
  Attr = {{"DETACHED"}}
  MaxLock = 1
  Calls = {"Pend", "Wake", "SwtmrCreate", "SwtmrStart", "SwtmrStop", "SwtmrDelete"}
  IsrCalls = {"Wake", "SwtmrCreate", "SwtmrStart", "SwtmrStop", "SwtmrDelete"}
  Permits = {}
  QueueOrder <- OneQueue
  QueueLen = 2
  ReadList <- Readers
  WriteList <- Writers
  MemList <- Allocs
  BoxOrder <- TwoBoxes
  Limit = 2
  MaxId = 4
  Settings <- OnceOrPeriod
INVARIANTS TimersConsistent PoolCoversQueue IdsNameBlocks
PROPERTIES ImplementsTimers HandlerFollows
