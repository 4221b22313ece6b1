\* Three tasks, waits of a part of a turn, whole turns and both, on a wheel of four lists.
SPECIFICATION Spec
CONSTANTS
  t1 = t1
  t2 = t2
  t3 = t3
  Task = {t1, t2, t3}
  Timeouts = {1, 4, 5, 8, 15}
  SlotCount = 4
  RollSpan = 4
INVARIANTS TypeOK
PROPERTIES ImplementsDelayList
