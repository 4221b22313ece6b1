\* As Heap.cfg; blocks of LOS_MemAllocAlign are given to LOS_MemRealloc too.
SPECIFICATION HeapSpec
CONSTANTS
  null = null
  Null = null
  First = 3
  Pool = 35
  Head_ = 4
  MinLog = 2
  MaxLog = 5
  Sizes = {1, 3, 5, 8, 12}
  Boundaries = {2, 4}
  ReallocAligned = TRUE
INVARIANTS DataKept
