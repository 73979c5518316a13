CONSTANTS
  queue_size_ = 4
  Vals = {1, 2, 3}
  None = None
  Full = Full
  Empty = Empty
  stack_size_ = 4
  SizeMod = 16
  Overflow = Overflow
  Underflow = Underflow
  Junk = Junk
  BufferSizes = {0, 1}
  MaxLen = 4
  Throws = Throws
  Lists = {l1, l2}
  MaxNodes = 3
  Sizes = {0, 1, 2}
  Keys = {k1, k2, k3}
  CacheItems = {1, 2}
  MaxInserts = 5
  Objects = {o1, o2, o3}
  Blocks = {b1, b2, b3, b4}
  Null = Null
  Callers = {t1, t2, t3}
  NoThread = NoThread
  MaxLength = 10
  SortVals = {0, 1}
SPECIFICATION AllSpec
CHECK_DEADLOCK FALSE
INVARIANTS TypeOK ArrayWrittenInside ListWellLinked ListOnlyUnionBreaks CacheIteratorsValid
  BlocksHaveOneOwner SingletonIsOne ArraySorted
PROPERTIES IsFifo StackIsLifo HeapIsPriorityQueue CachesAreLru
