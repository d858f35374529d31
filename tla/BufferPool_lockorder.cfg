\* Expected violation: a fetch that misses meets an invalidation.
SPECIFICATION Spec
CONSTANTS
  Threads = {t1, t2}
  Pages = {p1, p2}
  Unreadable = {}
  PoolSize = 2
  Calls = {"read", "invalidate"}
  MaxBatch = 1
  MaxCalls = 2
  Nobody = Nobody
  NoSlot = NoSlot
  NoPage = NoPage
INVARIANTS
  NoLockOrderCycle
CHECK_DEADLOCK FALSE
