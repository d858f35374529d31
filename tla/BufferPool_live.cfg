\* Two threads, one slot: every call returns when nobody invalidates.
SPECIFICATION FairSpec
CONSTANTS
  Threads = {t1, t2}
  Pages = {p1, p2}
  Unreadable = {}
  PoolSize = 1
  Calls = {"read", "update", "flush_dirty"}
  MaxBatch = 1
  MaxCalls = 2
  Nobody = Nobody
  NoSlot = NoSlot
  NoPage = NoPage
PROPERTIES
  CallsReturn
