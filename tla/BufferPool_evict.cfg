\* Two threads with two calls each, or one with six, more pages than slots:
\* eviction, write-back, a failing read and invalidation, which can deadlock
\* with a miss (BufferPool_lockorder).
SPECIFICATION Spec
CONSTANTS
  Threads = {t1, t2}
  Pages = {p1, p2, p3, p4}
  Unreadable = {p4}
  PoolSize = 2
  Calls = {"touch", "update", "pin", "invalidate", "flush_all", "flush_dirty"}
  MaxBatch = 1
  MaxCalls = 6
  Nobody = Nobody
  NoSlot = NoSlot
  NoPage = NoPage
SYMMETRY Symmetry
CONSTRAINT LongAloneOrShort
PROPERTIES
  PinnedVictimOnlyWhenFull
  WriteBackBeforeReuse
  NoUpdateLost
CHECK_DEADLOCK FALSE
