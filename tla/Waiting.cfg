\* The detector: every loop-free wait-for graph over four transactions, every order
\* of keys and of blockers.  The latch: a task that spins, two on the latch, two on
\* the condition variable; it is set up to three times and unset up to twice.
\* Notifications: two senders with two each, queues of one, two receivers of which
\* one may stop reading.
SPECIFICATION WaitingSpec
CONSTANTS
  Xids = {x1, x2, x3, x4}
  Running = Running
  NoCycle = NoCycle
  Spinners = {p1}
  LatchWaiters = {l1, l2}
  CvWaiters = {v1, v2}
  Setters = {s1}
  MaxSets = 3
  MaxUnsets = 2
  Senders = {n1, n2}
  Receivers = {r1, r2}
  MayStop = {r1}
  QueueSize = 1
  MaxNotify = 2
INVARIANTS
  SearchExact
  NotifyInOrder
PROPERTIES
  SearchEnds
  SignalNotLost
  ParkedReturn
  NotifyReturns
