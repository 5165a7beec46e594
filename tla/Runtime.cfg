SPECIFICATION Spec
CONSTANTS
  t1 = t1
  t2 = t2
  w1 = w1
  w2 = w2
  w3 = w3
  w4 = w4
  c1 = c1
  c2 = c2
  c3 = c3
  e1 = e1
  e2 = e2
  p1 = p1
  Controls = {t1, t2}
  Givers = {t1}
  MaxGeneration = 2
  MaxTasks = 1
  Workers = {w1, w2, w3, w4}
  Callers = {t1}
  Loop = Loop
  None = None
  MinNum = 1
  MaxNum = 2
  InitialNum = 1
  Step = 1
  Samples = 1
  kMaxOutstandingRetire = 1
  MaxThrows = 1
  Lockers = {c1, c2, c3}
  Dead = Dead
  Cancellable = {c1}
  MaxLockQueue = 2
  Waiters = {c1}
  Events = {e1, e2}
  Payloads = {}
  NoEvent = NoEvent
  NoCo = NoCo
  Empty = Empty
  Calls <- TimedCalls
INVARIANTS DriverSafe ScalingSafe MutexSafe
PROPERTIES DriverReturns RetiredJoined MutexProgress WaiterReturns
CHECK_DEADLOCK FALSE
