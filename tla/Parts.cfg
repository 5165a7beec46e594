SPECIFICATION PartsSpec
CONSTANTS
  c1 = c1
  c2 = c2
  c3 = c3
  e1 = e1
  e2 = e2
  p1 = p1
  g1 = g1
  g2 = g2
  g3 = g3
  m1 = m1
  m2 = m2
  n1 = n1
  n2 = n2
  Waiters = {c1, c2}
  Events = {e1, e2}
  Payloads = {p1}
  NoEvent = NoEvent
  NoCo = NoCo
  Empty = Empty
  Calls <- MixedCalls
  Coroutines = {c1, c2, c3}
  Dead = Dead
  Operations = {"RLock", "WLock", "TryRLock(ms)", "TryWLock(ms)"}
  MaxQueue = 3
  CondCos = {c1, c2, c3}
  Notifiers = {n1, n2}
  Gone = Gone
  MaxCondQueue = 3
  Guards = {g1, g2, g3}
  Locks = {m1, m2}
  NoLock = NoLock
  Side <- MCSide
  PayloadTypes <- MCPayloadTypes
SYMMETRY MCSymmetry
INVARIANTS
  WaiterSafe LockConsistent UntimedNotStranded CondAllReached GuardBalance ReadAsWritten
PROPERTIES WriterPreference
CHECK_DEADLOCK FALSE
