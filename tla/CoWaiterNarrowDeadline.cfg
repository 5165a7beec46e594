SPECIFICATION FairWaiters
CONSTANTS
  c1 = c1
  e1 = e1
  p1 = p1
  Waiters = {c1}
  Events = {e1}
  Payloads = {p1}
  NoEvent = NoEvent
  NoCo = NoCo
  Empty = Empty
  Calls <- NarrowCall
PROPERTIES DeadlineReturns
CHECK_DEADLOCK FALSE
