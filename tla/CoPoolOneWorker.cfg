SPECIFICATION FairPool
CONSTANTS
  k1 = k1
  k2 = k2
  w1 = w1
  CondCos = {k1, k2}
  Notifiers = {Releaser}
  Gone = Gone
  MaxCondQueue = 2
  Works = {w1}
  WithFuture = {w1}
  Monitor = Monitor
  Releaser = Releaser
  Deployments <- OneWorker
CHECK_DEADLOCK FALSE
PROPERTIES ReleaseReturns
