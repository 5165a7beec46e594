SPECIFICATION DnsSpec
CONSTANTS
  a1 = a1
  b1 = b1
  Await = {a1}
  AwaitBounded = {b1}
  CancelledCalls = {a1, b1}
  MaxPendingJobs = 2
INVARIANT WorkInScope
CHECK_DEADLOCK FALSE
