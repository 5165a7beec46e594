SPECIFICATION WakeupSpec
CONSTANTS
  c1 = c1
  e1 = e1
  e2 = e2
  k1 = k1
  fd1 = fd1
  rd = rd
  wr = wr
  sl = sl
  one = one
  two = two
  zero = zero
  Coroutines = {c1}
  Events = {e1, e2}
  Fds = {fd1}
  Closers = {k1}
  NoEvent = NoEvent
  NoFd = NoFd
  NoCo = NoCo
  Waits <- ReadAndNotify
  MaxEpoch = 2
  ChanCos = {rd, wr, sl}
  Chans = {one, two, zero}
  Dead = Dead
  Max <- MCMax
  Scenarios <- MCScenarios
  Cases <- MCCases
  MaxQueue = 3
  MaxRefs = 2
INVARIANTS ChanSound
PROPERTIES WaitsEnd ImplementsOneShotWait CloseEndsCalls
CHECK_DEADLOCK FALSE
