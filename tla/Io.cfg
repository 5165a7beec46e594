SPECIFICATION PartsSpec
CONSTANTS
  c1 = c1
  e1 = e1
  e2 = e2
  k1 = k1
  k2 = k2
  fd1 = fd1
  i1 = i1
  i2 = i2
  i3 = i3
  pf1 = pf1
  pf2 = pf2
  a1 = a1
  a2 = a2
  b1 = b1
  b2 = b2
  Coroutines = {c1}
  Events = {e1, e2}
  Fds = {fd1}
  Closers = {k1, k2}
  NoEvent = NoEvent
  NoFd = NoFd
  NoCo = NoCo
  Waits <- TimedReadAndNotify
  MaxEpoch = 2
  IoCos = {i1, i2}
  MaxObjects = 2
  PollFds = {pf1, pf2}
  Unwatchable = {pf2}
  IntMax = 32767
  Secs <- MCSecs
  Fracs <- MCFracs
  Now <- MCNow
  WaitTimes <- MCWaitTimes
  Await = {a1, a2}
  AwaitBounded = {b1, b2}
  CancelledCalls = {b1, b2}
  MaxPendingJobs = 2
  MaxRounds = 2
  MaxPosts = 1
  Contexts = {i1, i2, i3}
  Asks <- MCAsks
  Default <- MCDefault
  PageSize = 12
  PointerDiffLimit = 127
  MaxAlloc = 2
  MinAlloc = 1
  Preload = 1
  f1 = f1
  f2 = f2
  w1 = w1
  w2 = w2
  o1 = o1
  o2 = o2
  o3 = o3
  key1 = key1
  key2 = key2
  kind1 = kind1
  s1 = s1
  CfsCos = {f1, f2}
  NoTask = NoTask
  CfsProcs = {w1, w2}
  Weights = {1, 2}
  Normal = 1
  Unit = 2
  Elapsed = {0, 2}
  MaxServed = 4
  MaxTaken = 1
  StallWorkers = {s1}
  StallCos = {f1, f2}
  NoStallCo = NoStallCo
  WarnUs = 2
  MaxNow = 6
  Callers = {w1, w2}
  CoObjects = {o1, o2, o3}
  NoObject = NoObject
  Keys = {key1, key2}
  Kinds = {kind1}
  NoKind = NoKind
  NoCaller = NoCaller
  Shared = {o1, o2}
SYMMETRY MCSymmetry
INVARIANTS
  TypeOK ExclusiveCoroutine FirstWin CloseOwnObject NothingStale
  DescriptorKept PollReports LastsAsAsked DnsSound EventSound StackSound
  FairShare StallReports RegistrySound
CHECK_DEADLOCK FALSE
