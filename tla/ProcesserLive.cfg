CONSTANTS
    w1 = w1
    w2 = w2
    t1 = t1
    c1 = c1
    t2 = t2
    Workers = {w1, w2}
    Threads = {t1}
    Coroutines = {c1}
    Initial = {w1, w2}
    NoCo = NoCo
    NoActor = NoActor
    MaxSteals = 0
SPECIFICATION FairSpec
PROPERTIES RunnableRuns RetireExits
