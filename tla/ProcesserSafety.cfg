CONSTANTS
    w1 = w1
    w2 = w2
    t1 = t1
    c1 = c1
    t2 = t2
    Workers = {w1, w2}
    Threads = {t1, t2}
    Coroutines = {c1}
    Initial = {w1}
    NoCo = NoCo
    NoActor = NoActor
    MaxSteals = 1
SYMMETRY Symmetry
SPECIFICATION Spec
INVARIANTS NothingLost RegistAccepted NoSleepOnWork
