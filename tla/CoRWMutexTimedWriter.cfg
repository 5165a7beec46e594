SPECIFICATION Spec
CONSTANTS
  c1 = c1
  c2 = c2
  c3 = c3
  Coroutines = {c1, c2, c3}
  Dead = Dead
  Operations = {"RLock", "WLock", "TryWLock(ms)"}
  MaxQueue = 4
SYMMETRY MCSymmetry
INVARIANTS NoStranded
CHECK_DEADLOCK FALSE
