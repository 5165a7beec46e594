SPECIFICATION SelectSpec
CONSTANTS
  rd = rd
  wr = wr
  b = b
  ChanCos = {rd, wr}
  Chans = {b}
  Dead = Dead
  Max <- MCMax
  Scenarios <- WriteAndClose
  Cases <- MCCases
  MaxQueue = 3
  MaxRefs = 2
CHECK_DEADLOCK FALSE
PROPERTIES NothingEntersClosed
