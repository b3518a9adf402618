SPECIFICATION Spec
CONSTANTS
  Thread = {t1}
  Iface = {i1}
  NativeIface = {i1}
  RefusedIface = {i1}
  Chunk = {c1, c2}
  FqSize = 1
  Slot = {s1}
  NoPacket = NoPacket
  UsizeMax = 7
  MemoryFails = FALSE
  Tidy = TRUE
  MaxUmem = 3
  MaxFailed = 1
SYMMETRY LifeSymmetry
CHECK_DEADLOCK FALSE
INVARIANTS FailureReturns
