\* A native, a generic and a refused interface; the pool is too small for two
\* Nics and a Packet.
SPECIFICATION Spec
CONSTANTS
  Thread = {t1}
  Iface = {i1, i2, i3}
  NativeIface = {i1}
  RefusedIface = {i3}
  Chunk = {c1, c2, c3, c4}
  FqSize = 2
  Slot = {s1, s2}
  NoPacket = NoPacket
  UsizeMax = 3
  MemoryFails = TRUE
  Tidy = TRUE
  MaxUmem = 4
  MaxFailed = 3
SYMMETRY LifeSymmetry
CHECK_DEADLOCK FALSE
INVARIANTS TypeOK CurrentUmem OneOwner RightBuffer Accounted CountOwesFailures
