\* Two Nics, one whose driver gives fill slots back late, with chunks for one
\* Nic and two packets held, and too few for both Nics.
CONSTANTS
  Nic = {n1, n2}
  Chunk = {c1, c2, c3, c4}
  FqSize = 2
  CqSize = 1
  RxSize = 2
  TxSize = 1
  MaxHeld = 2
  PromptNic = {n1}
SPECIFICATION Spec
SYMMETRY ChunkSymmetry
INVARIANTS TypeOK SingleOwner NoLeak FillStock
PROPERTIES NeverAborts LeaseSpec
\* The process may end, and both applications and drivers may stop.
CHECK_DEADLOCK FALSE
