\* The chunk of a packet is free again while it is being sent.
CONSTANTS
  Nic = {n1}
  Chunk = {c1, c2, c3}
  FqSize = 1
  CqSize = 1
  RxSize = 1
  TxSize = 1
  MaxHeld = 2
  PromptNic = {n1}
SPECIFICATION Spec
SYMMETRY ChunkSymmetry
INVARIANT NoReuseBeforeCompletion
