SPECIFICATION Spec
CONSTANTS
  Byte = {0, 1}
  Size = 3
  ChunkCount = 2
  Headroom = 1
CHECK_DEADLOCK FALSE
INVARIANTS ResizeReadsBuffer
