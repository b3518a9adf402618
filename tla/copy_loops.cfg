\* Rings of two, except the completion ring; batches of up to two.
CONSTANTS
  Program = {"filter", "change_word", "tunnel"}
  ChunkCount = {3, 4, 7, 8}
  FqSize = 2
  RxSize = 2
  TxSize = 2
  CqSize = 1
  Batch = 2
  PromptNic = {1}
SPECIFICATION Spec
INVARIANTS TypeOK NothingLost NeverPanics
PROPERTY KeepsForwarding
CHECK_DEADLOCK FALSE
