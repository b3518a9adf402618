CONSTANTS
  Server = "a"
  Size <- MCSize
  Words = {1, 2}
  RxSize <- MCRx
  TxSize = 2
  Batch = 2
SPECIFICATION Spec
INVARIANTS WordStopped
PROPERTIES StreamSpec CleanArrives SenderReset
CHECK_DEADLOCK FALSE
