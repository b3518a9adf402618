SPECIFICATION Spec
CONSTANTS
  nic1 = nic1
  nic2 = nic2
  Nic = {nic1, nic2}
  Route <- ForwardRoute
  FqSize = 2
  RxSize = 2
  TxSize = 1
  CqSize = 1
  Batch = 2
  PromptNic = {nic1}
INVARIANTS TypeOK SleeperHasWork
PROPERTIES ReceivesForever TransmitsForever
