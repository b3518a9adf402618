\* A driver that gives its fill ring slots back late falls asleep; the next
\* recv on its Nic returns early.
SPECIFICATION Spec
CONSTANTS
  nic1 = nic1
  nic2 = nic2
  Nic = {nic1, nic2}
  Route <- ForwardRoute
  FqSize = 2
  RxSize = 2
  TxSize = 1
  CqSize = 1
  Batch = 2
  PromptNic = {nic1}
PROPERTY RecvWakes
